---------------------------- MODULE PolicyProofs ----------------------------
(***************************************************************************)
(* What the policies promise, for every number of tasks, callers and       *)
(* checks and every sequence of reconfigurations: the permits of a         *)
(* bulkhead, the shared results of the health checks, the gate and the     *)
(* retry budget of a shield, the grants and answers of a rate limiter, the *)
(* time between two bodies of a task lock, the attempts of a retry, the    *)
(* records a log filter drops.                                             *)
(***************************************************************************)
EXTENDS PolicyComponents, Subsequences, FiniteSetTheorems, SequenceTheorems,
        WellFoundedInduction, TLAPS

\* A set of naturals has a least element.
LEMMA LeastNatural ==
  ASSUME NEW S, S \subseteq Nat, S # {}
  PROVE  \E x \in S : \A y \in S : x <= y
<1> DEFINE R == OpToRel(<, Nat)
<1>1. \A x, y \in Nat : y < x => <<y, x>> \in R
  BY DEF OpToRel
<1>2. IsWellFoundedOn(R, Nat)
  BY NatLessThanWellFounded
<1> HIDE DEF R
<1>3. PICK x \in S : \A y \in S : ~ (<<y, x>> \in R)
  BY <1>2, WFMin
<1>4. \A y \in S : ~ (y < x)
  BY <1>1, <1>3
<1> QED BY <1>4

\* The sequences of n steps of f from a.
Orbits(S, f, a, n) == {h \in [0..n -> S] : h[0] = a /\ \A i \in 1..n : h[i] = f[h[i - 1]]}

\* There is one for every number of steps,
LEMMA OrbitsExist ==
  ASSUME NEW S, NEW f \in [S -> S], NEW a \in S, NEW n \in Nat
  PROVE  Orbits(S, f, a, n) # {}
<1> DEFINE T == {m \in Nat : Orbits(S, f, a, m) = {}}
<1>1. SUFFICES ASSUME T # {} PROVE FALSE
  OBVIOUS
<1>2. PICK m \in T : \A k \in T : m <= k
  BY <1>1, LeastNatural
<1>3. CASE m = 0
  <2>1. [i \in 0..m |-> a] \in Orbits(S, f, a, m)
    BY <1>3 DEF Orbits
  <2> QED BY <2>1
<1>4. CASE m # 0
  <2>1. m \in Nat /\ m - 1 \in Nat /\ m - 1 \notin T
    BY <1>2, <1>4
  <2>2. PICK h : h \in Orbits(S, f, a, m - 1)
    BY <2>1
  <2> DEFINE g == [i \in 0..m |-> IF i = m THEN f[h[m - 1]] ELSE h[i]]
  <2>3. h \in [0..(m - 1) -> S] /\ h[0] = a /\ \A i \in 1..(m - 1) : h[i] = f[h[i - 1]]
    BY <2>2 DEF Orbits
  <2>4. g \in [0..m -> S] /\ g[0] = a
    BY <1>4, <2>1, <2>3
  <2>5. ASSUME NEW i \in 1..m PROVE g[i] = f[g[i - 1]]
    BY <2>1, <2>3
  <2>6. g \in Orbits(S, f, a, m)
    BY <2>4, <2>5 DEF Orbits
  <2> QED BY <2>6
<1> QED BY <1>3, <1>4

\* and a longer one agrees with it.
LEMMA OrbitsAgree ==
  ASSUME NEW S, NEW f, NEW a, NEW n \in Nat, NEW m \in Nat, m <= n,
         NEW g \in Orbits(S, f, a, m), NEW h \in Orbits(S, f, a, n)
  PROVE  g[m] = h[m]
<1> DEFINE T == {i \in Nat : i <= m /\ g[i] # h[i]}
<1>1. SUFFICES ASSUME T # {} PROVE FALSE
  OBVIOUS
<1>2. PICK i \in T : \A k \in T : i <= k
  BY <1>1, LeastNatural
<1>3. i # 0
  <2>1. g[0] = h[0]
    BY DEF Orbits
  <2> QED BY <1>2, <2>1
<1>4. i \in 1..m /\ i \in 1..n /\ i - 1 \in 0..m /\ i - 1 \notin T
  BY <1>2, <1>3
<1>5. g[i] = f[g[i - 1]] /\ h[i] = f[h[i - 1]]
  BY <1>4 DEF Orbits
<1> QED BY <1>4, <1>5

\* g is what a function comes to from a in any number of steps; there is such a g.
Iterates(S, f, a, g) ==
  g \in [Nat -> S] /\ g[0] = a /\ \A n \in Nat \ {0} : g[n] = f[g[n - 1]]

LEMMA Iteration ==
  ASSUME NEW S, NEW f \in [S -> S], NEW a \in S
  PROVE  \E g : Iterates(S, f, a, g)
<1> DEFINE H(n) == CHOOSE h : h \in Orbits(S, f, a, n)
           g == [n \in Nat |-> H(n)[n]]
<1>1. ASSUME NEW n \in Nat PROVE H(n) \in Orbits(S, f, a, n)
  BY OrbitsExist, Zenon
<1>2. ASSUME NEW n \in Nat PROVE g[n] = H(n)[n]
  BY Zenon
<1> HIDE DEF H
<1>3. ASSUME NEW n \in Nat PROVE H(n)[n] \in S
  BY <1>1 DEF Orbits
<1>4. g \in [Nat -> S]
  BY <1>3
<1>5. H(0)[0] = a
  BY <1>1 DEF Orbits
<1>6. ASSUME NEW n \in Nat \ {0} PROVE H(n)[n] = f[H(n - 1)[n - 1]]
  <2>1. n - 1 \in Nat /\ n - 1 <= n /\ n \in 1..n
    OBVIOUS
  <2>2. H(n)[n] = f[H(n)[n - 1]]
    BY <1>1, <2>1 DEF Orbits
  <2>3. H(n - 1)[n - 1] = H(n)[n - 1]
    BY <1>1, <2>1, OrbitsAgree
  <2> QED BY <2>2, <2>3
<1>7. ASSUME NEW n \in Nat \ {0} PROVE g[n] = f[g[n - 1]]
  <2>1. g[n] = H(n)[n] /\ g[n - 1] = H(n - 1)[n - 1]
    BY n - 1 \in Nat
  <2> HIDE DEF g
  <2> QED BY <1>6, <2>1
<1>8. g[0] = a
  BY <1>2, <1>5
<1> HIDE DEF g
<1> QED BY <1>4, <1>7, <1>8 DEF Iterates

\* g[n] is what a fold with f from a comes to after the first n elements; there is such a g.
Folded(A, s, f, a, g) ==
  g \in [0..Len(s) -> A] /\ g[0] = a /\ \A n \in 1..Len(s) : g[n] = f[<<g[n - 1], s[n]>>]

LEMMA FoldExists ==
  ASSUME NEW A, NEW T, NEW s \in Seq(T), NEW f \in [A \X T -> A], NEW a \in A
  PROVE  \E g : Folded(A, s, f, a, g)
<1> DEFINE B == Nat \X A
           e == [x \in B |-> <<x[1] + 1, IF x[1] + 1 \in 1..Len(s) THEN f[<<x[2], s[x[1] + 1]>>]
                                         ELSE x[2]>>]
<1>1. <<0, a>> \in B
  OBVIOUS
<1>2. e \in [B -> B]
  <2>1. ASSUME NEW n \in Nat, NEW y \in A, n + 1 \in 1..Len(s) PROVE f[<<y, s[n + 1]>>] \in A
    BY <2>1
  <2>2. ASSUME NEW x \in B PROVE e[x] \in B
    <3>1. x[1] \in Nat /\ x[2] \in A /\ x[1] + 1 \in Nat
      OBVIOUS
    <3>2. (IF x[1] + 1 \in 1..Len(s) THEN f[<<x[2], s[x[1] + 1]>>] ELSE x[2]) \in A
      BY <2>1, <3>1
    <3> QED BY <3>1, <3>2
  <2> QED BY <2>2
<1> HIDE DEF e
<1>3. PICK h : Iterates(B, e, <<0, a>>, h)
  BY <1>1, <1>2, Iteration
<1>4. h \in [Nat -> B] /\ h[0] = <<0, a>> /\ \A n \in Nat \ {0} : h[n] = e[h[n - 1]]
  BY <1>3 DEF Iterates
<1> HIDE DEF B
<1> DEFINE Z == {n \in Nat : h[n][1] # n}
<1>5. Z = {}
  <2>1. SUFFICES ASSUME Z # {} PROVE FALSE
    OBVIOUS
  <2>2. PICK n \in Z : \A k \in Z : n <= k
    BY <2>1, LeastNatural
  <2>3. n # 0
    BY <1>4, <2>2
  <2>4. n - 1 \in Nat /\ n - 1 \notin Z
    BY <2>2, <2>3
  <2>5. h[n - 1] \in B /\ h[n - 1][1] = n - 1
    BY <1>4, <2>4
  <2>6. h[n] = e[h[n - 1]]
    BY <1>4, <2>2, <2>3
  <2>7. h[n][1] = n
    BY <2>2, <2>5, <2>6 DEF e, B
  <2> QED BY <2>2, <2>7
<1>6. ASSUME NEW n \in Nat PROVE h[n][1] = n /\ h[n] \in B
  BY <1>4, <1>5
<1>7. ASSUME NEW n \in Nat \ {0}
      PROVE  h[n][2] = IF n \in 1..Len(s) THEN f[<<h[n - 1][2], s[n]>>] ELSE h[n - 1][2]
  <2>1. n - 1 \in Nat /\ h[n] = e[h[n - 1]]
    BY <1>4
  <2>2. h[n - 1] \in B /\ h[n - 1][1] = n - 1
    BY <1>6, <2>1
  <2>3. h[n - 1][1] + 1 = n
    BY <2>2
  <2>4. h[n] = <<n, IF n \in 1..Len(s) THEN f[<<h[n - 1][2], s[n]>>] ELSE h[n - 1][2]>>
    BY <2>1, <2>2, <2>3, Zenon DEF e
  <2> QED BY <2>4
<1> DEFINE g == [n \in 0..Len(s) |-> h[n][2]]
<1>8. Len(s) \in Nat
  OBVIOUS
<1>9. g \in [0..Len(s) -> A] /\ g[0] = a
  <2>1. ASSUME NEW n \in 0..Len(s) PROVE h[n][2] \in A
    BY <1>6, <1>8 DEF B
  <2> QED BY <1>4, <1>8, <2>1
<1>10. ASSUME NEW n \in 1..Len(s) PROVE g[n] = f[<<g[n - 1], s[n]>>]
  <2>1. n \in Nat \ {0} /\ n \in 0..Len(s) /\ n - 1 \in 0..Len(s)
    BY <1>8
  <2> QED BY <1>7, <2>1
<1> HIDE DEF g
<1> QED BY <1>9, <1>10 DEF Folded

\* g[n] is what a comprehension has kept of the first n elements.
Keeps(T, s, S, g) ==
  /\ g \in [0..Len(s) -> Seq(T)] /\ g[0] = <<>>
  /\ \A n \in 1..Len(s) : g[n] = IF s[n] \in S THEN Append(g[n - 1], s[n]) ELSE g[n - 1]

LEMMA KeepsExists ==
  ASSUME NEW T, NEW s \in Seq(T), NEW S
  PROVE  \E g : Keeps(T, s, S, g)
<1> DEFINE f == [x \in Seq(T) \X T |-> IF x[2] \in S THEN Append(x[1], x[2]) ELSE x[1]]
<1>1. f \in [Seq(T) \X T -> Seq(T)]
  <2>1. ASSUME NEW x \in Seq(T) \X T PROVE f[x] \in Seq(T)
    <3>1. x[1] \in Seq(T) /\ x[2] \in T
      OBVIOUS
    <3> QED BY <3>1
  <2> QED BY <2>1
<1>2. ASSUME NEW t \in Seq(T), NEW y \in T
      PROVE  f[<<t, y>>] = IF y \in S THEN Append(t, y) ELSE t
  OBVIOUS
<1> HIDE DEF f
<1>3. <<>> \in Seq(T)
  OBVIOUS
<1>4. PICK g : Folded(Seq(T), s, f, <<>>, g)
  BY <1>1, <1>3, FoldExists
<1>5. g \in [0..Len(s) -> Seq(T)] /\ g[0] = <<>> /\ Len(s) \in Nat
  BY <1>4 DEF Folded
<1>6. ASSUME NEW n \in 1..Len(s) PROVE g[n] = IF s[n] \in S THEN Append(g[n - 1], s[n]) ELSE g[n - 1]
  <2>1. n - 1 \in 0..Len(s) /\ s[n] \in T
    BY <1>5
  <2>2. g[n] = f[<<g[n - 1], s[n]>>]
    BY <1>4 DEF Folded
  <2> QED BY <1>2, <1>5, <2>1, <2>2
<1> QED BY <1>5, <1>6 DEF Keeps

LEMMA OnlyIs ==
  ASSUME NEW T, NEW s \in Seq(T), NEW S
  PROVE  \E g : Keeps(T, s, S, g) /\ Only(s, S) = g[Len(s)]
<1> DEFINE F(g) == g = [n \in 0..Len(s) |-> IF n = 0 THEN <<>>
                                            ELSE IF s[n] \in S THEN Append(g[n - 1], s[n])
                                            ELSE g[n - 1]]
           g == CHOOSE g : F(g)
<1>1. Only(s, S) = g[Len(s)]
  BY Zenon DEF Only
<1>2. PICK k : Keeps(T, s, S, k)
  BY KeepsExists
<1>3. F(k)
  <2>1. k \in [0..Len(s) -> Seq(T)] /\ k[0] = <<>> /\ Len(s) \in Nat
    BY <1>2 DEF Keeps
  <2>2. \A n \in 1..Len(s) : k[n] = IF s[n] \in S THEN Append(k[n - 1], s[n]) ELSE k[n - 1]
    BY <1>2 DEF Keeps
  <2>3. \A n \in 0..Len(s) : n # 0 => n \in 1..Len(s)
    BY <2>1
  <2> QED BY <2>1, <2>2, <2>3
<1>4. F(g)
  BY <1>3, Zenon
<1> HIDE DEF g
<1> DEFINE Z == {n \in Nat : n <= Len(s) /\ g[n] # k[n]}
<1>5. Len(s) \in Nat /\ k[0] = <<>>
  BY <1>2 DEF Keeps
<1>6. Z = {}
  <2>1. SUFFICES ASSUME Z # {} PROVE FALSE
    OBVIOUS
  <2>2. PICK n \in Z : \A m \in Z : n <= m
    BY <2>1, LeastNatural
  <2>3. n # 0
    BY <1>3, <1>4, <1>5, <2>2
  <2>4. n \in 1..Len(s) /\ n \in 0..Len(s) /\ n - 1 \notin Z /\ n - 1 \in Nat
    BY <1>5, <2>2, <2>3
  <2>5. g[n - 1] = k[n - 1]
    BY <2>4
  <2>6. g[n] = k[n]
    BY <1>3, <1>4, <2>3, <2>4, <2>5
  <2> QED BY <2>2, <2>6
<1>7. g[Len(s)] = k[Len(s)]
  BY <1>5, <1>6
<1> QED BY <1>1, <1>2, <1>7

\* What is kept are elements of s that are in S, all of them, each as often as it was there.
LEMMA OnlyKeeps ==
  ASSUME NEW T, NEW s \in Seq(T), NEW S
  PROVE  /\ Only(s, S) \in Seq(T) /\ Len(Only(s, S)) <= Len(s)
         /\ \A i \in 1..Len(Only(s, S)) : \E j \in 1..Len(s) : Only(s, S)[i] = s[j] /\ s[j] \in S
         /\ (\A i, j \in 1..Len(s) : s[i] = s[j] => i = j) =>
              \A i, j \in 1..Len(Only(s, S)) : Only(s, S)[i] = Only(s, S)[j] => i = j
<1>1. PICK g : Keeps(T, s, S, g) /\ Only(s, S) = g[Len(s)]
  BY OnlyIs
<1>2. /\ Len(s) \in Nat
      /\ g \in [0..Len(s) -> Seq(T)] /\ g[0] = <<>>
      /\ \A n \in 1..Len(s) : g[n] = IF s[n] \in S THEN Append(g[n - 1], s[n]) ELSE g[n - 1]
  BY <1>1 DEF Keeps
<1> DEFINE From(n) == \A i \in 1..Len(g[n]) : \E j \in 1..n : g[n][i] = s[j] /\ s[j] \in S
           Distinct == \A i, j \in 1..Len(s) : s[i] = s[j] => i = j
           Inj(n) == \A i, j \in 1..Len(g[n]) : g[n][i] = g[n][j] => i = j
           P(n) == Len(g[n]) <= n /\ From(n) /\ (Distinct => Inj(n))
           Z == {n \in Nat : n <= Len(s) /\ ~ P(n)}
<1>3. P(0)
  BY <1>2
<1>4. ASSUME NEW n \in 1..Len(s), P(n - 1) PROVE P(n)
  <2>1. n \in Nat /\ n - 1 \in Nat /\ n - 1 \in 0..Len(s) /\ n \in 0..Len(s) /\ g[n - 1] \in Seq(T)
        /\ s[n] \in T
    BY <1>2
  <2>2. CASE s[n] \in S
    <3>1. g[n] = Append(g[n - 1], s[n])
      BY <1>2, <2>2
    <3>2. /\ Len(g[n]) = Len(g[n - 1]) + 1 /\ g[n][Len(g[n - 1]) + 1] = s[n]
          /\ \A i \in 1..Len(g[n - 1]) : g[n][i] = g[n - 1][i]
          /\ Len(g[n - 1]) \in Nat
      BY <2>1, <3>1
    <3> HIDE DEF Distinct
    <3>3. From(n)
      <4>1. SUFFICES ASSUME NEW i \in 1..Len(g[n]) PROVE \E j \in 1..n : g[n][i] = s[j] /\ s[j] \in S
        OBVIOUS
      <4>2. CASE i = Len(g[n])
        BY <2>1, <2>2, <3>2, <4>2
      <4>3. CASE i # Len(g[n])
        <5>1. i \in 1..Len(g[n - 1])
          BY <3>2, <4>3
        <5>2. PICK j \in 1..(n - 1) : g[n - 1][i] = s[j] /\ s[j] \in S
          BY <1>4, <5>1
        <5> QED BY <2>1, <3>2, <5>1, <5>2
      <4> QED BY <4>2, <4>3
    <3>4. ASSUME Distinct PROVE Inj(n)
      <4>1. \A i \in 1..Len(g[n - 1]) : g[n - 1][i] # s[n]
        <5>1. SUFFICES ASSUME NEW i \in 1..Len(g[n - 1]), g[n - 1][i] = s[n] PROVE FALSE
          OBVIOUS
        <5>2. PICK j \in 1..(n - 1) : g[n - 1][i] = s[j] /\ s[j] \in S
          BY <1>4
        <5>3. j \in 1..Len(s) /\ j # n /\ s[j] = s[n]
          BY <1>2, <2>1, <5>1, <5>2
        <5> QED BY <3>4, <5>3 DEF Distinct
      <4>2. Inj(n - 1)
        BY <1>4, <3>4
      <4>3. SUFFICES ASSUME NEW i \in 1..Len(g[n]), NEW j \in 1..Len(g[n]), g[n][i] = g[n][j]
                     PROVE  i = j
        OBVIOUS
      <4> DEFINE m == Len(g[n - 1])
      <4>4. Len(g[n]) = m + 1 /\ m \in Nat /\ i \in 1..(m + 1) /\ j \in 1..(m + 1)
        BY <3>2
      <4>5. ASSUME i \in 1..m, j \in 1..m PROVE i = j
        BY <3>2, <4>2, <4>3, <4>5
      <4>6. ASSUME i \in 1..m, j = m + 1 PROVE FALSE
        BY <3>2, <4>1, <4>3, <4>6
      <4>7. ASSUME j \in 1..m, i = m + 1 PROVE FALSE
        BY <3>2, <4>1, <4>3, <4>7
      <4> HIDE DEF m
      <4> QED BY <4>4, <4>5, <4>6, <4>7
    <3> QED BY <1>4, <2>1, <3>2, <3>3, <3>4
  <2>3. CASE s[n] \notin S
    <3>1. g[n] = g[n - 1]
      BY <1>2, <2>3
    <3>2. From(n)
      BY <1>4, <2>1, <3>1
    <3> QED BY <1>4, <2>1, <3>1, <3>2
  <2> QED BY <2>2, <2>3
<1>5. Z = {}
  <2>1. SUFFICES ASSUME Z # {} PROVE FALSE
    OBVIOUS
  <2> HIDE DEF P
  <2>2. PICK n \in Z : \A m \in Z : n <= m
    BY <2>1, LeastNatural
  <2>3. n # 0
    BY <1>3, <2>2
  <2>4. n \in 1..Len(s) /\ n - 1 \in Nat /\ n - 1 <= Len(s) /\ n - 1 \notin Z
    BY <1>2, <2>2, <2>3
  <2>5. P(n - 1)
    BY <2>4
  <2>6. P(n)
    BY <1>4, <2>4, <2>5
  <2> QED BY <2>2, <2>6
<1>6. P(Len(s))
  <2> HIDE DEF P
  <2> QED BY <1>2, <1>5
<1>7. g[Len(s)] \in Seq(T)
  BY <1>2
<1>8. \A i \in 1..Len(g[Len(s)]) : \E j \in 1..Len(s) : g[Len(s)][i] = s[j] /\ s[j] \in S
  BY <1>6
<1>9. Distinct => Inj(Len(s))
  BY <1>6
<1> QED BY <1>1, <1>6, <1>7, <1>8, <1>9

-----------------------------------------------------------------------------
\* The permits of a bulkhead.

\* The module's own names for finite sets.
LEMMA PoolSets ==
  ASSUME NEW S
  PROVE  Pool!Cardinality(S) = Cardinality(S) /\ Pool!IsFiniteSet(S) = IsFiniteSet(S)
  BY DEF Pool!Cardinality, Cardinality, Pool!IsFiniteSet, IsFiniteSet

\* An entry under way, with n snapshots published.
Entries(n) ==
  {Pool!NoEntry} \cup [pc : {"acquiring", "opening"}, state : 1..n]
                 \cup [pc : {"entering"}, state : 1..n, item : 1..Items]

SnapshotTypes ==
  /\ b_states \in Seq(Pool!BulkheadConfig) /\ Len(b_states) \in 1..(MaxReconfigures + 1)
  /\ b_value \in Seq(Nat) /\ Len(b_value) = Len(b_states)
  /\ b_lost \in Seq(Nat) /\ Len(b_lost) = Len(b_states)
ScopeTypes ==
  /\ b_scopes \in [Callers -> Seq(1..Len(b_states))]
  /\ \A t \in Callers : Len(b_scopes[t]) <= MaxNesting
EntryTypes == b_entry \in [Callers -> Entries(Len(b_states))]
UsesTypes ==
  /\ b_opened \in BOOLEAN /\ b_open_lock \in Callers \cup {Null}
  /\ b_entered \in [1..Items -> Nat] /\ b_failures \in 0..MaxFailures

PoolTypes == SnapshotTypes /\ ScopeTypes /\ EntryTypes /\ UsesTypes

\* Who enters has room for the scope, waits only where there is a limit, and
\* opens only where there is something to open.
EntriesFit ==
  \A t \in Callers :
    /\ b_entry[t] # Pool!NoEntry => Len(b_scopes[t]) < MaxNesting
    /\ b_entry[t].pc = "acquiring" => Pool!Bounded(b_entry[t].state)
    /\ b_entry[t].pc = "opening" => Items > 0

\* The permits that entries hold, done or under way.
Taken(g) == Cardinality(Pool!Inside(g)) + Cardinality(Pool!Opening(g))

Conserved ==
  \A g \in 1..Len(b_states) :
    Pool!Bounded(g) => b_value[g] + Taken(g) + b_lost[g] = b_states[g].max_concurrent

PoolInv == PoolTypes /\ EntriesFit /\ Conserved

\* Both sets of holders are finite.
LEMMA HoldersFinite ==
  ASSUME Pool!BulkheadAssumption, NEW g
  PROVE  /\ IsFiniteSet(Pool!Inside(g)) /\ IsFiniteSet(Pool!Opening(g))
         /\ Cardinality(Pool!Inside(g)) \in Nat /\ Cardinality(Pool!Opening(g)) \in Nat
         /\ Taken(g) \in Nat
<1>1. IsFiniteSet(Callers) /\ MaxNesting \in Nat
  BY PoolSets DEF Pool!BulkheadAssumption
<1>2. IsFiniteSet(1..MaxNesting)
  BY <1>1, FS_Interval
<1>3. IsFiniteSet(Callers \X (1..MaxNesting))
  BY <1>1, <1>2, FS_Product
<1>4. Pool!Inside(g) \subseteq Callers \X (1..MaxNesting) /\ Pool!Opening(g) \subseteq Callers
  BY DEF Pool!Inside, Pool!Opening
<1>5. IsFiniteSet(Pool!Inside(g)) /\ IsFiniteSet(Pool!Opening(g))
  BY <1>1, <1>3, <1>4, FS_Subset
<1> QED BY <1>5, FS_CardinalityType DEF Taken

\* What the parts of an entry are.
LEMMA EntryFields ==
  ASSUME NEW n \in Nat, NEW e \in Entries(n)
  PROVE  /\ e.pc \in {"none", "acquiring", "opening", "entering"}
         /\ e.pc = "none" <=> e = Pool!NoEntry
         /\ e.pc # "none" => e.state \in 1..n
         /\ e.pc = "entering" => e.item \in 1..Items
  BY DEF Entries, Pool!NoEntry

\* An entry that is done is one more inside its snapshot.
LEMMA ScopeGrows ==
  ASSUME Pool!BulkheadAssumption, ScopeTypes, NEW t \in Callers, NEW h \in 1..Len(b_states),
         Len(b_scopes[t]) < MaxNesting,
         b_scopes' = [b_scopes EXCEPT ![t] = Append(@, h)]
  PROVE  /\ \A u \in Callers : b_scopes'[u] \in Seq(1..Len(b_states))
                               /\ Len(b_scopes'[u]) <= MaxNesting
         /\ b_scopes' \in [Callers -> Seq(1..Len(b_states))]
         /\ \A u \in Callers : u # t => b_scopes'[u] = b_scopes[u]
         /\ Cardinality(Pool!Inside(h)') = Cardinality(Pool!Inside(h)) + 1
         /\ \A g : g # h => Pool!Inside(g)' = Pool!Inside(g)
<1> DEFINE s == b_scopes[t]
           k == Len(b_scopes[t]) + 1
<1>1. /\ s \in Seq(1..Len(b_states)) /\ Len(s) \in Nat /\ MaxNesting \in Nat
  BY LenProperties DEF ScopeTypes, Pool!BulkheadAssumption
<1>2. /\ Append(s, h) \in Seq(1..Len(b_states)) /\ Len(Append(s, h)) = Len(s) + 1
      /\ \A i \in 1..Len(s) : Append(s, h)[i] = s[i]
      /\ Append(s, h)[Len(s) + 1] = h
  BY <1>1, AppendProperties
<1>3. b_scopes'[t] = Append(s, h) /\ \A u \in Callers : u # t => b_scopes'[u] = b_scopes[u]
  BY DEF ScopeTypes
<1>4. \A u \in Callers : b_scopes'[u] \in Seq(1..Len(b_states)) /\ Len(b_scopes'[u]) <= MaxNesting
  <2>1. Len(Append(s, h)) <= MaxNesting
    BY <1>1, <1>2
  <2> QED BY <1>2, <1>3, <2>1 DEF ScopeTypes
<1>5. b_scopes' \in [Callers -> Seq(1..Len(b_states))]
  BY <1>2 DEF ScopeTypes
<1>6. k \in 1..MaxNesting /\ <<t, k>> \in Callers \X (1..MaxNesting)
  BY <1>1
<1>7. ASSUME NEW g, NEW x \in Callers \X (1..MaxNesting)
      PROVE  (x \in Pool!Inside(g))' <=> (x \in Pool!Inside(g) \/ (x = <<t, k>> /\ g = h))
  <2>1. PICK u \in Callers, i \in 1..MaxNesting : x = <<u, i>>
    OBVIOUS
  <2>2. x \in Pool!Inside(g) <=> i <= Len(b_scopes[u]) /\ b_scopes[u][i] = g
    BY <2>1 DEF Pool!Inside
  <2>3. (x \in Pool!Inside(g))' <=> i <= Len(b_scopes'[u]) /\ b_scopes'[u][i] = g
    BY <2>1 DEF Pool!Inside
  <2>4. CASE u # t
    BY <1>3, <2>1, <2>2, <2>3, <2>4
  <2>5. CASE u = t /\ i <= Len(s)
    BY <1>1, <1>2, <1>3, <2>1, <2>2, <2>3, <2>5
  <2>6. CASE u = t /\ i > Len(s)
    BY <1>1, <1>2, <1>3, <2>1, <2>2, <2>3, <2>6
  <2> QED BY <1>1, <2>4, <2>5, <2>6
<1>8. ASSUME NEW g PROVE Pool!Inside(g) \subseteq Callers \X (1..MaxNesting)
                         /\ Pool!Inside(g)' \subseteq Callers \X (1..MaxNesting)
  BY DEF Pool!Inside
<1>9. ASSUME NEW g, g # h PROVE Pool!Inside(g)' = Pool!Inside(g)
  <2>1. \A x \in Callers \X (1..MaxNesting) : x \in Pool!Inside(g)' <=> x \in Pool!Inside(g)
    BY <1>7, <1>9
  <2> QED BY <1>8, <2>1
<1>10. Pool!Inside(h)' = Pool!Inside(h) \cup {<<t, k>>}
  BY <1>6, <1>7, <1>8
<1>11. <<t, k>> \notin Pool!Inside(h)
  BY <1>1 DEF Pool!Inside
<1>12. Cardinality(Pool!Inside(h)') = Cardinality(Pool!Inside(h)) + 1
  BY <1>10, <1>11, HoldersFinite, FS_AddElement
<1> QED BY <1>3, <1>4, <1>5, <1>9, <1>12

\* An entry that is left is one less inside its snapshot.
LEMMA ScopeShrinks ==
  ASSUME Pool!BulkheadAssumption, ScopeTypes, NEW t \in Callers, b_scopes[t] # <<>>,
         NEW h, h = Pool!ReleasedTo(t),
         b_scopes' = [b_scopes EXCEPT ![t] = SubSeq(@, 1, Len(@) - 1)]
  PROVE  /\ b_scopes' \in [Callers -> Seq(1..Len(b_states))]
         /\ \A u \in Callers : Len(b_scopes'[u]) <= Len(b_scopes[u])
         /\ h \in 1..Len(b_states)
         /\ Cardinality(Pool!Inside(h)') = Cardinality(Pool!Inside(h)) - 1
         /\ \A g : g # h => Pool!Inside(g)' = Pool!Inside(g)
<1> DEFINE s == b_scopes[t]
           k == Len(b_scopes[t])
           r == SubSeq(b_scopes[t], 1, Len(b_scopes[t]) - 1)
<1>1. /\ s \in Seq(1..Len(b_states)) /\ k \in Nat /\ k # 0 /\ k <= MaxNesting /\ MaxNesting \in Nat
  BY LenProperties, EmptySeq DEF ScopeTypes, Pool!BulkheadAssumption
<1>2. \A i \in 1..k : s[i] \in 1..Len(b_states)
  BY <1>1, ElementOfSeq
<1>3. h \in 1..Len(b_states) /\ h = s[k]
  BY <1>1, <1>2 DEF Pool!ReleasedTo
<1>4. r \in Seq(1..Len(b_states)) /\ Len(r) = k - 1 /\ \A i \in 1..(k - 1) : r[i] = s[i]
  <2>1. \A i \in 1..(k - 1) : s[i] \in 1..Len(b_states)
    BY <1>1, <1>2
  <2>2. /\ r \in Seq(1..Len(b_states))
        /\ Len(r) = IF 1 <= k - 1 THEN (k - 1) - 1 + 1 ELSE 0
        /\ \A i \in 1..((k - 1) - 1 + 1) : r[i] = s[1 + i - 1]
    BY <1>1, <2>1, SubSeqProperties
  <2> QED BY <1>1, <2>2
<1>5. b_scopes'[t] = r /\ \A u \in Callers : u # t => b_scopes'[u] = b_scopes[u]
  BY DEF ScopeTypes
<1>6. b_scopes' \in [Callers -> Seq(1..Len(b_states))]
  BY <1>4 DEF ScopeTypes
<1>7. ASSUME NEW u \in Callers PROVE Len(b_scopes'[u]) <= Len(b_scopes[u])
  <2>1. Len(b_scopes[u]) \in Nat
    BY LenProperties DEF ScopeTypes
  <2> QED BY <1>1, <1>4, <1>5, <2>1
<1> HIDE DEF r
<1>8. ASSUME NEW g, NEW x \in Callers \X (1..MaxNesting)
      PROVE  (x \in Pool!Inside(g))' <=> (x \in Pool!Inside(g) /\ x # <<t, k>>)
  <2>1. PICK u \in Callers, i \in 1..MaxNesting : x = <<u, i>>
    OBVIOUS
  <2>2. x \in Pool!Inside(g) <=> i <= Len(b_scopes[u]) /\ b_scopes[u][i] = g
    BY <2>1 DEF Pool!Inside
  <2>3. (x \in Pool!Inside(g))' <=> i <= Len(b_scopes'[u]) /\ b_scopes'[u][i] = g
    BY <2>1 DEF Pool!Inside
  <2>4. CASE u # t
    BY <1>5, <2>1, <2>2, <2>3, <2>4
  <2>5. CASE u = t /\ i < k
    <3>1. i \in 1..(k - 1) /\ i <= k /\ i # k BY <1>1, <2>5
    <3>2. b_scopes'[u] = r /\ r[i] = b_scopes[u][i] /\ i <= Len(r) /\ Len(b_scopes[u]) = k
      BY <1>1, <1>4, <1>5, <2>5, <3>1
    <3>3. x # <<t, k>> BY <2>1, <3>1
    <3> QED BY <2>2, <2>3, <3>1, <3>2, <3>3
  <2>6. CASE u = t /\ i >= k
    BY <1>1, <1>4, <1>5, <2>1, <2>2, <2>3, <2>6
  <2> QED BY <1>1, <2>4, <2>5, <2>6
<1>9. ASSUME NEW g PROVE Pool!Inside(g) \subseteq Callers \X (1..MaxNesting)
                         /\ Pool!Inside(g)' \subseteq Callers \X (1..MaxNesting)
  BY DEF Pool!Inside
<1>10. <<t, k>> \in Callers \X (1..MaxNesting) /\ \A g : <<t, k>> \in Pool!Inside(g) <=> g = h
  BY <1>1, <1>3 DEF Pool!Inside
<1>11. ASSUME NEW g, g # h PROVE Pool!Inside(g)' = Pool!Inside(g)
  <2>1. \A x \in Callers \X (1..MaxNesting) : x \in Pool!Inside(g)' <=> x \in Pool!Inside(g)
    BY <1>8, <1>10, <1>11
  <2> QED BY <1>9, <2>1
<1>12. Pool!Inside(h)' = Pool!Inside(h) \ {<<t, k>>}
  <2>1. \A x \in Callers \X (1..MaxNesting) :
          x \in Pool!Inside(h)' <=> x \in Pool!Inside(h) \ {<<t, k>>}
    BY <1>8
  <2>2. Pool!Inside(h) \ {<<t, k>>} \subseteq Callers \X (1..MaxNesting)
    BY <1>9
  <2> QED BY <1>9, <2>1, <2>2
<1>13. Cardinality(Pool!Inside(h)') = Cardinality(Pool!Inside(h)) - 1
  <2>1. <<t, k>> \in Pool!Inside(h) /\ IsFiniteSet(Pool!Inside(h))
    BY <1>10, HoldersFinite
  <2>2. Cardinality(Pool!Inside(h) \ {<<t, k>>})
          = IF <<t, k>> \in Pool!Inside(h) THEN Cardinality(Pool!Inside(h)) - 1
                                           ELSE Cardinality(Pool!Inside(h))
    BY <2>1, FS_RemoveElement
  <2> QED BY <1>12, <2>1, <2>2
<1> QED BY <1>3, <1>6, <1>7, <1>11, <1>13

\* The entry opens the items of uses= with a permit of snapshot g.
Opens(e, g) == e.pc \in {"opening", "entering"} /\ e.state = g

\* One entry moves on.
LEMMA OpeningMoves ==
  ASSUME Pool!BulkheadAssumption, EntryTypes, NEW t \in Callers, NEW e, NEW g,
         b_entry' = [b_entry EXCEPT ![t] = e]
  PROVE  Cardinality(Pool!Opening(g)') = Cardinality(Pool!Opening(g))
           + (IF Opens(e, g) THEN 1 ELSE 0) - (IF Opens(b_entry[t], g) THEN 1 ELSE 0)
<1>1. b_entry'[t] = e /\ \A u \in Callers : u # t => b_entry'[u] = b_entry[u]
  BY DEF EntryTypes
<1>2. t \in Pool!Opening(g) <=> Opens(b_entry[t], g)
  BY DEF Pool!Opening, Opens
<1>3. IsFiniteSet(Pool!Opening(g)) /\ Cardinality(Pool!Opening(g)) \in Nat
  BY HoldersFinite
<1>4. CASE Opens(e, g)
  <2>1. Pool!Opening(g)' = Pool!Opening(g) \cup {t}
    BY <1>1, <1>4 DEF Pool!Opening, Opens
  <2>2. Cardinality(Pool!Opening(g) \cup {t})
          = IF t \in Pool!Opening(g) THEN Cardinality(Pool!Opening(g))
                                     ELSE Cardinality(Pool!Opening(g)) + 1
    BY <1>3, FS_AddElement
  <2> QED BY <1>2, <1>3, <1>4, <2>1, <2>2
<1>5. CASE ~ Opens(e, g)
  <2>1. Pool!Opening(g)' = Pool!Opening(g) \ {t}
    BY <1>1, <1>5 DEF Pool!Opening, Opens
  <2>2. Cardinality(Pool!Opening(g) \ {t})
          = IF t \in Pool!Opening(g) THEN Cardinality(Pool!Opening(g)) - 1
                                     ELSE Cardinality(Pool!Opening(g))
    BY <1>3, FS_RemoveElement
  <2> QED BY <1>2, <1>3, <1>5, <2>1, <2>2
<1> QED BY <1>4, <1>5

\* A step that keeps the snapshots keeps the balance of each.
LEMMA Balance ==
  ASSUME Pool!BulkheadAssumption, Conserved, b_states' = b_states,
         \A g \in 1..Len(b_states) :
           Pool!Bounded(g) => b_value'[g] + Taken(g)' + b_lost'[g] = b_value[g] + Taken(g) + b_lost[g]
  PROVE  Conserved'
  BY DEF Conserved, Pool!Bounded

\* Changes to the entry of one task keep what is known of the others.
LEMMA EntryKept ==
  ASSUME Pool!BulkheadAssumption, SnapshotTypes, EntryTypes, EntriesFit, NEW t \in Callers,
         NEW e \in Entries(Len(b_states)), b_entry' = [b_entry EXCEPT ![t] = e],
         b_states' = b_states,
         \A u \in Callers : u # t => b_scopes'[u] = b_scopes[u],
         e # Pool!NoEntry => Len(b_scopes'[t]) < MaxNesting,
         e.pc = "acquiring" => Pool!Bounded(e.state),
         e.pc = "opening" => Items > 0
  PROVE  EntryTypes' /\ EntriesFit'
<1>1. b_entry'[t] = e /\ \A u \in Callers : u # t => b_entry'[u] = b_entry[u]
  BY DEF EntryTypes
<1>2. EntryTypes'
  BY DEF EntryTypes
<1>3. EntriesFit'
  BY <1>1 DEF EntriesFit, Pool!Bounded, Pool!NoEntry
<1> QED BY <1>2, <1>3

\* The entry of nobody in particular.
LEMMA NoEntryTypes ==
  ASSUME NEW n \in Nat
  PROVE  /\ Pool!NoEntry \in Entries(n) /\ Pool!NoEntry.pc = "none"
         /\ \A g : ~ Opens(Pool!NoEntry, g)
  BY DEF Entries, Pool!NoEntry, Opens

\* A task takes a permit of snapshot g and is inside, or opens uses= first.
LEMMA Enters ==
  ASSUME Pool!BulkheadAssumption, PoolInv, NEW t \in Callers, NEW g \in 1..Len(b_states),
         b_entry[t].pc \in {"none", "acquiring"}, Len(b_scopes[t]) < MaxNesting,
         Pool!After(t, g), UNCHANGED <<b_states, b_lost, Pool!uses, b_failures>>,
         Pool!Bounded(g) => b_value[g] > 0 /\ b_value' = [b_value EXCEPT ![g] = @ - 1],
         ~ Pool!Bounded(g) => b_value' = b_value
  PROVE  PoolInv'
<1>0. /\ SnapshotTypes /\ ScopeTypes /\ EntryTypes /\ UsesTypes /\ EntriesFit /\ Conserved
      /\ Len(b_states) \in Nat /\ g \in 1..Len(b_value) /\ Len(b_value) = Len(b_states)
  BY DEF PoolInv, PoolTypes, SnapshotTypes
<1>1. /\ b_value' \in Seq(Nat) /\ Len(b_value') = Len(b_value)
      /\ \A i \in 1..Len(b_states) :
           Pool!Bounded(i) => b_value'[i] = IF i = g THEN b_value[i] - 1 ELSE b_value[i]
  <2>1. CASE Pool!Bounded(g)
    <3>1. b_value \in Seq(Nat) /\ b_value[g] - 1 \in Nat
      BY <1>0, <2>1, ElementOfSeq DEF SnapshotTypes
    <3>2. b_value' = [b_value EXCEPT ![g] = b_value[g] - 1]
      BY <2>1
    <3> QED BY <1>0, <3>1, <3>2, ExceptSeq
  <2>2. CASE ~ Pool!Bounded(g)
    BY <1>0, <2>2 DEF SnapshotTypes
  <2> QED BY <2>1, <2>2
<1>2. SnapshotTypes'
  BY <1>0, <1>1 DEF SnapshotTypes, Pool!BulkheadConfig
<1>3. UsesTypes'
  BY <1>0, Zenon DEF UsesTypes, Pool!uses
<1>4. \A i : ~ Opens(b_entry[t], i)
  BY DEF Opens
<1>5. \A i \in 1..Len(b_states) : Taken(i) \in Nat /\ b_value[i] \in Nat /\ b_lost[i] \in Nat
  BY <1>0, HoldersFinite, ElementOfSeq DEF SnapshotTypes
<1>6. CASE Items > 0 /\ ~ b_opened
  <2> DEFINE e == [pc |-> "opening", state |-> g]
  <2>1. b_entry' = [b_entry EXCEPT ![t] = e] /\ b_scopes' = b_scopes
    BY <1>6 DEF Pool!After
  <2>2. e \in Entries(Len(b_states)) /\ e.pc = "opening" /\ e.state = g
    BY DEF Entries
  <2>3. ScopeTypes'
    BY <1>0, <2>1 DEF ScopeTypes
  <2>4. \A i : Opens(e, i) <=> i = g
    BY <2>2 DEF Opens
  <2> HIDE DEF e
  <2>5. EntryTypes' /\ EntriesFit'
    BY <1>0, <1>6, <2>1, <2>2, EntryKept
  <2>6. ASSUME NEW i \in 1..Len(b_states) PROVE Taken(i)' = IF i = g THEN Taken(i) + 1 ELSE Taken(i)
    <3>1. Pool!Inside(i)' = Pool!Inside(i)
      BY <2>1 DEF Pool!Inside
    <3>2. Cardinality(Pool!Opening(i)') = Cardinality(Pool!Opening(i))
            + (IF Opens(e, i) THEN 1 ELSE 0) - (IF Opens(b_entry[t], i) THEN 1 ELSE 0)
      BY <1>0, <2>1, OpeningMoves
    <3> QED BY <1>4, <2>4, <3>1, <3>2, HoldersFinite DEF Taken
  <2>7. Conserved'
    <3>1. ASSUME NEW i \in 1..Len(b_states), Pool!Bounded(i)
          PROVE  b_value'[i] + Taken(i)' + b_lost'[i] = b_value[i] + Taken(i) + b_lost[i]
      <4>1. b_value'[i] = IF i = g THEN b_value[i] - 1 ELSE b_value[i]
        BY <1>1, <3>1
      <4>2. Taken(i)' = IF i = g THEN Taken(i) + 1 ELSE Taken(i)
        BY <2>6
      <4>3. Taken(i) \in Nat /\ b_value[i] \in Nat /\ b_lost[i] \in Nat /\ b_lost'[i] = b_lost[i]
        BY <1>5
      <4> QED BY <4>1, <4>2, <4>3
    <3> QED BY <1>0, <3>1, Balance
  <2> QED BY <1>2, <1>3, <2>3, <2>5, <2>7 DEF PoolInv, PoolTypes
<1>7. CASE ~ (Items > 0 /\ ~ b_opened)
  <2>1. /\ b_entry' = [b_entry EXCEPT ![t] = Pool!NoEntry]
        /\ b_scopes' = [b_scopes EXCEPT ![t] = Append(@, g)]
    BY <1>7 DEF Pool!After, Pool!Admit
  <2>2. /\ \A u \in Callers : b_scopes'[u] \in Seq(1..Len(b_states))
                              /\ Len(b_scopes'[u]) <= MaxNesting
        /\ b_scopes' \in [Callers -> Seq(1..Len(b_states))]
        /\ \A u \in Callers : u # t => b_scopes'[u] = b_scopes[u]
        /\ Cardinality(Pool!Inside(g)') = Cardinality(Pool!Inside(g)) + 1
        /\ \A i : i # g => Pool!Inside(i)' = Pool!Inside(i)
    BY <1>0, <2>1, ScopeGrows
  <2>3. ScopeTypes'
    BY <2>2 DEF ScopeTypes
  <2>4. /\ Pool!NoEntry \in Entries(Len(b_states)) /\ Pool!NoEntry.pc = "none"
        /\ \A i : ~ Opens(Pool!NoEntry, i)
    BY <1>0, NoEntryTypes
  <2>5. EntryTypes' /\ EntriesFit'
    BY <1>0, <2>1, <2>2, <2>4, EntryKept
  <2>6. ASSUME NEW i \in 1..Len(b_states) PROVE Taken(i)' = IF i = g THEN Taken(i) + 1 ELSE Taken(i)
    <3>1. Cardinality(Pool!Opening(i)') = Cardinality(Pool!Opening(i))
            + (IF Opens(Pool!NoEntry, i) THEN 1 ELSE 0) - (IF Opens(b_entry[t], i) THEN 1 ELSE 0)
      BY <1>0, <2>1, OpeningMoves
    <3>2. Cardinality(Pool!Opening(i)') = Cardinality(Pool!Opening(i))
      BY <1>4, <2>4, <3>1, HoldersFinite
    <3>3. /\ i = g => Cardinality(Pool!Inside(i)') = Cardinality(Pool!Inside(i)) + 1
          /\ i # g => Cardinality(Pool!Inside(i)') = Cardinality(Pool!Inside(i))
      BY <2>2
    <3> QED BY <3>2, <3>3, HoldersFinite DEF Taken
  <2>7. Conserved'
    <3>1. ASSUME NEW i \in 1..Len(b_states), Pool!Bounded(i)
          PROVE  b_value'[i] + Taken(i)' + b_lost'[i] = b_value[i] + Taken(i) + b_lost[i]
      <4>1. b_value'[i] = IF i = g THEN b_value[i] - 1 ELSE b_value[i]
        BY <1>1, <3>1
      <4>2. Taken(i)' = IF i = g THEN Taken(i) + 1 ELSE Taken(i)
        BY <2>6
      <4>3. Taken(i) \in Nat /\ b_value[i] \in Nat /\ b_lost[i] \in Nat /\ b_lost'[i] = b_lost[i]
        BY <1>5
      <4> QED BY <4>1, <4>2, <4>3
    <3> QED BY <1>0, <3>1, Balance
  <2> QED BY <1>2, <1>3, <2>3, <2>5, <2>7 DEF PoolInv, PoolTypes
<1> QED BY <1>6, <1>7

\* The entry of a task that holds no permit starts or stops to wait.
LEMMA Queues ==
  ASSUME Pool!BulkheadAssumption, PoolInv, NEW t \in Callers, NEW e \in Entries(Len(b_states)),
         b_entry[t].pc \in {"none", "acquiring"}, e.pc \in {"none", "acquiring"},
         e # Pool!NoEntry => Len(b_scopes[t]) < MaxNesting,
         e.pc = "acquiring" => Pool!Bounded(e.state),
         b_entry' = [b_entry EXCEPT ![t] = e],
         UNCHANGED <<b_states, b_value, b_scopes, b_lost, Pool!uses, b_failures>>
  PROVE  PoolInv'
<1>0. /\ SnapshotTypes /\ ScopeTypes /\ EntryTypes /\ UsesTypes /\ EntriesFit /\ Conserved
  BY DEF PoolInv, PoolTypes
<1>1. SnapshotTypes' /\ ScopeTypes'
  BY <1>0 DEF SnapshotTypes, ScopeTypes, Pool!BulkheadConfig
<1>2. UsesTypes'
  BY <1>0, Zenon DEF UsesTypes, Pool!uses
<1>3. EntryTypes' /\ EntriesFit'
  BY <1>0, EntryKept
<1>4. \A i : ~ Opens(b_entry[t], i) /\ ~ Opens(e, i)
  BY DEF Opens
<1>5. ASSUME NEW i \in 1..Len(b_states) PROVE Taken(i)' = Taken(i)
  <2>1. Pool!Inside(i)' = Pool!Inside(i)
    BY DEF Pool!Inside
  <2>2. Cardinality(Pool!Opening(i)') = Cardinality(Pool!Opening(i))
          + (IF Opens(e, i) THEN 1 ELSE 0) - (IF Opens(b_entry[t], i) THEN 1 ELSE 0)
    BY <1>0, OpeningMoves
  <2> QED BY <1>4, <2>1, <2>2, HoldersFinite DEF Taken
<1>6. Conserved'
  BY <1>0, <1>5, Balance
<1> QED BY <1>1, <1>2, <1>3, <1>6 DEF PoolInv, PoolTypes

\* A task that has its permit goes on with the items of uses=.
LEMMA Proceeds ==
  ASSUME Pool!BulkheadAssumption, PoolInv, NEW t \in Callers, NEW g \in 1..Len(b_states),
         Opens(b_entry[t], g), NEW e \in Entries(Len(b_states)), Opens(e, g), e.pc = "entering",
         b_entry' = [b_entry EXCEPT ![t] = e],
         UNCHANGED <<b_states, b_value, b_scopes, b_lost>>, UsesTypes'
  PROVE  PoolInv'
<1>0. /\ SnapshotTypes /\ ScopeTypes /\ EntryTypes /\ EntriesFit /\ Conserved
  BY DEF PoolInv, PoolTypes
<1>1. SnapshotTypes' /\ ScopeTypes'
  BY <1>0 DEF SnapshotTypes, ScopeTypes, Pool!BulkheadConfig
<1>2. Len(b_scopes[t]) < MaxNesting
  BY <1>0 DEF EntriesFit, Opens, Pool!NoEntry
<1>3. EntryTypes' /\ EntriesFit'
  BY <1>0, <1>2, EntryKept
<1>4. \A i : Opens(b_entry[t], i) <=> Opens(e, i)
  BY DEF Opens
<1>5. ASSUME NEW i \in 1..Len(b_states) PROVE Taken(i)' = Taken(i)
  <2>1. Pool!Inside(i)' = Pool!Inside(i)
    BY DEF Pool!Inside
  <2>2. Cardinality(Pool!Opening(i)') = Cardinality(Pool!Opening(i))
          + (IF Opens(e, i) THEN 1 ELSE 0) - (IF Opens(b_entry[t], i) THEN 1 ELSE 0)
    BY <1>0, OpeningMoves
  <2> QED BY <1>4, <2>1, <2>2, HoldersFinite DEF Taken
<1>6. Conserved'
  BY <1>0, <1>5, Balance
<1> QED BY <1>1, <1>3, <1>6 DEF PoolInv, PoolTypes

\* It is inside when there is nothing left to open.
LEMMA GetsInside ==
  ASSUME Pool!BulkheadAssumption, PoolInv, NEW t \in Callers, NEW g \in 1..Len(b_states),
         Opens(b_entry[t], g), Pool!Admit(t, g),
         UNCHANGED <<b_states, b_value, b_lost>>, UsesTypes'
  PROVE  PoolInv'
<1>0. /\ SnapshotTypes /\ ScopeTypes /\ EntryTypes /\ EntriesFit /\ Conserved
      /\ Len(b_states) \in Nat
  BY DEF PoolInv, PoolTypes, SnapshotTypes
<1>1. SnapshotTypes'
  BY <1>0 DEF SnapshotTypes, Pool!BulkheadConfig
<1>2. Len(b_scopes[t]) < MaxNesting
  BY <1>0 DEF EntriesFit, Opens, Pool!NoEntry
<1>3. /\ b_entry' = [b_entry EXCEPT ![t] = Pool!NoEntry]
      /\ b_scopes' = [b_scopes EXCEPT ![t] = Append(@, g)]
  BY DEF Pool!Admit
<1>4. /\ \A u \in Callers : b_scopes'[u] \in Seq(1..Len(b_states))
                            /\ Len(b_scopes'[u]) <= MaxNesting
      /\ b_scopes' \in [Callers -> Seq(1..Len(b_states))]
      /\ \A u \in Callers : u # t => b_scopes'[u] = b_scopes[u]
      /\ Cardinality(Pool!Inside(g)') = Cardinality(Pool!Inside(g)) + 1
      /\ \A i : i # g => Pool!Inside(i)' = Pool!Inside(i)
  BY <1>0, <1>2, <1>3, ScopeGrows
<1>5. ScopeTypes'
  BY <1>4 DEF ScopeTypes
<1>6. /\ Pool!NoEntry \in Entries(Len(b_states)) /\ Pool!NoEntry.pc = "none"
      /\ \A i : ~ Opens(Pool!NoEntry, i)
  BY <1>0, NoEntryTypes
<1>7. EntryTypes' /\ EntriesFit'
  BY <1>0, <1>3, <1>4, <1>6, EntryKept
<1>8. \A i : Opens(b_entry[t], i) <=> i = g
  BY DEF Opens
<1>9. ASSUME NEW i \in 1..Len(b_states) PROVE Taken(i)' = Taken(i)
  <2>1. Cardinality(Pool!Opening(i)') = Cardinality(Pool!Opening(i))
          + (IF Opens(Pool!NoEntry, i) THEN 1 ELSE 0) - (IF Opens(b_entry[t], i) THEN 1 ELSE 0)
    BY <1>0, <1>3, OpeningMoves
  <2>2. /\ i = g => Cardinality(Pool!Inside(i)') = Cardinality(Pool!Inside(i)) + 1
        /\ i # g => Cardinality(Pool!Inside(i)') = Cardinality(Pool!Inside(i))
    BY <1>4
  <2> QED BY <1>6, <1>8, <2>1, <2>2, HoldersFinite DEF Taken
<1>10. Conserved'
  BY <1>0, <1>9, Balance
<1> QED BY <1>1, <1>5, <1>7, <1>10 DEF PoolInv, PoolTypes

\* When opening fails the permit is lost.
LEMMA LosesItsPermit ==
  ASSUME Pool!BulkheadAssumption, PoolInv, NEW t \in Callers, Pool!open_fails(t)
  PROVE  PoolInv'
<1>0. /\ SnapshotTypes /\ ScopeTypes /\ EntryTypes /\ UsesTypes /\ EntriesFit /\ Conserved
      /\ Len(b_states) \in Nat /\ b_lost \in Seq(Nat) /\ Len(b_lost) = Len(b_states)
  BY DEF PoolInv, PoolTypes, SnapshotTypes
<1>1. PICK g \in 1..Len(b_states) : g = b_entry[t].state /\ Opens(b_entry[t], g)
  BY <1>0, EntryFields DEF Pool!open_fails, EntryTypes, Opens
<1>2. /\ b_lost' = [b_lost EXCEPT ![g] = IF Pool!Bounded(g) THEN @ + 1 ELSE @]
      /\ b_entry' = [b_entry EXCEPT ![t] = Pool!NoEntry]
      /\ b_failures' = b_failures + 1 /\ b_failures < MaxFailures
      /\ b_open_lock' \in {Null, b_open_lock}
      /\ UNCHANGED <<b_states, b_value, b_scopes, b_opened, b_entered>>
  BY <1>1 DEF Pool!open_fails
<1>3. /\ b_lost' \in Seq(Nat) /\ Len(b_lost') = Len(b_lost)
      /\ \A i \in 1..Len(b_states) :
           Pool!Bounded(i) => b_lost'[i] = IF i = g THEN b_lost[i] + 1 ELSE b_lost[i]
  <2> DEFINE x == IF Pool!Bounded(g) THEN b_lost[g] + 1 ELSE b_lost[g]
  <2>1. x \in Nat
    BY <1>0, ElementOfSeq
  <2>2. b_lost' = [b_lost EXCEPT ![g] = x]
    BY <1>2
  <2>3. Pool!Bounded(g) => x = b_lost[g] + 1
    OBVIOUS
  <2> HIDE DEF x
  <2>4. /\ [b_lost EXCEPT ![g] = x] \in Seq(Nat) /\ Len([b_lost EXCEPT ![g] = x]) = Len(b_lost)
        /\ \A i \in 1..Len(b_lost) : [b_lost EXCEPT ![g] = x][i] = IF i = g THEN x ELSE b_lost[i]
    BY <1>0, <2>1, ExceptSeq
  <2> QED BY <1>0, <2>2, <2>3, <2>4
<1>4. SnapshotTypes' /\ ScopeTypes'
  BY <1>0, <1>2, <1>3 DEF SnapshotTypes, ScopeTypes, Pool!BulkheadConfig
<1>5. UsesTypes'
  <2>1. b_failures' \in 0..MaxFailures /\ b_open_lock' \in Callers \cup {Null}
    BY <1>0, <1>2 DEF UsesTypes, Pool!BulkheadAssumption
  <2> QED BY <1>0, <1>2, <2>1, Zenon DEF UsesTypes
<1>6. /\ Pool!NoEntry \in Entries(Len(b_states)) /\ Pool!NoEntry.pc = "none"
      /\ \A i : ~ Opens(Pool!NoEntry, i)
  BY <1>0, NoEntryTypes
<1>7. EntryTypes' /\ EntriesFit'
  BY <1>0, <1>2, <1>6, EntryKept
<1>8. \A i : Opens(b_entry[t], i) <=> i = g
  BY <1>1 DEF Opens
<1>9. ASSUME NEW i \in 1..Len(b_states) PROVE Taken(i)' = IF i = g THEN Taken(i) - 1 ELSE Taken(i)
  <2>1. Cardinality(Pool!Opening(i)') = Cardinality(Pool!Opening(i))
          + (IF Opens(Pool!NoEntry, i) THEN 1 ELSE 0) - (IF Opens(b_entry[t], i) THEN 1 ELSE 0)
    BY <1>0, <1>2, OpeningMoves
  <2>2. Pool!Inside(i)' = Pool!Inside(i)
    BY <1>2 DEF Pool!Inside
  <2> QED BY <1>6, <1>8, <2>1, <2>2, HoldersFinite DEF Taken
<1>10. ASSUME NEW i \in 1..Len(b_states), Pool!Bounded(i)
       PROVE  b_value'[i] + Taken(i)' + b_lost'[i] = b_value[i] + Taken(i) + b_lost[i]
  <2>1. b_lost'[i] = IF i = g THEN b_lost[i] + 1 ELSE b_lost[i]
    BY <1>3, <1>10
  <2>2. Taken(i)' = IF i = g THEN Taken(i) - 1 ELSE Taken(i)
    BY <1>9
  <2>3. Taken(i) \in Nat /\ b_value[i] \in Nat /\ b_lost[i] \in Nat /\ b_value'[i] = b_value[i]
    BY <1>0, <1>2, HoldersFinite, ElementOfSeq DEF SnapshotTypes
  <2> QED BY <2>1, <2>2, <2>3
<1>11. Conserved'
  BY <1>0, <1>2, <1>10, Balance
<1> QED BY <1>4, <1>5, <1>7, <1>11 DEF PoolInv, PoolTypes

\* __aexit__ gives the permit back to the semaphore it came from.
LEMMA GivesBack ==
  ASSUME Pool!BulkheadAssumption, PoolInv, NEW t \in Callers, Pool!__aexit__(t)
  PROVE  PoolInv'
<1>0. /\ SnapshotTypes /\ ScopeTypes /\ EntryTypes /\ UsesTypes /\ EntriesFit /\ Conserved
      /\ b_value \in Seq(Nat) /\ Len(b_value) = Len(b_states)
  BY DEF PoolInv, PoolTypes, SnapshotTypes
<1>1. PICK h : h = Pool!ReleasedTo(t)
  OBVIOUS
<1>2. /\ b_scopes[t] # <<>> /\ b_entry[t] = Pool!NoEntry
      /\ b_value' = IF Pool!Bounded(h) THEN [b_value EXCEPT ![h] = @ + 1] ELSE b_value
      /\ b_scopes' = [b_scopes EXCEPT ![t] = SubSeq(@, 1, Len(@) - 1)]
      /\ UNCHANGED <<b_states, b_entry, Pool!uses, b_failures, b_lost>>
  BY <1>1 DEF Pool!__aexit__
<1>3. /\ b_scopes' \in [Callers -> Seq(1..Len(b_states))]
      /\ \A u \in Callers : Len(b_scopes'[u]) <= Len(b_scopes[u])
      /\ h \in 1..Len(b_states)
      /\ Cardinality(Pool!Inside(h)') = Cardinality(Pool!Inside(h)) - 1
      /\ \A g : g # h => Pool!Inside(g)' = Pool!Inside(g)
  BY <1>0, <1>1, <1>2, ScopeShrinks
<1>4. \A u \in Callers : Len(b_scopes'[u]) \in Nat /\ Len(b_scopes[u]) \in Nat /\ MaxNesting \in Nat
  BY <1>0, <1>3, LenProperties DEF ScopeTypes, Pool!BulkheadAssumption
<1>5. ScopeTypes'
  <2>1. \A u \in Callers : Len(b_scopes'[u]) <= MaxNesting
    <3>1. \A u \in Callers : Len(b_scopes[u]) <= MaxNesting
      BY <1>0 DEF ScopeTypes
    <3> QED BY <1>3, <1>4, <3>1
  <2> QED BY <1>2, <1>3, <2>1 DEF ScopeTypes
<1>6. EntryTypes'
  BY <1>0, <1>2 DEF EntryTypes
<1>7. EntriesFit'
  BY <1>0, <1>2, <1>3, <1>4 DEF EntriesFit, Pool!Bounded
<1>8. UsesTypes'
  BY <1>0, <1>2, Zenon DEF UsesTypes, Pool!uses
<1>9. /\ b_value' \in Seq(Nat) /\ Len(b_value') = Len(b_value)
      /\ \A i \in 1..Len(b_states) :
           Pool!Bounded(i) => b_value'[i] = IF i = h THEN b_value[i] + 1 ELSE b_value[i]
  <2>1. CASE Pool!Bounded(h)
    <3>1. b_value[h] + 1 \in Nat
      BY <1>0, <1>3, ElementOfSeq
    <3>2. b_value' = [b_value EXCEPT ![h] = b_value[h] + 1]
      BY <1>2, <2>1
    <3> QED BY <1>0, <1>3, <3>1, <3>2, ExceptSeq
  <2>2. CASE ~ Pool!Bounded(h)
    BY <1>0, <1>2, <2>2
  <2> QED BY <2>1, <2>2
<1>10. SnapshotTypes'
  BY <1>0, <1>2, <1>9 DEF SnapshotTypes, Pool!BulkheadConfig
<1>11. ASSUME NEW i \in 1..Len(b_states), Pool!Bounded(i)
       PROVE  b_value'[i] + Taken(i)' + b_lost'[i] = b_value[i] + Taken(i) + b_lost[i]
  <2>1. b_value'[i] = IF i = h THEN b_value[i] + 1 ELSE b_value[i]
    BY <1>9, <1>11
  <2>2. Pool!Opening(i)' = Pool!Opening(i)
    BY <1>2 DEF Pool!Opening
  <2>3. /\ i = h => Cardinality(Pool!Inside(i)') = Cardinality(Pool!Inside(i)) - 1
        /\ i # h => Cardinality(Pool!Inside(i)') = Cardinality(Pool!Inside(i))
    BY <1>3
  <2>4. Taken(i)' = IF i = h THEN Taken(i) - 1 ELSE Taken(i)
    BY <2>2, <2>3, HoldersFinite DEF Taken
  <2>5. Taken(i) \in Nat /\ b_value[i] \in Nat /\ b_lost[i] \in Nat /\ b_lost'[i] = b_lost[i]
    BY <1>0, <1>2, HoldersFinite, ElementOfSeq DEF SnapshotTypes
  <2> QED BY <2>1, <2>4, <2>5
<1>12. Conserved'
  BY <1>0, <1>2, <1>11, Balance
<1> QED BY <1>5, <1>6, <1>7, <1>8, <1>10, <1>12 DEF PoolInv, PoolTypes

\* A reconfiguration publishes a snapshot with all its permits and leaves those
\* of the others where they are.
LEMMA Reconfigures ==
  ASSUME Pool!BulkheadAssumption, PoolInv, Pool!_apply_reconfigure
  PROVE  PoolInv'
<1>0. /\ SnapshotTypes /\ ScopeTypes /\ EntryTypes /\ UsesTypes /\ EntriesFit /\ Conserved
      /\ b_states \in Seq(Pool!BulkheadConfig) /\ b_value \in Seq(Nat) /\ b_lost \in Seq(Nat)
      /\ Len(b_value) = Len(b_states) /\ Len(b_lost) = Len(b_states)
      /\ MaxReconfigures \in Nat
  BY DEF PoolInv, PoolTypes, SnapshotTypes, Pool!BulkheadAssumption
<1>1. PICK chosen \in Pool!BulkheadConfig :
        /\ b_states' = Append(b_states, chosen)
        /\ b_value' = Append(b_value, Pool!_build_semaphore(chosen))
        /\ b_lost' = Append(b_lost, 0)
  BY DEF Pool!_apply_reconfigure
<1>2. /\ Len(b_states) <= MaxReconfigures
      /\ UNCHANGED <<b_scopes, b_entry, b_failures, Pool!uses>>
  BY DEF Pool!_apply_reconfigure
<1> DEFINE n == Len(b_states)
<1>3. n \in Nat \ {0}
  BY <1>0, LenProperties DEF SnapshotTypes
<1>4. /\ chosen.max_concurrent \in (Nat \ {0}) \cup {Null}
      /\ Pool!_build_semaphore(chosen) \in Nat
      /\ chosen.max_concurrent # Null =>
           chosen.max_concurrent = Pool!_build_semaphore(chosen)
  BY DEF Pool!BulkheadConfig, Pool!_build_semaphore, Pool!BulkheadAssumption
<1>5. /\ b_states' \in Seq(Pool!BulkheadConfig) /\ Len(b_states') = n + 1
      /\ \A i \in 1..n : b_states'[i] = b_states[i]
      /\ b_states'[n + 1] = chosen
  BY <1>0, <1>1, AppendProperties
<1>6. /\ b_value' \in Seq(Nat) /\ Len(b_value') = n + 1
      /\ \A i \in 1..n : b_value'[i] = b_value[i]
      /\ b_value'[n + 1] = Pool!_build_semaphore(chosen)
  BY <1>0, <1>1, <1>4, AppendProperties
<1>7. /\ b_lost' \in Seq(Nat) /\ Len(b_lost') = n + 1
      /\ \A i \in 1..n : b_lost'[i] = b_lost[i]
      /\ b_lost'[n + 1] = 0
  BY <1>0, <1>1, AppendProperties
<1>8. SnapshotTypes'
  <2>1. Len(b_states') \in 1..(MaxReconfigures + 1)
    BY <1>0, <1>2, <1>3, <1>5
  <2>2. b_states' \in Seq(Pool!BulkheadConfig)'
    BY <1>5 DEF Pool!BulkheadConfig
  <2> QED BY <1>5, <1>6, <1>7, <2>1, <2>2 DEF SnapshotTypes
<1>9. ScopeTypes'
  <2>1. 1..n \subseteq 1..(n + 1)
    BY <1>3
  <2>2. \A u \in Callers : b_scopes[u] \in Seq(1..(n + 1))
    BY <1>0, <2>1, SeqMonotonic DEF ScopeTypes
  <2> QED BY <1>0, <1>2, <1>5, <2>2 DEF ScopeTypes
<1>10. EntryTypes'
  <2>1. Entries(n) \subseteq Entries(n + 1)
    BY <1>3 DEF Entries
  <2> QED BY <1>0, <1>2, <1>5, <2>1 DEF EntryTypes
<1>11. \A i \in 1..n : Pool!Bounded(i)' <=> Pool!Bounded(i)
  BY <1>5 DEF Pool!Bounded
<1>12. \A u \in Callers : b_entry[u].pc # "none" => b_entry[u].state \in 1..n
  BY <1>0, <1>3, EntryFields DEF EntryTypes
<1>13. EntriesFit'
  <2>1. ASSUME NEW u \in Callers, b_entry[u].pc = "acquiring" PROVE Pool!Bounded(b_entry[u].state)'
    <3>1. PICK g \in 1..n : g = b_entry[u].state
      BY <1>12, <2>1
    <3>2. b_entry'[u].state = g /\ Pool!Bounded(g)
      BY <1>0, <1>2, <2>1, <3>1 DEF EntriesFit
    <3> QED BY <1>5, <3>1, <3>2 DEF Pool!Bounded
  <2> QED BY <1>0, <1>2, <2>1 DEF EntriesFit
<1>14. UsesTypes'
  BY <1>0, <1>2, Zenon DEF UsesTypes, Pool!uses
<1>15. \A i : Taken(i)' = Taken(i)
  <2> TAKE i
  <2>1. Pool!Inside(i)' = Pool!Inside(i) /\ Pool!Opening(i)' = Pool!Opening(i)
    BY <1>2 DEF Pool!Inside, Pool!Opening
  <2> QED BY <2>1 DEF Taken
<1>16. Taken(n + 1) = 0
  <2>1. Pool!Inside(n + 1) = {}
    <3> SUFFICES ASSUME NEW x \in Pool!Inside(n + 1) PROVE FALSE
      OBVIOUS
    <3>1. PICK u \in Callers, k \in 1..MaxNesting : x = <<u, k>>
      BY DEF Pool!Inside
    <3>2. k <= Len(b_scopes[u]) /\ b_scopes[u][k] = n + 1
      BY <3>1 DEF Pool!Inside
    <3>3. b_scopes[u] \in Seq(1..n) /\ Len(b_scopes[u]) \in Nat
      BY <1>0, LenProperties DEF ScopeTypes
    <3>4. b_scopes[u][k] \in 1..n
      BY <3>2, <3>3, ElementOfSeq
    <3> QED BY <1>3, <3>2, <3>4
  <2>2. Pool!Opening(n + 1) = {}
    BY <1>3, <1>12 DEF Pool!Opening
  <2> QED BY <2>1, <2>2, FS_EmptySet DEF Taken
<1>17. ASSUME NEW m, m = n, NEW i \in 1..(m + 1), Pool!Bounded(i)'
       PROVE  (b_value[i] + Taken(i) + b_lost[i] = b_states[i].max_concurrent)'
  <2>1. CASE i = m + 1
    <3>1. Taken(i)' = 0
      BY <1>15, <1>16, <1>17, <2>1
    <3>2. b_states'[i] = chosen /\ b_lost'[i] = 0 /\ b_value'[i] = Pool!_build_semaphore(chosen)
      BY <1>5, <1>6, <1>7, <1>17, <2>1
    <3>3. chosen.max_concurrent # Null
      BY <1>17, <3>2 DEF Pool!Bounded
    <3> QED BY <1>4, <3>1, <3>2, <3>3
  <2>2. CASE i \in 1..m
    <3>1. Pool!Bounded(i)
      BY <1>11, <1>17, <2>2
    <3>2. b_value[i] + Taken(i) + b_lost[i] = b_states[i].max_concurrent
      BY <1>0, <1>17, <2>2, <3>1 DEF Conserved
    <3>3. b_states'[i] = b_states[i] /\ b_lost'[i] = b_lost[i] /\ b_value'[i] = b_value[i]
      BY <1>5, <1>6, <1>7, <1>17, <2>2
    <3> QED BY <1>15, <3>2, <3>3
  <2> QED BY <1>3, <1>17, <2>1, <2>2
<1>18. Conserved'
  BY <1>5, <1>17 DEF Conserved
<1> QED BY <1>8, <1>9, <1>10, <1>13, <1>14, <1>18 DEF PoolInv, PoolTypes

\* Every step keeps the permits.
LEMMA PoolStep ==
  ASSUME Pool!BulkheadAssumption, PoolInv, [Pool!Next]_Pool!vars
  PROVE  PoolInv'
<1>0. /\ SnapshotTypes /\ ScopeTypes /\ EntryTypes /\ UsesTypes /\ EntriesFit /\ Conserved
      /\ Len(b_states) \in Nat \ {0} /\ MaxFailures \in Nat /\ Items \in Nat
  BY LenProperties DEF PoolInv, PoolTypes, SnapshotTypes, Pool!BulkheadAssumption
<1>a. \A t \in Callers :
        /\ b_entry[t] \in Entries(Len(b_states))
        /\ b_entry[t].pc \in {"none", "acquiring", "opening", "entering"}
        /\ b_entry[t].pc = "none" <=> b_entry[t] = Pool!NoEntry
        /\ b_entry[t].pc # "none" => b_entry[t].state \in 1..Len(b_states)
        /\ b_entry[t].pc = "entering" => b_entry[t].item \in 1..Items
  BY <1>0, EntryFields DEF EntryTypes
<1>b. Pool!NoEntry \in Entries(Len(b_states)) /\ Pool!NoEntry.pc = "none"
  BY <1>0, NoEntryTypes
<1>1. CASE UNCHANGED <<b_states, b_value, b_scopes, b_entry, Pool!uses, b_failures, b_lost>>
  <2>1. SnapshotTypes' /\ ScopeTypes' /\ EntryTypes' /\ EntriesFit'
    BY <1>0, <1>1 DEF SnapshotTypes, ScopeTypes, EntryTypes, EntriesFit, Pool!BulkheadConfig, Pool!Bounded
  <2>2. UsesTypes'
    BY <1>0, <1>1, Zenon DEF UsesTypes, Pool!uses
  <2>3. Conserved'
    BY <1>0, <1>1 DEF Conserved, Taken, Pool!Bounded, Pool!Inside, Pool!Opening
  <2> QED BY <2>1, <2>2, <2>3 DEF PoolInv, PoolTypes
<1>2. ASSUME NEW t \in Callers, Pool!__aenter__(t) PROVE PoolInv'
  <2>1. PICK g \in 1..Len(b_states) : g = Len(b_states)
    BY <1>0
  <2>2. /\ b_entry[t] = Pool!NoEntry /\ Len(b_scopes[t]) < MaxNesting
        /\ UNCHANGED <<b_states, Pool!uses, b_failures, b_lost>>
        /\ b_entry[t].pc = "none"
    BY <1>2, <1>b DEF Pool!__aenter__
  <2>3. CASE /\ ~ Pool!Bounded(g) /\ Pool!After(t, g) /\ UNCHANGED b_value
    BY <2>2, <2>3, Enters
  <2>4. CASE /\ Pool!Bounded(g) /\ b_value[g] > 0 /\ b_value' = [b_value EXCEPT ![g] = @ - 1]
             /\ Pool!After(t, g)
    BY <2>2, <2>4, Enters
  <2>5. CASE /\ Pool!Bounded(g)
             /\ b_entry' = [b_entry EXCEPT ![t] = [pc |-> "acquiring", state |-> g]]
             /\ UNCHANGED <<b_value, b_scopes>>
    <3> DEFINE e == [pc |-> "acquiring", state |-> g]
    <3>1. e \in Entries(Len(b_states)) /\ e.pc = "acquiring" /\ e.state = g
      BY DEF Entries
    <3>2. b_entry' = [b_entry EXCEPT ![t] = e]
      BY <2>5
    <3> HIDE DEF e
    <3> QED BY <2>2, <2>5, <3>1, <3>2, Queues
  <2>6. CASE UNCHANGED <<b_value, b_scopes, b_entry>>
    BY <1>1, <2>2, <2>6
  <2> QED BY <1>2, <2>1, <2>3, <2>4, <2>5, <2>6 DEF Pool!__aenter__, Pool!Current
<1>3. ASSUME NEW t \in Callers, Pool!acquired(t) PROVE PoolInv'
  <2>1. PICK g \in 1..Len(b_states) : g = b_entry[t].state
    BY <1>3, <1>a DEF Pool!acquired
  <2>2. /\ b_entry[t].pc = "acquiring" /\ b_value[g] > 0
        /\ b_value' = [b_value EXCEPT ![g] = @ - 1] /\ Pool!After(t, g)
        /\ UNCHANGED <<b_states, Pool!uses, b_failures, b_lost>>
    BY <1>3, <2>1 DEF Pool!acquired
  <2>3. Pool!Bounded(g) /\ Len(b_scopes[t]) < MaxNesting
    BY <1>0, <1>b, <2>1, <2>2 DEF EntriesFit
  <2> QED BY <2>2, <2>3, Enters
<1>4. ASSUME NEW t \in Callers, Pool!gives_up(t) PROVE PoolInv'
  <2>1. /\ b_entry[t].pc = "acquiring" /\ b_entry' = [b_entry EXCEPT ![t] = Pool!NoEntry]
        /\ UNCHANGED <<b_states, b_value, b_scopes, Pool!uses, b_failures, b_lost>>
    BY <1>4 DEF Pool!gives_up
  <2> QED BY <1>b, <2>1, Queues
<1>5. ASSUME NEW t \in Callers, Pool!_open_uses(t) PROVE PoolInv'
  <2>1. PICK g \in 1..Len(b_states) : g = b_entry[t].state /\ Opens(b_entry[t], g)
    BY <1>5, <1>a DEF Pool!_open_uses, Opens
  <2>2. UNCHANGED <<b_states, b_value, b_opened, b_entered, b_failures, b_lost>>
    BY <1>5 DEF Pool!_open_uses
  <2>3. b_open_lock' \in Callers \cup {Null}
    BY <1>0, <1>5 DEF Pool!_open_uses, UsesTypes
  <2>4. UsesTypes'
    BY <1>0, <2>2, <2>3, Zenon DEF UsesTypes
  <2>5. CASE b_opened
    <3>1. Pool!Admit(t, g)
      BY <1>5, <2>1, <2>5 DEF Pool!_open_uses
    <3> QED BY <2>1, <2>2, <2>4, <3>1, GetsInside
  <2>6. CASE ~ b_opened
    <3> DEFINE e == [pc |-> "entering", state |-> g, item |-> 1]
    <3>1. b_entry' = [b_entry EXCEPT ![t] = e] /\ b_scopes' = b_scopes
      BY <1>5, <2>1, <2>6 DEF Pool!_open_uses
    <3>2. Items > 0
      BY <1>0, <1>5 DEF Pool!_open_uses, EntriesFit
    <3>3. e \in Entries(Len(b_states)) /\ e.pc = "entering" /\ Opens(e, g)
      BY <1>0, <3>2 DEF Entries, Opens
    <3> HIDE DEF e
    <3> QED BY <2>1, <2>2, <2>4, <3>1, <3>3, Proceeds
  <2> QED BY <2>5, <2>6
<1>6. ASSUME NEW t \in Callers, Pool!enter_async_context(t) PROVE PoolInv'
  <2>1. /\ b_entry[t].pc = "entering" /\ b_entry[t].item \in 1..Items
        /\ b_entry[t] \in Entries(Len(b_states))
    BY <1>6, <1>a DEF Pool!enter_async_context
  <2>2. PICK g \in 1..Len(b_states) : g = b_entry[t].state /\ Opens(b_entry[t], g)
    BY <2>1, <1>a DEF Opens
  <2>3. PICK i \in 1..Items : i = b_entry[t].item
    BY <2>1
  <2>4. /\ UNCHANGED <<b_states, b_value, b_failures, b_lost>>
        /\ b_entered' = [b_entered EXCEPT ![i] = @ + 1]
    BY <1>6, <2>3 DEF Pool!enter_async_context
  <2>5. b_entered' \in [1..Items -> Nat]
    BY <1>0, <2>4 DEF UsesTypes
  <2>6. CASE i < Items
    <3> DEFINE e == [b_entry[t] EXCEPT !.item = b_entry[t].item + 1]
    <3>1. /\ b_entry' = [b_entry EXCEPT ![t].item = @ + 1]
          /\ UNCHANGED <<b_scopes, b_opened, b_open_lock>>
      BY <1>6, <2>3, <2>6 DEF Pool!enter_async_context
    <3>2. b_entry' = [b_entry EXCEPT ![t] = e]
      BY <1>0, <3>1 DEF EntryTypes
    <3>3. b_entry[t] \in [pc : {"entering"}, state : 1..Len(b_states), item : 1..Items]
      BY <2>1 DEF Entries, Pool!NoEntry
    <3>4. e \in Entries(Len(b_states)) /\ e.pc = "entering" /\ Opens(e, g)
      BY <1>0, <2>2, <2>3, <2>6, <3>3 DEF Entries, Opens
    <3>5. UsesTypes'
      BY <1>0, <2>4, <2>5, <3>1, Zenon DEF UsesTypes
    <3> HIDE DEF e
    <3> QED BY <2>2, <2>4, <3>1, <3>2, <3>4, <3>5, Proceeds
  <2>7. CASE ~ (i < Items)
    <3>1. b_opened' = TRUE /\ b_open_lock' = Null /\ Pool!Admit(t, g)
      BY <1>6, <2>2, <2>3, <2>7 DEF Pool!enter_async_context
    <3>2. UsesTypes'
      BY <1>0, <2>4, <2>5, <3>1 DEF UsesTypes
    <3> QED BY <2>2, <2>4, <3>1, <3>2, GetsInside
  <2> QED BY <2>6, <2>7
<1>7. ASSUME NEW t \in Callers, Pool!open_fails(t) \/ Pool!__aexit__(t) PROVE PoolInv'
  BY <1>7, LosesItsPermit, GivesBack
<1>8. CASE Pool!_apply_reconfigure
  BY <1>8, Reconfigures
<1>9. CASE Pool!to_thread \/ UNCHANGED Pool!vars
  <2>1. UNCHANGED Pool!vars =>
          UNCHANGED <<b_states, b_value, b_scopes, b_entry, Pool!uses, b_failures, b_lost>>
    BY DEF Pool!vars, Pool!uses
  <2> QED BY <1>1, <1>9, <2>1 DEF Pool!to_thread
<1> QED BY <1>2, <1>3, <1>4, <1>5, <1>6, <1>7, <1>8, <1>9 DEF Pool!Next

\* On every semaphore a bulkhead ever had, the permits that are free, held, on the
\* way in and lost are max_concurrent together, through any nesting, failure and
\* reconfiguration (bulkhead.py, __aenter__, __aexit__, _apply_reconfigure).
THEOREM NoPermitMoves ==
  ASSUME Pool!BulkheadAssumption
  PROVE  Pool!Spec => [](Pool!TypeOK /\ PermitsConserved)
<1>1. Pool!Init => PoolInv
  <2> SUFFICES ASSUME Pool!Init PROVE PoolInv
    OBVIOUS
  <2>1. PICK chosen \in Pool!BulkheadConfig :
          b_states = <<chosen>> /\ b_value = <<Pool!_build_semaphore(chosen)>>
    BY DEF Pool!Init
  <2>2. /\ chosen.max_concurrent \in (Nat \ {0}) \cup {Null}
        /\ Pool!_build_semaphore(chosen) \in Nat
        /\ chosen.max_concurrent # Null =>
             chosen.max_concurrent = Pool!_build_semaphore(chosen)
    BY DEF Pool!BulkheadConfig, Pool!_build_semaphore, Pool!BulkheadAssumption
  <2>3. MaxReconfigures \in Nat /\ MaxFailures \in Nat /\ MaxNesting \in Nat /\ Items \in Nat
    BY DEF Pool!BulkheadAssumption
  <2>4. SnapshotTypes
    BY <2>1, <2>2, <2>3 DEF Pool!Init, SnapshotTypes
  <2>5. ScopeTypes
    BY <2>1, <2>3 DEF Pool!Init, ScopeTypes
  <2>6. EntryTypes
    BY <2>1 DEF Pool!Init, EntryTypes, Entries
  <2>7. UsesTypes
    <3>1. b_entered \in [1..Items -> Nat] /\ b_failures \in 0..MaxFailures
      BY <2>3 DEF Pool!Init
    <3>2. b_opened \in BOOLEAN /\ b_open_lock \in Callers \cup {Null}
      BY DEF Pool!Init
    <3> QED BY <3>1, <3>2, Zenon DEF UsesTypes
  <2>8. \A t \in Callers : b_entry[t] = Pool!NoEntry /\ b_entry[t].pc = "none"
    BY DEF Pool!Init, Pool!NoEntry
  <2>9. EntriesFit
    BY <2>8 DEF EntriesFit
  <2>10. Conserved
    <3> SUFFICES ASSUME NEW g \in 1..Len(b_states), Pool!Bounded(g)
                 PROVE  b_value[g] + Taken(g) + b_lost[g] = b_states[g].max_concurrent
      BY DEF Conserved
    <3>1. /\ g = 1 /\ b_states[g] = chosen /\ b_value[g] = Pool!_build_semaphore(chosen)
          /\ b_lost[g] = 0
      BY <2>1 DEF Pool!Init
    <3>2. Pool!Inside(g) = {}
      <4> SUFFICES ASSUME NEW x \in Pool!Inside(g) PROVE FALSE
        OBVIOUS
      <4>1. x[2] \in 1..MaxNesting /\ x[2] <= Len(b_scopes[x[1]]) /\ x[1] \in Callers
        BY DEF Pool!Inside
      <4>2. b_scopes[x[1]] = <<>>
        BY <4>1 DEF Pool!Init
      <4> QED BY <2>3, <4>1, <4>2
    <3>3. Pool!Opening(g) = {}
      BY <2>8 DEF Pool!Opening
    <3>4. Taken(g) = 0
      BY <3>2, <3>3, FS_EmptySet DEF Taken
    <3> QED BY <2>2, <3>1, <3>4 DEF Pool!Bounded
  <2> QED BY <2>4, <2>5, <2>6, <2>7, <2>9, <2>10 DEF PoolInv, PoolTypes
<1>2. PoolInv => Pool!TypeOK /\ PermitsConserved
  <2> SUFFICES ASSUME PoolInv PROVE Pool!TypeOK /\ Pool!PermitsConserved
    BY DEF PermitsConserved
  <2>0. /\ SnapshotTypes /\ ScopeTypes /\ EntryTypes /\ UsesTypes /\ Conserved
        /\ b_states \in Seq(Pool!BulkheadConfig) /\ b_value \in Seq(Nat) /\ b_lost \in Seq(Nat)
    BY DEF PoolInv, PoolTypes, SnapshotTypes
  <2>1. /\ DOMAIN b_states = 1..Len(b_states) /\ DOMAIN b_value = 1..Len(b_states)
        /\ Len(b_states) \in Nat
    BY <2>0, LenProperties DEF SnapshotTypes
  <2>2. Pool!TypeOK
    <3>1. \A t \in Callers : b_entry[t].pc \in {"none", "acquiring", "opening", "entering"}
      BY <2>0, <2>1, EntryFields DEF EntryTypes
    <3>2. \A t \in Callers : /\ b_scopes[t] \in Seq(DOMAIN b_states) /\ Len(b_scopes[t]) <= MaxNesting
                             /\ b_entry[t].pc \in {"none", "acquiring", "opening", "entering"}
      BY <2>0, <2>1, <3>1 DEF ScopeTypes
    <3>3. Len(b_states) \in 1..(MaxReconfigures + 1) /\ DOMAIN b_value = DOMAIN b_states
      BY <2>0, <2>1 DEF SnapshotTypes
    <3> QED BY <2>0, <3>2, <3>3, Zenon DEF Pool!TypeOK, UsesTypes
  <2>3. Pool!PermitsConserved
    <3> SUFFICES ASSUME NEW g \in 1..Len(b_states), Pool!Bounded(g)
                 PROVE  /\ b_value[g] + Cardinality(Pool!Inside(g)) + Cardinality(Pool!Opening(g))
                             + b_lost[g] = b_states[g].max_concurrent
                        /\ b_value[g] >= 0
      BY <2>1, PoolSets DEF Pool!PermitsConserved
    <3>1. b_value[g] \in Nat /\ b_lost[g] \in Nat
      BY <2>0, ElementOfSeq DEF SnapshotTypes
    <3> QED BY <2>0, <3>1, HoldersFinite DEF Conserved, Taken
  <2> QED BY <2>2, <2>3
<1> QED BY <1>1, <1>2, PoolStep, PTL DEF Pool!Spec

-----------------------------------------------------------------------------
\* Health checks that requests share.

\* A set whose elements are all the same has at most one.
LEMMA AtMostOne ==
  ASSUME NEW S, \A x, y \in S : x = y
  PROVE  Cardinality(S) <= 1
<1>1. CASE S = {}
  BY <1>1, FS_EmptySet
<1>2. ASSUME NEW x \in S PROVE Cardinality(S) <= 1
  <2>1. S = {x}
    BY <1>2
  <2> QED BY <2>1, FS_Singleton
<1> QED BY <1>1, <1>2

\* The module's own name for the number of elements.
LEMMA ChecksCardinality ==
  ASSUME NEW S
  PROVE  Checks!Cardinality(S) = Cardinality(S)
  BY DEF Checks!Cardinality, Cardinality

Stages == {"none", "looking", "waiting", "running", "done", "lost"}
Subtasks == [pc : Stages, since : Nat]

CheckTypes ==
  /\ h_sub \in [Callers -> [Names -> Subtasks]]
  /\ h_inflight \in [Names -> Callers \cup {Null}]
  /\ h_now \in Nat

\* The run in flight for a name is that of the one caller that runs it.
LeaderRuns ==
  \A c \in Callers, n \in Names : h_sub[c][n].pc = "running" <=> h_inflight[n] = c

\* Whoever waits has somebody to wait for.
WaitersAreLed ==
  \A c \in Callers, n \in Names : h_sub[c][n].pc = "waiting" => h_inflight[n] # Null

CheckInv == CheckTypes /\ LeaderRuns /\ WaitersAreLed

\* Steps that leave every subtask and every run in flight alone.
LEMMA CheckFrame ==
  ASSUME CheckInv, UNCHANGED <<h_sub, h_inflight>>, h_now' \in Nat
  PROVE  CheckInv'
  BY DEF CheckInv, CheckTypes, LeaderRuns, WaitersAreLed

\* A request that starts, or ends with none of its checks running.
LEMMA GroupStep ==
  ASSUME Checks!HealthAssumption, CheckInv, NEW c \in Callers,
         NEW g \in [Names -> Subtasks], \A n \in Names : g[n].pc \notin {"running", "waiting"},
         \A n \in Names : h_sub[c][n].pc # "running",
         h_sub' = [h_sub EXCEPT ![c] = g], UNCHANGED <<h_inflight, h_now>>
  PROVE  CheckInv'
<1>1. h_sub'[c] = g /\ \A d \in Callers : d # c => h_sub'[d] = h_sub[d]
  BY DEF CheckInv, CheckTypes
<1>2. CheckTypes'
  BY DEF CheckInv, CheckTypes
<1>3. LeaderRuns' /\ WaitersAreLed'
  BY <1>1 DEF CheckInv, LeaderRuns, WaitersAreLed
<1> QED BY <1>2, <1>3 DEF CheckInv

\* A caller looks: it has its answer, waits for the run in flight or starts one.
LEMMA LookStep ==
  ASSUME Checks!HealthAssumption, CheckInv, NEW c \in Callers, NEW n \in Names,
         Checks!_get_or_run(c, n)
  PROVE  CheckInv'
<1>0. CheckTypes /\ LeaderRuns /\ WaitersAreLed /\ Null \notin Callers
  BY DEF CheckInv, Checks!HealthAssumption
<1>1. h_sub[c][n].pc = "looking" /\ h_now' = h_now
  BY DEF Checks!_get_or_run
<1>2. PICK s \in Subtasks :
        /\ h_sub' = [h_sub EXCEPT ![c][n] = s]
        /\ \/ s.pc = "done" /\ h_inflight' = h_inflight
           \/ s.pc = "waiting" /\ h_inflight[n] # Null /\ h_inflight' = h_inflight
           \/ /\ s.pc = "running" /\ h_inflight[n] = Null
              /\ h_inflight' = [h_inflight EXCEPT ![n] = c]
  <2>0. h_sub[c][n] \in Subtasks /\ h_now \in Nat
    BY <1>0 DEF CheckTypes
  <2>1. CASE h_sub' = [h_sub EXCEPT ![c][n].pc = "done"] /\ UNCHANGED h_inflight
    <3>1. [h_sub[c][n] EXCEPT !.pc = "done"] \in Subtasks /\ [h_sub[c][n] EXCEPT !.pc = "done"].pc = "done"
      BY <2>0 DEF Subtasks, Stages
    <3>2. h_sub' = [h_sub EXCEPT ![c][n] = [h_sub[c][n] EXCEPT !.pc = "done"]]
      BY <1>0, <2>1 DEF CheckTypes
    <3> QED BY <2>1, <3>1, <3>2
  <2>2. CASE h_inflight[n] # Null /\ h_sub' = [h_sub EXCEPT ![c][n].pc = "waiting"] /\ UNCHANGED h_inflight
    <3>1. /\ [h_sub[c][n] EXCEPT !.pc = "waiting"] \in Subtasks
          /\ [h_sub[c][n] EXCEPT !.pc = "waiting"].pc = "waiting"
      BY <2>0 DEF Subtasks, Stages
    <3>2. h_sub' = [h_sub EXCEPT ![c][n] = [h_sub[c][n] EXCEPT !.pc = "waiting"]]
      BY <1>0, <2>2 DEF CheckTypes
    <3> QED BY <2>2, <3>1, <3>2
  <2>3. CASE /\ h_inflight[n] = Null /\ h_inflight' = [h_inflight EXCEPT ![n] = c]
             /\ h_sub' = [h_sub EXCEPT ![c][n] = [pc |-> "running", since |-> h_now]]
    <3>1. [pc |-> "running", since |-> h_now] \in Subtasks
      BY <2>0 DEF Subtasks, Stages
    <3> QED BY <2>3, <3>1
  <2> QED BY <2>1, <2>2, <2>3 DEF Checks!_get_or_run
<1>3. /\ h_sub'[c][n] = s /\ \A m \in Names : m # n => h_sub'[c][m] = h_sub[c][m]
      /\ \A d \in Callers : d # c => h_sub'[d] = h_sub[d]
  BY <1>0, <1>2 DEF CheckTypes
<1>4. CheckTypes'
  BY <1>0, <1>1, <1>2 DEF CheckTypes
<1>5. \A m \in Names : m # n => h_inflight'[m] = h_inflight[m]
  BY <1>0, <1>2 DEF CheckTypes
<1>6. h_inflight'[n] = IF s.pc = "running" THEN c ELSE h_inflight[n]
  BY <1>0, <1>2 DEF CheckTypes
<1>7. LeaderRuns'
  BY <1>0, <1>1, <1>2, <1>3, <1>5, <1>6 DEF LeaderRuns
<1>8. WaitersAreLed'
  BY <1>0, <1>2, <1>3, <1>5, <1>6 DEF WaitersAreLed
<1> QED BY <1>4, <1>7, <1>8 DEF CheckInv

\* A caller ends the runs of the names ns that it leads: it is no longer there, the
\* names are free and whoever waited looks again.
LEMMA RunsEnd ==
  ASSUME Checks!HealthAssumption, CheckInv, NEW c \in Callers, NEW ns \in SUBSET Names,
         \A n \in ns : h_sub[c][n].pc = "running",
         NEW s \in [Callers -> [Names -> Subtasks]],
         \A n \in Names : s[c][n].pc # "running" \/ (n \notin ns /\ s[c][n] = h_sub[c][n]),
         \A n \in Names : s[c][n].pc # "waiting" \/ s[c][n] = h_sub[c][n],
         \A n \in Names \ ns : s[c][n].pc = "running" <=> h_sub[c][n].pc = "running",
         \A d \in Callers : d # c => s[d] = h_sub[d],
         h_sub' = Checks!Woken(s, ns), h_inflight' = Checks!Cleanup(ns), h_now' = h_now
  PROVE  CheckInv'
<1>0. CheckTypes /\ LeaderRuns /\ WaitersAreLed /\ Null \notin Callers
  BY DEF CheckInv, Checks!HealthAssumption
<1>1. \A d \in Callers, n \in Names : s[d][n] \in Subtasks /\ [s[d][n] EXCEPT !.pc = "looking"] \in Subtasks
                                      /\ [s[d][n] EXCEPT !.pc = "looking"].pc = "looking"
  <2>1. \A x \in Subtasks : /\ [x EXCEPT !.pc = "looking"] \in Subtasks
                            /\ [x EXCEPT !.pc = "looking"].pc = "looking"
    BY DEF Subtasks, Stages
  <2>2. \A d \in Callers, n \in Names : s[d][n] \in Subtasks
    OBVIOUS
  <2> QED BY <2>1, <2>2
<1>2. ASSUME NEW d \in Callers, NEW n \in Names
      PROVE  /\ n \in ns /\ s[d][n].pc = "waiting" => h_sub'[d][n].pc = "looking"
             /\ n \in ns /\ s[d][n].pc # "waiting" => h_sub'[d][n] = s[d][n]
             /\ n \notin ns => h_sub'[d][n] = s[d][n]
  <2>1. h_sub'[d] = [m \in Names |-> IF m \in ns /\ s[d][m].pc = "waiting"
                                     THEN [s[d][m] EXCEPT !.pc = "looking"] ELSE s[d][m]]
    BY DEF Checks!Woken
  <2>2. h_sub'[d][n] = IF n \in ns /\ s[d][n].pc = "waiting" THEN [s[d][n] EXCEPT !.pc = "looking"]
                       ELSE s[d][n]
    BY <2>1
  <2> QED BY <1>1, <2>2
<1>3. \A n \in Names : h_inflight'[n] = IF n \in ns THEN Null ELSE h_inflight[n]
  BY DEF Checks!Cleanup, Checks!Freed
<1>4. CheckTypes'
  <2>1. h_sub' \in [Callers -> [Names -> Subtasks]]
    BY <1>1 DEF Checks!Woken
  <2>2. h_inflight' \in [Names -> Callers \cup {Null}]
    BY <1>0 DEF CheckTypes, Checks!Cleanup, Checks!Freed
  <2> QED BY <1>0, <2>1, <2>2 DEF CheckTypes
<1>5. ASSUME NEW d \in Callers, NEW n \in Names
      PROVE  /\ h_sub'[d][n].pc = "running" <=> h_inflight'[n] = d
             /\ h_sub'[d][n].pc = "waiting" => h_inflight'[n] # Null
  <2>1. CASE n \in ns
    <3>1. h_inflight[n] = c /\ h_inflight'[n] = Null
      BY <1>0, <1>3, <2>1 DEF LeaderRuns
    <3>2. h_sub'[d][n].pc \notin {"waiting", "running"}
      <4>1. s[d][n].pc # "running"
        BY <1>0, <2>1, <3>1 DEF LeaderRuns
      <4> QED BY <1>2, <2>1, <4>1
    <3> QED BY <1>0, <3>1, <3>2
  <2>2. CASE n \notin ns
    <3>1. h_inflight'[n] = h_inflight[n] /\ h_sub'[d][n] = s[d][n]
      BY <1>2, <1>3, <2>2
    <3>2. /\ s[d][n].pc = "running" <=> h_sub[d][n].pc = "running"
          /\ s[d][n].pc = "waiting" => h_sub[d][n].pc = "waiting"
      BY <2>2
    <3> QED BY <1>0, <3>1, <3>2 DEF LeaderRuns, WaitersAreLed
  <2> QED BY <2>1, <2>2
<1>6. LeaderRuns' /\ WaitersAreLed'
  BY <1>5 DEF LeaderRuns, WaitersAreLed
<1> QED BY <1>4, <1>6 DEF CheckInv

\* Every step keeps one runner per check.
LEMMA CheckStep ==
  ASSUME Checks!HealthAssumption, CheckInv, [Checks!Next]_Checks!vars
  PROVE  CheckInv'
<1>0. CheckTypes /\ LeaderRuns /\ WaitersAreLed /\ Null \notin Callers
  BY DEF CheckInv, Checks!HealthAssumption
<1>a. [pc |-> "none", since |-> 0] \in Subtasks
  BY DEF Subtasks, Stages
<1>1. CASE UNCHANGED <<h_sub, h_inflight>> /\ h_now' \in {h_now, h_now + 1}
  BY <1>0, <1>1, CheckFrame DEF CheckTypes
<1>2. ASSUME NEW c \in Callers, NEW exclude \in SUBSET Names,
             Checks!readyz(c, exclude) \/ Checks!healthz(c, exclude)
      PROVE  CheckInv'
  <2>1. PICK selected : Checks!run(c, selected)
    BY <1>2 DEF Checks!readyz, Checks!healthz
  <2> DEFINE g == [n \in Names |-> IF n \in selected THEN [Checks!Idle EXCEPT !.pc = "looking"]
                                   ELSE Checks!Idle]
  <2>2. /\ h_sub' = [h_sub EXCEPT ![c] = g] /\ UNCHANGED <<h_inflight, h_now>>
        /\ \A n \in Names : h_sub[c][n].pc = "none"
    BY <2>1 DEF Checks!run, Checks!Busy
  <2>3. [Checks!Idle EXCEPT !.pc = "looking"] = [pc |-> "looking", since |-> 0]
    BY DEF Checks!Idle
  <2>4. g \in [Names -> Subtasks] /\ \A n \in Names : g[n].pc \notin {"running", "waiting"}
    BY <2>3 DEF Checks!Idle, Subtasks, Stages
  <2> HIDE DEF g
  <2> QED BY <2>2, <2>4, GroupStep
<1>3. ASSUME NEW c \in Callers, Checks!report(c) PROVE CheckInv'
  <2> DEFINE g == [n \in Names |-> Checks!Idle]
  <2>1. /\ h_sub' = [h_sub EXCEPT ![c] = g] /\ UNCHANGED <<h_inflight, h_now>>
        /\ \A n \in Names : h_sub[c][n].pc # "running"
    BY <1>3 DEF Checks!report
  <2>2. g \in [Names -> Subtasks] /\ \A n \in Names : g[n].pc \notin {"running", "waiting"}
    BY <1>a DEF Checks!Idle
  <2> HIDE DEF g
  <2> QED BY <2>1, <2>2, GroupStep
<1>4. ASSUME NEW c \in Callers, NEW n \in Names, Checks!_get_or_run(c, n) PROVE CheckInv'
  BY <1>4, LookStep
<1>5. ASSUME NEW c \in Callers, NEW n \in Names, Checks!_run_check(c, n) \/ Checks!cancels_itself(c, n)
      PROVE  CheckInv'
  <2>1. PICK stage \in {"done", "lost"} :
          h_sub' = Checks!Woken([h_sub EXCEPT ![c][n] = [Checks!Idle EXCEPT !.pc = stage]], {n})
    BY <1>5 DEF Checks!_run_check, Checks!cancels_itself
  <2> DEFINE e == [Checks!Idle EXCEPT !.pc = stage]
             s == [h_sub EXCEPT ![c][n] = e]
  <2>2. e \in Subtasks /\ e.pc = stage
    BY DEF Checks!Idle, Subtasks, Stages
  <2> HIDE DEF e
  <2>3. s \in [Callers -> [Names -> Subtasks]]
    BY <1>0, <2>2 DEF CheckTypes
  <2>4. /\ s[c][n] = e /\ \A m \in Names : m # n => s[c][m] = h_sub[c][m]
        /\ \A d \in Callers : d # c => s[d] = h_sub[d]
    BY <1>0 DEF CheckTypes
  <2>5. /\ h_sub[c][n].pc = "running" /\ h_inflight' = Checks!Cleanup({n}) /\ h_now' = h_now
        /\ h_sub' = Checks!Woken(s, {n})
    BY <1>5, <2>1 DEF Checks!_run_check, Checks!cancels_itself, e
  <2>6. h_inflight[n] = c
    BY <1>0, <2>5 DEF LeaderRuns
  <2> HIDE DEF s
  <2>7. /\ \A m \in Names : s[c][m].pc # "running" \/ (m \notin {n} /\ s[c][m] = h_sub[c][m])
        /\ \A m \in Names : s[c][m].pc # "waiting" \/ s[c][m] = h_sub[c][m]
        /\ \A m \in Names \ {n} : s[c][m].pc = "running" <=> h_sub[c][m].pc = "running"
        /\ \A m \in {n} : h_sub[c][m].pc = "running"
    BY <2>2, <2>4, <2>5
  <2> QED BY <2>3, <2>4, <2>5, <2>7, RunsEnd
<1>6. ASSUME NEW c \in Callers, Checks!cancel(c) PROVE CheckInv'
  <2>1. PICK ns \in SUBSET Names : ns = {n \in Names : h_sub[c][n].pc = "running"}
    OBVIOUS
  <2> DEFINE s == [h_sub EXCEPT ![c] = [n \in Names |-> Checks!Idle]]
  <2>2. h_sub' = Checks!Woken(s, ns) /\ h_inflight' = Checks!Cleanup(ns) /\ h_now' = h_now
    BY <1>6, <2>1 DEF Checks!cancel
  <2>3. s \in [Callers -> [Names -> Subtasks]]
    BY <1>0, <1>a DEF CheckTypes, Checks!Idle
  <2>4. /\ \A n \in Names : s[c][n].pc = "none"
        /\ \A d \in Callers : d # c => s[d] = h_sub[d]
    BY <1>0 DEF CheckTypes, Checks!Idle
  <2>5. \A n \in Names \ ns : s[c][n].pc = "running" <=> h_sub[c][n].pc = "running"
    BY <2>1, <2>4
  <2> HIDE DEF s
  <2> QED BY <2>1, <2>2, <2>3, <2>4, <2>5, RunsEnd
<1>7. ASSUME NEW n \in Names, NEW critical \in BOOLEAN, Checks!check(n, critical)
      PROVE  UNCHANGED <<h_sub, h_inflight, h_now>>
  BY <1>7 DEF Checks!check, Checks!add
<1>8. ASSUME NEW n \in Names, NEW p, Checks!add_provider(p, n)
      PROVE  UNCHANGED <<h_sub, h_inflight, h_now>>
  BY <1>8 DEF Checks!add_provider, Checks!add
<1>9. ASSUME NEW n \in Names, Checks!thread_ends(n) PROVE UNCHANGED <<h_sub, h_inflight, h_now>>
  BY <1>9 DEF Checks!thread_ends
<1>10. CASE Checks!_register_active_providers \/ Checks!reconfigure \/ Checks!Tick
            \/ UNCHANGED Checks!vars
  BY <1>1, <1>10 DEF Checks!_register_active_providers, Checks!reconfigure, Checks!Tick, Checks!vars
<1> QED BY <1>1, <1>2, <1>3, <1>4, <1>5, <1>6, <1>7, <1>8, <1>9, <1>10 DEF Checks!Next

LEMMA ChecksInit ==
  ASSUME Checks!HealthAssumption, Checks!Init
  PROVE  CheckInv
<1>1. [pc |-> "none", since |-> 0] \in Subtasks
  BY DEF Subtasks, Stages
<1>2. CheckTypes
  BY <1>1 DEF Checks!Init, CheckTypes, Checks!Idle
<1>3. \A c \in Callers, n \in Names : h_sub[c][n].pc = "none" /\ h_inflight[n] = Null
  BY DEF Checks!Init, Checks!Idle
<1> QED BY <1>2, <1>3 DEF CheckInv, LeaderRuns, WaitersAreLed, Checks!HealthAssumption

\* A check is never run by two requests at once, and whoever waits for a run has a
\* live one to wait for, whatever is cancelled, timed out or reconfigured
\* (_checks.py, _get_or_run and the finally clause of _run_check).
THEOREM ChecksAreShared ==
  ASSUME Checks!HealthAssumption
  PROVE  Checks!Spec => []ChecksFold
<1>1. Checks!Init => CheckInv
  BY ChecksInit
<1>2. CheckInv => ChecksFold
  <2> SUFFICES ASSUME CheckInv, NEW n \in Names
               PROVE  /\ Cardinality({c \in Callers : h_sub[c][n].pc = "running"}) <= 1
                      /\ (\E c \in Callers : h_sub[c][n].pc = "waiting") =>
                           h_inflight[n] # Null /\ h_sub[h_inflight[n]][n].pc = "running"
    BY ChecksCardinality DEF ChecksFold, Checks!ChecksFold
  <2>1. Cardinality({c \in Callers : h_sub[c][n].pc = "running"}) <= 1
    <3>1. \A x, y \in {c \in Callers : h_sub[c][n].pc = "running"} : x = y
      BY DEF CheckInv, LeaderRuns
    <3> QED BY <3>1, AtMostOne
  <2>2. h_inflight[n] \in Callers \cup {Null}
    BY DEF CheckInv, CheckTypes
  <2>3. (\E c \in Callers : h_sub[c][n].pc = "waiting") =>
          h_inflight[n] # Null /\ h_sub[h_inflight[n]][n].pc = "running"
    BY <2>2 DEF CheckInv, LeaderRuns, WaitersAreLed
  <2> QED BY <2>1, <2>3
<1> QED BY <1>1, <1>2, CheckStep, PTL DEF Checks!Spec

-----------------------------------------------------------------------------
\* The threads of checks that nobody waits for any more.

\* The requests that have still to give an answer for a name.
Owing(n) == {c \in Callers : h_sub[c][n].pc \in {"looking", "waiting", "running"}}

\* A request leaves at most one thread behind per check.
ThreadsAreOwed ==
  /\ h_threads \in [Names -> Nat] /\ h_runs \in 0..MaxRuns
  /\ \A n \in Names : h_threads[n] + Cardinality(Owing(n)) <= h_runs

ThreadInv ==
  /\ CheckInv /\ ThreadsAreOwed
  /\ h_cache_ttl \in CheckTTLs /\ h_now \in 0..CheckTime

LEMMA OwingFinite ==
  ASSUME Checks!HealthAssumption, NEW n
  PROVE  /\ IsFiniteSet(Owing(n)) /\ Cardinality(Owing(n)) \in Nat
         /\ IsFiniteSet(Owing(n)') /\ Cardinality(Owing(n)') \in Nat
<1>1. IsFiniteSet(Callers)
  BY DEF Checks!HealthAssumption, Checks!IsFiniteSet, IsFiniteSet
<1>2. Owing(n) \subseteq Callers /\ Owing(n)' \subseteq Callers
  BY DEF Owing
<1> QED BY <1>1, <1>2, FS_Subset, FS_CardinalityType

LEMMA AtMostOneMore ==
  ASSUME NEW S, NEW c, IsFiniteSet(S)
  PROVE  IsFiniteSet(S \cup {c}) /\ Cardinality(S \cup {c}) <= Cardinality(S) + 1
<1>1. Cardinality(S) \in Nat
  BY FS_CardinalityType
<1> QED BY <1>1, FS_AddElement

\* What one step may do to the threads of a name and to the requests that owe its answer.
LEMMA ThreadsMove ==
  ASSUME Checks!HealthAssumption, ThreadsAreOwed, NEW c \in Callers, NEW n \in Names,
         h_threads'[n] \in Nat, h_runs' \in Nat,
         \/ Owing(n)' \subseteq Owing(n) /\ h_threads'[n] <= h_threads[n] /\ h_runs' = h_runs
         \/ /\ Owing(n)' \subseteq Owing(n) \cup {c} /\ h_threads'[n] = h_threads[n]
            /\ h_runs' = h_runs + 1
         \/ /\ c \in Owing(n) /\ Owing(n)' \subseteq Owing(n) \ {c}
            /\ h_threads'[n] <= h_threads[n] + 1 /\ h_runs' = h_runs
  PROVE  h_threads'[n] + Cardinality(Owing(n)') <= h_runs'
<1>0. /\ h_threads[n] \in Nat /\ h_runs \in Nat
      /\ h_threads[n] + Cardinality(Owing(n)) <= h_runs
  BY DEF ThreadsAreOwed, Checks!HealthAssumption
<1>1. CASE Owing(n)' \subseteq Owing(n) /\ h_threads'[n] <= h_threads[n] /\ h_runs' = h_runs
  <2>1. Cardinality(Owing(n)') <= Cardinality(Owing(n))
    BY <1>1, OwingFinite, FS_Subset
  <2> QED BY <1>0, <1>1, <2>1, OwingFinite
<1>2. CASE /\ Owing(n)' \subseteq Owing(n) \cup {c} /\ h_threads'[n] = h_threads[n]
           /\ h_runs' = h_runs + 1
  <2>1. /\ IsFiniteSet(Owing(n) \cup {c})
        /\ Cardinality(Owing(n) \cup {c}) <= Cardinality(Owing(n)) + 1
    BY OwingFinite, AtMostOneMore
  <2>2. Cardinality(Owing(n)') <= Cardinality(Owing(n) \cup {c})
    BY <1>2, <2>1, FS_Subset
  <2>3. Cardinality(Owing(n) \cup {c}) \in Nat
    BY <2>1, FS_CardinalityType
  <2> QED BY <1>0, <1>2, <2>1, <2>2, <2>3, OwingFinite
<1>3. CASE /\ c \in Owing(n) /\ Owing(n)' \subseteq Owing(n) \ {c}
           /\ h_threads'[n] <= h_threads[n] + 1 /\ h_runs' = h_runs
  <2>1. /\ IsFiniteSet(Owing(n) \ {c})
        /\ Cardinality(Owing(n) \ {c}) = Cardinality(Owing(n)) - 1
    BY <1>3, OwingFinite, FS_RemoveElement
  <2>2. Cardinality(Owing(n)') <= Cardinality(Owing(n) \ {c})
    BY <1>3, <2>1, FS_Subset
  <2> QED BY <1>0, <1>3, <2>1, <2>2, OwingFinite
<1> QED BY <1>1, <1>2, <1>3

\* Waiters that are woken still owe their answers.
LEMMA WokenOwes ==
  ASSUME NEW s \in [Callers -> [Names -> Subtasks]], NEW ns, h_sub' = Checks!Woken(s, ns),
         NEW n \in Names
  PROVE  Owing(n)' = {d \in Callers : s[d][n].pc \in {"looking", "waiting", "running"}}
<1>1. ASSUME NEW d \in Callers
      PROVE  h_sub'[d][n].pc \in {"looking", "waiting", "running"}
             <=> s[d][n].pc \in {"looking", "waiting", "running"}
  <2>1. s[d][n] \in Subtasks
    OBVIOUS
  <2>2. [s[d][n] EXCEPT !.pc = "looking"].pc = "looking"
    BY <2>1 DEF Subtasks
  <2>3. h_sub'[d] = [m \in Names |-> IF m \in ns /\ s[d][m].pc = "waiting"
                                     THEN [s[d][m] EXCEPT !.pc = "looking"] ELSE s[d][m]]
    BY DEF Checks!Woken
  <2>4. h_sub'[d][n] = IF n \in ns /\ s[d][n].pc = "waiting" THEN [s[d][n] EXCEPT !.pc = "looking"]
                       ELSE s[d][n]
    BY <2>3
  <2> QED BY <2>2, <2>4
<1> QED BY <1>1 DEF Owing

LEMMA ThreadStep ==
  ASSUME Checks!HealthAssumption, ThreadInv, [Checks!Next]_Checks!vars
  PROVE  ThreadInv'
<1>0. /\ h_sub \in [Callers -> [Names -> Subtasks]]
      /\ h_threads \in [Names -> Nat] /\ h_runs \in 0..MaxRuns /\ h_runs \in Nat /\ MaxRuns \in Nat
      /\ CheckTTLs \subseteq Nat /\ h_cache_ttl \in CheckTTLs /\ h_now \in 0..CheckTime
      /\ CheckTime \in Nat /\ ThreadsAreOwed
  BY DEF ThreadInv, ThreadsAreOwed, CheckInv, CheckTypes, Checks!HealthAssumption
<1>1. CheckInv'
  BY CheckStep DEF ThreadInv
<1> DEFINE Frame == h_cache_ttl' = h_cache_ttl /\ h_now' = h_now
<1>a. ASSUME NEW c \in Callers, Frame, h_threads' \in [Names -> Nat], h_runs' \in 0..MaxRuns,
             \A n \in Names :
               \/ Owing(n)' \subseteq Owing(n) /\ h_threads'[n] <= h_threads[n] /\ h_runs' = h_runs
               \/ /\ Owing(n)' \subseteq Owing(n) \cup {c} /\ h_threads'[n] = h_threads[n]
                  /\ h_runs' = h_runs + 1
               \/ /\ c \in Owing(n) /\ Owing(n)' \subseteq Owing(n) \ {c}
                  /\ h_threads'[n] <= h_threads[n] + 1 /\ h_runs' = h_runs
      PROVE  ThreadInv'
  <2>1. \A n \in Names : h_threads'[n] \in Nat /\ h_runs' \in Nat
    BY <1>0, <1>a
  <2>2. \A n \in Names : h_threads'[n] + Cardinality(Owing(n)') <= h_runs'
    BY <1>0, <1>a, <2>1, ThreadsMove
  <2> QED BY <1>0, <1>1, <1>a, <2>2 DEF ThreadInv, ThreadsAreOwed
<1>b. ASSUME UNCHANGED <<h_sub, h_threads, h_runs>>, h_cache_ttl' \in CheckTTLs,
             h_now' \in 0..CheckTime
      PROVE  ThreadInv'
  BY <1>0, <1>1, <1>b DEF ThreadInv, ThreadsAreOwed, Owing
<1>2. ASSUME NEW c \in Callers, NEW exclude \in SUBSET Names,
             Checks!readyz(c, exclude) \/ Checks!healthz(c, exclude)
      PROVE  ThreadInv'
  <2>1. PICK selected : Checks!run(c, selected)
    BY <1>2 DEF Checks!readyz, Checks!healthz
  <2>2. Frame /\ h_threads' = h_threads /\ h_runs' = h_runs + 1 /\ h_runs < MaxRuns
    BY <2>1 DEF Checks!run
  <2>3. \A d \in Callers : d # c => h_sub'[d] = h_sub[d]
    BY <1>0, <2>1 DEF Checks!run
  <2>4. \A n \in Names : Owing(n)' \subseteq Owing(n) \cup {c}
    BY <2>3 DEF Owing
  <2> QED BY <1>0, <1>a, <2>2, <2>4
<1>3. ASSUME NEW c \in Callers, Checks!report(c) PROVE ThreadInv'
  <2>1. Frame /\ h_threads' = h_threads /\ h_runs' = h_runs
    BY <1>3 DEF Checks!report
  <2>2. \A d \in Callers, n \in Names : h_sub'[d][n] = h_sub[d][n] \/ h_sub'[d][n].pc = "none"
    BY <1>0, <1>3 DEF Checks!report, Checks!Idle
  <2>3. \A n \in Names : Owing(n)' \subseteq Owing(n)
    BY <2>2 DEF Owing
  <2> QED BY <1>0, <1>a, <2>1, <2>3
<1>4. ASSUME NEW c \in Callers, NEW n \in Names, Checks!_get_or_run(c, n) PROVE ThreadInv'
  <2>1. Frame /\ h_threads' = h_threads /\ h_runs' = h_runs /\ c \in Owing(n)
    BY <1>4 DEF Checks!_get_or_run, Owing
  <2>2. \A d \in Callers, m \in Names : d # c \/ m # n => h_sub'[d][m] = h_sub[d][m]
    BY <1>0, <1>4 DEF Checks!_get_or_run
  <2>3. \A m \in Names : Owing(m)' \subseteq Owing(m)
    BY <2>1, <2>2 DEF Owing
  <2> QED BY <1>0, <1>a, <2>1, <2>3
<1>5. ASSUME NEW c \in Callers, NEW n \in Names, Checks!_run_check(c, n) \/ Checks!cancels_itself(c, n)
      PROVE  ThreadInv'
  <2>1. PICK stage \in {"done", "lost"} :
          h_sub' = Checks!Woken([h_sub EXCEPT ![c][n] = [Checks!Idle EXCEPT !.pc = stage]], {n})
    BY <1>5 DEF Checks!_run_check, Checks!cancels_itself
  <2> DEFINE e == [Checks!Idle EXCEPT !.pc = stage]
             s == [h_sub EXCEPT ![c][n] = e]
  <2>2. e \in Subtasks /\ e.pc = stage
    BY DEF Checks!Idle, Subtasks, Stages
  <2>3. Frame /\ h_runs' = h_runs /\ c \in Owing(n)
    BY <1>5 DEF Checks!_run_check, Checks!cancels_itself, Owing
  <2>4. h_threads' = h_threads \/ h_threads' = [h_threads EXCEPT ![n] = @ + 1]
    BY <1>5 DEF Checks!_run_check, Checks!cancels_itself
  <2>5. h_sub' = Checks!Woken(s, {n})
    BY <2>1
  <2> HIDE DEF e
  <2>6. s \in [Callers -> [Names -> Subtasks]]
    BY <1>0, <2>2
  <2>7. /\ s[c][n] = e /\ \A m \in Names : m # n => s[c][m] = h_sub[c][m]
        /\ \A d \in Callers : d # c => s[d] = h_sub[d]
    BY <1>0
  <2> HIDE DEF s
  <2>8. \A m \in Names : Owing(m)' = {d \in Callers : s[d][m].pc \in {"looking", "waiting", "running"}}
    BY <2>5, <2>6, WokenOwes
  <2>9. /\ Owing(n)' \subseteq Owing(n) \ {c}
        /\ \A m \in Names : m # n => Owing(m)' \subseteq Owing(m)
    BY <2>2, <2>7, <2>8 DEF Owing
  <2>10. /\ h_threads' \in [Names -> Nat] /\ h_threads'[n] <= h_threads[n] + 1
         /\ \A m \in Names : m # n => h_threads'[m] = h_threads[m]
    BY <1>0, <2>4
  <2>11. \A m \in Names : h_threads[m] \in Nat
    BY <1>0
  <2> QED BY <1>0, <1>a, <2>3, <2>9, <2>10, <2>11
<1>6. ASSUME NEW c \in Callers, Checks!cancel(c) PROVE ThreadInv'
  <2>1. PICK ns \in SUBSET Names : ns = {n \in Names : h_sub[c][n].pc = "running"}
    OBVIOUS
  <2> DEFINE s == [h_sub EXCEPT ![c] = [n \in Names |-> Checks!Idle]]
  <2>2. /\ h_sub' = Checks!Woken(s, ns) /\ Frame /\ h_runs' = h_runs
        /\ h_threads' = [n \in Names |-> IF n \in ns \cap ThreadChecks THEN h_threads[n] + 1
                                         ELSE h_threads[n]]
    BY <1>6, <2>1 DEF Checks!cancel
  <2>3. [pc |-> "none", since |-> 0] \in Subtasks
    BY DEF Subtasks, Stages
  <2>4. s \in [Callers -> [Names -> Subtasks]]
    BY <1>0, <2>3 DEF Checks!Idle
  <2>5. /\ \A n \in Names : s[c][n].pc = "none"
        /\ \A d \in Callers : d # c => s[d] = h_sub[d]
    BY <1>0 DEF Checks!Idle
  <2> HIDE DEF s
  <2>6. \A m \in Names : Owing(m)' = {d \in Callers : s[d][m].pc \in {"looking", "waiting", "running"}}
    BY <2>2, <2>4, WokenOwes
  <2>7. \A n \in Names : Owing(n)' \subseteq Owing(n) \ {c}
    BY <2>5, <2>6 DEF Owing
  <2>8. \A n \in ns : c \in Owing(n)
    BY <2>1 DEF Owing
  <2>9. \A n \in Names : h_threads[n] \in Nat /\ h_threads[n] + 1 \in Nat
    BY <1>0
  <2>10. /\ h_threads' \in [Names -> Nat]
         /\ \A n \in Names : h_threads'[n] <= h_threads[n] + 1
         /\ \A n \in Names : n \notin ns => h_threads'[n] <= h_threads[n]
    BY <2>2, <2>9
  <2> QED BY <1>0, <1>a, <2>2, <2>7, <2>8, <2>10
<1>7. ASSUME NEW n \in Names, Checks!thread_ends(n) PROVE ThreadInv'
  <2>1. /\ Frame /\ h_runs' = h_runs /\ h_sub' = h_sub /\ h_threads[n] > 0
        /\ h_threads' = [h_threads EXCEPT ![n] = @ - 1]
    BY <1>7 DEF Checks!thread_ends
  <2>2. \A m \in Names : Owing(m)' = Owing(m)
    BY <2>1 DEF Owing
  <2>3. /\ h_threads' \in [Names -> Nat]
        /\ \A m \in Names : h_threads'[m] \in Nat /\ h_threads[m] \in Nat /\ h_threads'[m] <= h_threads[m]
    BY <1>0, <2>1
  <2>4. \A m \in Names : /\ h_threads[m] + Cardinality(Owing(m)) <= h_runs
                         /\ Cardinality(Owing(m)) \in Nat
    BY <1>0, OwingFinite DEF ThreadsAreOwed
  <2>5. \A m \in Names : h_threads'[m] + Cardinality(Owing(m)') <= h_runs'
    BY <1>0, <2>1, <2>2, <2>3, <2>4
  <2> QED BY <1>0, <1>1, <2>1, <2>3, <2>5 DEF ThreadInv, ThreadsAreOwed
<1>8. ASSUME NEW n \in Names, NEW critical \in BOOLEAN, Checks!check(n, critical)
      PROVE  ThreadInv'
  BY <1>0, <1>b, <1>8 DEF Checks!check, Checks!add
<1>9. ASSUME NEW n \in Names, NEW p, Checks!add_provider(p, n)
      PROVE  ThreadInv'
  BY <1>0, <1>b, <1>9 DEF Checks!add_provider, Checks!add
<1>10. CASE Checks!_register_active_providers \/ Checks!reconfigure \/ Checks!Tick
            \/ UNCHANGED Checks!vars
  <2>1. CASE Checks!_register_active_providers \/ UNCHANGED Checks!vars
    <3>1. UNCHANGED <<h_sub, h_threads, h_runs, h_cache_ttl, h_now>>
      BY <2>1, Zenon DEF Checks!_register_active_providers, Checks!vars
    <3> QED BY <1>0, <1>b, <3>1
  <2>2. CASE Checks!reconfigure \/ Checks!Tick
    BY <1>0, <1>b, <2>2 DEF Checks!reconfigure, Checks!Tick
  <2> QED BY <1>10, <2>1, <2>2
<1> QED BY <1>2, <1>3, <1>4, <1>5, <1>6, <1>7, <1>8, <1>9, <1>10 DEF Checks!Next

\* Types of the health checks: a request leaves at most one thread behind per check, so
\* there are never more than the requests that were made.
LEMMA ChecksKeepTypes ==
  ASSUME Checks!HealthAssumption
  PROVE  Checks!Spec => []Checks!TypeOK
<1>1. Checks!Init => ThreadInv
  <2> SUFFICES ASSUME Checks!Init PROVE ThreadInv
    OBVIOUS
  <2>1. CheckInv
    BY ChecksInit
  <2>2. \A n \in Names : Owing(n) = {}
    BY DEF Checks!Init, Checks!Idle, Owing
  <2>3. /\ h_threads = [n \in Names |-> 0] /\ h_runs = 0 /\ h_now = 0
        /\ h_cache_ttl \in CheckTTLs /\ MaxRuns \in Nat /\ CheckTime \in Nat
    BY DEF Checks!Init, Checks!HealthAssumption
  <2>4. Cardinality({}) = 0
    BY FS_EmptySet
  <2>5. ThreadsAreOwed
    BY <2>2, <2>3, <2>4 DEF ThreadsAreOwed
  <2> QED BY <2>1, <2>3, <2>5 DEF ThreadInv
<1>2. ThreadInv => Checks!TypeOK
  <2> SUFFICES ASSUME ThreadInv PROVE Checks!TypeOK
    OBVIOUS
  <2>1. \A c \in Callers, n \in Names : h_sub[c][n].pc \in Stages
    BY DEF ThreadInv, CheckInv, CheckTypes, Subtasks
  <2>2. ASSUME NEW n \in Names PROVE h_threads[n] \in 0..MaxRuns
    <3>1. h_threads[n] \in Nat /\ h_runs \in 0..MaxRuns /\ MaxRuns \in Nat
      BY DEF ThreadInv, ThreadsAreOwed, Checks!HealthAssumption
    <3>2. h_threads[n] + Cardinality(Owing(n)) <= h_runs /\ Cardinality(Owing(n)) \in Nat
      BY OwingFinite DEF ThreadInv, ThreadsAreOwed
    <3> QED BY <3>1, <3>2
  <2>3. h_threads \in [Names -> 0..MaxRuns]
    BY <2>2 DEF ThreadInv, ThreadsAreOwed
  <2> QED BY <2>1, <2>3 DEF ThreadInv, ThreadsAreOwed, CheckInv, CheckTypes, Stages, Checks!TypeOK
<1> QED BY <1>1, <1>2, ThreadStep, PTL DEF Checks!Spec

-----------------------------------------------------------------------------
\* The gate and the retry budget of a shield.

Samples == {s \in Seq(Int) : Len(s) <= SampleWindow}
Gates ==
  [config : Recoveries, enabled : BOOLEAN, tokens : 0..Burst, updated_at : Nat, max_rate : Rates,
   available : Nat, samples : Samples]

\* A gate at time t, with what went through it, what its rates allowed and the retries
\* since the last success: what it may still send counts as sent.
GateKeeps(s, sent, allowed, again, t) ==
  /\ s \in Gates /\ s.updated_at <= t
  /\ s.enabled = TRUE => sent + s.tokens + (t - s.updated_at) * s.max_rate <= allowed
  /\ again + s.available <= Capacity

\* What a call under way has consumed of the budget, and when it began.
IsCall(r) ==
  /\ "pc" \in DOMAIN r /\ r.pc \in {"idle", "gate", "calling", "sleeping", "giving_up"}
  /\ r.pc \in {"gate", "calling", "sleeping"} =>
       /\ {"consumed", "started"} \subseteq DOMAIN r
       /\ r.consumed \in Nat /\ r.started \in Nat

GuardTypes ==
  /\ s_now \in Nat /\ s_state \in Seq(Gates)
  /\ s_spent \in Seq(Nat) /\ Len(s_spent) = Len(s_state)
  /\ s_earned \in Seq(Nat) /\ Len(s_earned) = Len(s_state)
  /\ s_retries \in Seq(Nat) /\ Len(s_retries) = Len(s_state)
GuardCalls ==
  /\ DOMAIN s_call = Callers
  /\ \A c \in Callers : IsCall(s_call[c])
GatesKeep ==
  \A g \in 1..Len(s_state) : GateKeeps(s_state[g], s_spent[g], s_earned[g], s_retries[g], s_now)

GuardInv == GuardTypes /\ GuardCalls /\ GatesKeep

\* Parts of a state that change together.
LEMMA GateParts ==
  ASSUME NEW s \in Gates
  PROVE  /\ s.enabled \in BOOLEAN /\ s.tokens \in Nat /\ s.tokens <= Burst /\ s.updated_at \in Nat
         /\ s.max_rate \in Rates /\ s.available \in Nat /\ s.samples \in Samples
         /\ \A n \in 0..Burst : LET x == [s EXCEPT !.tokens = n] IN
              /\ x \in Gates /\ x.tokens = n /\ x.enabled = s.enabled /\ x.updated_at = s.updated_at
              /\ x.max_rate = s.max_rate /\ x.available = s.available /\ x.samples = s.samples
         /\ \A n \in Nat : LET x == [s EXCEPT !.updated_at = n] IN
              /\ x \in Gates /\ x.tokens = s.tokens /\ x.enabled = s.enabled /\ x.updated_at = n
              /\ x.max_rate = s.max_rate /\ x.available = s.available /\ x.samples = s.samples
         /\ \A n \in Rates : LET x == [s EXCEPT !.max_rate = n] IN
              /\ x \in Gates /\ x.tokens = s.tokens /\ x.enabled = s.enabled
              /\ x.updated_at = s.updated_at
              /\ x.max_rate = n /\ x.available = s.available /\ x.samples = s.samples
         /\ \A n \in Nat : LET x == [s EXCEPT !.available = n] IN
              /\ x \in Gates /\ x.tokens = s.tokens /\ x.enabled = s.enabled
              /\ x.updated_at = s.updated_at
              /\ x.max_rate = s.max_rate /\ x.available = n /\ x.samples = s.samples
         /\ \A n \in Samples : LET x == [s EXCEPT !.samples = n] IN
              /\ x \in Gates /\ x.tokens = s.tokens /\ x.enabled = s.enabled
              /\ x.updated_at = s.updated_at
              /\ x.max_rate = s.max_rate /\ x.available = s.available /\ x.samples = n
<1>1. /\ s.enabled \in BOOLEAN /\ s.tokens \in Nat /\ s.tokens <= Burst /\ s.updated_at \in Nat
      /\ s.max_rate \in Rates /\ s.available \in Nat /\ s.samples \in Samples
  BY DEF Gates
<1>2. ASSUME NEW n \in 0..Burst
      PROVE  LET x == [s EXCEPT !.tokens = n] IN
              /\ x \in Gates /\ x.tokens = n /\ x.enabled = s.enabled /\ x.updated_at = s.updated_at
              /\ x.max_rate = s.max_rate /\ x.available = s.available /\ x.samples = s.samples
  BY DEF Gates
<1>3. ASSUME NEW n \in Nat
      PROVE  LET x == [s EXCEPT !.updated_at = n] IN
              /\ x \in Gates /\ x.tokens = s.tokens /\ x.enabled = s.enabled /\ x.updated_at = n
              /\ x.max_rate = s.max_rate /\ x.available = s.available /\ x.samples = s.samples
  BY DEF Gates
<1>4. ASSUME NEW n \in Rates
      PROVE  LET x == [s EXCEPT !.max_rate = n] IN
              /\ x \in Gates /\ x.tokens = s.tokens /\ x.enabled = s.enabled
              /\ x.updated_at = s.updated_at
              /\ x.max_rate = n /\ x.available = s.available /\ x.samples = s.samples
  BY DEF Gates
<1>5. ASSUME NEW n \in Nat
      PROVE  LET x == [s EXCEPT !.available = n] IN
              /\ x \in Gates /\ x.tokens = s.tokens /\ x.enabled = s.enabled
              /\ x.updated_at = s.updated_at
              /\ x.max_rate = s.max_rate /\ x.available = n /\ x.samples = s.samples
  BY DEF Gates
<1>6. ASSUME NEW n \in Samples
      PROVE  LET x == [s EXCEPT !.samples = n] IN
              /\ x \in Gates /\ x.tokens = s.tokens /\ x.enabled = s.enabled
              /\ x.updated_at = s.updated_at
              /\ x.max_rate = s.max_rate /\ x.available = s.available /\ x.samples = n
  BY DEF Gates
<1> QED BY <1>1, <1>2, <1>3, <1>4, <1>5, <1>6

\* A bucket that is refilled at the rate of the time that has passed.
LEMMA RefilledKeeps ==
  ASSUME Guard!ShieldAssumption, NEW s \in Gates, NEW t \in Nat,
         NEW sent \in Nat, NEW allowed \in Nat, NEW again \in Nat,
         GateKeeps(s, sent, allowed, again, t)
  PROVE  LET x == [s EXCEPT !.tokens = Guard!Least(Burst, @ + (t - s.updated_at) * s.max_rate),
                            !.updated_at = t]
         IN  /\ GateKeeps(x, sent, allowed, again, t)
             /\ x.updated_at = t /\ x.enabled = s.enabled
             /\ x.available = s.available /\ x.max_rate = s.max_rate
<1>1. /\ s.tokens \in Nat /\ s.updated_at \in Nat /\ s.max_rate \in Nat /\ s.available \in Nat
      /\ Burst \in Nat /\ Capacity \in Nat
  BY GateParts DEF Guard!ShieldAssumption
<1> DEFINE due == (t - s.updated_at) * s.max_rate
           n == Guard!Least(Burst, s.tokens + due)
           y == [s EXCEPT !.tokens = n]
           x == [y EXCEPT !.updated_at = t]
<1>2. t - s.updated_at \in Nat BY <1>1 DEF GateKeeps
<1>3. due \in Nat BY <1>1, <1>2
<1>4. n \in Nat /\ n \in 0..Burst /\ n <= s.tokens + due
  <2> HIDE DEF due
  <2> QED BY <1>1, <1>3 DEF Guard!Least
<1>5. [s EXCEPT !.tokens = Guard!Least(Burst, @ + due), !.updated_at = t] = x
  <2> HIDE DEF due
  <2> QED BY DEF Gates
<1> HIDE DEF n
<1>6. y \in Gates /\ y.tokens = n /\ y.enabled = s.enabled /\ y.updated_at = s.updated_at
      /\ y.max_rate = s.max_rate /\ y.available = s.available
  BY <1>4, GateParts
<1> HIDE DEF y
<1>7. x \in Gates /\ x.tokens = n /\ x.enabled = s.enabled /\ x.updated_at = t
      /\ x.max_rate = s.max_rate /\ x.available = s.available
  BY <1>6, GateParts
<1> HIDE DEF x
<1>8. s.enabled = TRUE => sent + s.tokens + due <= allowed
  BY DEF GateKeeps
<1> HIDE DEF due
<1>9. x.enabled = TRUE => sent + x.tokens + (t - x.updated_at) * x.max_rate <= allowed
  <2>1. (t - x.updated_at) * x.max_rate = 0 BY <1>1, <1>7
  <2> QED BY <2>1, <1>1, <1>3, <1>4, <1>7, <1>8
<1>10. again + x.available <= Capacity BY <1>7 DEF GateKeeps
<1>11. x.updated_at <= t BY <1>7
<1> QED BY <1>5, <1>7, <1>9, <1>10, <1>11 DEF due, GateKeeps

\* A new rate begins with a bucket that was refilled at the old one.
LEMMA RatedKeeps ==
  ASSUME Guard!ShieldAssumption, NEW g, s_state[g] \in Gates, s_now \in Nat,
         NEW s \in Gates, NEW rate \in Rates,
         NEW sent \in Nat, NEW allowed \in Nat, NEW again \in Nat,
         GateKeeps(s_state[g], sent, allowed, again, s_now),
         GateKeeps(s, sent, allowed, again, s_now), s_state[g].available = s.available
  PROVE  LET x == Guard!_apply_rate(s, g, rate)
         IN  GateKeeps(x, sent, allowed, again, s_now) /\ x.available = s.available
<1> DEFINE x == Guard!_apply_rate(s, g, rate)
<1>0. rate \in Nat /\ Capacity \in Nat /\ Burst \in Nat BY DEF Guard!ShieldAssumption
<1>1. CASE s.updated_at = s_now
  <2> DEFINE y == [s EXCEPT !.max_rate = rate]
  <2>1. x = y BY <1>1 DEF Guard!_apply_rate
  <2>2. y \in Gates /\ y.tokens = s.tokens /\ y.enabled = s.enabled
        /\ y.updated_at = s.updated_at /\ y.max_rate = rate /\ y.available = s.available
    BY GateParts
  <2> HIDE DEF y, x
  <2>3. s.tokens \in Nat /\ s.max_rate \in Nat BY GateParts DEF Guard!ShieldAssumption
  <2>4. (s_now - s.updated_at) * s.max_rate = 0 /\ (s_now - y.updated_at) * y.max_rate = 0
    BY <1>0, <1>1, <2>2, <2>3
  <2>5. y.enabled = TRUE => sent + y.tokens + (s_now - y.updated_at) * y.max_rate <= allowed
    BY <2>2, <2>3, <2>4 DEF GateKeeps
  <2> QED BY <2>1, <2>2, <2>5 DEF GateKeeps, x
<1>2. CASE s.updated_at # s_now
  <2> DEFINE r == Guard!_refill(g)
             a == [r EXCEPT !.max_rate = rate]
             b == [a EXCEPT !.available = s.available]
             y == [b EXCEPT !.samples = s.samples]
  <2>1. /\ GateKeeps(r, sent, allowed, again, s_now) /\ r.updated_at = s_now
        /\ r.enabled = s_state[g].enabled /\ r.available = s_state[g].available
    BY RefilledKeeps DEF Guard!_refill
  <2>2. x = [r EXCEPT !.max_rate = rate, !.available = s.available, !.samples = s.samples]
    BY <1>2 DEF Guard!_apply_rate
  <2>3. r \in Gates BY <2>1 DEF GateKeeps
  <2> HIDE DEF r, x
  <2>4. x = y BY <2>2, <2>3 DEF Gates
  <2>5. a \in Gates /\ a.tokens = r.tokens /\ a.enabled = r.enabled
        /\ a.updated_at = r.updated_at /\ a.max_rate = rate
    BY <2>3, GateParts
  <2> HIDE DEF a
  <2>6. s.available \in Nat /\ s.samples \in Samples BY GateParts
  <2>7. b \in Gates /\ b.tokens = r.tokens /\ b.enabled = r.enabled
        /\ b.updated_at = r.updated_at /\ b.max_rate = rate /\ b.available = s.available
    BY <2>5, <2>6, GateParts
  <2> HIDE DEF b
  <2>8. y \in Gates /\ y.tokens = r.tokens /\ y.enabled = r.enabled
        /\ y.updated_at = r.updated_at /\ y.max_rate = rate /\ y.available = s.available
    BY <2>6, <2>7, GateParts
  <2> HIDE DEF y
  <2>9. r.tokens \in Nat /\ r.max_rate \in Nat BY <2>3, GateParts DEF Guard!ShieldAssumption
  <2>10. (s_now - r.updated_at) * r.max_rate = 0 /\ (s_now - y.updated_at) * y.max_rate = 0
    BY <1>0, <2>1, <2>8, <2>9
  <2>11. y.enabled = TRUE => sent + y.tokens + (s_now - y.updated_at) * y.max_rate <= allowed
    BY <2>1, <2>8, <2>9, <2>10 DEF GateKeeps
  <2>12. again + y.available <= Capacity /\ y.updated_at <= s_now
    BY <2>1, <2>8 DEF GateKeeps
  <2> QED BY <2>4, <2>8, <2>11, <2>12 DEF GateKeeps, x
<1> QED BY <1>1, <1>2

\* A refund never passes the capacity.
LEMMA RefundKeeps ==
  ASSUME Guard!ShieldAssumption, NEW s \in Gates, NEW amount \in Nat, NEW t \in Nat,
         NEW sent \in Nat, NEW allowed \in Nat, NEW again \in Nat,
         GateKeeps(s, sent, allowed, again, t)
  PROVE  GateKeeps(Guard!refund(s, amount), sent, allowed, 0, t)
<1> DEFINE n == Guard!Least(Capacity, s.available + amount)
           x == [s EXCEPT !.available = n]
<1>1. s.available \in Nat /\ Capacity \in Nat BY GateParts DEF Guard!ShieldAssumption
<1>2. n \in Nat /\ n <= Capacity BY <1>1 DEF Guard!Least
<1>3. Guard!refund(s, amount) = x BY DEF Guard!refund, Gates
<1> HIDE DEF n
<1>4. x \in Gates /\ x.tokens = s.tokens /\ x.enabled = s.enabled /\ x.updated_at = s.updated_at
      /\ x.max_rate = s.max_rate /\ x.available = n
  BY <1>2, GateParts
<1> HIDE DEF x
<1>5. x.enabled = TRUE => sent + x.tokens + (t - x.updated_at) * x.max_rate <= allowed
  BY <1>4 DEF GateKeeps
<1>6. 0 + x.available <= Capacity BY <1>1, <1>2, <1>4
<1> QED BY <1>3, <1>4, <1>5, <1>6 DEF GateKeeps

LEMMA EntryMoves ==
  ASSUME NEW S, NEW seq \in Seq(S), NEW g, NEW e, g \in 1..Len(seq) => e \in S
  PROVE  LET x == [seq EXCEPT ![g] = e] IN
           /\ x \in Seq(S) /\ Len(x) = Len(seq)
           /\ \A j \in 1..Len(seq) : x[j] = IF j = g THEN e ELSE seq[j]
<1>1. CASE g \in 1..Len(seq) BY <1>1, ExceptSeq
<1>2. CASE g \notin 1..Len(seq)
  <2>1. [seq EXCEPT ![g] = e] = seq BY <1>2
  <2> QED BY <1>2, <2>1
<1> QED BY <1>1, <1>2

LEMMA OneGateMoves ==
  ASSUME GuardTypes, GatesKeep, NEW g, NEW s, NEW sent, NEW allowed, NEW again,
         UNCHANGED s_now, s_state' = [s_state EXCEPT ![g] = s],
         s_spent' = [s_spent EXCEPT ![g] = sent], s_earned' = [s_earned EXCEPT ![g] = allowed],
         s_retries' = [s_retries EXCEPT ![g] = again],
         g \in 1..Len(s_state) =>
           /\ sent \in Nat /\ allowed \in Nat /\ again \in Nat
           /\ GateKeeps(s, sent, allowed, again, s_now)
  PROVE  GuardTypes' /\ GatesKeep'
<1>1. g \in 1..Len(s_state) => s \in Gates BY DEF GateKeeps
<1>2. s_state' \in Seq(Gates) /\ Len(s_state') = Len(s_state)
  BY <1>1, EntryMoves DEF GuardTypes
<1>3. s_spent' \in Seq(Nat) /\ Len(s_spent') = Len(s_spent)
      /\ s_earned' \in Seq(Nat) /\ Len(s_earned') = Len(s_earned)
      /\ s_retries' \in Seq(Nat) /\ Len(s_retries') = Len(s_retries)
  BY EntryMoves DEF GuardTypes
<1>4. GuardTypes' BY <1>2, <1>3 DEF GuardTypes
<1>5. ASSUME NEW i \in 1..Len(s_state)
      PROVE  GateKeeps(s_state'[i], s_spent'[i], s_earned'[i], s_retries'[i], s_now)
  <2>1. CASE i = g
    <3>1. s_state'[i] = s /\ s_spent'[i] = sent /\ s_earned'[i] = allowed /\ s_retries'[i] = again
      BY <2>1 DEF GuardTypes
    <3> QED BY <2>1, <3>1
  <2>2. CASE i # g
    <3>1. s_state'[i] = s_state[i] /\ s_spent'[i] = s_spent[i] /\ s_earned'[i] = s_earned[i]
          /\ s_retries'[i] = s_retries[i]
      BY <2>2 DEF GuardTypes
    <3> QED BY <3>1 DEF GatesKeep
  <2> QED BY <2>1, <2>2
<1>6. ASSUME NEW i \in 1..Len(s_state')
      PROVE  GateKeeps(s_state[i], s_spent[i], s_earned[i], s_retries[i], s_now)'
  <2>1. i \in 1..Len(s_state) BY <1>2
  <2>2. GateKeeps(s_state'[i], s_spent'[i], s_earned'[i], s_retries'[i], s_now') BY <1>5, <2>1
  <2> QED BY <2>2 DEF GateKeeps
<1> QED BY <1>4, <1>6 DEF GatesKeep

LEMMA SameEntry ==
  ASSUME GuardTypes, NEW g
  PROVE  /\ s_state = [s_state EXCEPT ![g] = s_state[g]]
         /\ s_spent = [s_spent EXCEPT ![g] = s_spent[g]]
         /\ s_earned = [s_earned EXCEPT ![g] = s_earned[g]]
         /\ s_retries = [s_retries EXCEPT ![g] = s_retries[g]]
  BY DEF GuardTypes

LEMMA OneCallMoves ==
  ASSUME GuardCalls, NEW c \in Callers, DOMAIN s_call' = DOMAIN s_call,
         \A d \in Callers \ {c} : s_call'[d] = s_call[d], IsCall(s_call'[c])
  PROVE  GuardCalls'
<1>1. ASSUME NEW d \in Callers PROVE IsCall(s_call[d])'
  <2>1. IsCall(s_call'[d]) BY DEF GuardCalls
  <2> QED BY <2>1 DEF IsCall
<1> QED BY <1>1 DEF GuardCalls

LEMMA GuardSameGates ==
  ASSUME GuardTypes, GatesKeep, UNCHANGED <<s_now, s_state, s_spent, s_earned, s_retries>>
  PROVE  GuardTypes' /\ GatesKeep'
<1>1. GuardTypes' BY DEF GuardTypes
<1>2. GatesKeep' BY DEF GatesKeep, GateKeeps
<1> QED BY <1>1, <1>2

\* The steps that only move a call.
LEMMA GuardCallSteps ==
  ASSUME GuardInv, NEW c \in Callers,
         \/ Guard!_execute(c) \/ Guard!passes_through(c) \/ Guard!fails(c) \/ Guard!retry(c)
         \/ Guard!_handle_give_up(c)
  PROVE  GuardInv'
<1>1. UNCHANGED <<s_now, s_state, s_spent, s_earned, s_retries>>
  BY DEF Guard!_execute, Guard!passes_through, Guard!fails, Guard!retry, Guard!_handle_give_up
<1>2. c \in DOMAIN s_call /\ IsCall(s_call[c]) BY DEF GuardInv, GuardCalls
<1>3. CASE Guard!_execute(c)
  <2>1. IsCall(s_call'[c]) BY <1>2, <1>3 DEF Guard!_execute, IsCall
  <2> QED BY <1>1, <1>3, <2>1, OneCallMoves, GuardSameGates DEF GuardInv, Guard!_execute
<1>4. CASE Guard!passes_through(c)
  <2>1. IsCall(s_call'[c]) BY <1>2, <1>4 DEF Guard!passes_through, IsCall, Guard!Idle
  <2> QED BY <1>1, <1>4, <2>1, OneCallMoves, GuardSameGates DEF GuardInv, Guard!passes_through
<1>5. CASE Guard!fails(c)
  <2>1. IsCall(s_call'[c]) BY <1>2, <1>5 DEF Guard!fails, IsCall
  <2> QED BY <1>1, <1>5, <2>1, OneCallMoves, GuardSameGates DEF GuardInv, Guard!fails
<1>6. CASE Guard!retry(c)
  <2>1. IsCall(s_call'[c]) BY <1>2, <1>6 DEF Guard!retry, IsCall
  <2>2. DOMAIN s_call' = DOMAIN s_call /\ \A d \in Callers \ {c} : s_call'[d] = s_call[d]
    BY <1>6 DEF Guard!retry, GuardInv, GuardCalls
  <2> QED BY <1>1, <2>1, <2>2, OneCallMoves, GuardSameGates DEF GuardInv
<1>7. CASE Guard!_handle_give_up(c)
  <2>1. IsCall(s_call'[c]) BY <1>2, <1>7 DEF Guard!_handle_give_up, IsCall, Guard!Idle
  <2> QED BY <1>1, <1>7, <2>1, OneCallMoves, GuardSameGates DEF GuardInv, Guard!_handle_give_up
<1> QED BY <1>3, <1>4, <1>5, <1>6, <1>7

LEMMA GateAt ==
  ASSUME Guard!ShieldAssumption, GuardInv, NEW g \in 1..Len(s_state)
  PROVE  /\ s_state[g] \in Gates /\ s_spent[g] \in Nat /\ s_earned[g] \in Nat /\ s_retries[g] \in Nat
         /\ s_state[g].tokens \in Nat /\ s_state[g].updated_at \in Nat
         /\ s_state[g].max_rate \in Rates /\ s_state[g].max_rate \in Nat /\ s_state[g].available \in Nat
         /\ s_state[g].samples \in Samples
         /\ GateKeeps(s_state[g], s_spent[g], s_earned[g], s_retries[g], s_now)
<1>1. s_state[g] \in Gates BY ElementOfSeq DEF GuardInv, GuardTypes
<1>2. s_spent[g] \in Nat /\ s_earned[g] \in Nat /\ s_retries[g] \in Nat
  BY ElementOfSeq DEF GuardInv, GuardTypes
<1>3. GateKeeps(s_state[g], s_spent[g], s_earned[g], s_retries[g], s_now)
  BY DEF GuardInv, GatesKeep
<1>4. Rates \subseteq Nat BY DEF Guard!ShieldAssumption
<1> QED BY <1>1, <1>2, <1>3, <1>4, GateParts

\* The call goes out.
LEMMA GuardSends ==
  ASSUME GuardInv, NEW c \in Callers, NEW g, Guard!Send(c, g), s_call[c].pc = "gate"
  PROVE  GuardCalls'
<1>1. c \in DOMAIN s_call /\ IsCall(s_call[c]) /\ s_now \in Nat
  BY DEF GuardInv, GuardCalls, GuardTypes
<1> DEFINE x == s_now + Guard!estimate(s_state[g].samples)
<1>2. s_call' = [s_call EXCEPT ![c].pc = "calling", ![c].wake = 0, ![c].started = s_now, ![c].limit = x]
  BY DEF Guard!Send
<1> HIDE DEF x
<1>3. IsCall(s_call'[c]) BY <1>1, <1>2 DEF IsCall
<1>4. DOMAIN s_call' = DOMAIN s_call /\ \A d \in Callers \ {c} : s_call'[d] = s_call[d]
  BY <1>2 DEF GuardInv, GuardCalls
<1> QED BY <1>3, <1>4, OneCallMoves DEF GuardInv

LEMMA GuardAcquire ==
  ASSUME Guard!ShieldAssumption, GuardInv, NEW c \in Callers, Guard!acquire(c)
  PROVE  GuardInv'
<1> DEFINE g == s_call[c].state
           s == Guard!_refill(g)
<1>0. c \in DOMAIN s_call /\ IsCall(s_call[c]) /\ s_now \in Nat /\ s_call[c].pc = "gate"
      /\ UNCHANGED <<s_now, s_earned, s_retries>> /\ Unit \in Nat
  BY DEF GuardInv, GuardCalls, GuardTypes, Guard!acquire, Guard!ShieldAssumption
<1>1. ASSUME g \in 1..Len(s_state)
      PROVE  /\ s_state[g] \in Gates /\ s_spent[g] \in Nat /\ s_earned[g] \in Nat /\ s_retries[g] \in Nat
             /\ GateKeeps(s_state[g], s_spent[g], s_earned[g], s_retries[g], s_now)
  <2> HIDE DEF g
  <2> QED BY <1>1, GateAt
<1>2. ASSUME g \in 1..Len(s_state)
      PROVE  /\ GateKeeps(s, s_spent[g], s_earned[g], s_retries[g], s_now)
             /\ s.updated_at = s_now /\ s \in Gates
  <2>1. GateKeeps(s, s_spent[g], s_earned[g], s_retries[g], s_now) /\ s.updated_at = s_now
    BY <1>0, <1>1, <1>2, RefilledKeeps DEF Guard!_refill
  <2> QED BY <2>1 DEF GateKeeps
<1>3. CASE ~ s_state[g].enabled
  <2>1. Guard!Send(c, g) /\ UNCHANGED <<s_state, s_spent>> BY <1>3 DEF Guard!acquire
  <2> QED BY <1>0, <2>1, GuardSends, GuardSameGates DEF GuardInv
<1>4. CASE s_state[g].enabled /\ s.tokens >= Unit
  <2> DEFINE x == [s EXCEPT !.tokens = s.tokens - Unit]
  <2>1. /\ s_state' = [s_state EXCEPT ![g] = x] /\ s_spent' = [s_spent EXCEPT ![g] = s_spent[g] + Unit]
        /\ Guard!Send(c, g)
    BY <1>4 DEF Guard!acquire
  <2>2. ASSUME g \in 1..Len(s_state)
        PROVE  GateKeeps(x, s_spent[g] + Unit, s_earned[g], s_retries[g], s_now)
    <3> HIDE DEF s, g
    <3>0. s.tokens \in Nat /\ s.tokens <= Burst /\ Burst \in Nat /\ s.max_rate \in Rates BY <1>2, <2>2, GateParts DEF Guard!ShieldAssumption
    <3>1. s.tokens - Unit \in Nat /\ s.tokens - Unit \in 0..Burst /\ s.max_rate \in Nat
      <4>1. Rates \subseteq Nat BY DEF Guard!ShieldAssumption
      <4>2. Unit \in Nat /\ s.tokens >= Unit BY <1>0, <1>4
      <4>3. s.max_rate \in Nat BY <3>0, <4>1
      <4>4. s.tokens - Unit \in Nat /\ s.tokens - Unit \in 0..Burst BY <3>0, <4>2
      <4> QED BY <4>3, <4>4
    <3>2. /\ x \in Gates /\ x.tokens = s.tokens - Unit /\ x.enabled = s.enabled
          /\ x.updated_at = s.updated_at /\ x.max_rate = s.max_rate /\ x.available = s.available
      BY <1>2, <2>2, <3>1, GateParts
    <3> HIDE DEF x
    <3>3. (s_now - s.updated_at) * s.max_rate = 0 /\ (s_now - x.updated_at) * x.max_rate = 0
      BY <1>0, <1>2, <2>2, <3>1, <3>2
    <3>4. x.enabled = TRUE =>
            s_spent[g] + Unit + x.tokens + (s_now - x.updated_at) * x.max_rate <= s_earned[g]
      <4> DEFINE a == s_spent[g] b == s_earned[g]
      <4>1. a \in Nat /\ b \in Nat BY <1>1, <2>2
      <4>2. s.enabled = TRUE => a + s.tokens + (s_now - s.updated_at) * s.max_rate <= b
        BY <1>2, <2>2 DEF GateKeeps
      <4> HIDE DEF a, b
      <4>3. x.enabled = TRUE => a + Unit + x.tokens + (s_now - x.updated_at) * x.max_rate <= b
        BY <1>0, <3>0, <3>1, <3>2, <3>3, <4>1, <4>2
      <4> QED BY <4>3 DEF a, b
    <3> QED BY <1>2, <2>2, <3>2, <3>4 DEF GateKeeps
  <2>3. s_earned' = [s_earned EXCEPT ![g] = s_earned[g]]
        /\ s_retries' = [s_retries EXCEPT ![g] = s_retries[g]]
    BY <1>0, SameEntry DEF GuardInv
  <2>4. g \in 1..Len(s_state) =>
          /\ s_spent[g] + Unit \in Nat /\ s_earned[g] \in Nat /\ s_retries[g] \in Nat
          /\ GateKeeps(x, s_spent[g] + Unit, s_earned[g], s_retries[g], s_now)
    BY <1>0, <1>1, <2>2
  <2> HIDE DEF x, g
  <2>5. GuardTypes' /\ GatesKeep'
    <3>1. GuardTypes /\ GatesKeep /\ UNCHANGED s_now BY <1>0 DEF GuardInv
    <3> QED BY <2>1, <2>3, <2>4, <3>1, OneGateMoves
  <2> QED BY <1>0, <2>1, <2>5, GuardSends DEF GuardInv
<1>5. CASE s_state[g].enabled /\ ~ (s.tokens >= Unit)
  <2> DEFINE w == s_now + (Unit - s.tokens + s.max_rate - 1) \div s.max_rate
  <2>1. /\ s_state' = [s_state EXCEPT ![g] = s] /\ UNCHANGED s_spent
        /\ s_call' = [s_call EXCEPT ![c].wake = w]
    BY <1>5 DEF Guard!acquire
  <2>2. s_earned' = [s_earned EXCEPT ![g] = s_earned[g]]
        /\ s_retries' = [s_retries EXCEPT ![g] = s_retries[g]]
        /\ s_spent' = [s_spent EXCEPT ![g] = s_spent[g]]
    BY <1>0, <2>1, SameEntry DEF GuardInv
  <2> HIDE DEF w
  <2>3. IsCall(s_call'[c]) BY <1>0, <2>1 DEF IsCall
  <2>4. DOMAIN s_call' = DOMAIN s_call /\ \A d \in Callers \ {c} : s_call'[d] = s_call[d]
    BY <2>1 DEF GuardInv, GuardCalls
  <2>5. GuardCalls' BY <2>3, <2>4, OneCallMoves DEF GuardInv
  <2> HIDE DEF s, g
  <2>6. GuardTypes' /\ GatesKeep'
    <3>1. GuardTypes /\ GatesKeep /\ UNCHANGED s_now BY <1>0 DEF GuardInv
    <3>2. g \in 1..Len(s_state) =>
            /\ s_spent[g] \in Nat /\ s_earned[g] \in Nat /\ s_retries[g] \in Nat
            /\ GateKeeps(s, s_spent[g], s_earned[g], s_retries[g], s_now)
      BY <1>1, <1>2
    <3> QED BY <2>1, <2>2, <3>1, <3>2, OneGateMoves
  <2> QED BY <2>5, <2>6 DEF GuardInv
<1> QED BY <1>3, <1>4, <1>5

\* A success refunds the budget, and the rate it leads to starts from now.
LEMMA GuardSucceeds ==
  ASSUME Guard!ShieldAssumption, GuardInv, NEW c \in Callers, Guard!succeeds(c)
  PROVE  GuardInv'
<1> DEFINE g == s_call[c].state
           late == s_now - s_call[c].started
           many == Guard!Most(1, s_call[c].consumed)
           old == s_state[g].samples
           known == [s_state[g] EXCEPT !.samples = Guard!record(old, late)]
<1>1. PICK s \in Guard!on_success(known, g) :
        s_state' = [s_state EXCEPT ![g] = Guard!refund(s, many)]
  BY Zenon DEF Guard!succeeds
<1>2. /\ s_retries' = [s_retries EXCEPT ![g] = 0] /\ s_call[c].pc = "calling"
      /\ s_call' = [s_call EXCEPT ![c] = Guard!Idle]
      /\ s_now' = s_now /\ s_spent' = s_spent /\ s_earned' = s_earned
  BY DEF Guard!succeeds
<1>3. c \in DOMAIN s_call /\ IsCall(s_call[c]) /\ s_now \in Nat
  BY DEF GuardInv, GuardCalls, GuardTypes
<1>4. late \in Int /\ many \in Nat BY <1>2, <1>3 DEF IsCall, Guard!Most
<1>5. GuardCalls'
  <2>1. IsCall(s_call'[c]) BY <1>2, <1>3 DEF IsCall, Guard!Idle
  <2> QED BY <1>2, <2>1, OneCallMoves DEF GuardInv
<1> HIDE DEF late, many, g, old
<1>6. ASSUME g \in 1..Len(s_state)
      PROVE  /\ s_spent[g] \in Nat /\ s_earned[g] \in Nat
             /\ GateKeeps(Guard!refund(s, many), s_spent[g], s_earned[g], 0, s_now)
  <2>1. /\ s_state[g] \in Gates /\ s_spent[g] \in Nat /\ s_earned[g] \in Nat /\ s_retries[g] \in Nat
        /\ GateKeeps(s_state[g], s_spent[g], s_earned[g], s_retries[g], s_now)
        /\ old \in Samples
    BY <1>6, GateAt DEF old
  <2>2. Guard!record(old, late) \in Samples
    <3>1. old \in Seq(Int) /\ Len(old) <= SampleWindow /\ SampleWindow \in Nat \ {0}
      BY <2>1 DEF Samples, Guard!ShieldAssumption
    <3> QED BY <1>4, <3>1 DEF Guard!record, Samples
  <2>3. /\ known \in Gates /\ known.tokens = s_state[g].tokens /\ known.enabled = s_state[g].enabled
        /\ known.updated_at = s_state[g].updated_at /\ known.max_rate = s_state[g].max_rate
        /\ known.available = s_state[g].available
    BY <2>1, <2>2, GateParts
  <2> HIDE DEF known
  <2>4. GateKeeps(known, s_spent[g], s_earned[g], s_retries[g], s_now)
    BY <2>1, <2>3 DEF GateKeeps
  <2>5. GateKeeps(s, s_spent[g], s_earned[g], s_retries[g], s_now)
    <3>1. CASE s = known BY <2>4, <3>1
    <3>2. CASE s # known
      <4>1. PICK r \in Rates : s = Guard!_apply_rate(known, g, r)
        BY <1>1, <3>2 DEF Guard!on_success
      <4> QED BY <1>3, <2>1, <2>3, <2>4, <4>1, RatedKeeps
    <3> QED BY <3>1, <3>2
  <2>6. s \in Gates BY <2>5 DEF GateKeeps
  <2> QED BY <1>3, <1>4, <2>1, <2>5, <2>6, RefundKeeps
<1>7. /\ s_spent' = [s_spent EXCEPT ![g] = s_spent[g]]
      /\ s_earned' = [s_earned EXCEPT ![g] = s_earned[g]]
  BY <1>2, SameEntry DEF GuardInv
<1>8. GuardTypes' /\ GatesKeep'
  <2>1. GuardTypes /\ GatesKeep /\ UNCHANGED s_now BY <1>2 DEF GuardInv
  <2>2. g \in 1..Len(s_state) =>
          /\ s_spent[g] \in Nat /\ s_earned[g] \in Nat /\ 0 \in Nat
          /\ GateKeeps(Guard!refund(s, many), s_spent[g], s_earned[g], 0, s_now)
    BY <1>6
  <2> QED BY <1>1, <1>2, <1>7, <2>1, <2>2, OneGateMoves
<1> QED BY <1>5, <1>8 DEF GuardInv

\* The lowest rate is one of the rates.
LEMMA FloorIsARate ==
  ASSUME Guard!ShieldAssumption
  PROVE  Guard!Floor \in Rates
<1>1. Rates \subseteq Nat /\ Rates # {} BY DEF Guard!ShieldAssumption
<1>2. \E r \in Rates : \A q \in Rates : r <= q BY <1>1, LeastNatural
<1> QED BY <1>2 DEF Guard!Floor

\* A slow-down closes the gate, leaves it a lower rate, and may spend one retry.
LEMMA GuardSlowsDown ==
  ASSUME Guard!ShieldAssumption, GuardInv, NEW c \in Callers, Guard!slows_down(c)
  PROVE  GuardInv'
<1> DEFINE g == s_call[c].state
           base == s_state[g]
           again(s) == s_call[c].attempt < MaxAttempts /\ Guard!MayRetry(s)
           closed == IF base.enabled THEN base
                     ELSE [base EXCEPT !.enabled = TRUE, !.tokens = 0, !.updated_at = s_now]
           sent == IF base.enabled THEN s_spent[g] ELSE 0
           allowed == IF base.enabled THEN s_earned[g] ELSE 0
<1>1. PICK s \in Guard!on_slow_down(g) :
        /\ s_state' = [s_state EXCEPT ![g] =
                          IF again(s) THEN [s EXCEPT !.available = s.available - 1] ELSE s]
        /\ s_retries' = IF again(s) THEN [s_retries EXCEPT ![g] = s_retries[g] + 1] ELSE s_retries
        /\ IF again(s)
           THEN \E d \in Guard!_backoff_for(s_call[c].attempt) :
                  s_call' = [s_call EXCEPT ![c].pc = "sleeping", ![c].consumed = s_call[c].consumed + 1,
                                           ![c].wake = s_now + d, ![c].started = 0, ![c].limit = 0]
           ELSE s_call' = [s_call EXCEPT ![c] = [pc |-> "giving_up", state |-> s_call[c].state]]
        /\ IF base.enabled THEN UNCHANGED <<s_spent, s_earned>>
           ELSE s_spent' = [s_spent EXCEPT ![g] = 0] /\ s_earned' = [s_earned EXCEPT ![g] = 0]
  BY DEF Guard!slows_down
<1>2. s_call[c].pc = "calling" /\ s_now' = s_now BY DEF Guard!slows_down
<1>3. c \in DOMAIN s_call /\ IsCall(s_call[c]) /\ s_now \in Nat /\ Capacity \in Nat /\ Burst \in Nat
  BY DEF GuardInv, GuardCalls, GuardTypes, Guard!ShieldAssumption
<1>4. GuardCalls'
  <2>1. CASE again(s)
    <3>1. PICK d \in Guard!_backoff_for(s_call[c].attempt) :
            s_call' = [s_call EXCEPT ![c].pc = "sleeping", ![c].consumed = s_call[c].consumed + 1,
                                     ![c].wake = s_now + d, ![c].started = 0, ![c].limit = 0]
      BY <1>1, <2>1
    <3>2. s_call[c].consumed + 1 \in Nat BY <1>2, <1>3 DEF IsCall
    <3>3. IsCall(s_call'[c]) BY <1>2, <1>3, <3>1, <3>2 DEF IsCall
    <3>4. DOMAIN s_call' = DOMAIN s_call /\ \A e \in Callers \ {c} : s_call'[e] = s_call[e]
      BY <3>1 DEF GuardInv, GuardCalls
    <3> QED BY <3>3, <3>4, OneCallMoves DEF GuardInv
  <2>2. CASE ~ again(s)
    <3>0. s_call' = [s_call EXCEPT ![c] = [pc |-> "giving_up", state |-> s_call[c].state]]
      BY <1>1, <2>2
    <3>1. IsCall(s_call'[c]) BY <1>3, <3>0 DEF IsCall
    <3>2. DOMAIN s_call' = DOMAIN s_call /\ \A e \in Callers \ {c} : s_call'[e] = s_call[e]
      BY <1>1, <2>2 DEF GuardInv, GuardCalls
    <3> QED BY <3>1, <3>2, OneCallMoves DEF GuardInv
  <2> QED BY <2>1, <2>2
<1> HIDE DEF g
<1>5. ASSUME g \in 1..Len(s_state)
      PROVE  /\ sent \in Nat /\ allowed \in Nat /\ s_retries[g] \in Nat
             /\ GateKeeps(s, sent, allowed, s_retries[g], s_now)
  <2>1. /\ base \in Gates /\ s_spent[g] \in Nat /\ s_earned[g] \in Nat /\ s_retries[g] \in Nat
        /\ GateKeeps(base, s_spent[g], s_earned[g], s_retries[g], s_now)
        /\ base.max_rate \in Nat /\ base.max_rate \in Rates /\ base.available \in Nat
        /\ base.enabled \in BOOLEAN
    BY <1>5, GateAt, GateParts
  <2> HIDE DEF base
  <2>2. sent \in Nat /\ allowed \in Nat BY <2>1
  <2>3. GateKeeps(base, sent, allowed, s_retries[g], s_now) BY <2>1 DEF GateKeeps
  <2>4. closed \in Gates /\ closed.available = base.available
        /\ GateKeeps(closed, sent, allowed, s_retries[g], s_now)
    <3>1. CASE base.enabled BY <2>1, <2>3, <3>1
    <3>2. CASE ~ base.enabled
      <4>1. closed = [base EXCEPT !.enabled = TRUE, !.tokens = 0, !.updated_at = s_now] BY <3>2
      <4> HIDE DEF closed
      <4>2. /\ closed \in Gates /\ closed.tokens = 0 /\ closed.updated_at = s_now
            /\ closed.max_rate = base.max_rate /\ closed.available = base.available
        <5>1. 0 \in 0..Burst
          BY <1>3
        <5> QED BY <1>3, <2>1, <4>1, <5>1 DEF Gates
      <4>3. (s_now - closed.updated_at) * closed.max_rate = 0 BY <1>3, <2>1, <4>2
      <4>4. sent = 0 /\ allowed = 0 BY <3>2
      <4> HIDE DEF sent, allowed
      <4>5. sent + closed.tokens + (s_now - closed.updated_at) * closed.max_rate <= allowed
        BY <4>2, <4>3, <4>4
      <4>6. closed.updated_at <= s_now /\ s_retries[g] + closed.available <= Capacity
        BY <1>3, <2>3, <4>2 DEF GateKeeps
      <4> QED BY <4>2, <4>5, <4>6 DEF GateKeeps
    <3> QED BY <3>1, <3>2
  <2>5. PICK r \in Rates : s = Guard!_apply_rate(closed, g, r)
    BY <1>1, FloorIsARate DEF Guard!on_slow_down, base
  <2> HIDE DEF closed, sent, allowed
  <2>6. GateKeeps(s, sent, allowed, s_retries[g], s_now)
    BY <1>3, <2>1, <2>2, <2>3, <2>4, <2>5, RatedKeeps DEF base
  <2> QED BY <2>1, <2>2, <2>6
<1>6. s_spent' = [s_spent EXCEPT ![g] = sent] /\ s_earned' = [s_earned EXCEPT ![g] = allowed]
  BY <1>1, SameEntry DEF GuardInv
<1>7. GuardTypes /\ GatesKeep /\ UNCHANGED s_now BY <1>2 DEF GuardInv
<1> HIDE DEF sent, allowed, base
<1>8. CASE again(s)
  <2> DEFINE x == [s EXCEPT !.available = s.available - 1]
             n == s_retries[g] + 1
  <2>1. s_state' = [s_state EXCEPT ![g] = x] /\ s_retries' = [s_retries EXCEPT ![g] = n]
    BY <1>1, <1>8
  <2>2. ASSUME g \in 1..Len(s_state)
        PROVE  sent \in Nat /\ allowed \in Nat /\ n \in Nat /\ GateKeeps(x, sent, allowed, n, s_now)
    <3>1. s \in Gates BY <1>5, <2>2 DEF GateKeeps
    <3>2. s.available \in Nat BY <3>1, GateParts
    <3>3. s.available - 1 \in Nat BY <1>8, <3>2 DEF Guard!MayRetry
    <3>4. /\ x \in Gates /\ x.tokens = s.tokens /\ x.enabled = s.enabled
          /\ x.updated_at = s.updated_at /\ x.max_rate = s.max_rate /\ x.available = s.available - 1
      BY <3>1, <3>3, GateParts
    <3> HIDE DEF x
    <3>5. n \in Nat /\ n + x.available <= Capacity
      BY <1>3, <1>5, <2>2, <3>2, <3>4 DEF GateKeeps
    <3> HIDE DEF n
    <3> QED BY <1>5, <2>2, <3>4, <3>5 DEF GateKeeps
  <2> HIDE DEF x, n
  <2>3. GuardTypes' /\ GatesKeep' BY <1>6, <1>7, <2>1, <2>2, OneGateMoves
  <2> QED BY <1>4, <2>3 DEF GuardInv
<1>9. CASE ~ again(s)
  <2>1. s_state' = [s_state EXCEPT ![g] = s] /\ s_retries' = [s_retries EXCEPT ![g] = s_retries[g]]
    BY <1>1, <1>9, SameEntry DEF GuardInv
  <2>2. GuardTypes' /\ GatesKeep' BY <1>5, <1>6, <1>7, <2>1, OneGateMoves
  <2> QED BY <1>4, <2>2 DEF GuardInv
<1> QED BY <1>8, <1>9

\* Time passes: what the rates allow grows with what the gates may send.
LEMMA GuardTick ==
  ASSUME Guard!ShieldAssumption, GuardInv, Guard!Tick
  PROVE  GuardInv'
<1>1. /\ s_now' = s_now + 1 /\ s_now \in Nat
      /\ UNCHANGED s_state /\ UNCHANGED s_call /\ UNCHANGED s_spent /\ UNCHANGED s_retries
  BY DEF Guard!Tick, GuardInv, GuardTypes
<1>2. GuardCalls' BY <1>1 DEF GuardInv, GuardCalls, IsCall
<1>3. s_earned' = [g \in 1..Len(s_state) |->
                     IF s_state[g].enabled THEN s_earned[g] + s_state[g].max_rate ELSE s_earned[g]]
  BY DEF Guard!Tick, GuardInv, GuardTypes
<1>4. ASSUME NEW g \in 1..Len(s_state)
      PROVE  /\ s_earned'[g] \in Nat
             /\ GateKeeps(s_state[g], s_spent[g], s_earned'[g], s_retries[g], s_now + 1)
  <2> DEFINE s == s_state[g] e == s_earned[g] m == s_spent[g]
             due == (s_now - s.updated_at) * s.max_rate
  <2>1. /\ s \in Gates /\ m \in Nat /\ e \in Nat /\ s_retries[g] \in Nat
        /\ s.tokens \in Nat /\ s.updated_at \in Nat /\ s.max_rate \in Nat
        /\ GateKeeps(s, m, e, s_retries[g], s_now)
    BY GateAt
  <2>2. s_earned'[g] = IF s.enabled THEN e + s.max_rate ELSE e BY <1>3
  <2> HIDE DEF s, e, m
  <2>3. s.updated_at <= s_now /\ (s.enabled = TRUE => m + s.tokens + due <= e)
        /\ s_retries[g] + s.available <= Capacity
    BY <2>1 DEF GateKeeps
  <2>4. due \in Nat /\ ((s_now + 1) - s.updated_at) * s.max_rate = due + s.max_rate
    <3>1. s_now - s.updated_at \in Nat BY <1>1, <2>1, <2>3
    <3>2. (s_now + 1) - s.updated_at = (s_now - s.updated_at) + 1 BY <1>1, <2>1
    <3> DEFINE a == s_now - s.updated_at r == s.max_rate
    <3>3. r \in Nat /\ a \in Nat BY <2>1, <3>1
    <3> HIDE DEF a, r
    <3>4. a * r \in Nat /\ (a + 1) * r = a * r + r BY <3>3
    <3> QED BY <3>2, <3>4 DEF a, r
  <2> HIDE DEF due
  <2>5. s_earned'[g] \in Nat BY <2>1, <2>2
  <2>6. s.enabled = TRUE => m + s.tokens + (due + s.max_rate) <= s_earned'[g]
    BY <2>1, <2>2, <2>3, <2>4
  <2>7. s.updated_at <= s_now + 1 BY <1>1, <2>1, <2>3
  <2>8. s.enabled = TRUE => m + s.tokens + ((s_now + 1) - s.updated_at) * s.max_rate <= s_earned'[g]
    BY <2>4, <2>6, Zenon
  <2>9. GateKeeps(s, m, s_earned'[g], s_retries[g], s_now + 1)
    BY <2>1, <2>3, <2>7, <2>8 DEF GateKeeps
  <2> QED BY <2>5, <2>9 DEF s, m
<1>5. GuardTypes'
  <2>1. s_earned' \in Seq(Nat) /\ Len(s_earned') = Len(s_state)
    <3>1. Len(s_state) \in Nat BY DEF GuardInv, GuardTypes
    <3>2. \A g \in 1..Len(s_state) : s_earned'[g] \in Nat BY <1>4
    <3>3. s_earned' \in [1..Len(s_state) -> Nat] BY <1>3, <3>2
    <3>4. DOMAIN s_earned' = 1..Len(s_state) BY <1>3
    <3>5. s_earned' \in Seq(Nat) BY <3>1, <3>3, SeqDef
    <3> QED BY <3>1, <3>4, <3>5, LenProperties
  <2> QED BY <1>1, <2>1 DEF GuardInv, GuardTypes
<1>6. GatesKeep' BY <1>1, <1>4 DEF GatesKeep, GateKeeps
<1> QED BY <1>2, <1>5, <1>6 DEF GuardInv

\* A new gate lets everything pass and has spent nothing.
LEMMA NewGateKeeps ==
  ASSUME Guard!ShieldAssumption, s_now \in Nat, NEW chosen \in Recoveries
  PROVE  GateKeeps(Guard!_build_state(chosen), 0, 0, 0, s_now)
<1> DEFINE s == Guard!_build_state(chosen)
<1>1. Capacity \in Nat /\ InitialRate \in Rates BY DEF Guard!ShieldAssumption
<1>2. s = [config |-> chosen, enabled |-> FALSE, tokens |-> 0, updated_at |-> s_now,
           max_rate |-> InitialRate, available |-> Capacity, samples |-> <<>>]
  BY DEF Guard!_build_state
<1>3. <<>> \in Samples /\ 0 \in 0..Burst BY DEF Samples, Guard!ShieldAssumption
<1> HIDE DEF s
<1>4. s \in Gates BY <1>1, <1>2, <1>3 DEF Gates
<1>5. s.enabled = FALSE /\ s.updated_at = s_now /\ s.available = Capacity BY <1>2
<1> QED BY <1>1, <1>4, <1>5 DEF GateKeeps, s

LEMMA GuardReconfigures ==
  ASSUME Guard!ShieldAssumption, GuardInv, Guard!_apply_reconfigure
  PROVE  GuardInv'
<1>1. PICK chosen \in Recoveries : s_state' = Append(s_state, Guard!_build_state(chosen))
  BY DEF Guard!_apply_reconfigure
<1> DEFINE s == Guard!_build_state(chosen)
           n == Len(s_state)
<1>2. /\ s_spent' = Append(s_spent, 0) /\ s_earned' = Append(s_earned, 0)
      /\ s_retries' = Append(s_retries, 0) /\ s_now' = s_now /\ s_call' = s_call
  BY DEF Guard!_apply_reconfigure
<1>3. GateKeeps(s, 0, 0, 0, s_now) BY NewGateKeeps DEF GuardInv, GuardTypes
<1>4. s \in Gates BY <1>3 DEF GateKeeps
<1> HIDE DEF s
<1>5. s_state' = Append(s_state, s) BY <1>1 DEF s
<1>6. GuardCalls' BY <1>2 DEF GuardInv, GuardCalls, IsCall
<1>7. GuardTypes' /\ Len(s_state') = n + 1 /\ n \in Nat
  BY <1>2, <1>4, <1>5 DEF GuardInv, GuardTypes
<1>8. ASSUME NEW i \in 1..Len(s_state')
      PROVE  GateKeeps(s_state'[i], s_spent'[i], s_earned'[i], s_retries'[i], s_now)
  <2>1. CASE i = n + 1
    <3>1. s_state'[i] = s /\ s_spent'[i] = 0 /\ s_earned'[i] = 0 /\ s_retries'[i] = 0
      BY <1>2, <1>5, <2>1 DEF GuardInv, GuardTypes
    <3> QED BY <1>3, <3>1
  <2>2. CASE i # n + 1
    <3>1. i \in 1..n BY <1>7, <2>2
    <3>2. s_state'[i] = s_state[i] /\ s_spent'[i] = s_spent[i] /\ s_earned'[i] = s_earned[i]
          /\ s_retries'[i] = s_retries[i]
      BY <1>2, <1>5, <3>1 DEF GuardInv, GuardTypes
    <3> QED BY <3>1, <3>2 DEF GuardInv, GatesKeep
  <2> QED BY <2>1, <2>2
<1>9. GatesKeep' BY <1>2, <1>8 DEF GatesKeep, GateKeeps
<1> QED BY <1>6, <1>7, <1>9 DEF GuardInv

LEMMA GuardInit ==
  ASSUME Guard!ShieldAssumption, Guard!Init
  PROVE  GuardInv /\ Len(s_state) = 1
<1>1. PICK chosen \in Recoveries : s_state = <<Guard!_build_state(chosen)>> BY DEF Guard!Init
<1> DEFINE s == Guard!_build_state(chosen)
<1>2. /\ s_now = 0 /\ s_spent = <<0>> /\ s_earned = <<0>> /\ s_retries = <<0>>
      /\ s_call = [c \in Callers |-> [pc |-> "idle"]]
  BY DEF Guard!Init, Guard!Idle
<1>3. GateKeeps(s, 0, 0, 0, s_now) BY <1>2, NewGateKeeps
<1>4. s \in Gates BY <1>3 DEF GateKeeps
<1> HIDE DEF s
<1>5. s_state = <<s>> BY <1>1 DEF s
<1>6. GuardTypes BY <1>2, <1>4, <1>5 DEF GuardTypes
<1>7. GuardCalls BY <1>2 DEF GuardCalls, IsCall
<1>8. GatesKeep
  <2>1. Len(s_state) = 1 /\ s_state[1] = s /\ s_spent[1] = 0 /\ s_earned[1] = 0 /\ s_retries[1] = 0
    BY <1>2, <1>5
  <2> QED BY <1>3, <2>1 DEF GatesKeep
<1> QED BY <1>5, <1>6, <1>7, <1>8 DEF GuardInv

LEMMA GuardStep ==
  ASSUME Guard!ShieldAssumption, GuardInv, [Guard!Next]_Guard!vars
  PROVE  GuardInv'
<1>1. CASE UNCHANGED Guard!vars
  <2>1. UNCHANGED <<s_now, s_state, s_spent, s_earned, s_retries>> /\ UNCHANGED s_call
    BY <1>1 DEF Guard!vars
  <2>2. GuardCalls' BY <2>1 DEF GuardInv, GuardCalls, IsCall
  <2> QED BY <2>1, <2>2, GuardSameGates DEF GuardInv
<1>2. CASE Guard!_safe_cache_set
  <2>1. UNCHANGED <<s_now, s_state, s_spent, s_earned, s_retries>> /\ UNCHANGED s_call
    BY <1>2 DEF Guard!_safe_cache_set
  <2>2. GuardCalls' BY <2>1 DEF GuardInv, GuardCalls, IsCall
  <2> QED BY <2>1, <2>2, GuardSameGates DEF GuardInv
<1>3. ASSUME NEW c \in Callers,
             \/ Guard!_execute(c) \/ Guard!acquire(c) \/ Guard!succeeds(c)
             \/ Guard!passes_through(c) \/ Guard!fails(c) \/ Guard!slows_down(c)
             \/ Guard!retry(c) \/ Guard!_handle_give_up(c)
      PROVE  GuardInv'
  BY <1>3, GuardCallSteps, GuardAcquire, GuardSucceeds, GuardSlowsDown
<1> QED BY <1>1, <1>2, <1>3, GuardReconfigures, GuardTick DEF Guard!Next

\* Every gate of a Shield sends no more than its rates allowed over the time that passed,
\* whichever way the rate moved and however many callers wait, and the retries of all the
\* calls of a state stay within the capacity of its budget, for every set of rates, burst,
\* capacity and number of callers and reconfigurations.
THEOREM ShieldHolds ==
  ASSUME Guard!ShieldAssumption
  PROVE  Guard!Spec => []ShieldHoldsBack
<1>1. Guard!Init => GuardInv BY GuardInit
<1>2. GuardInv /\ [Guard!Next]_Guard!vars => GuardInv' BY GuardStep
<1>3. GuardInv => ShieldHoldsBack
  <2> SUFFICES ASSUME GuardInv, NEW g \in DOMAIN s_state
               PROVE  /\ s_state[g].enabled => s_spent[g] + s_state[g].tokens <= s_earned[g]
                      /\ s_retries[g] <= Capacity /\ s_retries[g] + s_state[g].available <= Capacity
    BY DEF ShieldHoldsBack, Guard!ShieldHoldsBack, Guard!GateKeepsRate, Guard!RetryBudgetHolds
  <2> DEFINE s == s_state[g] due == (s_now - s.updated_at) * s.max_rate
  <2>1. g \in 1..Len(s_state) /\ s_now \in Nat /\ Capacity \in Nat
    BY DEF GuardInv, GuardTypes, Guard!ShieldAssumption
  <2>2. /\ s \in Gates /\ s_spent[g] \in Nat /\ s_earned[g] \in Nat /\ s_retries[g] \in Nat
        /\ s.tokens \in Nat /\ s.updated_at \in Nat /\ s.max_rate \in Nat /\ s.available \in Nat
        /\ GateKeeps(s, s_spent[g], s_earned[g], s_retries[g], s_now)
    BY <2>1, GateAt
  <2>3. s.enabled \in BOOLEAN BY <2>2, GateParts
  <2> HIDE DEF s
  <2>4. s.updated_at <= s_now /\ (s.enabled = TRUE => s_spent[g] + s.tokens + due <= s_earned[g])
        /\ s_retries[g] + s.available <= Capacity
    BY <2>2 DEF GateKeeps
  <2>5. s_now - s.updated_at \in Nat BY <2>1, <2>2, <2>4
  <2>6. due \in Nat BY <2>2, <2>5
  <2> HIDE DEF due
  <2>7. s.enabled = TRUE => s_spent[g] + s.tokens <= s_earned[g] BY <2>2, <2>4, <2>6
  <2>8. s_retries[g] <= Capacity BY <2>1, <2>2, <2>4
  <2> QED BY <2>3, <2>4, <2>7, <2>8 DEF s
<1> QED BY <1>1, <1>2, <1>3, PTL DEF Guard!Spec

\* The bounds of a Shield: on the clock, the states published and the cache writes under way.
GuardBounds ==
  /\ s_now <= ShieldTime /\ Len(s_state) \in 1..(MaxReconfigures + 1)
  /\ s_cached \in BOOLEAN /\ s_writes \in 0..Cardinality(Callers)

LEMMA ShieldCounts ==
  ASSUME NEW S
  PROVE  Guard!Cardinality(S) = Cardinality(S) /\ Guard!IsFiniteSet(S) = IsFiniteSet(S)
  BY DEF Guard!Cardinality, Cardinality, Guard!IsFiniteSet, IsFiniteSet

LEMMA ShieldConstants ==
  ASSUME Guard!ShieldAssumption
  PROVE  /\ Cardinality(Callers) \in Nat /\ ShieldTime \in Nat /\ MaxReconfigures \in Nat
         /\ Capacity \in Nat /\ Burst \in Nat
<1>1. IsFiniteSet(Callers)
  BY ShieldCounts DEF Guard!ShieldAssumption
<1>2. Cardinality(Callers) \in Nat
  BY <1>1, FS_CardinalityType
<1> QED BY <1>2 DEF Guard!ShieldAssumption

LEMMA GuardBoundsStep ==
  ASSUME Guard!ShieldAssumption, GuardInv, GuardBounds, [Guard!Next]_Guard!vars
  PROVE  GuardBounds'
<1>0. /\ s_state \in Seq(Gates) /\ s_state' \in Seq(Gates) /\ s_now \in Nat
      /\ Cardinality(Callers) \in Nat /\ ShieldTime \in Nat /\ MaxReconfigures \in Nat
  <2>1. GuardInv'
    BY GuardStep
  <2> QED BY <2>1, ShieldConstants DEF GuardInv, GuardTypes
<1>1. ASSUME NEW g, NEW s, s_state' = [s_state EXCEPT ![g] = s]
      PROVE  Len(s_state') = Len(s_state)
  <2>1. DOMAIN s_state' = DOMAIN s_state
    BY <1>1
  <2> QED BY <1>0, <2>1
<1>2. ASSUME NEW c \in Callers,
             \/ Guard!_execute(c) \/ Guard!passes_through(c) \/ Guard!fails(c) \/ Guard!retry(c)
             \/ Guard!_handle_give_up(c)
      PROVE  GuardBounds'
  BY <1>2 DEF GuardBounds, Guard!_execute, Guard!passes_through, Guard!fails, Guard!retry,
     Guard!_handle_give_up
<1>3. ASSUME NEW c \in Callers, Guard!acquire(c) PROVE GuardBounds'
  <2>1. UNCHANGED <<s_now, s_cached, s_writes>>
    BY <1>3 DEF Guard!acquire
  <2>2. Len(s_state') = Len(s_state)
    BY <1>1, <1>3 DEF Guard!acquire
  <2> QED BY <2>1, <2>2 DEF GuardBounds
<1>4. ASSUME NEW c \in Callers, Guard!succeeds(c) PROVE GuardBounds'
  <2>1. /\ UNCHANGED <<s_now, s_cached>>
        /\ s_writes' = s_writes \/ (s_writes < Cardinality(Callers) /\ s_writes' = s_writes + 1)
    <3>1. UNCHANGED <<s_now, s_cached>>
      BY <1>4 DEF Guard!succeeds
    <3>2. s_writes' = IF /\ "cache" \in s_state[s_call[c].state].config
                         /\ s_writes < Guard!Cardinality(Callers)
                      THEN s_writes + 1 ELSE s_writes
      BY <1>4, Zenon DEF Guard!succeeds
    <3>3. \/ s_writes' = s_writes
          \/ s_writes < Guard!Cardinality(Callers) /\ s_writes' = s_writes + 1
      BY <3>2, Zenon
    <3> QED BY <3>1, <3>3, ShieldCounts
  <2>2. \E g, s : s_state' = [s_state EXCEPT ![g] = s]
    BY <1>4, Zenon DEF Guard!succeeds
  <2>3. Len(s_state') = Len(s_state)
    BY <1>1, <2>2
  <2>4. s_writes' \in 0..Cardinality(Callers)
    BY <1>0, <2>1 DEF GuardBounds
  <2> QED BY <2>1, <2>3, <2>4 DEF GuardBounds
<1>5. ASSUME NEW c \in Callers, Guard!slows_down(c) PROVE GuardBounds'
  <2>1. UNCHANGED <<s_now, s_cached, s_writes>>
    BY <1>5 DEF Guard!slows_down
  <2>2. \E g, s : s_state' = [s_state EXCEPT ![g] = s]
    BY <1>5 DEF Guard!slows_down
  <2>3. Len(s_state') = Len(s_state)
    BY <1>1, <2>2
  <2> QED BY <2>1, <2>3 DEF GuardBounds
<1>6. CASE Guard!_safe_cache_set
  <2>1. /\ UNCHANGED <<s_now, s_state>> /\ s_cached' \in {s_cached, TRUE}
        /\ s_writes > 0 /\ s_writes' = s_writes - 1
    BY <1>6 DEF Guard!_safe_cache_set
  <2>2. s_writes' \in 0..Cardinality(Callers)
    BY <1>0, <2>1 DEF GuardBounds
  <2> QED BY <2>1, <2>2 DEF GuardBounds
<1>7. CASE Guard!_apply_reconfigure
  <2>1. UNCHANGED <<s_now, s_cached, s_writes>> /\ Len(s_state) <= MaxReconfigures
    BY <1>7 DEF Guard!_apply_reconfigure
  <2>2. \E s : s_state' = Append(s_state, s)
    BY <1>7 DEF Guard!_apply_reconfigure
  <2>3. Len(s_state') = Len(s_state) + 1
    BY <1>0, <2>2
  <2>4. Len(s_state') \in 1..(MaxReconfigures + 1)
    BY <1>0, <2>1, <2>3 DEF GuardBounds
  <2> QED BY <2>1, <2>4 DEF GuardBounds
<1>8. CASE Guard!Tick
  BY <1>0, <1>8 DEF Guard!Tick, GuardBounds
<1>9. CASE UNCHANGED Guard!vars
  BY <1>9 DEF Guard!vars, GuardBounds
<1> QED BY <1>2, <1>3, <1>4, <1>5, <1>6, <1>7, <1>8, <1>9 DEF Guard!Next

LEMMA ShieldKeepsTypes ==
  ASSUME Guard!ShieldAssumption
  PROVE  Guard!Spec => []Guard!TypeOK
<1>1. Guard!Init => GuardInv /\ GuardBounds
  <2> SUFFICES ASSUME Guard!Init PROVE GuardInv /\ GuardBounds
    OBVIOUS
  <2>1. GuardInv /\ Len(s_state) = 1
    BY GuardInit
  <2>2. /\ s_now = 0 /\ s_cached = FALSE /\ s_writes = 0 /\ ShieldTime \in Nat
        /\ MaxReconfigures \in Nat
    BY ShieldConstants DEF Guard!Init
  <2>3. s_now <= ShieldTime /\ Len(s_state) \in 1..(MaxReconfigures + 1)
    BY <2>1, <2>2
  <2>4. s_writes \in 0..Cardinality(Callers)
    <3> DEFINE n == Cardinality(Callers)
    <3>1. n \in Nat
      BY ShieldConstants
    <3> HIDE DEF n
    <3>2. 0 \in 0..n
      BY <3>1
    <3> QED BY <2>2, <3>2 DEF n
  <2> QED BY <2>1, <2>2, <2>3, <2>4 DEF GuardBounds
<1>2. GuardInv /\ GuardBounds /\ [Guard!Next]_Guard!vars => GuardInv' /\ GuardBounds'
  BY GuardStep, GuardBoundsStep
<1>3. GuardInv /\ GuardBounds => Guard!TypeOK
  <2> SUFFICES ASSUME GuardInv, GuardBounds PROVE Guard!TypeOK
    OBVIOUS
  <2>1. ASSUME NEW g \in DOMAIN s_state
        PROVE  /\ s_state[g].tokens \in 0..Burst /\ s_state[g].max_rate \in Rates
               /\ s_state[g].available \in 0..Capacity /\ s_state[g].updated_at \in 0..ShieldTime
               /\ Len(s_state[g].samples) <= SampleWindow
    <3>1. g \in 1..Len(s_state) /\ s_now \in Nat /\ s_now <= ShieldTime /\ ShieldTime \in Nat
          /\ Capacity \in Nat /\ Burst \in Nat
      BY DEF GuardInv, GuardTypes, GuardBounds, Guard!ShieldAssumption
    <3> DEFINE s == s_state[g]
    <3>2. /\ s \in Gates /\ s.tokens \in Nat /\ s.tokens <= Burst /\ s.max_rate \in Rates
          /\ s.available \in Nat /\ s.updated_at \in Nat /\ s.samples \in Samples
          /\ s_retries[g] \in Nat /\ s.updated_at <= s_now /\ s_retries[g] + s.available <= Capacity
      BY <3>1, GateAt, GateParts DEF GateKeeps
    <3> HIDE DEF s
    <3>3. Len(s.samples) <= SampleWindow
      BY <3>2 DEF Samples
    <3>4. s.tokens \in 0..Burst /\ s.available \in 0..Capacity /\ s.updated_at \in 0..ShieldTime
      BY <3>1, <3>2
    <3> QED BY <3>2, <3>3, <3>4 DEF s
  <2>2. \A c \in Callers : s_call[c].pc \in {"idle", "gate", "calling", "sleeping", "giving_up"}
    BY DEF GuardInv, GuardCalls, IsCall
  <2>3. s_now \in 0..ShieldTime
    BY ShieldConstants DEF GuardInv, GuardTypes, GuardBounds
  <2> QED BY <2>1, <2>2, <2>3, ShieldCounts DEF GuardBounds, Guard!TypeOK
<1> QED BY <1>1, <1>2, <1>3, PTL DEF Guard!Spec

-----------------------------------------------------------------------------
\* The grants of a rate limiter.

LEMMA DivFacts ==
  ASSUME NEW x \in Int, NEW n \in Nat \ {0}
  PROVE  x \div n \in Int /\ (x \div n) * n <= x /\ x < (x \div n) * n + n
  OBVIOUS

LEMMA FullGrows ==
  ASSUME Limiter!RateLimiterAssumption, NEW a \in Nat, NEW b \in Nat, a <= b
  PROVE  /\ Limiter!Full(a) \in Nat /\ Limiter!Full(b) \in Nat
         /\ Limiter!Full(a) <= Limiter!Full(b)
<1>1. Ticks \in Nat BY DEF Limiter!RateLimiterAssumption
<1>2. a * Ticks \in Nat /\ b * Ticks \in Nat /\ a * Ticks <= b * Ticks BY <1>1
<1> QED BY <1>2 DEF Limiter!Full

LEMMA FullOfLimits ==
  ASSUME Limiter!RateLimiterAssumption
  PROVE  /\ RateLimits \subseteq Nat
         /\ \A n \in RateLimits : /\ Limiter!Full(n) \in Nat /\ Limiter!Full(Limiter!Largest) \in Nat
                              /\ Limiter!Full(n) <= Limiter!Full(Limiter!Largest)
<1>1. RateLimits \subseteq Nat BY DEF Limiter!RateLimiterAssumption
<1>2. Limiter!Largest \in RateLimits /\ \A m \in RateLimits : m <= Limiter!Largest
  BY DEF Limiter!RateLimiterAssumption, Limiter!Largest
<1> QED BY <1>1, <1>2, FullGrows

\* Rounded up to seconds, a stretch of time is not shorter.
LEMMA SecondsUpCovers ==
  ASSUME Limiter!RateLimiterAssumption, NEW x \in Int
  PROVE  Limiter!SecondsUp(x) \in Nat /\ Limiter!SecondsUp(x) >= x
<1> DEFINE T == TicksPerSecond
           q == (x + T - 1) \div T
           m == Limiter!Most(1, q)
<1>1. T \in Nat \ {0} BY DEF Limiter!RateLimiterAssumption
<1> HIDE DEF T
<1>2. q \in Int /\ x + T - 1 < q * T + T BY <1>1, DivFacts
<1> HIDE DEF q
<1>3. m \in Nat /\ q <= m BY <1>2 DEF Limiter!Most
<1> HIDE DEF m
<1>4. q * T <= m * T /\ m * T \in Nat /\ q * T \in Int BY <1>1, <1>2, <1>3
<1>5. m * T >= x BY <1>1, <1>2, <1>3, <1>4
<1> QED BY <1>4, <1>5 DEF Limiter!SecondsUp, m, q, T

\* Rounding to the nearest interval, half of one in the caller's favour.
LEMMA RoundedFacts ==
  ASSUME Limiter!RateLimiterAssumption, NEW d \in Int
  PROVE  /\ Limiter!Rounded(d) \in Int
         /\ Limiter!Rounded(d) >= 0 <=> 2 * d + Ticks >= 0
         /\ Limiter!Rounded(d + Ticks) = Limiter!Rounded(d) + 1
<1> DEFINE T == 2 * Ticks
           x == 2 * d + Ticks
           y == 2 * (d + Ticks) + Ticks
           q == x \div T
           p == y \div T
<1>0. Ticks \in Nat \ {0} BY DEF Limiter!RateLimiterAssumption
<1>1. T \in Nat \ {0} /\ x \in Int /\ y \in Int /\ y = x + T BY <1>0
<1> HIDE DEF T, x, y
<1>2. q \in Int /\ q * T <= x /\ x < q * T + T BY <1>1, DivFacts
<1>3. p \in Int /\ p * T <= y /\ y < p * T + T BY <1>1, DivFacts
<1> HIDE DEF q, p
<1>4. (q + 1) * T = q * T + T /\ q * T \in Int /\ p * T \in Int BY <1>1, <1>2, <1>3
<1>5. p = q + 1
  <2> DEFINE r == q + 1
  <2>1. r \in Int /\ r * T <= y /\ y < r * T + T BY <1>1, <1>2, <1>4
  <2> HIDE DEF r
  <2>2. p = r BY <1>1, <1>3, <2>1
  <2> QED BY <2>2 DEF r
<1>6. q >= 0 <=> x >= 0 BY <1>1, <1>2
<1> QED BY <1>2, <1>5, <1>6 DEF Limiter!Rounded, p, q, x, y, T

IsEntry(e) == e = Null \/ e \in Limiter!Entries
\* What a request of time t finds of an entry.
Found(e, t) == IF l_adapter = "redis" THEN Limiter!Kept(e, t) ELSE e
\* The tokens that it finds.
Tokens(e, t) ==
  LET f == Limiter!Bucket(Found(e, t), t)
  IN  IF l_adapter = "sqlite" THEN Limiter!_SQLiteTokenBucket_refill(f, t) ELSE Limiter!_refill(f, t)

LimiterConfig ==
  /\ l_adapter \in {"memory", "threads", "redis", "postgres", "sqlite"}
  /\ l_kind \in {"token_bucket", "sliding_window"} /\ l_limit \in RateLimits
  /\ l_adapter = "threads" => l_kind = "token_bucket"

LEMMA FoundFacts ==
  ASSUME NEW e, IsEntry(e), NEW t \in Nat
  PROVE  /\ IsEntry(Found(e, t)) /\ (Found(e, t) = e \/ Found(e, t) = Null)
         /\ (e # Null /\ Found(e, t) = Null => l_adapter = "redis" /\ t >= e.expire)
  BY DEF Found, IsEntry, Limiter!Kept

LEMMA EntryFields1 ==
  ASSUME NEW e \in Limiter!Entries
  PROVE  e.tokens \in Int /\ e.last \in Nat /\ e.expire \in Nat
  BY DEF Limiter!Entries

LEMMA TokensFacts ==
  ASSUME Limiter!RateLimiterAssumption, LimiterConfig, NEW e, IsEntry(e), NEW t \in Nat
  PROVE  /\ Tokens(e, t) \in Int /\ Tokens(e, t) <= Limiter!Full(l_limit)
         /\ Found(e, t) = Null => Tokens(e, t) = Limiter!Full(l_limit)
         /\ Found(e, t) # Null /\ l_adapter # "sqlite" =>
              Tokens(e, t) = Limiter!Least(Limiter!Full(l_limit), e.tokens + (t - e.last))
         /\ Found(e, t) # Null /\ l_adapter = "sqlite" =>
              Tokens(e, t) = Limiter!Least(Limiter!Full(l_limit), e.tokens + Limiter!Most(0, t - e.last))
<1> DEFINE F == Limiter!Full(l_limit)
           f == Found(e, t)
<1>1. F \in Nat BY FullOfLimits DEF LimiterConfig
<1>2. CASE f = Null
  <2> DEFINE b == [tokens |-> F, last |-> t, expire |-> 0]
  <2>1. Limiter!Bucket(f, t) = b BY <1>2 DEF Limiter!Bucket
  <2>2. b.tokens = F /\ b.last = t OBVIOUS
  <2> HIDE DEF b
  <2> HIDE DEF F
  <2>3. Limiter!_refill(b, t) = F /\ Limiter!_SQLiteTokenBucket_refill(b, t) = F
    BY <1>1, <2>2 DEF Limiter!_refill, Limiter!_SQLiteTokenBucket_refill, Limiter!Least, Limiter!Most, F
  <2>4. Tokens(e, t) = F BY <2>1, <2>3 DEF Tokens
  <2> QED BY <1>1, <1>2, <2>4 DEF F
<1>3. CASE f # Null
  <2>1. f = e /\ e \in Limiter!Entries BY <1>3, FoundFacts DEF IsEntry
  <2>2. e.tokens \in Int /\ e.last \in Nat BY <2>1, EntryFields1
  <2>3. Limiter!Bucket(f, t) = e BY <1>3, <2>1 DEF Limiter!Bucket
  <2>4. Tokens(e, t) = IF l_adapter = "sqlite"
                       THEN Limiter!Least(F, e.tokens + Limiter!Most(0, t - e.last))
                       ELSE Limiter!Least(F, e.tokens + (t - e.last))
    BY <2>3 DEF Tokens, Limiter!_refill, Limiter!_SQLiteTokenBucket_refill
  <2> HIDE DEF F
  <2>5. /\ Limiter!Least(F, e.tokens + Limiter!Most(0, t - e.last)) \in Int
        /\ Limiter!Least(F, e.tokens + Limiter!Most(0, t - e.last)) <= F
        /\ Limiter!Least(F, e.tokens + (t - e.last)) \in Int
        /\ Limiter!Least(F, e.tokens + (t - e.last)) <= F
    BY <1>1, <2>2 DEF Limiter!Least, Limiter!Most
  <2> QED BY <1>3, <2>4, <2>5 DEF F
<1> QED BY <1>2, <1>3

\* A token bucket, whatever the adapter.
LEMMA BucketAcquires ==
  ASSUME Limiter!RateLimiterAssumption, LimiterConfig, l_kind = "token_bucket",
         NEW e, IsEntry(e), NEW t \in Nat, NEW cost \in Nat
  PROVE  LET d == Limiter!Acquired(e, t, cost)
             n == Tokens(e, t)
             F == Limiter!Full(cost)
         IN  /\ d.allowed = (n >= F) /\ d.retry_after = IF n >= F THEN 0 ELSE F - n
             /\ d.next \in Limiter!Entries /\ d.next.last = t
             /\ d.next.tokens = IF n >= F THEN n - F ELSE n
             /\ l_adapter = "redis" =>
                  d.next.expire = t + Limiter!SecondsUp(Limiter!Full(l_limit) - d.next.tokens)
<1> DEFINE n == Tokens(e, t)
           F == Limiter!Full(cost)
           g == Limiter!Decide(n, t, cost)
<1>1. n \in Int /\ F \in Nat /\ Limiter!Full(l_limit) \in Nat
  BY TokensFacts, FullGrows, FullOfLimits DEF LimiterConfig
<1>2. /\ g.allowed = (n >= F) /\ g.retry_after = (IF n >= F THEN 0 ELSE F - n)
      /\ g.next = [tokens |-> IF n >= F THEN n - F ELSE n, last |-> t, expire |-> 0]
      /\ g = [allowed |-> g.allowed, retry_after |-> g.retry_after, next |-> g.next]
  BY DEF Limiter!Decide
<1>3. CASE l_adapter # "redis"
  <2>1. Limiter!Acquired(e, t, cost) = g
    BY <1>3 DEF Limiter!Acquired, LimiterConfig, Limiter!bind_memory, Limiter!bind_postgres,
       Limiter!bind_sqlite, Limiter!_MemoryTokenBucket_acquire, Limiter!MemoryTokenBucket_try_acquire,
       Limiter!tb_acquire, Limiter!_SQLiteTokenBucket_acquire, Tokens, Found
  <2> HIDE DEF n, F, g
  <2>2. g.next.tokens \in Int /\ g.next \in Limiter!Entries
    BY <1>1, <1>2 DEF Limiter!Entries
  <2> QED BY <1>2, <1>3, <2>1, <2>2 DEF n, F
<1>4. CASE l_adapter = "redis"
  <2> DEFINE x == t + Limiter!SecondsUp(Limiter!Full(l_limit) - g.next.tokens)
  <2>1. Limiter!Acquired(e, t, cost) = [g EXCEPT !.next.expire = x]
    BY <1>4 DEF Limiter!Acquired, LimiterConfig, Limiter!bind_redis,
       Limiter!_RedisTokenBucket_LUA_ACQUIRE, Tokens, Found
  <2> HIDE DEF n, F, g
  <2>2. g.next.tokens \in Int BY <1>1, <1>2
  <2>3. x \in Nat BY <1>1, <2>2, SecondsUpCovers
  <2> DEFINE d == [g EXCEPT !.next.expire = x]
  <2>4. /\ d.allowed = g.allowed /\ d.retry_after = g.retry_after
        /\ d.next = [tokens |-> g.next.tokens, last |-> t, expire |-> x]
    <3> HIDE DEF x
    <3>1. g.next = [tokens |-> g.next.tokens, last |-> t, expire |-> 0] BY <1>2
    <3>2. [g.next EXCEPT !.expire = x] = [tokens |-> g.next.tokens, last |-> t, expire |-> x]
      BY <3>1
    <3> QED BY <1>2, <3>2
  <2> HIDE DEF d
  <2>5. d.next \in Limiter!Entries /\ d.next.expire = x /\ d.next.tokens = g.next.tokens /\ d.next.last = t
    <3> HIDE DEF x
    <3> QED BY <2>2, <2>3, <2>4 DEF Limiter!Entries
  <2> QED BY <1>2, <2>1, <2>4, <2>5 DEF n, F, d
<1> QED BY <1>3, <1>4

\* The arrival time that a request of time t finds.
Reach(e, t) == Limiter!Most(Limiter!Tat(Found(e, t), t), t)

LEMMA ReachFacts ==
  ASSUME NEW e, IsEntry(e), NEW t \in Nat
  PROVE  /\ Reach(e, t) \in Nat /\ Reach(e, t) >= t
         /\ Found(e, t) = Null => Reach(e, t) = t
         /\ Found(e, t) # Null => /\ e \in Limiter!Entries /\ e.tokens <= Reach(e, t)
                                  /\ Reach(e, t) = t \/ Reach(e, t) = e.tokens
<1>1. CASE Found(e, t) = Null BY <1>1 DEF Reach, Limiter!Tat, Limiter!Most
<1>2. CASE Found(e, t) # Null
  <2>1. Found(e, t) = e /\ e \in Limiter!Entries BY <1>2, FoundFacts DEF IsEntry
  <2>2. e.tokens \in Int BY <2>1, EntryFields1
  <2>3. Reach(e, t) = IF e.tokens < t THEN t ELSE e.tokens
    BY <1>2, <2>1 DEF Reach, Limiter!Tat, Limiter!Most
  <2> QED BY <1>2, <2>1, <2>2, <2>3
<1> QED BY <1>1, <1>2

LEMMA SlackFacts ==
  ASSUME Limiter!RateLimiterAssumption, LimiterConfig, NEW e, IsEntry(e), NEW t \in Nat, NEW cost \in Nat
  PROVE  /\ Limiter!Slack(Found(e, t), t, cost) \in Int
         /\ Limiter!Slack(Found(e, t), t, cost)
              = (t + Limiter!Full(l_limit)) - (Reach(e, t) + Limiter!Full(cost))
<1> DEFINE F == Limiter!Full(l_limit)
           C == Limiter!Full(cost)
           m == Reach(e, t)
<1>1. F \in Nat /\ C \in Nat /\ m \in Nat BY FullGrows, FullOfLimits, ReachFacts DEF LimiterConfig
<1>2. Limiter!Slack(Found(e, t), t, cost) = t - (m + C - F)
  BY DEF Limiter!Slack, Reach, Limiter!Window, Limiter!Full
<1> HIDE DEF F, C, m
<1>3. t - (m + C - F) = (t + F) - (m + C) /\ t - (m + C - F) \in Int BY <1>1
<1> QED BY <1>2, <1>3 DEF F, C, m

\* GCRA, whatever the adapter.
LEMMA ConformStores ==
  ASSUME Limiter!RateLimiterAssumption, LimiterConfig, l_kind = "sliding_window",
         NEW e, IsEntry(e), NEW t \in Nat, NEW cost \in Nat
  PROVE  LET d == Limiter!Acquired(e, t, cost)
             s == Limiter!Slack(Found(e, t), t, cost)
         IN  /\ d.allowed = (2 * s + Ticks >= 0)
             /\ IsEntry(d.next)
             /\ d.allowed => /\ d.next \in Limiter!Entries /\ d.next.last = t
                             /\ d.next.tokens = Reach(e, t) + Limiter!Full(cost)
                             /\ l_adapter = "redis" =>
                                  d.next.expire = t + Limiter!SecondsUp(d.next.tokens - t)
             /\ ~ d.allowed => /\ d.next = Found(e, t)
                               /\ d.retry_after = Limiter!Most(0, - s)
<1> DEFINE f == Found(e, t)
           s == Limiter!Slack(f, t, cost)
           m == Reach(e, t)
           C == Limiter!Full(cost)
           g == Limiter!Conform(f, t, cost)
<1>1. m \in Nat /\ C \in Nat /\ s \in Int BY ReachFacts, FullGrows, SlackFacts
<1>2. (Limiter!Rounded(s) >= 0) = (2 * s + Ticks >= 0)
  <2> HIDE DEF s
  <2>1. Limiter!Rounded(s) \in Int /\ Ticks \in Nat BY <1>1, RoundedFacts DEF Limiter!RateLimiterAssumption
  <2>2. (Limiter!Rounded(s) >= 0) \in BOOLEAN /\ (2 * s + Ticks >= 0) \in BOOLEAN BY <1>1, <2>1
  <2> QED BY <1>1, <2>2, RoundedFacts
<1>3. /\ g.allowed = (Limiter!Rounded(s) >= 0)
      /\ g.retry_after = (IF g.allowed THEN 0 ELSE Limiter!Most(0, - s))
      /\ g.next = (IF g.allowed THEN [tokens |-> m + C, last |-> t, expire |-> 0] ELSE f)
      /\ g = [allowed |-> g.allowed, retry_after |-> g.retry_after, next |-> g.next]
  BY DEF Limiter!Conform, Reach
<1>4. IsEntry(f) BY FoundFacts
<1>5. g.allowed => g.next \in Limiter!Entries /\ g.next.tokens = m + C /\ g.next.last = t
  <2> HIDE DEF g, m, C, f, s
  <2> QED BY <1>1, <1>3 DEF Limiter!Entries
<1>6. CASE l_adapter # "redis" \/ ~ g.allowed
  <2>1. Limiter!Acquired(e, t, cost) = g
    BY <1>6 DEF Limiter!Acquired, LimiterConfig, Limiter!bind_memory, Limiter!bind_postgres,
       Limiter!bind_sqlite, Limiter!bind_redis, Limiter!_MemoryGCRA_acquire, Limiter!gcra_acquire,
       Limiter!_SQLiteGCRA_acquire, Limiter!_RedisGCRA_LUA_ACQUIRE, Found
  <2> HIDE DEF g, f, s, m, C
  <2>2. IsEntry(g.next) BY <1>3, <1>4, <1>5 DEF IsEntry
  <2> QED BY <1>2, <1>3, <1>5, <1>6, <2>1, <2>2 DEF f, s, m, C
<1>7. CASE l_adapter = "redis" /\ g.allowed
  <2> DEFINE x == t + Limiter!SecondsUp(g.next.tokens - t)
             d == [g EXCEPT !.next.expire = x]
  <2>1. Limiter!Acquired(e, t, cost) = d
    BY <1>7 DEF Limiter!Acquired, LimiterConfig, Limiter!bind_redis, Limiter!_RedisGCRA_LUA_ACQUIRE, Found
  <2> HIDE DEF g, f, s, m, C
  <2>2. x \in Nat
    <3>1. g.next.tokens \in Int BY <1>1, <1>5, <1>7
    <3>2. Limiter!SecondsUp(g.next.tokens - t) \in Nat BY <3>1, SecondsUpCovers
    <3> QED BY <3>2
  <2> HIDE DEF x
  <2>4. d.allowed = g.allowed /\ d.next = [tokens |-> m + C, last |-> t, expire |-> x]
    <3>1. g.next = [tokens |-> m + C, last |-> t, expire |-> 0] BY <1>3, <1>7
    <3>2. [g.next EXCEPT !.expire = x] = [tokens |-> m + C, last |-> t, expire |-> x] BY <3>1
    <3> QED BY <1>3, <3>2
  <2> HIDE DEF d
  <2>5. /\ d.next \in Limiter!Entries /\ d.next.tokens = m + C /\ d.next.expire = x
        /\ d.next.last = t
    BY <1>1, <2>2, <2>4 DEF Limiter!Entries
  <2>6. x = t + Limiter!SecondsUp(d.next.tokens - t) BY <1>5, <1>7, <2>5 DEF x
  <2> QED BY <1>2, <1>3, <1>7, <2>1, <2>4, <2>5, <2>6 DEF f, s, m, C, IsEntry
<1> QED BY <1>6, <1>7

\* What of it the bounds on the rate need.
LEMMA ConformAcquires ==
  ASSUME Limiter!RateLimiterAssumption, LimiterConfig, l_kind = "sliding_window",
         NEW e, IsEntry(e), NEW t \in Nat, NEW cost \in Nat
  PROVE  LET d == Limiter!Acquired(e, t, cost)
             s == Limiter!Slack(Found(e, t), t, cost)
         IN  /\ d.allowed = (2 * s + Ticks >= 0)
             /\ IsEntry(d.next)
             /\ d.allowed => /\ d.next \in Limiter!Entries
                             /\ d.next.tokens = Reach(e, t) + Limiter!Full(cost)
                             /\ l_adapter = "redis" =>
                                  d.next.expire = t + Limiter!SecondsUp(d.next.tokens - t)
             /\ ~ d.allowed => /\ d.next = Found(e, t)
                               /\ d.retry_after = Limiter!Most(0, - s)
<1> DEFINE d == Limiter!Acquired(e, t, cost)
           s == Limiter!Slack(Found(e, t), t, cost)
           m == Reach(e, t) + Limiter!Full(cost)
           stored == /\ d.next \in Limiter!Entries /\ d.next.last = t /\ d.next.tokens = m
                     /\ l_adapter = "redis" =>
                          d.next.expire = t + Limiter!SecondsUp(d.next.tokens - t)
           refused == d.next = Found(e, t) /\ d.retry_after = Limiter!Most(0, - s)
<1>1. /\ d.allowed = (2 * s + Ticks >= 0) /\ IsEntry(d.next)
      /\ (d.allowed => stored) /\ (~ d.allowed => refused)
  BY ConformStores
<1> QED BY <1>1

LEMMA PeekIsTrue ==
  ASSUME Limiter!RateLimiterAssumption, LimiterConfig, NEW e, IsEntry(e), NEW t \in Nat
  PROVE  Limiter!peek(e, t).allowed = Limiter!Acquired(e, t, 1).allowed
<1>0. Ticks \in Nat /\ Limiter!Full(1) = Ticks /\ Limiter!Full(0) = 0
  BY DEF Limiter!RateLimiterAssumption, Limiter!Full
<1>1. CASE l_kind = "token_bucket"
  <2>1. Limiter!peek(e, t) = Limiter!Look(Tokens(e, t))
    BY <1>1 DEF Limiter!peek, LimiterConfig, Limiter!_MemoryTokenBucket_peek,
       Limiter!MemoryTokenBucket_peek, Limiter!tb_peek, Limiter!_SQLiteTokenBucket_peek,
       Limiter!_RedisTokenBucket_LUA_PEEK, Tokens, Found
  <2>2. Limiter!peek(e, t).allowed = (Tokens(e, t) >= Ticks) BY <2>1 DEF Limiter!Look
  <2> QED BY <1>0, <1>1, <2>2, BucketAcquires
<1>2. CASE l_kind = "sliding_window"
  <2> DEFINE s == Limiter!Slack(Found(e, t), t, 1)
             r == Limiter!Rounded(s)
  <2>1. Limiter!peek(e, t) = Limiter!LookAhead(Found(e, t), t)
    BY <1>2 DEF Limiter!peek, LimiterConfig, Limiter!_MemoryGCRA_peek, Limiter!gcra_peek,
       Limiter!_SQLiteGCRA_peek, Limiter!_RedisGCRA_LUA_PEEK, Found
  <2>2. Limiter!peek(e, t).allowed = (Limiter!Rounded(Limiter!Slack(Found(e, t), t, 0)) > 0)
    BY <2>1 DEF Limiter!LookAhead
  <2>3. s \in Int /\ Limiter!Slack(Found(e, t), t, 0) = s + Ticks
    <3> DEFINE W == Limiter!Full(l_limit)
               m == Reach(e, t)
    <3>1. W \in Nat /\ m \in Nat BY FullOfLimits, ReachFacts DEF LimiterConfig
    <3>2. /\ s = (t + W) - (m + Ticks) /\ Limiter!Slack(Found(e, t), t, 0) = (t + W) - (m + 0)
      BY <1>0, SlackFacts
    <3> HIDE DEF W, m, s
    <3> QED BY <1>0, <3>1, <3>2
  <2> HIDE DEF s
  <2>4. r \in Int /\ Limiter!Rounded(s + Ticks) = r + 1 /\ (r >= 0 <=> 2 * s + Ticks >= 0)
    BY <2>3, RoundedFacts
  <2> HIDE DEF r
  <2>5. Limiter!peek(e, t).allowed = (r + 1 > 0) BY <2>2, <2>3, <2>4
  <2>6. Limiter!Acquired(e, t, 1).allowed = (2 * s + Ticks >= 0) BY <1>2, ConformAcquires DEF s
  <2>7. (r + 1 > 0) = (2 * s + Ticks >= 0) BY <1>0, <2>3, <2>4
  <2> QED BY <2>5, <2>6, <2>7
<1> QED BY <1>1, <1>2 DEF LimiterConfig

\* A denied request that comes back after retry_after is granted.
LEMMA RetryAfterIsTrue ==
  ASSUME Limiter!RateLimiterAssumption, LimiterConfig, NEW e, IsEntry(e), NEW t \in Nat,
         NEW cost \in 1..l_limit, ~ Limiter!Acquired(e, t, cost).allowed
  PROVE  Limiter!Acquired(Limiter!Acquired(e, t, cost).next,
                          t + Limiter!Acquired(e, t, cost).retry_after, cost).allowed
<1> DEFINE d == Limiter!Acquired(e, t, cost)
           W == Limiter!Full(l_limit)
           C == Limiter!Full(cost)
           u == t + d.retry_after
<1>0. cost \in Nat /\ l_limit \in Nat /\ cost <= l_limit BY FullOfLimits DEF LimiterConfig
<1>1. W \in Nat /\ C \in Nat /\ C <= W /\ Ticks \in Nat
  BY <1>0, FullGrows DEF Limiter!RateLimiterAssumption
<1>2. CASE l_kind = "token_bucket"
  <2> DEFINE n == Tokens(e, t)
             k == Tokens(d.next, u)
  <2>1. n \in Int BY TokensFacts
  <2>2. /\ d.allowed = (n >= C) /\ d.retry_after = (IF n >= C THEN 0 ELSE C - n)
        /\ d.next \in Limiter!Entries /\ d.next.last = t
        /\ d.next.tokens = (IF n >= C THEN n - C ELSE n)
    BY <1>0, <1>2, BucketAcquires
  <2>3. ~ (n >= C) BY <2>2
  <2> HIDE DEF n, C, d
  <2>4. u \in Nat /\ u - t = C - n /\ d.next.tokens = n BY <1>1, <2>1, <2>2, <2>3
  <2>5. IsEntry(d.next) BY <2>2 DEF IsEntry
  <2> HIDE DEF u
  <2>6. \/ k = W \/ k = Limiter!Least(W, n + (C - n)) \/ k = Limiter!Least(W, n + Limiter!Most(0, C - n))
    BY <2>2, <2>4, <2>5, TokensFacts
  <2> HIDE DEF k, W
  <2>7. k >= C BY <1>1, <2>1, <2>3, <2>6 DEF Limiter!Least, Limiter!Most
  <2>8. Limiter!Acquired(d.next, u, cost).allowed = (k >= C)
    BY <1>0, <1>2, <2>4, <2>5, BucketAcquires DEF k, C
  <2> QED BY <2>7, <2>8 DEF d, u
<1>3. CASE l_kind = "sliding_window"
  <2> DEFINE s == Limiter!Slack(Found(e, t), t, cost)
             m == Reach(e, t)
             f == Found(e, t)
             r == Reach(f, u)
             z == Limiter!Slack(Found(f, u), u, cost)
  <2>1. s \in Int /\ m \in Nat /\ m >= t /\ s = (t + W) - (m + C) BY <1>0, SlackFacts, ReachFacts
  <2>2. d.allowed = (2 * s + Ticks >= 0) /\ d.next = f /\ d.retry_after = Limiter!Most(0, - s)
    BY <1>0, <1>3, ConformAcquires
  <2>3. ~ (2 * s + Ticks >= 0) BY <2>2
  <2>4. IsEntry(f) /\ (f # Null => m = t \/ m = f.tokens) /\ (f = Null => m = t)
    BY FoundFacts, ReachFacts DEF IsEntry
  <2> HIDE DEF s, m, d, W, C, f
  <2>5. s < 0 /\ d.retry_after = - s BY <1>1, <2>1, <2>2, <2>3 DEF Limiter!Most
  <2>6. u \in Nat /\ u = t - s /\ m > t BY <1>1, <2>1, <2>5
  <2>7. f # Null /\ m = f.tokens BY <2>1, <2>4, <2>6
  <2> HIDE DEF u
  <2>8. r \in Nat /\ (r = u \/ r = m) BY <2>4, <2>6, <2>7, ReachFacts
  <2>9. z \in Int /\ z = (u + W) - (r + C) BY <1>0, <2>4, <2>6, SlackFacts DEF W, C
  <2> HIDE DEF r, z
  <2>10. z >= 0 BY <1>1, <2>1, <2>6, <2>8, <2>9
  <2>11. Limiter!Acquired(f, u, cost).allowed = (2 * z + Ticks >= 0)
    BY <1>0, <1>3, <2>4, <2>6, ConformAcquires DEF z
  <2>12. 2 * z + Ticks >= 0 BY <1>1, <2>9, <2>10
  <2> QED BY <2>2, <2>11, <2>12 DEF d, u
<1> QED BY <1>2, <1>3 DEF LimiterConfig

RateTypes ==
  /\ LimiterConfig /\ IsEntry(l_entry) /\ l_under \in RateLimits
  /\ l_now \in Nat /\ l_since \in Nat /\ l_latest \in Nat /\ l_dropped \in Nat /\ l_counted \in Nat
  /\ DOMAIN l_call = Callers
  /\ \A c \in Callers :
       /\ l_call[c].state = "asking" => l_call[c].at \in Nat /\ l_call[c].cost \in Nat
       /\ l_call[c].state = "asleep" => l_call[c].cost \in Nat

\* A bucket, refilled without a ceiling from the time it was last touched, holds no more than
\* what the grants counted so far have left of a full bucket at `since`; when it is dropped it
\* holds at least a full one.
BucketHeld ==
  ~ l_late /\ l_kind = "token_bucket" /\ l_adapter # "sqlite" =>
    /\ l_entry # Null =>
         /\ 0 <= (l_entry.tokens - l_entry.last) + l_latest
         /\ l_counted = 0 \/ l_counted + (l_entry.tokens - l_entry.last)
                               <= Limiter!Full(Limiter!Largest) - l_since
         /\ l_adapter = "redis" =>
              Limiter!Full(l_under) <= (l_entry.tokens - l_entry.last) + l_entry.expire
    /\ l_entry = Null =>
         l_counted = 0 \/ l_counted + (Limiter!Full(l_under) - l_dropped)
                            <= Limiter!Full(Limiter!Largest) - l_since
    /\ l_counted = 0 \/ l_counted <= (Limiter!Full(Limiter!Largest) + l_latest) - l_since

\* The arrival time is ahead of `since` by at least what was granted.
ArrivalAhead ==
  ~ l_late /\ l_kind = "sliding_window" =>
    /\ l_entry # Null => /\ l_counted = 0 \/ l_counted <= l_entry.tokens - l_since
                         /\ l_adapter = "redis" => l_entry.tokens <= l_entry.expire
    /\ l_entry = Null => l_counted = 0 \/ l_counted <= l_dropped - l_since
    /\ \/ l_counted = 0
       \/ 2 * l_counted <= 2 * ((Limiter!Full(Limiter!Largest) + l_latest) - l_since) + Ticks

RateInv == RateTypes /\ BucketHeld /\ ArrivalAhead

LEMMA RateInit ==
  ASSUME Limiter!RateLimiterAssumption, Limiter!Init
  PROVE  RateInv
<1>1. Limiter!Largest \in RateLimits BY DEF Limiter!RateLimiterAssumption, Limiter!Largest
<1>2. \A x \in 0..MaxSince : x \in Nat BY DEF Limiter!RateLimiterAssumption
<1>3. RateTypes
  BY <1>1, <1>2 DEF RateTypes, LimiterConfig, IsEntry, Limiter!Init, Limiter!RateLimiterAssumption, Limiter!Idle
<1>4. l_entry = Null /\ l_counted = 0 BY DEF Limiter!Init
<1> QED BY <1>3, <1>4 DEF RateInv, BucketHeld, ArrivalAhead

\* Serving a request of a token bucket.
LEMMA BucketServed ==
  ASSUME Limiter!RateLimiterAssumption, RateInv, NEW c \in Callers, Limiter!Serve(c),
         l_kind = "token_bucket", l_adapter # "sqlite", ~ l_late'
  PROVE  BucketHeld'
<1> DEFINE t == Limiter!ServedAt(c)
           cost == l_call[c].cost
           d == Limiter!Acquired(l_entry, t, cost)
           n == Tokens(l_entry, t)
           C == Limiter!Full(cost)
           W == Limiter!Full(l_limit)
           L == Limiter!Full(Limiter!Largest)
           H == Limiter!Full(l_under)
           held == l_entry.tokens - l_entry.last
           kept == d.next.tokens - d.next.last
<1>1. t \in Nat /\ cost \in Nat /\ IsEntry(l_entry) /\ LimiterConfig
  BY DEF RateInv, RateTypes, Limiter!Serve, Limiter!ServedAt
<1>2. C \in Nat /\ W \in Nat /\ L \in Nat /\ W <= L /\ H \in Nat
  BY <1>1, FullGrows, FullOfLimits DEF LimiterConfig, RateInv, RateTypes
<1>3. n \in Int /\ n <= W BY <1>1, TokensFacts
<1>4. /\ d.allowed = (n >= C) /\ d.next \in Limiter!Entries /\ d.next.last = t
      /\ d.next.tokens = (IF n >= C THEN n - C ELSE n)
      /\ l_adapter = "redis" => d.next.expire = t + Limiter!SecondsUp(W - d.next.tokens)
  BY <1>1, BucketAcquires
<1>5. /\ l_entry' = d.next /\ l_late' = (l_late \/ Limiter!Missed(t)) /\ l_under' = l_limit
      /\ l_counted' = (IF d.allowed /\ t >= l_since /\ ~ (l_late \/ Limiter!Missed(t))
                       THEN l_counted + C ELSE l_counted)
      /\ l_latest' = Limiter!Most(l_latest, t) /\ l_since' = l_since /\ l_adapter' = l_adapter
  BY DEF Limiter!Serve, Limiter!config
<1>6. ~ l_late /\ ~ Limiter!Missed(t) BY <1>5
<1>7. l_counted \in Nat /\ l_since \in Nat /\ l_latest \in Nat /\ l_dropped \in Nat
  BY DEF RateInv, RateTypes
<1>8. d.next # Null /\ l_entry' # Null BY <1>4, <1>5 DEF Limiter!RateLimiterAssumption
<1> HIDE DEF C, W, L, H, n, t, cost, d
<1>9. d.next.tokens \in Int /\ kept = (IF n >= C THEN n - C ELSE n) - t /\ kept \in Int
  BY <1>1, <1>2, <1>3, <1>4
<1>10. W <= kept + d.next.expire \/ l_adapter # "redis"
  <2> SUFFICES ASSUME l_adapter = "redis" PROVE W <= kept + d.next.expire OBVIOUS
  <2> DEFINE x == Limiter!SecondsUp(W - d.next.tokens)
  <2>1. x \in Nat /\ x >= W - d.next.tokens BY <1>2, <1>9, SecondsUpCovers
  <2> HIDE DEF x
  <2>2. d.next.expire = t + x BY <1>4 DEF x
  <2> QED BY <1>1, <1>2, <1>4, <1>9, <2>1, <2>2
\* What is left of the refill: never more than the bucket held.
<1>11. l_entry # Null => /\ held \in Int /\ n - t <= held /\ (n = W \/ n - t = held)
                         /\ 0 <= held + l_latest
                         /\ l_counted = 0 \/ l_counted + held <= L - l_since
  <2> SUFFICES ASSUME l_entry # Null
               PROVE  /\ held \in Int /\ n - t <= held /\ (n = W \/ n - t = held)
    BY <1>6 DEF RateInv, BucketHeld, L
  <2>1. /\ l_entry \in Limiter!Entries /\ l_entry.tokens \in Int /\ l_entry.last \in Nat
        /\ l_entry.expire \in Nat
    BY <1>1, EntryFields1 DEF IsEntry
  <2>2. CASE Found(l_entry, t) # Null
    <3>1. n = Limiter!Least(W, l_entry.tokens + (t - l_entry.last)) BY <1>1, <2>2, TokensFacts DEF n, W
    <3> QED BY <1>1, <1>2, <2>1, <3>1 DEF Limiter!Least
  <2>3. CASE Found(l_entry, t) = Null
    <3>1. l_adapter = "redis" /\ t >= l_entry.expire /\ n = W BY <1>1, <2>3, FoundFacts, TokensFacts DEF n, W
    <3>2. H <= held + l_entry.expire BY <1>6, <3>1 DEF RateInv, BucketHeld, H
    <3>3. Limiter!Kept(l_entry, t) = Null BY <2>3, <3>1 DEF Found
    <3>4. ~ (l_under < l_limit) BY <1>6, <3>1, <3>3 DEF Limiter!Missed
    <3>5. W <= H
      <4>1. l_under \in Nat /\ l_limit \in Nat /\ l_limit <= l_under
        BY <3>4, FullOfLimits DEF RateInv, RateTypes, LimiterConfig
      <4> QED BY <4>1, FullGrows DEF W, H
    <3> QED BY <1>1, <1>2, <2>1, <3>1, <3>2, <3>5
  <2> QED BY <2>2, <2>3
<1>12. l_entry = Null => /\ n = W /\ n - t <= H - l_dropped
                         /\ l_counted = 0 \/ l_counted + (H - l_dropped) <= L - l_since
  <2> SUFFICES ASSUME l_entry = Null PROVE n = W /\ n - t <= H - l_dropped
    BY <1>6 DEF RateInv, BucketHeld, L, H
  <2>1. n = W BY <1>1, FoundFacts, TokensFacts DEF n, W
  <2>2. ~ (t < l_dropped) /\ ~ (l_under < l_limit) BY <1>6 DEF Limiter!Missed
  <2>3. l_under \in Nat /\ l_limit \in Nat /\ l_limit <= l_under
    BY <2>2, FullOfLimits DEF RateInv, RateTypes, LimiterConfig
  <2>4. W <= H BY <2>3, FullGrows DEF W, H
  <2> QED BY <1>1, <1>2, <1>7, <2>1, <2>2, <2>4
<1>13. n = W \/ 0 <= (n - t) + l_latest
  BY <1>1, <1>3, <1>7, <1>11, <1>12
<1>14. l_counted = 0 \/ l_counted + (n - t) <= L - l_since
  <2> HIDE DEF held
  <2> QED BY <1>1, <1>2, <1>3, <1>7, <1>11, <1>12
<1> DEFINE u == l_latest'
           k == l_counted'
<1>15. u \in Nat /\ u >= l_latest /\ u >= t BY <1>1, <1>5, <1>7 DEF Limiter!Most
<1>16. k = IF n >= C /\ t >= l_since THEN l_counted + C ELSE l_counted BY <1>4, <1>5, <1>6
<1> HIDE DEF u, k, kept, held
<1>17. 0 <= kept + u BY <1>1, <1>2, <1>3, <1>7, <1>9, <1>13, <1>15
<1>18. k = 0 \/ k + kept <= L - l_since
  BY <1>1, <1>2, <1>3, <1>7, <1>9, <1>14, <1>16
<1>19. k \in Nat BY <1>2, <1>7, <1>16
<1>20. k = 0 \/ k <= (L + u) - l_since BY <1>2, <1>7, <1>9, <1>15, <1>17, <1>18, <1>19
<1>21. /\ 0 <= (l_entry'.tokens - l_entry'.last) + l_latest'
       /\ l_counted' = 0 \/ l_counted' + (l_entry'.tokens - l_entry'.last) <= L - l_since'
       /\ l_adapter' = "redis" => W <= (l_entry'.tokens - l_entry'.last) + l_entry'.expire
       /\ l_counted' = 0 \/ l_counted' <= (L + l_latest') - l_since'
  BY <1>5, <1>10, <1>17, <1>18, <1>20 DEF u, k, kept
<1> QED BY <1>5, <1>8, <1>21 DEF BucketHeld, L, W

\* Serving a request of GCRA.
LEMMA ArrivalServed ==
  ASSUME Limiter!RateLimiterAssumption, RateInv, NEW c \in Callers, Limiter!Serve(c),
         l_kind = "sliding_window", ~ l_late'
  PROVE  ArrivalAhead'
<1> DEFINE t == Limiter!ServedAt(c)
           cost == l_call[c].cost
           d == Limiter!Acquired(l_entry, t, cost)
           m == Reach(l_entry, t)
           s == Limiter!Slack(Found(l_entry, t), t, cost)
           C == Limiter!Full(cost)
           W == Limiter!Full(l_limit)
           L == Limiter!Full(Limiter!Largest)
<1>1. t \in Nat /\ cost \in Nat /\ IsEntry(l_entry) /\ LimiterConfig /\ cost <= l_limit
  BY DEF RateInv, RateTypes, Limiter!Serve, Limiter!ServedAt
<1>2. C \in Nat /\ W \in Nat /\ L \in Nat /\ W <= L /\ C <= W /\ Ticks \in Nat
  <2>1. l_limit \in Nat BY <1>1, FullOfLimits DEF LimiterConfig
  <2> QED BY <1>1, <2>1, FullGrows, FullOfLimits DEF LimiterConfig, Limiter!RateLimiterAssumption
<1>3. m \in Nat /\ m >= t /\ s \in Int /\ s = (t + W) - (m + C) BY <1>1, ReachFacts, SlackFacts
<1>4. /\ d.allowed = (2 * s + Ticks >= 0)
      /\ d.allowed => /\ d.next \in Limiter!Entries /\ d.next.tokens = m + C
                      /\ l_adapter = "redis" => d.next.expire = t + Limiter!SecondsUp(d.next.tokens - t)
      /\ ~ d.allowed => d.next = Found(l_entry, t)
  <2> HIDE DEF t, cost
  <2> QED BY <1>1, ConformAcquires
<1>5. /\ l_entry' = d.next /\ l_late' = (l_late \/ Limiter!Missed(t))
      /\ l_counted' = (IF d.allowed /\ t >= l_since /\ ~ (l_late \/ Limiter!Missed(t))
                       THEN l_counted + C ELSE l_counted)
      /\ l_latest' = Limiter!Most(l_latest, t) /\ l_since' = l_since /\ l_adapter' = l_adapter
      /\ l_dropped' = l_dropped
  BY DEF Limiter!Serve, Limiter!config
<1>6. ~ l_late /\ ~ Limiter!Missed(t) BY <1>5
<1>7. l_counted \in Nat /\ l_since \in Nat /\ l_latest \in Nat /\ l_dropped \in Nat
  BY DEF RateInv, RateTypes
<1>8. l_counted = 0 \/ 2 * l_counted <= 2 * ((L + l_latest) - l_since) + Ticks
  BY <1>6 DEF RateInv, ArrivalAhead, L
<1>9. l_latest' \in Nat /\ l_latest' >= l_latest /\ l_latest' >= t BY <1>1, <1>5, <1>7 DEF Limiter!Most
\* What was granted is behind the arrival time that the request finds.
<1>10. l_counted = 0 \/ l_counted <= m - l_since
  <2>1. CASE l_entry = Null
    <3>1. l_counted = 0 \/ l_counted <= l_dropped - l_since BY <1>6, <2>1 DEF RateInv, ArrivalAhead
    <3>2. ~ (t < l_dropped) BY <1>6, <2>1 DEF Limiter!Missed
    <3> HIDE DEF m, t
    <3> QED BY <1>1, <1>3, <1>7, <3>1, <3>2
  <2>2. CASE l_entry # Null
    <3>1. l_entry.tokens \in Int /\ l_entry.expire \in Nat BY <1>1, <2>2, EntryFields1 DEF IsEntry
    <3>2. /\ l_counted = 0 \/ l_counted <= l_entry.tokens - l_since
          /\ l_adapter = "redis" => l_entry.tokens <= l_entry.expire
      BY <1>6, <2>2 DEF RateInv, ArrivalAhead
    <3>3. l_entry.tokens <= m
      <4>1. CASE Found(l_entry, t) # Null BY <1>1, <4>1, ReachFacts
      <4>2. CASE Found(l_entry, t) = Null
        <5>1. t >= l_entry.expire /\ l_entry.tokens <= l_entry.expire BY <1>1, <2>2, <3>2, <4>2, FoundFacts
        <5> HIDE DEF m, t
        <5> QED BY <1>1, <1>3, <3>1, <5>1
      <4> QED BY <4>1, <4>2
    <3> HIDE DEF m, t
    <3> QED BY <1>1, <1>3, <1>7, <3>1, <3>2, <3>3
  <2> QED BY <2>1, <2>2
<1>11. CASE ~ d.allowed
  <2>1. 2 * s + Ticks < 0
    <3>1. ~ (2 * s + Ticks >= 0) BY <1>4, <1>11
    <3> HIDE DEF s
    <3> QED BY <1>2, <1>3, <3>1
  <2>2. m # t
    <3> HIDE DEF s, d, t, m, C, W
    <3> QED BY <1>1, <1>2, <1>3, <2>1
  <2>3. Found(l_entry, t) # Null /\ Found(l_entry, t) = l_entry BY <1>1, <2>2, ReachFacts, FoundFacts
  <2>4. l_entry' = l_entry /\ l_counted' = l_counted BY <1>4, <1>5, <1>11, <2>3
  <2> HIDE DEF s, d, t, m, C, W, L
  <2>5. l_counted = 0 \/ 2 * l_counted <= 2 * ((L + l_latest') - l_since) + Ticks
    <3> DEFINE u == l_latest'
    <3>1. u \in Nat /\ u >= l_latest BY <1>9
    <3> HIDE DEF u
    <3>2. l_counted = 0 \/ 2 * l_counted <= 2 * ((L + u) - l_since) + Ticks
      BY <1>2, <1>7, <1>8, <3>1
    <3> QED BY <3>2 DEF u
  <2> QED BY <1>5, <1>6, <2>3, <2>4, <2>5 DEF RateInv, ArrivalAhead, L
<1>12. CASE d.allowed
  <2>1. d.next # Null BY <1>4, <1>12 DEF Limiter!RateLimiterAssumption
  <2>2. 2 * s + Ticks >= 0 BY <1>4, <1>12
  <2> DEFINE k == l_counted'
             u == l_latest'
  <2>3. k = IF t >= l_since THEN l_counted + C ELSE l_counted BY <1>5, <1>6, <1>12
  <2>4. d.next.tokens = m + C BY <1>4, <1>12
  <2>5. l_adapter = "redis" => d.next.tokens <= d.next.expire
    <3> SUFFICES ASSUME l_adapter = "redis" PROVE d.next.tokens <= d.next.expire OBVIOUS
    <3> DEFINE x == Limiter!SecondsUp(d.next.tokens - t)
    <3>1. d.next.expire = t + x BY <1>4, <1>12
    <3> HIDE DEF d, m, t, C
    <3>2. d.next.tokens \in Int BY <1>2, <1>3, <2>4
    <3>3. x \in Nat /\ x >= d.next.tokens - t BY <1>1, <3>2, SecondsUpCovers
    <3> HIDE DEF x
    <3> QED BY <1>1, <3>1, <3>2, <3>3
  <2> HIDE DEF s, d, t, m, C, W, L, k, u
  <2>6. k \in Nat /\ (k = 0 \/ k <= (m + C) - l_since) BY <1>1, <1>2, <1>3, <1>7, <1>10, <2>3
  <2>7. k = 0 \/ 2 * k <= 2 * ((L + u) - l_since) + Ticks
    <3>1. u \in Nat /\ u >= t BY <1>9 DEF u
    <3> QED BY <1>1, <1>2, <1>3, <1>7, <2>2, <2>6, <3>1
  <2> QED BY <1>5, <2>1, <2>4, <2>5, <2>6, <2>7 DEF ArrivalAhead, k, u, L
<1> QED BY <1>11, <1>12

\* A bucket is evicted when it is full by the limit of the limiter that evicts it.
LEMMA EvictedHeld ==
  ASSUME Limiter!RateLimiterAssumption, RateInv, Limiter!_maybe_evict
  PROVE  BucketHeld' /\ ArrivalAhead'
<1> DEFINE L == Limiter!Full(Limiter!Largest)
<1>0. /\ l_entry # Null /\ l_entry' = Null /\ l_late' = l_late
      /\ l_counted' = l_counted /\ l_since' = l_since /\ l_latest' = l_latest
      /\ l_kind' = l_kind /\ l_adapter' = l_adapter
  BY DEF Limiter!_maybe_evict, Limiter!config
<1>1. /\ l_entry.tokens \in Int /\ l_entry.last \in Nat /\ L \in Int
      /\ l_counted \in Nat /\ l_since \in Nat
  BY <1>0, EntryFields1, FullOfLimits DEF RateInv, RateTypes, IsEntry
<1>2. PICK n \in RateLimits, t \in Nat : Limiter!Evictable(l_entry, n, t) /\ l_under' = n /\ l_dropped' = t
  BY DEF Limiter!_maybe_evict, RateInv, RateTypes, LimiterConfig
<1>3. BucketHeld'
  <2> SUFFICES ASSUME ~ l_late, l_kind = "token_bucket", l_adapter # "sqlite"
               PROVE  /\ l_counted = 0 \/ l_counted + (Limiter!Full(n) - t) <= L - l_since
                      /\ l_counted = 0 \/ l_counted <= (L + l_latest) - l_since
    BY <1>0, <1>2 DEF BucketHeld
  <2> DEFINE F == Limiter!Full(n)
  <2>1. F \in Nat BY <1>2, FullOfLimits
  <2>2. Limiter!Least(F, l_entry.tokens + (t - l_entry.last)) >= F BY <1>2 DEF Limiter!Evictable
  <2>3. /\ l_counted = 0 \/ l_counted + (l_entry.tokens - l_entry.last) <= L - l_since
        /\ l_counted = 0 \/ l_counted <= (L + l_latest) - l_since
    BY <1>0 DEF RateInv, BucketHeld
  <2> HIDE DEF F, L
  <2>4. l_counted = 0 \/ l_counted + (F - t) <= L - l_since
    BY <1>1, <2>1, <2>2, <2>3 DEF Limiter!Least
  <2> QED BY <2>3, <2>4 DEF F
<1>4. ArrivalAhead'
  <2> SUFFICES ASSUME ~ l_late, l_kind = "sliding_window"
               PROVE  /\ l_counted = 0 \/ l_counted <= t - l_since
                      /\ \/ l_counted = 0
                         \/ 2 * l_counted <= 2 * ((L + l_latest) - l_since) + Ticks
    BY <1>0, <1>2 DEF ArrivalAhead
  <2>1. l_entry.tokens < t BY <1>2 DEF Limiter!Evictable
  <2>2. /\ l_counted = 0 \/ l_counted <= l_entry.tokens - l_since
        /\ \/ l_counted = 0
           \/ 2 * l_counted <= 2 * ((L + l_latest) - l_since) + Ticks
    BY <1>0 DEF RateInv, ArrivalAhead
  <2> QED BY <1>1, <2>1, <2>2
<1> QED BY <1>3, <1>4

LEMMA RateTypesKept ==
  ASSUME Limiter!RateLimiterAssumption, RateInv, Limiter!Next
  PROVE  RateTypes'
<1> USE DEF RateInv
<1>1. ASSUME NEW c \in Callers, Limiter!acquire(c) PROVE RateTypes'
  <2>1. PICK cost \in 1..l_limit :
          l_call' = [l_call EXCEPT ![c] = [state |-> "asking", at |-> l_now, cost |-> cost, deadline |-> -1]]
    BY <1>1 DEF Limiter!acquire
  <2>2. cost \in Nat BY FullOfLimits DEF RateTypes, LimiterConfig
  <2> QED BY <1>1, <2>1, <2>2
    DEF RateTypes, LimiterConfig, IsEntry, Limiter!acquire, Limiter!config, Limiter!history
<1>2. ASSUME NEW c \in Callers, Limiter!wait(c) PROVE RateTypes'
  BY <1>2 DEF RateTypes, LimiterConfig, IsEntry, Limiter!wait, Limiter!config, Limiter!history
<1>3. ASSUME NEW c \in Callers, Limiter!Serve(c) PROVE RateTypes'
  <2> DEFINE t == Limiter!ServedAt(c)
             cost == l_call[c].cost
             d == Limiter!Acquired(l_entry, t, cost)
  <2>1. /\ t \in Nat /\ cost \in Nat /\ IsEntry(l_entry) /\ LimiterConfig
        /\ l_call[c].state = "asking"
    BY <1>3 DEF RateTypes, Limiter!Serve, Limiter!ServedAt
  <2>2. IsEntry(d.next)
    <3> HIDE DEF t, cost
    <3> QED BY <2>1, BucketAcquires, ConformAcquires DEF LimiterConfig, IsEntry
  <2>3. Limiter!Full(cost) \in Nat BY <2>1, FullGrows
  <2>4. /\ l_entry' = d.next /\ l_under' = l_limit
        /\ l_counted' = l_counted + Limiter!Full(cost) \/ l_counted' = l_counted
        /\ l_latest' = Limiter!Most(l_latest, t)
        /\ UNCHANGED <<l_adapter, l_kind, l_limit, l_now, l_since, l_dropped>>
    BY <1>3 DEF Limiter!Serve, Limiter!config
  <2>5. l_latest' \in Nat /\ l_counted' \in Nat /\ IsEntry(l_entry)' /\ LimiterConfig'
    BY <2>1, <2>2, <2>3, <2>4 DEF RateTypes, Limiter!Most, IsEntry, LimiterConfig
  <2>6. /\ l_call' = [l_call EXCEPT ![c] = IF d.allowed THEN Limiter!Idle ELSE Limiter!Denied(c, d)]
    BY <1>3 DEF Limiter!Serve
  <2>7. \/ Limiter!Denied(c, d) = Limiter!Idle
        \/ Limiter!Denied(c, d).state = "asleep" /\ Limiter!Denied(c, d).cost = cost
    BY DEF Limiter!Denied
  <2> DEFINE x == IF d.allowed THEN Limiter!Idle ELSE Limiter!Denied(c, d)
  <2>8. x.state = "idle" \/ (x.state = "asleep" /\ x.cost \in Nat) BY <2>1, <2>7 DEF Limiter!Idle
  <2>9. l_call' = [l_call EXCEPT ![c] = x] BY <2>6
  <2> HIDE DEF x, t, cost, d
  <2>10. /\ DOMAIN l_call' = Callers
         /\ \A b \in Callers :
              /\ l_call'[b].state = "asking" => l_call'[b].at \in Nat /\ l_call'[b].cost \in Nat
              /\ l_call'[b].state = "asleep" => l_call'[b].cost \in Nat
    BY <2>8, <2>9 DEF RateTypes
  <2> QED BY <2>4, <2>5, <2>10 DEF RateTypes, LimiterConfig
<1>4. ASSUME NEW c \in Callers, Limiter!Wake(c) PROVE RateTypes'
  BY <1>4 DEF RateTypes, LimiterConfig, IsEntry, Limiter!Wake, Limiter!config, Limiter!history
<1>5. ASSUME NEW c \in Callers, Limiter!BackendFails(c) PROVE RateTypes'
  BY <1>5 DEF RateTypes, LimiterConfig, IsEntry, Limiter!BackendFails, Limiter!config, Limiter!history, Limiter!Idle
<1>6. CASE Limiter!reset
  <2>1. Limiter!Largest \in RateLimits /\ LimiterTime \in Nat
    BY DEF Limiter!RateLimiterAssumption, Limiter!Largest
  <2> QED BY <1>6, <2>1 DEF RateTypes, LimiterConfig, IsEntry, Limiter!reset, Limiter!config
<1>7. CASE Limiter!_apply_reconfigure
  BY <1>7 DEF RateTypes, LimiterConfig, IsEntry, Limiter!_apply_reconfigure, Limiter!history
<1>8. CASE Limiter!_maybe_evict
  BY <1>8 DEF RateTypes, LimiterConfig, IsEntry, Limiter!_maybe_evict, Limiter!config
<1>9. CASE Limiter!Tick
  BY <1>9 DEF RateTypes, LimiterConfig, IsEntry, Limiter!Tick, Limiter!config, Limiter!history
<1> QED BY <1>1, <1>2, <1>3, <1>4, <1>5, <1>6, <1>7, <1>8, <1>9 DEF Limiter!Next

LEMMA RateStep ==
  ASSUME Limiter!RateLimiterAssumption, RateInv, [Limiter!Next]_Limiter!vars
  PROVE  RateInv'
<1>1. CASE UNCHANGED Limiter!vars
  BY <1>1 DEF RateInv, RateTypes, LimiterConfig, IsEntry, BucketHeld, ArrivalAhead, Limiter!vars
<1>2. CASE Limiter!Next
  <2> SUFFICES BucketHeld' /\ ArrivalAhead' BY <1>2, RateTypesKept DEF RateInv
  <2> DEFINE Held == UNCHANGED <<l_adapter, l_kind, l_entry, l_since, l_counted, l_latest,
                                 l_dropped, l_under, l_late>>
  <2>1. Held => BucketHeld' /\ ArrivalAhead' BY DEF RateInv, BucketHeld, ArrivalAhead
  <2>2. ASSUME NEW c \in Callers, Limiter!Serve(c) PROVE BucketHeld' /\ ArrivalAhead'
    <3>1. l_kind' = l_kind /\ l_adapter' = l_adapter BY <2>2 DEF Limiter!Serve, Limiter!config
    <3>2. BucketHeld'
      <4>1. CASE ~ l_late' /\ l_kind = "token_bucket" /\ l_adapter # "sqlite" BY <2>2, <4>1, BucketServed
      <4>2. CASE ~ (~ l_late' /\ l_kind = "token_bucket" /\ l_adapter # "sqlite")
        BY <3>1, <4>2 DEF BucketHeld
      <4> QED BY <4>1, <4>2
    <3>3. ArrivalAhead'
      <4>1. CASE ~ l_late' /\ l_kind = "sliding_window" BY <2>2, <4>1, ArrivalServed
      <4>2. CASE ~ (~ l_late' /\ l_kind = "sliding_window") BY <3>1, <4>2 DEF ArrivalAhead
      <4> QED BY <4>1, <4>2
    <3> QED BY <3>2, <3>3
  <2>3. CASE Limiter!reset
    <3>1. l_counted' = 0 /\ l_entry' = Null BY <2>3 DEF Limiter!reset
    <3> QED BY <3>1 DEF BucketHeld, ArrivalAhead
  <2>4. CASE Limiter!_maybe_evict BY <2>4, EvictedHeld
  <2>5. ASSUME NEW c \in Callers,
               Limiter!acquire(c) \/ Limiter!wait(c) \/ Limiter!Wake(c) \/ Limiter!BackendFails(c)
        PROVE  Held
    BY <2>5 DEF Limiter!acquire, Limiter!wait, Limiter!Wake, Limiter!BackendFails, Limiter!config, Limiter!history
  <2>6. CASE Limiter!_apply_reconfigure \/ Limiter!Tick
    <3>1. Held BY <2>6 DEF Limiter!_apply_reconfigure, Limiter!Tick, Limiter!config, Limiter!history
    <3> QED BY <2>1, <3>1
  <2> HIDE DEF Held
  <2> QED BY <1>2, <2>1, <2>2, <2>3, <2>4, <2>5, <2>6 DEF Limiter!Next
<1> QED BY <1>1, <1>2

LEMMA RateGives ==
  ASSUME Limiter!RateLimiterAssumption, RateInv
  PROVE  Limiter!LimiterKeepsItsRate
<1>1. Limiter!AdmittedWithinRate
  <2> SUFFICES ASSUME ~ l_late, ~ (l_latest < l_since), ~ (l_adapter = "sqlite" /\ l_kind = "token_bucket")
               PROVE  2 * l_counted <= 2 * (Limiter!Full(Limiter!Largest) + (l_latest - l_since))
                                       + IF l_kind = "token_bucket" THEN 0 ELSE Ticks
    BY DEF Limiter!AdmittedWithinRate
  <2> DEFINE L == Limiter!Full(Limiter!Largest)
  <2>1. /\ L \in Nat /\ l_counted \in Nat /\ l_latest \in Nat /\ l_since \in Nat /\ Ticks \in Nat
    BY FullOfLimits DEF RateInv, RateTypes, Limiter!RateLimiterAssumption
  <2>2. CASE l_kind = "token_bucket"
    <3>1. l_counted = 0 \/ l_counted <= (L + l_latest) - l_since BY <2>2 DEF RateInv, BucketHeld
    <3> HIDE DEF L
    <3>2. 2 * l_counted <= 2 * (L + (l_latest - l_since)) + 0 BY <2>1, <3>1
    <3> QED BY <2>2, <3>2 DEF L
  <2>3. CASE l_kind = "sliding_window"
    <3>1. l_counted = 0 \/ 2 * l_counted <= 2 * ((L + l_latest) - l_since) + Ticks
      BY <2>3 DEF RateInv, ArrivalAhead
    <3> HIDE DEF L
    <3>2. 2 * l_counted <= 2 * (L + (l_latest - l_since)) + Ticks BY <2>1, <3>1
    <3> QED BY <2>3, <3>2 DEF L
  <2> QED BY <2>2, <2>3 DEF RateInv, RateTypes, LimiterConfig
<1>2. Limiter!AnswersAreTrue
  <2>1. LimiterConfig /\ IsEntry(l_entry) BY DEF RateInv, RateTypes
  <2> SUFFICES ASSUME NEW t \in 0..LimiterTime
               PROVE  /\ Limiter!peek(l_entry, t).allowed <=> Limiter!Acquired(l_entry, t, 1).allowed
                      /\ \A cost \in 1..l_limit :
                           LET denied == Limiter!Acquired(l_entry, t, cost)
                           IN  denied.allowed
                                 \/ Limiter!Acquired(denied.next, t + denied.retry_after, cost).allowed
    BY DEF Limiter!AnswersAreTrue
  <2>2. t \in Nat OBVIOUS
  <2> QED BY <2>1, <2>2, PeekIsTrue, RetryAfterIsTrue
<1> QED BY <1>1, <1>2 DEF Limiter!LimiterKeepsItsRate

\* Whatever the store, the algorithm and the order in which callers that read the clock early
\* are served, what is granted between two points of time is within the rate, but for the
\* three exceptions of AdmittedWithinRate; peek and retry_after tell what acquire does.
THEOREM GrantsKeepTheRate ==
  ASSUME Limiter!RateLimiterAssumption
  PROVE  Limiter!Spec => []LimiterKeepsItsRate
<1>1. Limiter!Init => RateInv BY RateInit
<1>2. RateInv /\ [Limiter!Next]_Limiter!vars => RateInv' BY RateStep
<1>3. RateInv => LimiterKeepsItsRate BY RateGives DEF LimiterKeepsItsRate
<1> QED BY <1>1, <1>2, <1>3, PTL DEF Limiter!Spec

\* No time that the limiter or its callers have is later than the clock goes.
RateTimes ==
  /\ l_adapter \in Adapters /\ l_kind \in Kinds /\ l_late \in BOOLEAN
  /\ {l_now, l_since, l_latest, l_dropped} \subseteq 0..LimiterTime
  /\ l_entry # Null => l_entry.last <= LimiterTime
  /\ \A c \in Callers :
       /\ l_call[c].state \in {"idle", "asking", "asleep"}
       /\ l_call[c].state = "asking" => l_call[c].at \in 0..LimiterTime

\* A request writes its own time, or leaves the time that it finds.
LEMMA AcquiredLast ==
  ASSUME Limiter!RateLimiterAssumption, LimiterConfig, NEW e, IsEntry(e), NEW t \in Nat,
         NEW cost \in Nat
  PROVE  LET d == Limiter!Acquired(e, t, cost)
         IN  d.next.last = t \/ d.next = e \/ d.next = Null
<1>1. Found(e, t) = e \/ Found(e, t) = Null
  BY FoundFacts
<1>2. CASE l_kind = "token_bucket"
  BY <1>2, BucketAcquires
<1>3. CASE l_kind = "sliding_window"
  BY <1>1, <1>3, ConformStores
<1> QED BY <1>2, <1>3 DEF LimiterConfig

LEMMA RateTimesStep ==
  ASSUME Limiter!RateLimiterAssumption, RateInv, RateTimes, [Limiter!Next]_Limiter!vars
  PROVE  RateTimes'
<1>0. LimiterTime \in Nat /\ RateTypes /\ DOMAIN l_call = Callers
  BY DEF Limiter!RateLimiterAssumption, RateInv, RateTypes
<1> DEFINE Calls(x) == /\ x.state \in {"idle", "asking", "asleep"}
                       /\ x.state = "asking" => x.at \in 0..LimiterTime
           History == UNCHANGED <<l_since, l_latest, l_dropped, l_late>>
           Config == UNCHANGED <<l_adapter, l_kind>>
<1>1. ASSUME Config, History, UNCHANGED <<l_now, l_entry>>, NEW c \in Callers, NEW x, Calls(x),
             l_call' = [l_call EXCEPT ![c] = x]
      PROVE  RateTimes'
  <2>1. \A d \in Callers : l_call'[d] = IF d = c THEN x ELSE l_call[d]
    BY <1>0, <1>1
  <2> QED BY <1>1, <2>1 DEF RateTimes
<1>2. ASSUME NEW c \in Callers,
             Limiter!acquire(c) \/ Limiter!wait(c) \/ Limiter!Wake(c) \/ Limiter!BackendFails(c)
      PROVE  RateTimes'
  <2>1. Config /\ History /\ UNCHANGED <<l_now, l_entry>>
    BY <1>2 DEF Limiter!acquire, Limiter!wait, Limiter!Wake, Limiter!BackendFails, Limiter!config,
         Limiter!history
  <2>2. \/ \E cost, until : l_call' = [l_call EXCEPT ![c] =
              [state |-> "asking", at |-> l_now, cost |-> cost, deadline |-> until]]
        \/ l_call' = [l_call EXCEPT ![c] = [state |-> "idle"]]
    BY <1>2 DEF Limiter!acquire, Limiter!wait, Limiter!Wake, Limiter!BackendFails, Limiter!Idle
  <2>3. \A cost, until :
          Calls([state |-> "asking", at |-> l_now, cost |-> cost, deadline |-> until])
    BY DEF RateTimes
  <2>4. Calls([state |-> "idle"])
    OBVIOUS
  <2> HIDE DEF Calls
  <2> QED BY <1>1, <2>1, <2>2, <2>3, <2>4
<1>3. ASSUME NEW c \in Callers, Limiter!Serve(c) PROVE RateTimes'
  <2> DEFINE t == Limiter!ServedAt(c)
             cost == l_call[c].cost
             d == Limiter!Acquired(l_entry, t, cost)
             x == IF d.allowed THEN Limiter!Idle ELSE Limiter!Denied(c, d)
  <2>1. /\ t \in 0..LimiterTime /\ cost \in Nat /\ IsEntry(l_entry) /\ LimiterConfig
    BY <1>0, <1>3 DEF RateTypes, RateTimes, Limiter!Serve, Limiter!ServedAt
  <2>2. d.next # Null => d.next.last <= LimiterTime
    <3>1. l_entry # Null => l_entry.last <= LimiterTime
      BY DEF RateTimes
    <3>2. t \in Nat /\ t <= LimiterTime
      BY <1>0, <2>1
    <3> HIDE DEF t, cost
    <3>3. d.next.last = t \/ d.next = l_entry \/ d.next = Null
      BY <2>1, <3>2, AcquiredLast
    <3> HIDE DEF d
    <3> QED BY <3>1, <3>2, <3>3
  <2>3. /\ l_entry' = d.next /\ l_latest' = Limiter!Most(l_latest, t)
        /\ l_late' = (l_late \/ Limiter!Missed(t))
        /\ UNCHANGED <<l_adapter, l_kind, l_now, l_since, l_dropped>>
        /\ l_call' = [l_call EXCEPT ![c] = x]
    BY <1>3 DEF Limiter!Serve, Limiter!config
  <2>4. l_latest' \in 0..LimiterTime /\ l_late' \in BOOLEAN
    <3>1. l_latest \in 0..LimiterTime
      BY DEF RateTimes
    <3> HIDE DEF t
    <3> QED BY <2>1, <2>3, <3>1 DEF Limiter!Most
  <2>5. Calls(x)
    BY DEF Limiter!Idle, Limiter!Denied
  <2> HIDE DEF x, d, t
  <2>6. \A b \in Callers : l_call'[b] = IF b = c THEN x ELSE l_call[b]
    BY <1>0, <2>3
  <2>7. \A b \in Callers : Calls(l_call'[b])
    BY <2>5, <2>6 DEF RateTimes
  <2> QED BY <2>2, <2>3, <2>4, <2>7 DEF RateTimes
<1>4. CASE Limiter!reset
  BY <1>0, <1>4 DEF RateTimes, Limiter!reset, Limiter!config
<1>5. CASE Limiter!_apply_reconfigure
  BY <1>5 DEF RateTimes, Limiter!_apply_reconfigure, Limiter!history
<1>6. CASE Limiter!_maybe_evict
  <2>1. l_dropped' \in 0..l_now
    <3>1. l_now \in 0..l_now
      BY <1>0 DEF RateTypes
    <3> QED BY <1>6, <3>1 DEF Limiter!_maybe_evict
  <2>2. l_now \in 0..LimiterTime
    BY DEF RateTimes
  <2>3. l_dropped' \in 0..LimiterTime
    BY <1>0, <2>1, <2>2
  <2>4. UNCHANGED <<l_adapter, l_kind, l_now, l_call, l_since, l_latest, l_late>> /\ l_entry' = Null
    BY <1>6 DEF Limiter!_maybe_evict, Limiter!config
  <2> QED BY <2>3, <2>4 DEF RateTimes
<1>7. CASE Limiter!Tick
  BY <1>0, <1>7 DEF RateTimes, Limiter!Tick, Limiter!config, Limiter!history
<1>8. CASE UNCHANGED Limiter!vars
  BY <1>8 DEF RateTimes, Limiter!vars
<1> QED BY <1>2, <1>3, <1>4, <1>5, <1>6, <1>7, <1>8 DEF Limiter!Next

LEMMA LimiterKeepsTypes ==
  ASSUME Limiter!RateLimiterAssumption
  PROVE  Limiter!Spec => []Limiter!TypeOK
<1>1. Limiter!Init => RateInv /\ RateTimes
  <2> SUFFICES ASSUME Limiter!Init PROVE RateTimes
    BY RateInit
  <2>1. LimiterTime \in Nat /\ MaxSince \in Nat /\ MaxSince <= LimiterTime
    BY DEF Limiter!RateLimiterAssumption
  <2>2. l_since \in 0..LimiterTime
    BY <2>1 DEF Limiter!Init
  <2>3. l_adapter \in Adapters /\ l_kind \in Kinds /\ l_late \in BOOLEAN /\ l_entry = Null
    BY DEF Limiter!Init
  <2>4. l_now = 0 /\ l_latest = 0 /\ l_dropped = 0
    BY DEF Limiter!Init
  <2>5. \A c \in Callers : l_call[c] = [state |-> "idle"]
    BY DEF Limiter!Init, Limiter!Idle
  <2> QED BY <2>1, <2>2, <2>3, <2>4, <2>5 DEF RateTimes
<1>2. RateInv /\ RateTimes /\ [Limiter!Next]_Limiter!vars => RateInv' /\ RateTimes'
  BY RateStep, RateTimesStep
<1>3. RateInv /\ RateTimes => Limiter!TypeOK
  BY DEF RateInv, RateTypes, RateTimes, LimiterConfig, IsEntry, Limiter!TypeOK
<1> QED BY <1>1, <1>2, <1>3, PTL DEF Limiter!Spec

-----------------------------------------------------------------------------
\* The bodies that a task lock keeps apart.

Users == Coroutines \cup Threads
Tok(e, k) == <<WorkerOf[e], IF e \in Coroutines THEN e ELSE WorkerOf[e], k>>
Toks == {Tok(e, k) : e \in Users, k \in Nat}
Asks == [op : {"acquire", "release"}, token : Toks, duration : Nat,
         state : {"sent", "yes", "no"}, at : Nat]
Shortest == CHOOSE m \in MinHolds : \A n \in MinHolds : m <= n

LEMMA ShortestFacts ==
  ASSUME Leased!TaskLockAssumption
  PROVE  /\ Shortest \in Nat /\ Shortest \in MinHolds /\ Lease \in Nat
         /\ \A m \in MinHolds : m \in Nat /\ Shortest <= m /\ m <= Lease
<1>1. MinHolds \subseteq Nat /\ MinHolds # {} /\ Lease \in Nat /\ \A m \in MinHolds : m <= Lease
  BY DEF Leased!TaskLockAssumption
<1>2. \E x \in MinHolds : \A y \in MinHolds : x <= y BY <1>1, LeastNatural
<1>3. Shortest \in MinHolds /\ \A n \in MinHolds : Shortest <= n BY <1>2 DEF Shortest
<1> QED BY <1>1, <1>3

LEMMA UserFacts ==
  ASSUME Leased!TaskLockAssumption, NEW e \in Users
  PROVE  WorkerOf[e] \in Workers /\ Leased!Token(e) = Tok(e, m_nonce[WorkerOf[e]])
  BY DEF Leased!TaskLockAssumption, Leased!Entrants, Users, Leased!Token, Tok

\* With one thread for each worker, a token tells whose it is.
LEMMA TokensTell ==
  ASSUME Leased!TaskLockAssumption, Leased!OneThreadEach, NEW e \in Users, NEW f \in Users,
         NEW j, NEW k, Tok(e, j) = Tok(f, k)
  PROVE  e = f /\ j = k
<1>1. /\ WorkerOf[e] = WorkerOf[f] /\ j = k
      /\ (IF e \in Coroutines THEN e ELSE WorkerOf[e]) = (IF f \in Coroutines THEN f ELSE WorkerOf[f])
  BY DEF Tok
<1>2. WorkerOf[e] \in Workers /\ WorkerOf[f] \in Workers BY UserFacts
<1>3. Coroutines \cap Workers = {} BY DEF Leased!TaskLockAssumption
<1>4. CASE e \in Coroutines /\ f \in Coroutines BY <1>1, <1>4
<1>5. CASE e \notin Coroutines /\ f \notin Coroutines
  BY <1>1, <1>5 DEF Leased!OneThreadEach, Users
<1> QED BY <1>1, <1>2, <1>3, <1>4, <1>5

\* A grant at g for `tok` is old, or the lease still runs; and no request that travels can cut
\* it short.  t: the time, o and x: the store, S: the requests that travel.
Holding(tok, g, t, o, x, S) ==
  /\ g \in Nat /\ g <= t
  /\ g + Shortest <= t \/ (o = tok /\ g + Shortest <= x)
  /\ \A r \in S : r.token = tok => g + Shortest <= t + IF r.op = "release" THEN 0 ELSE r.duration

Opening(r) == r.op = "acquire" /\ r.duration = Lease
\* What the backend makes of request r at time t.
Served(r, t, o, x, o1, x1) ==
  \/ r.op = "acquire" /\ (o = Null \/ x < t \/ o = r.token) /\ o1 = r.token /\ x1 = t + r.duration
  \/ r.op = "release" /\ o = r.token /\ o1 = Null /\ x1 = 0
  \/ o1 = o /\ x1 = x

LEMMA AskFields ==
  ASSUME NEW r \in Asks
  PROVE  /\ r.op \in {"acquire", "release"} /\ r.token \in Toks /\ r.duration \in Nat
         /\ r.state \in {"sent", "yes", "no"} /\ r.at \in Nat
  BY DEF Asks

LEMMA ClaimAges ==
  ASSUME Leased!TaskLockAssumption, NEW tok, NEW g, NEW t \in Nat, NEW o, NEW x \in Nat, NEW S, S \subseteq Asks,
         Holding(tok, g, t, o, x, S), NEW u \in Nat, t <= u, NEW R, R \subseteq S
  PROVE  Holding(tok, g, u, o, x, R)
<1> DEFINE m == Shortest
<1>1. m \in Nat BY ShortestFacts
<1>2. /\ g \in Nat /\ g <= t /\ (g + m <= t \/ (o = tok /\ g + m <= x))
      /\ \A r \in S : r.token = tok => g + m <= t + IF r.op = "release" THEN 0 ELSE r.duration
  BY DEF Holding
<1> HIDE DEF m
<1>3. g <= u /\ (g + m <= u \/ (o = tok /\ g + m <= x)) BY <1>1, <1>2
<1>4. ASSUME NEW r \in R, r.token = tok
      PROVE  g + m <= u + IF r.op = "release" THEN 0 ELSE r.duration
  <2> DEFINE d == IF r.op = "release" THEN 0 ELSE r.duration
  <2>1. r \in Asks BY <1>4
  <2>2. d \in Nat BY <2>1, AskFields
  <2>3. g + m <= t + d BY <1>2, <1>4
  <2> HIDE DEF d
  <2>4. g + m <= u + d BY <1>1, <1>2, <2>2, <2>3
  <2> QED BY <2>4 DEF d
<1> QED BY <1>2, <1>3, <1>4 DEF Holding, m

LEMMA ClaimServed ==
  ASSUME Leased!TaskLockAssumption, NEW tok, tok # Null, NEW g, NEW t \in Nat, NEW o, NEW x \in Nat,
         NEW S, S \subseteq Asks, Holding(tok, g, t, o, x, S), NEW r \in S, NEW o1, NEW x1,
         Served(r, t, o, x, o1, x1), NEW R, R \subseteq S
  PROVE  Holding(tok, g, t, o1, x1, R)
<1> DEFINE m == Shortest
<1>1. m \in Nat /\ r \in Asks BY ShortestFacts
<1>2. /\ g \in Nat /\ g <= t /\ (g + m <= t \/ (o = tok /\ g + m <= x))
      /\ \A q \in R : q.token = tok => g + m <= t + IF q.op = "release" THEN 0 ELSE q.duration
      /\ r.token = tok => g + m <= t + IF r.op = "release" THEN 0 ELSE r.duration
  BY DEF Holding
<1> HIDE DEF m
<1>3. r.duration \in Nat BY <1>1, AskFields
<1>4. g + m <= t \/ (o1 = tok /\ g + m <= x1)
  <2>1. CASE r.op = "acquire" /\ (o = Null \/ x < t \/ o = r.token) /\ o1 = r.token /\ x1 = t + r.duration
    BY <1>1, <1>2, <1>3, <2>1
  <2>2. CASE r.op = "release" /\ o = r.token /\ o1 = Null /\ x1 = 0
    BY <1>1, <1>2, <1>3, <2>2
  <2>3. CASE o1 = o /\ x1 = x BY <1>2, <2>3
  <2> QED BY <2>1, <2>2, <2>3 DEF Served
<1> QED BY <1>2, <1>4 DEF Holding, m

LEMMA ClaimAsked ==
  ASSUME Leased!TaskLockAssumption, NEW tok, NEW g, NEW t \in Nat, NEW o, NEW x,
         NEW S, Holding(tok, g, t, o, x, S), NEW r, NEW R, R \subseteq S \cup {r},
         \/ Opening(r)
         \/ r.token # tok
         \/ g + Shortest <= t + IF r.op = "release" THEN 0 ELSE r.duration
  PROVE  Holding(tok, g, t, o, x, R)
<1> DEFINE m == Shortest
<1>1. m \in Nat /\ Lease \in Nat /\ m <= Lease BY ShortestFacts
<1>2. g \in Nat /\ g <= t BY DEF Holding
<1> HIDE DEF m
<1>3. g + m <= t + Lease BY <1>1, <1>2
<1>4. r.token = tok => g + m <= t + IF r.op = "release" THEN 0 ELSE r.duration
  BY <1>3 DEF Opening, m
<1> QED BY <1>4 DEF Holding, m

\* The requests that travel.
Sents == m_orphans \cup {m_req[e] : e \in {f \in Users : m_req[f].state = "sent"}}

\* Request r was made by e, and before a later exit of its TaskLock unless it opens a lease.
MadeBy(r, e, n) ==
  \E k \in Nat : r.token = Tok(e, k) /\ k <= n[WorkerOf[e]] /\ (Opening(r) \/ k < n[WorkerOf[e]])

\* The store has granted e the lock, and the answer is on its way.
Pending(e) == m_pc[e] = "enter" /\ m_req[e].state = "yes"

HoldTypes ==
  /\ m_now \in Nat /\ m_expire_at \in Nat
  /\ m_min_hold \in [Workers -> MinHolds] /\ m_nonce \in [Workers -> 0..MaxEntries]
  /\ m_acquired_at \in [Workers -> Nat \cup {Null}]
  /\ \A w \in Workers : m_acquired_at[w] # Null => m_acquired_at[w] <= m_now
  /\ m_pc \in [Users -> {"out", "enter", "body", "refresh", "exit"}]
  /\ m_req \in [Users -> Asks \cup {Leased!NoRequest}] /\ m_orphans \subseteq Asks
RequestsMatch ==
  /\ \A e \in Users :
       /\ m_pc[e] \in {"out", "body"} => m_req[e] = Leased!NoRequest
       /\ m_pc[e] \in {"enter", "refresh", "exit"} => m_req[e] \in Asks /\ MadeBy(m_req[e], e, m_nonce)
       /\ m_pc[e] \in {"enter", "refresh"} => Opening(m_req[e])
  /\ \A r \in m_orphans : \E e \in Users : MadeBy(r, e, m_nonce)
\* Nothing that ends or shortens a lease carries the token of somebody who enters.
EntersAreFresh ==
  \A e \in Users, r \in Sents : m_pc[e] = "enter" /\ ~ Opening(r) => r.token # m_req[e].token
PendingsHeld ==
  \A e \in Users : Pending(e) =>
    /\ Holding(m_req[e].token, m_req[e].at, m_now, m_owner, m_expire_at, Sents)
    /\ \A f \in Users : Pending(f) /\ f # e => Leased!Apart(m_req[e].at, m_req[f].at, Shortest)
\* The token of the last body that began is used up, or its user still is in the body.
Spent(h, k) ==
  \/ k < m_nonce[WorkerOf[h]]
  \/ /\ m_pc[h] \in {"body", "refresh"}
     /\ m_acquired_at[WorkerOf[h]] # Null /\ m_acquired_at[WorkerOf[h]] >= m_granted
LastHeld ==
  m_granted # Null =>
    /\ \A e \in Users : Pending(e) => Leased!Apart(m_req[e].at, m_granted, Shortest)
    /\ \E h \in Users, k \in Nat :
         /\ k <= m_nonce[WorkerOf[h]] /\ Spent(h, k)
         /\ Holding(Tok(h, k), m_granted, m_now, m_owner, m_expire_at, Sents)
         /\ \A e \in Users : m_pc[e] = "enter" => m_req[e].token # Tok(h, k)

HoldInv == HoldTypes /\ RequestsMatch /\ EntersAreFresh /\ PendingsHeld /\ LastHeld

LEMMA HoldInit ==
  ASSUME Leased!TaskLockAssumption, Leased!Init
  PROVE  HoldInv
<1>1. \A e \in Users : m_pc[e] = "out" /\ m_req[e] = Leased!NoRequest
  BY DEF Leased!Init, Users, Leased!Entrants
<1>2. m_orphans = {} /\ m_granted = Null BY DEF Leased!Init
<1>0. 0 \in 0..MaxEntries BY DEF Leased!TaskLockAssumption
<1>3. HoldTypes BY <1>0 DEF HoldTypes, Leased!Init, Users, Leased!Entrants
<1>4. RequestsMatch BY <1>1, <1>2 DEF RequestsMatch
<1>5. EntersAreFresh /\ PendingsHeld /\ LastHeld
  BY <1>1, <1>2 DEF EntersAreFresh, PendingsHeld, LastHeld, Pending
<1> QED BY <1>3, <1>4, <1>5 DEF HoldInv

LEMMA SentsFacts ==
  ASSUME Leased!TaskLockAssumption, HoldInv
  PROVE  /\ Sents \subseteq Asks
         /\ \A r \in Sents : \E e \in Users : MadeBy(r, e, m_nonce)
         /\ \A e \in Users : m_req[e].state = "sent" => m_req[e] \in Sents
         /\ \A e \in Users : m_req[e] = Leased!NoRequest => m_req[e].state = "none"
         /\ \A e \in Users : m_pc[e] \in {"out", "body"} => m_req[e].state = "none"
<1>1. \A e \in Users : m_req[e] = Leased!NoRequest => m_req[e].state = "none" BY DEF Leased!NoRequest
<1>2. \A e \in Users : m_pc[e] \in {"out", "body"} => m_req[e].state = "none"
  BY <1>1 DEF HoldInv, RequestsMatch
<1>3. \A e \in Users : m_req[e].state = "sent" => m_req[e] \in Asks /\ MadeBy(m_req[e], e, m_nonce)
  BY <1>2 DEF HoldInv, HoldTypes, RequestsMatch
<1>4. \A r \in m_orphans : r \in Asks /\ \E e \in Users : MadeBy(r, e, m_nonce)
  BY DEF HoldInv, HoldTypes, RequestsMatch
<1> QED BY <1>1, <1>2, <1>3, <1>4 DEF Sents

LEMMA NonceFacts ==
  ASSUME Leased!TaskLockAssumption, HoldInv, NEW e \in Users
  PROVE  /\ WorkerOf[e] \in Workers /\ MaxEntries \in Nat
         /\ m_nonce[WorkerOf[e]] \in Nat /\ m_nonce[WorkerOf[e]] <= MaxEntries
<1>1. MaxEntries \in Nat /\ WorkerOf[e] \in Workers BY UserFacts DEF Leased!TaskLockAssumption
<1>2. m_nonce[WorkerOf[e]] \in 0..MaxEntries BY <1>1 DEF HoldInv, HoldTypes
<1> QED BY <1>1, <1>2

LEMMA NotNone ==
  ASSUME Leased!TaskLockAssumption, HoldInv, NEW e \in Users, NEW k \in Nat, k <= m_nonce[WorkerOf[e]]
  PROVE  Tok(e, k) # Null
<1>1. WorkerOf[e] \in Workers /\ k \in 0..MaxEntries BY NonceFacts
<1>2. Tok(e, k) \in Leased!Tokens BY <1>1 DEF Tok, Leased!Tokens, Users
<1> QED BY <1>2 DEF Leased!TaskLockAssumption

\* The step asks for nothing and is answered nothing.
Quiet ==
  /\ m_now' \in Nat /\ m_now <= m_now'
  /\ UNCHANGED <<m_owner, m_expire_at, m_acquired_at, m_nonce, m_granted>>
  /\ m_min_hold' \in [Workers -> MinHolds]
  /\ m_orphans' \subseteq Sents
  /\ m_pc' = [e \in Users |-> m_pc'[e]] /\ m_req' = [e \in Users |-> m_req'[e]]
  /\ \A e \in Users :
       \/ m_pc'[e] = m_pc[e] /\ m_req'[e] = m_req[e]
       \/ /\ \/ m_pc[e] = "refresh" /\ m_pc'[e] = "body"
             \/ m_pc[e] \in {"enter", "exit"} /\ m_pc'[e] = "out"
          /\ m_req'[e] = Leased!NoRequest

LEMMA QuietKeeps ==
  ASSUME Leased!TaskLockAssumption, HoldInv, Quiet
  PROVE  HoldInv'
<1>1. Sents' \subseteq Sents
  <2>1. \A e \in Users : m_req'[e].state = "sent" => m_req'[e] = m_req[e]
    BY DEF Quiet, Leased!NoRequest
  <2>2. \A e \in Users : m_req'[e].state = "sent" => m_req'[e] \in Sents BY <2>1, SentsFacts
  <2>3. m_orphans' \subseteq Sents BY DEF Quiet
  <2> QED BY <2>2, <2>3 DEF Sents
<1>2. HoldTypes'
  <2>1. \A w \in Workers : m_acquired_at'[w] # Null => m_acquired_at'[w] <= m_now'
    <3> SUFFICES ASSUME NEW w \in Workers, m_acquired_at[w] # Null PROVE m_acquired_at[w] <= m_now'
      BY DEF Quiet
    <3>1. m_acquired_at[w] \in Nat /\ m_acquired_at[w] <= m_now /\ m_now \in Nat
      BY DEF HoldInv, HoldTypes
    <3> QED BY <3>1 DEF Quiet
  <2>2. m_orphans' \subseteq Asks BY SentsFacts DEF Quiet
  <2>3. m_pc' \in [Users -> {"out", "enter", "body", "refresh", "exit"}]
        /\ m_req' \in [Users -> Asks \cup {Leased!NoRequest}]
    <3>1. \A e \in Users : m_pc'[e] \in {"out", "enter", "body", "refresh", "exit"}
                           /\ m_req'[e] \in Asks \cup {Leased!NoRequest}
      BY DEF Quiet, HoldInv, HoldTypes
    <3>2. m_pc' = [e \in Users |-> m_pc'[e]] /\ m_req' = [e \in Users |-> m_req'[e]]
      BY DEF Quiet
    <3> QED BY <3>1, <3>2
  <2> QED BY <2>1, <2>2, <2>3 DEF Quiet, HoldInv, HoldTypes
<1>3. RequestsMatch'
  <2>1. \A r \in m_orphans' : \E e \in Users : MadeBy(r, e, m_nonce') BY SentsFacts DEF Quiet
  <2>2. \A e \in Users :
       /\ m_pc'[e] \in {"out", "body"} => m_req'[e] = Leased!NoRequest
       /\ m_pc'[e] \in {"enter", "refresh", "exit"} => m_req'[e] \in Asks /\ MadeBy(m_req'[e], e, m_nonce')
       /\ m_pc'[e] \in {"enter", "refresh"} => Opening(m_req'[e])
    BY DEF Quiet, HoldInv, RequestsMatch
  <2> QED BY <2>1, <2>2 DEF RequestsMatch
<1>4. \A e \in Users : m_pc'[e] = "enter" => m_pc[e] = "enter" /\ m_req'[e] = m_req[e] BY DEF Quiet
<1>5. EntersAreFresh' BY <1>1, <1>4 DEF HoldInv, EntersAreFresh
<1>6. \A e \in Users : Pending(e)' => Pending(e) /\ m_req'[e] = m_req[e] BY <1>4 DEF Pending
<1>7. \A tok, g : Holding(tok, g, m_now, m_owner, m_expire_at, Sents) =>
                    Holding(tok, g, m_now', m_owner', m_expire_at', Sents')
  <2>1. /\ m_now \in Nat /\ m_now' \in Nat /\ m_now <= m_now' /\ m_expire_at \in Nat
        /\ m_owner' = m_owner /\ m_expire_at' = m_expire_at /\ Sents \subseteq Asks
    BY SentsFacts DEF Quiet, HoldInv, HoldTypes
  <2> QED BY <1>1, <2>1, ClaimAges
<1>8. PendingsHeld'
  <2> SUFFICES ASSUME NEW e \in Users, Pending(e)'
               PROVE  /\ Holding(m_req'[e].token, m_req'[e].at, m_now', m_owner', m_expire_at', Sents')
                      /\ \A f \in Users : Pending(f)' /\ f # e => Leased!Apart(m_req'[e].at, m_req'[f].at, Shortest)
    BY DEF PendingsHeld
  <2> QED BY <1>6, <1>7 DEF HoldInv, PendingsHeld
<1>9. LastHeld'
  <2> SUFFICES ASSUME m_granted # Null
               PROVE  /\ \A e \in Users : Pending(e)' => Leased!Apart(m_req'[e].at, m_granted, Shortest)
                      /\ \E h \in Users, k \in Nat :
                           /\ k <= m_nonce[WorkerOf[h]] /\ Spent(h, k)'
                           /\ Holding(Tok(h, k), m_granted, m_now', m_owner', m_expire_at', Sents')
                           /\ \A e \in Users : m_pc'[e] = "enter" => m_req'[e].token # Tok(h, k)
    BY DEF LastHeld, Quiet
  <2>1. \A e \in Users : Pending(e)' => Leased!Apart(m_req'[e].at, m_granted, Shortest)
    BY <1>6 DEF HoldInv, LastHeld
  <2>2. PICK h \in Users, k \in Nat :
         /\ k <= m_nonce[WorkerOf[h]] /\ Spent(h, k)
         /\ Holding(Tok(h, k), m_granted, m_now, m_owner, m_expire_at, Sents)
         /\ \A e \in Users : m_pc[e] = "enter" => m_req[e].token # Tok(h, k)
    BY DEF HoldInv, LastHeld
  <2>3. Spent(h, k)' BY <2>2 DEF Spent, Quiet
  <2> QED BY <1>4, <1>7, <2>1, <2>2, <2>3
<1> QED BY <1>2, <1>3, <1>5, <1>8, <1>9 DEF HoldInv

LEMMA QuietSteps ==
  ASSUME Leased!TaskLockAssumption, HoldInv,
         \/ \E e \in Users : \/ Leased!WouldBlock(e) \/ Leased!Refreshed(e) \/ Leased!Exited(e)
                             \/ Leased!Fail(e)
         \/ \E w \in Workers : Leased!reconfigure(w)
         \/ Leased!Tick
  PROVE  Quiet
<1>0. /\ m_now \in Nat /\ m_min_hold \in [Workers -> MinHolds] /\ m_orphans \subseteq Sents
      /\ m_pc = [e \in Users |-> m_pc[e]] /\ m_req = [e \in Users |-> m_req[e]]
      /\ DOMAIN m_pc = Users /\ DOMAIN m_req = Users
  BY DEF HoldInv, HoldTypes, Sents
<1>1. ASSUME NEW e \in Users, NEW place,
             m_pc' = [m_pc EXCEPT ![e] = place], m_req' = [m_req EXCEPT ![e] = Leased!NoRequest],
             \/ m_pc[e] = "refresh" /\ place = "body"
             \/ m_pc[e] \in {"enter", "exit"} /\ place = "out",
             UNCHANGED <<m_now, m_owner, m_expire_at, m_acquired_at, m_nonce, m_granted, m_min_hold>>,
             m_orphans' \subseteq Sents
      PROVE  Quiet
  <2>1. m_now' \in Nat /\ m_now <= m_now' BY <1>0, <1>1
  <2>2. m_pc' = [f \in Users |-> m_pc'[f]] /\ m_req' = [f \in Users |-> m_req'[f]] BY <1>0, <1>1
  <2>3. m_pc'[e] = place /\ m_req'[e] = Leased!NoRequest BY <1>0, <1>1
  <2>4. \A f \in Users : f # e => m_pc'[f] = m_pc[f] /\ m_req'[f] = m_req[f] BY <1>0, <1>1
  <2> QED BY <1>0, <1>1, <2>1, <2>2, <2>3, <2>4 DEF Quiet
<1>2. ASSUME NEW e \in Users, Leased!WouldBlock(e) PROVE Quiet
  BY <1>0, <1>1, <1>2 DEF Leased!WouldBlock, Leased!Resume, Leased!Answered, Leased!object, Leased!store
<1>3. ASSUME NEW e \in Users, Leased!Refreshed(e) PROVE Quiet
  BY <1>0, <1>1, <1>3 DEF Leased!Refreshed, Leased!Resume, Leased!object, Leased!store
<1>4. ASSUME NEW e \in Users, Leased!Exited(e) PROVE Quiet
  BY <1>0, <1>1, <1>4 DEF Leased!Exited, Leased!Resume, Leased!object, Leased!store
<1>5. ASSUME NEW e \in Users, Leased!Fail(e) PROVE Quiet
  <2>1. m_pc[e] \in {"enter", "refresh", "exit"}
    BY <1>5 DEF Leased!Fail, HoldInv, HoldTypes, RequestsMatch
  <2>2. m_orphans' \subseteq Sents BY <1>0, <1>5, SentsFacts DEF Leased!Fail
  <2> QED BY <1>1, <1>5, <2>1, <2>2 DEF Leased!Fail, Leased!object, Leased!store
<1>6. ASSUME NEW w \in Workers, Leased!reconfigure(w) PROVE Quiet
  BY <1>0, <1>6 DEF Leased!reconfigure, Leased!store, Quiet
<1>7. CASE Leased!Tick
  BY <1>0, <1>7 DEF Leased!Tick, Leased!store, Leased!object, Quiet
<1> QED BY <1>2, <1>3, <1>4, <1>5, <1>6, <1>7

\* An answer of the backend.
LEMMA ServeIsServed ==
  ASSUME Leased!TaskLockAssumption, NEW r \in Asks, NEW yes, Leased!Serve(r, yes)
  PROVE  /\ Served(r, m_now, m_owner, m_expire_at, m_owner', m_expire_at')
         /\ yes /\ r.op = "acquire" =>
              /\ m_owner = Null \/ m_expire_at < m_now \/ m_owner = r.token
              /\ m_owner' = r.token /\ m_expire_at' = m_now + r.duration
<1>1. r.op \in {"acquire", "release"} BY AskFields
<1> QED BY <1>1 DEF Leased!Serve, Served, Leased!Free, Leased!store

LEMMA ServedKeeps ==
  ASSUME Leased!TaskLockAssumption, HoldInv, NEW r \in Sents, NEW yes, Leased!Serve(r, yes),
         Sents' \subseteq Sents
  PROVE  \A g : \A e \in Users, k \in Nat : k <= m_nonce[WorkerOf[e]] =>
           (Holding(Tok(e, k), g, m_now, m_owner, m_expire_at, Sents) =>
              Holding(Tok(e, k), g, m_now, m_owner', m_expire_at', Sents'))
<1>1. r \in Asks /\ Sents \subseteq Asks BY SentsFacts
<1>2. Served(r, m_now, m_owner, m_expire_at, m_owner', m_expire_at') BY <1>1, ServeIsServed
<1>3. m_now \in Nat /\ m_expire_at \in Nat BY DEF HoldInv, HoldTypes
<1> QED BY <1>1, <1>2, <1>3, NotNone, ClaimServed

\* After a claim is ruled out as the running lease, it is old.
LEMMA OldClaim ==
  ASSUME Leased!TaskLockAssumption, NEW tok, tok # Null, NEW g, NEW t \in Nat, NEW o, NEW x \in Nat, NEW S,
         Holding(tok, g, t, o, x, S), NEW u, u # tok, o = Null \/ x < t \/ o = u
  PROVE  g + Shortest <= t /\ Leased!Apart(g, t, Shortest) /\ Leased!Apart(t, g, Shortest)
<1> DEFINE m == Shortest
<1>1. m \in Nat BY ShortestFacts
<1>2. g \in Nat /\ g <= t /\ (g + m <= t \/ (o = tok /\ g + m <= x)) BY DEF Holding
<1> HIDE DEF m
<1>3. g + m <= t BY <1>1, <1>2
<1>4. t - g >= m BY <1>1, <1>2, <1>3
<1> QED BY <1>3, <1>4 DEF m, Leased!Apart

LEMMA AnswerKeeps ==
  ASSUME Leased!TaskLockAssumption, Leased!OneThreadEach, HoldInv, NEW r \in Sents, NEW yes \in BOOLEAN,
         Leased!Serve(r, yes),
         UNCHANGED <<m_now, m_min_hold, m_acquired_at, m_nonce, m_pc, m_granted>>,
         m_orphans' \subseteq m_orphans, m_req' = [f \in Users |-> m_req'[f]],
         \A f \in Users :
           \/ m_req'[f] = m_req[f]
           \/ /\ m_req[f] = r /\ r.state = "sent"
              /\ m_req'[f] = [r EXCEPT !.state = IF yes THEN "yes" ELSE "no", !.at = m_now]
  PROVE  HoldInv'
<1> DEFINE a == [r EXCEPT !.state = IF yes THEN "yes" ELSE "no", !.at = m_now]
<1>0. r \in Asks /\ Sents \subseteq Asks /\ m_now \in Nat /\ m_expire_at \in Nat
  BY SentsFacts DEF HoldInv, HoldTypes
<1>1. /\ a \in Asks /\ a.op = r.op /\ a.token = r.token /\ a.duration = r.duration
      /\ a.state = (IF yes THEN "yes" ELSE "no") /\ a.at = m_now
  BY <1>0 DEF Asks
<1> HIDE DEF a
<1>2. \A f \in Users : m_req'[f] = m_req[f] \/ (m_req[f] = r /\ r.state = "sent" /\ m_req'[f] = a)
  BY DEF a
<1>3. Sents' \subseteq Sents
  <2>1. \A f \in Users : m_req'[f].state = "sent" => m_req'[f] = m_req[f] BY <1>1, <1>2
  <2> QED BY <2>1 DEF Sents
<1>4. m_expire_at' \in Nat
  <2>1. Served(r, m_now, m_owner, m_expire_at, m_owner', m_expire_at') BY <1>0, ServeIsServed
  <2>2. r.duration \in Nat BY <1>0, AskFields
  <2> QED BY <1>0, <2>1, <2>2 DEF Served
<1>5. HoldTypes'
  <2>1. m_req' \in [Users -> Asks \cup {Leased!NoRequest}]
    <3>1. \A f \in Users : m_req'[f] \in Asks \cup {Leased!NoRequest} BY <1>1, <1>2 DEF HoldInv, HoldTypes
    <3> QED BY <3>1
  <2>2. m_orphans' \subseteq Asks BY DEF HoldInv, HoldTypes
  <2> QED BY <1>4, <2>1, <2>2 DEF HoldInv, HoldTypes
<1>6. RequestsMatch'
  <2>1. \A f \in Users :
       /\ m_pc[f] \in {"out", "body"} => m_req'[f] = Leased!NoRequest
       /\ m_pc[f] \in {"enter", "refresh", "exit"} => m_req'[f] \in Asks /\ MadeBy(m_req'[f], f, m_nonce)
       /\ m_pc[f] \in {"enter", "refresh"} => Opening(m_req'[f])
    <3> SUFFICES ASSUME NEW f \in Users, m_req[f] = r, r.state = "sent", m_req'[f] = a
                 PROVE  /\ m_pc[f] \notin {"out", "body"}
                        /\ m_pc[f] \in {"enter", "refresh", "exit"} => m_req'[f] \in Asks /\ MadeBy(m_req'[f], f, m_nonce)
                        /\ m_pc[f] \in {"enter", "refresh"} => Opening(m_req'[f])
      BY <1>2 DEF HoldInv, RequestsMatch
    <3>1. m_pc[f] \notin {"out", "body"} BY SentsFacts
    <3> QED BY <1>1, <3>1 DEF HoldInv, RequestsMatch, MadeBy, Opening
  <2>2. \A q \in m_orphans' : \E e \in Users : MadeBy(q, e, m_nonce) BY DEF HoldInv, RequestsMatch
  <2> QED BY <2>1, <2>2 DEF RequestsMatch
<1>7. \A f \in Users : m_req[f] \in Asks => m_req'[f].token = m_req[f].token BY <1>1, <1>2
<1>8. \A f \in Users : m_pc[f] = "enter" => m_req[f] \in Asks /\ Opening(m_req[f]) /\ MadeBy(m_req[f], f, m_nonce)
  BY DEF HoldInv, RequestsMatch
<1>9. EntersAreFresh' BY <1>3, <1>7, <1>8 DEF HoldInv, EntersAreFresh
\* Who is granted the lock by this answer.
<1> DEFINE New(f) == m_pc[f] = "enter" /\ m_req[f] = r /\ m_req'[f] = a /\ yes
<1>10. \A f \in Users : Pending(f)' => (Pending(f) /\ m_req'[f] = m_req[f]) \/ New(f)
  BY <1>1, <1>2 DEF Pending
<1>11. \A g : \A e \in Users, k \in Nat : k <= m_nonce[WorkerOf[e]] =>
         (Holding(Tok(e, k), g, m_now, m_owner, m_expire_at, Sents) =>
            Holding(Tok(e, k), g, m_now, m_owner', m_expire_at', Sents'))
  BY <1>3, ServedKeeps
<1>12. ASSUME NEW e \in Users, New(e)
       PROVE  /\ m_owner = Null \/ m_expire_at < m_now \/ m_owner = r.token
              /\ \E k \in Nat : r.token = Tok(e, k) /\ k <= m_nonce[WorkerOf[e]]
              /\ Holding(m_req'[e].token, m_req'[e].at, m_now, m_owner', m_expire_at', Sents')
  <2>1. Opening(r) /\ \E k \in Nat : r.token = Tok(e, k) /\ k <= m_nonce[WorkerOf[e]]
    BY <1>8, <1>12 DEF MadeBy
  <2>2. /\ m_owner = Null \/ m_expire_at < m_now \/ m_owner = r.token
        /\ m_owner' = r.token /\ m_expire_at' = m_now + Lease
    BY <1>0, <1>12, <2>1, ServeIsServed DEF Opening
  <2> DEFINE m == Shortest
  <2>3. m \in Nat /\ Lease \in Nat /\ m <= Lease BY ShortestFacts
  <2>4. ASSUME NEW q \in Sents', q.token = r.token
        PROVE  m_now + m <= m_now + IF q.op = "release" THEN 0 ELSE q.duration
    <3>1. Opening(q) BY <1>3, <1>12, <2>4 DEF HoldInv, EntersAreFresh
    <3>2. q.op # "release" /\ q.duration = Lease BY <3>1 DEF Opening
    <3> HIDE DEF m
    <3> QED BY <1>0, <2>3, <3>2
  <2>5. m_now <= m_now /\ m_now + m <= m_expire_at'
    <3> HIDE DEF m
    <3> QED BY <1>0, <2>2, <2>3
  <2>6. Holding(r.token, m_now, m_now, m_owner', m_expire_at', Sents')
    BY <1>0, <2>2, <2>4, <2>5 DEF Holding
  <2> QED BY <1>1, <1>12, <2>1, <2>2, <2>6
<1>13. ASSUME NEW e \in Users, New(e), NEW f \in Users, NEW k \in Nat, k <= m_nonce[WorkerOf[f]],
              Tok(f, k) # r.token, NEW g, Holding(Tok(f, k), g, m_now, m_owner, m_expire_at, Sents)
       PROVE  Leased!Apart(g, m_now, Shortest) /\ Leased!Apart(m_now, g, Shortest)
  <2>1. Tok(f, k) # Null BY <1>13, NotNone
  <2>2. m_owner = Null \/ m_expire_at < m_now \/ m_owner = r.token BY <1>12, <1>13
  <2> DEFINE tok == Tok(f, k)
             u == r.token
  <2>3. u # tok /\ Holding(tok, g, m_now, m_owner, m_expire_at, Sents) BY <1>13
  <2> HIDE DEF tok, u
  <2>4. g + Shortest <= m_now /\ Leased!Apart(g, m_now, Shortest) /\ Leased!Apart(m_now, g, Shortest)
    <3>1. tok # Null /\ (m_owner = Null \/ m_expire_at < m_now \/ m_owner = u) BY <2>1, <2>2 DEF tok, u
    <3> QED BY <1>0, <2>3, <3>1, OldClaim
  <2> QED BY <2>4
<1>14. ASSUME NEW e \in Users, New(e), NEW f \in Users, f # e, m_pc[f] = "enter"
       PROVE  m_req[f].token # r.token
  BY <1>8, <1>14, TokensTell DEF MadeBy
<1>15. PendingsHeld'
  <2> SUFFICES ASSUME NEW e \in Users, Pending(e)'
               PROVE  /\ Holding(m_req'[e].token, m_req'[e].at, m_now, m_owner', m_expire_at', Sents')
                      /\ \A f \in Users : Pending(f)' /\ f # e => Leased!Apart(m_req'[e].at, m_req'[f].at, Shortest)
    BY DEF PendingsHeld
  <2>1. Holding(m_req'[e].token, m_req'[e].at, m_now, m_owner', m_expire_at', Sents')
    <3>1. CASE New(e) BY <1>12, <3>1
    <3>2. CASE Pending(e) /\ m_req'[e] = m_req[e]
      <4>1. Holding(m_req[e].token, m_req[e].at, m_now, m_owner, m_expire_at, Sents)
        BY <3>2 DEF HoldInv, PendingsHeld
      <4>2. \E k \in Nat : m_req[e].token = Tok(e, k) /\ k <= m_nonce[WorkerOf[e]]
        BY <1>8, <3>2 DEF Pending, MadeBy
      <4> QED BY <1>11, <3>2, <4>1, <4>2
    <3> QED BY <1>10, <3>1, <3>2
  <2>2. ASSUME NEW f \in Users, Pending(f)', f # e PROVE Leased!Apart(m_req'[e].at, m_req'[f].at, Shortest)
    <3>1. CASE New(e)
      <4>1. ~ New(f) /\ m_pc[f] = "enter" /\ Pending(f) /\ m_req'[f] = m_req[f]
        BY <1>10, <1>14, <2>2, <3>1 DEF Pending
      <4>2. PICK k \in Nat : m_req[f].token = Tok(f, k) /\ k <= m_nonce[WorkerOf[f]]
        BY <1>8, <4>1 DEF MadeBy
      <4>3. Tok(f, k) # r.token BY <1>14, <2>2, <3>1, <4>1, <4>2
      <4>4. Holding(Tok(f, k), m_req[f].at, m_now, m_owner, m_expire_at, Sents)
        BY <4>1, <4>2 DEF HoldInv, PendingsHeld
      <4> QED BY <1>1, <1>13, <3>1, <4>1, <4>2, <4>3, <4>4
    <3>2. CASE New(f)
      <4>1. ~ New(e) /\ m_pc[e] = "enter" /\ Pending(e) /\ m_req'[e] = m_req[e]
        BY <1>10, <1>14, <2>2, <3>2 DEF Pending
      <4>2. PICK k \in Nat : m_req[e].token = Tok(e, k) /\ k <= m_nonce[WorkerOf[e]]
        BY <1>8, <4>1 DEF MadeBy
      <4>3. Tok(e, k) # r.token BY <1>14, <2>2, <3>2, <4>1, <4>2
      <4>4. Holding(Tok(e, k), m_req[e].at, m_now, m_owner, m_expire_at, Sents)
        BY <4>1, <4>2 DEF HoldInv, PendingsHeld
      <4> QED BY <1>1, <1>13, <3>2, <4>1, <4>2, <4>3, <4>4
    <3>3. CASE ~ New(e) /\ ~ New(f)
      BY <1>10, <2>2, <3>3 DEF HoldInv, PendingsHeld
    <3> QED BY <3>1, <3>2, <3>3
  <2> QED BY <2>1, <2>2
<1>16. LastHeld'
  <2> SUFFICES ASSUME m_granted # Null
               PROVE  /\ \A e \in Users : Pending(e)' => Leased!Apart(m_req'[e].at, m_granted, Shortest)
                      /\ \E h \in Users, k \in Nat :
                           /\ k <= m_nonce[WorkerOf[h]] /\ Spent(h, k)'
                           /\ Holding(Tok(h, k), m_granted, m_now, m_owner', m_expire_at', Sents')
                           /\ \A e \in Users : m_pc[e] = "enter" => m_req'[e].token # Tok(h, k)
    BY DEF LastHeld
  <2>1. PICK h \in Users, k \in Nat :
         /\ k <= m_nonce[WorkerOf[h]] /\ Spent(h, k)
         /\ Holding(Tok(h, k), m_granted, m_now, m_owner, m_expire_at, Sents)
         /\ \A e \in Users : m_pc[e] = "enter" => m_req[e].token # Tok(h, k)
    BY DEF HoldInv, LastHeld
  <2>2. Spent(h, k)' BY <2>1 DEF Spent
  <2>3. ASSUME NEW e \in Users, Pending(e)' PROVE Leased!Apart(m_req'[e].at, m_granted, Shortest)
    <3>1. CASE New(e)
      <4>1. Tok(h, k) # r.token BY <2>1, <3>1
      <4> QED BY <1>1, <1>13, <2>1, <3>1, <4>1
    <3>2. CASE ~ New(e) BY <1>10, <2>3, <3>2 DEF HoldInv, LastHeld
    <3> QED BY <3>1, <3>2
  <2>4. Holding(Tok(h, k), m_granted, m_now, m_owner', m_expire_at', Sents') BY <1>11, <2>1
  <2>5. \A e \in Users : m_pc[e] = "enter" => m_req'[e].token # Tok(h, k) BY <1>7, <1>8, <2>1
  <2> QED BY <2>1, <2>2, <2>3, <2>4, <2>5
<1> QED BY <1>5, <1>6, <1>9, <1>15, <1>16 DEF HoldInv

\* e asks the backend for q.
LEMMA AskKeeps ==
  ASSUME Leased!TaskLockAssumption, Leased!OneThreadEach, HoldInv, NEW e \in Users, NEW q \in Asks, NEW place,
         q.state = "sent", q.token = Tok(e, m_nonce[WorkerOf[e]]),
         m_pc' = [m_pc EXCEPT ![e] = place], m_req' = [m_req EXCEPT ![e] = q],
         UNCHANGED <<m_now, m_owner, m_expire_at, m_min_hold, m_orphans, m_granted>>,
         m_nonce' \in [Workers -> 0..MaxEntries], \A w \in Workers : m_nonce[w] <= m_nonce'[w],
         m_acquired_at' \in [Workers -> Nat \cup {Null}],
         \A w \in Workers : \/ m_acquired_at'[w] = m_acquired_at[w]
                            \/ m_acquired_at'[w] = Null /\ m_nonce[w] < m_nonce'[w],
         \/ place = "enter" /\ Opening(q) /\ m_pc[e] = "out" /\ m_acquired_at[WorkerOf[e]] = Null
         \/ place = "refresh" /\ Opening(q) /\ m_pc[e] = "body"
         \/ /\ place = "exit" /\ m_pc[e] = "body" /\ m_nonce[WorkerOf[e]] < m_nonce'[WorkerOf[e]]
            /\ m_acquired_at[WorkerOf[e]] # Null
            /\ m_acquired_at[WorkerOf[e]] + Shortest
                 <= m_now + IF q.op = "release" THEN 0 ELSE q.duration
  PROVE  HoldInv'
<1>0. /\ m_now \in Nat /\ m_expire_at \in Nat /\ DOMAIN m_pc = Users /\ DOMAIN m_req = Users
      /\ Sents \subseteq Asks
  BY SentsFacts DEF HoldInv, HoldTypes
<1> DEFINE N == m_nonce[WorkerOf[e]]
<1>7a. \A k : \A f \in Users : q.token = Tok(f, k) => f = e /\ k = N
  <2>1. q.token = Tok(e, N) OBVIOUS
  <2> HIDE DEF N
  <2> SUFFICES ASSUME NEW f \in Users, NEW k, Tok(f, k) = Tok(e, N) PROVE f = e /\ k = N BY <2>1
  <2> QED BY TokensTell
<1>1. /\ m_pc'[e] = place /\ m_req'[e] = q
      /\ \A f \in Users : f # e => m_pc'[f] = m_pc[f] /\ m_req'[f] = m_req[f]
  BY <1>0
<1>2. Sents' \subseteq Sents \cup {q} BY <1>1 DEF Sents
<1>3. \A f \in Users : /\ WorkerOf[f] \in Workers /\ m_nonce[WorkerOf[f]] \in Nat
                       /\ m_nonce'[WorkerOf[f]] \in Nat /\ m_nonce[WorkerOf[f]] <= m_nonce'[WorkerOf[f]]
  <2> SUFFICES ASSUME NEW f \in Users
               PROVE  /\ WorkerOf[f] \in Workers /\ m_nonce[WorkerOf[f]] \in Nat
                      /\ m_nonce'[WorkerOf[f]] \in Nat /\ m_nonce[WorkerOf[f]] <= m_nonce'[WorkerOf[f]]
    OBVIOUS
  <2>1. WorkerOf[f] \in Workers /\ m_nonce[WorkerOf[f]] \in Nat /\ MaxEntries \in Nat BY NonceFacts
  <2>2. m_nonce'[WorkerOf[f]] \in 0..MaxEntries BY <2>1
  <2> QED BY <2>1, <2>2
<1>4. \A r : \A f \in Users : MadeBy(r, f, m_nonce) => MadeBy(r, f, m_nonce')
  <2> SUFFICES ASSUME NEW f \in Users, NEW r, MadeBy(r, f, m_nonce) PROVE MadeBy(r, f, m_nonce') OBVIOUS
  <2>1. PICK k \in Nat : r.token = Tok(f, k) /\ k <= m_nonce[WorkerOf[f]] /\ (Opening(r) \/ k < m_nonce[WorkerOf[f]])
    BY DEF MadeBy
  <2>2. k <= m_nonce'[WorkerOf[f]] /\ (Opening(r) \/ k < m_nonce'[WorkerOf[f]]) BY <1>3, <2>1
  <2> QED BY <2>1, <2>2 DEF MadeBy
<1>5. HoldTypes'
  <2>1. \A w \in Workers : m_acquired_at'[w] # Null => m_acquired_at'[w] <= m_now'
    BY DEF HoldInv, HoldTypes
  <2>2. m_pc' \in [Users -> {"out", "enter", "body", "refresh", "exit"}]
    BY DEF HoldInv, HoldTypes
  <2>3. m_req' \in [Users -> Asks \cup {Leased!NoRequest}] BY DEF HoldInv, HoldTypes
  <2> QED BY <2>1, <2>2, <2>3 DEF HoldInv, HoldTypes
<1>6. RequestsMatch'
  <2>1. MadeBy(q, e, m_nonce') BY <1>3 DEF MadeBy
  <2>2. \A f \in Users :
       /\ m_pc'[f] \in {"out", "body"} => m_req'[f] = Leased!NoRequest
       /\ m_pc'[f] \in {"enter", "refresh", "exit"} => m_req'[f] \in Asks /\ MadeBy(m_req'[f], f, m_nonce')
       /\ m_pc'[f] \in {"enter", "refresh"} => Opening(m_req'[f])
    <3>1. ASSUME NEW f \in Users, f # e
          PROVE  /\ m_pc'[f] \in {"out", "body"} => m_req'[f] = Leased!NoRequest
                 /\ m_pc'[f] \in {"enter", "refresh", "exit"} => m_req'[f] \in Asks /\ MadeBy(m_req'[f], f, m_nonce')
                 /\ m_pc'[f] \in {"enter", "refresh"} => Opening(m_req'[f])
      BY <1>1, <1>4, <3>1 DEF HoldInv, RequestsMatch
    <3> QED BY <1>1, <2>1, <3>1
  <2>3. \A r \in m_orphans' : \E f \in Users : MadeBy(r, f, m_nonce') BY <1>4 DEF HoldInv, RequestsMatch
  <2> QED BY <2>2, <2>3 DEF RequestsMatch
<1>7. ASSUME NEW f \in Users, f # e, m_pc[f] = "enter" PROVE m_req[f].token # q.token
  <2>1. PICK k \in Nat : m_req[f].token = Tok(f, k) BY <1>7 DEF HoldInv, RequestsMatch, MadeBy
  <2> QED BY <1>7, <2>1, TokensTell
<1>8. EntersAreFresh'
  <2> SUFFICES ASSUME NEW f \in Users, NEW r \in Sents', m_pc'[f] = "enter", ~ Opening(r)
               PROVE  r.token # m_req'[f].token
    BY DEF EntersAreFresh
  <2>1. CASE f # e
    <3>1. m_pc[f] = "enter" /\ m_req'[f] = m_req[f] BY <1>1, <2>1
    <3> QED BY <1>2, <1>7, <2>1, <3>1 DEF HoldInv, EntersAreFresh
  <2>2. CASE f = e
    <3>1. Opening(q) /\ m_req'[f] = q BY <1>1, <2>2
    <3>2. r \in Sents BY <1>2, <3>1
    <3>3. PICK x \in Users : MadeBy(r, x, m_nonce) BY <3>2, SentsFacts
    <3>4. PICK k \in Nat : r.token = Tok(x, k) /\ k < m_nonce[WorkerOf[x]] BY <3>3 DEF MadeBy
    <3>5. ASSUME r.token = q.token PROVE FALSE
      <4>1. x = e /\ k = m_nonce[WorkerOf[e]] BY <3>4, <3>5, <1>7a
      <4> QED BY <1>3, <3>4, <4>1
    <3> QED BY <3>1, <3>5
  <2> QED BY <2>1, <2>2
<1>9. \A f \in Users : Pending(f)' => Pending(f) /\ f # e /\ m_req'[f] = m_req[f]
  BY <1>1 DEF Pending
<1>10. ASSUME NEW tok, NEW g, Holding(tok, g, m_now, m_owner, m_expire_at, Sents),
              \/ Opening(q)
              \/ q.token # tok
              \/ g + Shortest <= m_now + IF q.op = "release" THEN 0 ELSE q.duration
       PROVE  Holding(tok, g, m_now', m_owner', m_expire_at', Sents')
  <2> DEFINE R == Sents'
  <2>1. R \subseteq Sents \cup {q} BY <1>2
  <2> HIDE DEF R
  <2>2. Holding(tok, g, m_now, m_owner, m_expire_at, R)
    <3> DEFINE S == Sents
    <3>1. R \subseteq S \cup {q} /\ Holding(tok, g, m_now, m_owner, m_expire_at, S) BY <1>10, <2>1
    <3> HIDE DEF S
    <3> QED BY <1>0, <1>10, <3>1, ClaimAsked
  <2> QED BY <2>2 DEF R
<1>11. PendingsHeld'
  <2> SUFFICES ASSUME NEW f \in Users, Pending(f)'
               PROVE  /\ Holding(m_req'[f].token, m_req'[f].at, m_now', m_owner', m_expire_at', Sents')
                      /\ \A h \in Users : Pending(h)' /\ h # f => Leased!Apart(m_req'[f].at, m_req'[h].at, Shortest)
    BY DEF PendingsHeld
  <2>1. m_req'[f].token # q.token BY <1>7, <1>9 DEF Pending
  <2>2. Holding(m_req'[f].token, m_req'[f].at, m_now, m_owner, m_expire_at, Sents) BY <1>9 DEF HoldInv, PendingsHeld
  <2>3. Holding(m_req'[f].token, m_req'[f].at, m_now', m_owner', m_expire_at', Sents') BY <1>10, <2>1, <2>2
  <2> QED BY <1>9, <2>3 DEF HoldInv, PendingsHeld
<1>12. LastHeld'
  <2> SUFFICES ASSUME m_granted # Null
               PROVE  /\ \A f \in Users : Pending(f)' => Leased!Apart(m_req'[f].at, m_granted, Shortest)
                      /\ \E h \in Users, k \in Nat :
                           /\ k <= m_nonce'[WorkerOf[h]] /\ Spent(h, k)'
                           /\ Holding(Tok(h, k), m_granted, m_now', m_owner', m_expire_at', Sents')
                           /\ \A f \in Users : m_pc'[f] = "enter" => m_req'[f].token # Tok(h, k)
    BY DEF LastHeld
  <2>1. PICK h \in Users, k \in Nat :
         /\ k <= m_nonce[WorkerOf[h]] /\ Spent(h, k)
         /\ Holding(Tok(h, k), m_granted, m_now, m_owner, m_expire_at, Sents)
         /\ \A f \in Users : m_pc[f] = "enter" => m_req[f].token # Tok(h, k)
    BY DEF HoldInv, LastHeld
  <2>2. k <= m_nonce'[WorkerOf[h]] BY <1>3, <2>1
  <2>3. q.token = Tok(h, k) => /\ h = e /\ k = m_nonce[WorkerOf[e]]
                               /\ m_pc[e] \in {"body", "refresh"} /\ m_acquired_at[WorkerOf[e]] # Null
                               /\ m_acquired_at[WorkerOf[e]] >= m_granted
    <3> SUFFICES ASSUME q.token = Tok(h, k)
                 PROVE  /\ h = e /\ k = m_nonce[WorkerOf[e]]
                        /\ m_pc[e] \in {"body", "refresh"} /\ m_acquired_at[WorkerOf[e]] # Null
                        /\ m_acquired_at[WorkerOf[e]] >= m_granted
      OBVIOUS
    <3>1. h = e /\ k = m_nonce[WorkerOf[e]] BY <1>7a
    <3>2. ~ (k < m_nonce[WorkerOf[h]]) BY <1>3, <3>1
    <3> QED BY <2>1, <3>1, <3>2 DEF Spent
  <2>4. Spent(h, k)'
    <3>1. CASE k < m_nonce[WorkerOf[h]]
      <4>1. k < m_nonce'[WorkerOf[h]] BY <1>3, <3>1
      <4> QED BY <4>1 DEF Spent
    <3>2. CASE ~ (k < m_nonce[WorkerOf[h]])
      <4>1. /\ m_pc[h] \in {"body", "refresh"}
            /\ m_acquired_at[WorkerOf[h]] # Null /\ m_acquired_at[WorkerOf[h]] >= m_granted
        BY <2>1, <3>2 DEF Spent
      <4>2. CASE m_nonce[WorkerOf[h]] < m_nonce'[WorkerOf[h]]
        <5>1. k < m_nonce'[WorkerOf[h]] BY <1>3, <2>1, <4>2
        <5> QED BY <5>1 DEF Spent
      <4>3. CASE ~ (m_nonce[WorkerOf[h]] < m_nonce'[WorkerOf[h]])
        <5>1. m_acquired_at'[WorkerOf[h]] = m_acquired_at[WorkerOf[h]] BY <1>3, <4>3
        <5>2. CASE h = e
          <6>1. m_pc'[h] \in {"body", "refresh"} BY <1>1, <4>1, <4>3, <5>2
          <6> QED BY <4>1, <5>1, <6>1 DEF Spent
        <5>3. CASE h # e
          <6>1. m_pc'[h] \in {"body", "refresh"} BY <1>1, <4>1, <5>3
          <6> QED BY <4>1, <5>1, <6>1 DEF Spent
        <5> QED BY <5>2, <5>3
      <4> QED BY <4>2, <4>3
    <3> QED BY <3>1, <3>2
  <2>5. Holding(Tok(h, k), m_granted, m_now', m_owner', m_expire_at', Sents')
    <3>1. CASE Opening(q) \/ q.token # Tok(h, k) BY <1>10, <2>1, <3>1
    <3>2. CASE ~ Opening(q) /\ q.token = Tok(h, k)
      <4> DEFINE A == m_acquired_at[WorkerOf[e]]
                 d == IF q.op = "release" THEN 0 ELSE q.duration
                 m == Shortest
      <4>1. A # Null /\ A >= m_granted /\ A + m <= m_now + d BY <2>3, <3>2
      <4>2. A \in Nat BY <1>3, <4>1 DEF HoldInv, HoldTypes
      <4>3. m_granted \in Nat /\ d \in Nat /\ m \in Nat BY <2>1, AskFields, ShortestFacts DEF Holding
      <4> HIDE DEF A, d, m
      <4>4. m_granted + m <= m_now + d BY <1>0, <4>1, <4>2, <4>3
      <4> QED BY <1>10, <2>1, <4>4 DEF d, m
    <3> QED BY <3>1, <3>2
  <2>6. ASSUME NEW f \in Users, m_pc'[f] = "enter" PROVE m_req'[f].token # Tok(h, k)
    <3>1. CASE f # e BY <1>1, <2>1, <2>6, <3>1
    <3>2. CASE f = e
      <4>1. m_acquired_at[WorkerOf[e]] = Null /\ m_req'[f] = q BY <1>1, <2>6, <3>2
      <4> QED BY <2>3, <4>1
    <3> QED BY <3>1, <3>2
  <2>7. \A f \in Users : Pending(f)' => Leased!Apart(m_req'[f].at, m_granted, Shortest)
    BY <1>9 DEF HoldInv, LastHeld
  <2> QED BY <2>2, <2>4, <2>5, <2>6, <2>7
<1> QED BY <1>5, <1>6, <1>8, <1>11, <1>12 DEF HoldInv

\* The answer arrives, and the body of e begins.
LEMMA EnteredKeeps ==
  ASSUME Leased!TaskLockAssumption, Leased!OneThreadEach, HoldInv, NEW e \in Users, Leased!Entered(e)
  PROVE  HoldInv'
<1> DEFINE w == WorkerOf[e]
<1>0. /\ m_pc[e] = "enter" /\ m_req[e].state = "yes" /\ m_granted' = m_req[e].at
      /\ m_acquired_at' = [m_acquired_at EXCEPT ![w] = m_now]
      /\ m_pc' = [m_pc EXCEPT ![e] = "body"] /\ m_req' = [m_req EXCEPT ![e] = Leased!NoRequest]
      /\ UNCHANGED <<m_now, m_owner, m_expire_at, m_min_hold, m_nonce, m_orphans>>
  BY DEF Leased!Entered, Leased!Answered, Leased!Resume, Leased!store
<1>1. /\ m_now \in Nat /\ m_expire_at \in Nat /\ DOMAIN m_pc = Users /\ DOMAIN m_req = Users
      /\ Sents \subseteq Asks /\ w \in Workers /\ Null \notin Nat
      /\ m_acquired_at \in [Workers -> Nat \cup {Null}]
  BY SentsFacts, UserFacts DEF HoldInv, HoldTypes, Leased!TaskLockAssumption
<1>2. /\ m_pc'[e] = "body" /\ m_req'[e] = Leased!NoRequest /\ m_acquired_at'[w] = m_now
      /\ \A f \in Users : f # e => m_pc'[f] = m_pc[f] /\ m_req'[f] = m_req[f]
  BY <1>0, <1>1
<1>3. Sents' \subseteq Sents
  <2>1. m_req'[e].state = "none" BY <1>2 DEF Leased!NoRequest
  <2> QED BY <1>0, <1>2, <2>1 DEF Sents
<1>4. HoldTypes'
  <2>1. \A v \in Workers : m_acquired_at'[v] # Null => m_acquired_at'[v] <= m_now'
    <3>1. m_now <= m_now BY <1>1
    <3> QED BY <1>0, <1>1, <1>2, <3>1 DEF HoldInv, HoldTypes
  <2>2. m_acquired_at' \in [Workers -> Nat \cup {Null}] BY <1>0, <1>1
  <2>3. m_pc' \in [Users -> {"out", "enter", "body", "refresh", "exit"}]
    BY <1>0 DEF HoldInv, HoldTypes
  <2>4. m_req' \in [Users -> Asks \cup {Leased!NoRequest}] BY <1>0 DEF HoldInv, HoldTypes
  <2> QED BY <1>0, <2>1, <2>2, <2>3, <2>4 DEF HoldInv, HoldTypes
<1>5. RequestsMatch'
  <2>1. \A f \in Users :
       /\ m_pc'[f] \in {"out", "body"} => m_req'[f] = Leased!NoRequest
       /\ m_pc'[f] \in {"enter", "refresh", "exit"} => m_req'[f] \in Asks /\ MadeBy(m_req'[f], f, m_nonce')
       /\ m_pc'[f] \in {"enter", "refresh"} => Opening(m_req'[f])
    BY <1>0, <1>2 DEF HoldInv, RequestsMatch
  <2> QED BY <1>0, <2>1 DEF HoldInv, RequestsMatch
<1>6. \A f \in Users : m_pc'[f] = "enter" => f # e /\ m_pc[f] = "enter" /\ m_req'[f] = m_req[f] BY <1>2
<1>7. EntersAreFresh' BY <1>3, <1>6 DEF HoldInv, EntersAreFresh
<1>8. \A f \in Users : Pending(f)' => Pending(f) /\ f # e /\ m_req'[f] = m_req[f] BY <1>6 DEF Pending
<1>9. \A tok, g : Holding(tok, g, m_now, m_owner, m_expire_at, Sents) =>
                    Holding(tok, g, m_now', m_owner', m_expire_at', Sents')
  <2>1. m_now <= m_now BY <1>1
  <2> QED BY <1>0, <1>1, <1>3, <2>1, ClaimAges
<1>10. PendingsHeld'
  <2> SUFFICES ASSUME NEW f \in Users, Pending(f)'
               PROVE  /\ Holding(m_req'[f].token, m_req'[f].at, m_now', m_owner', m_expire_at', Sents')
                      /\ \A h \in Users : Pending(h)' /\ h # f => Leased!Apart(m_req'[f].at, m_req'[h].at, Shortest)
    BY DEF PendingsHeld
  <2> QED BY <1>8, <1>9 DEF HoldInv, PendingsHeld
<1>11. PICK k \in Nat : m_req[e].token = Tok(e, k) /\ k <= m_nonce[w]
  BY <1>0 DEF HoldInv, RequestsMatch, MadeBy
<1>12. /\ Holding(Tok(e, k), m_req[e].at, m_now, m_owner, m_expire_at, Sents)
       /\ \A f \in Users : Pending(f) /\ f # e => Leased!Apart(m_req[f].at, m_req[e].at, Shortest)
  BY <1>0, <1>11 DEF HoldInv, PendingsHeld, Pending
<1>13. LastHeld'
  <2>1. Spent(e, k)'
    <3>1. m_granted' \in Nat /\ m_granted' <= m_now BY <1>0, <1>12 DEF Holding
    <3>2. m_acquired_at'[w] # Null /\ m_acquired_at'[w] >= m_granted' BY <1>1, <1>2, <3>1
    <3> QED BY <1>2, <3>2 DEF Spent
  <2>2. Holding(Tok(e, k), m_granted', m_now', m_owner', m_expire_at', Sents') BY <1>0, <1>9, <1>12
  <2>3. ASSUME NEW f \in Users, m_pc'[f] = "enter" PROVE m_req'[f].token # Tok(e, k)
    <3>1. f # e /\ m_pc[f] = "enter" /\ m_req'[f] = m_req[f] BY <1>6, <2>3
    <3>2. PICK j \in Nat : m_req[f].token = Tok(f, j) BY <3>1 DEF HoldInv, RequestsMatch, MadeBy
    <3> QED BY <3>1, <3>2, TokensTell
  <2>4. \A f \in Users : Pending(f)' => Leased!Apart(m_req'[f].at, m_granted', Shortest)
    BY <1>0, <1>8, <1>12
  <2> QED BY <1>0, <1>11, <2>1, <2>2, <2>3, <2>4 DEF LastHeld
<1> QED BY <1>4, <1>5, <1>7, <1>10, <1>13 DEF HoldInv

\* A body ends whose TaskLock another exit has reset.
LEMMA NotOwnedKeeps ==
  ASSUME Leased!TaskLockAssumption, HoldInv, NEW e \in Users, m_pc[e] = "body",
         m_acquired_at[WorkerOf[e]] = Null, m_pc' = [m_pc EXCEPT ![e] = "out"],
         UNCHANGED <<m_now, m_owner, m_expire_at, m_min_hold, m_acquired_at, m_nonce, m_req, m_orphans,
                     m_granted>>
  PROVE  HoldInv'
<1>0. DOMAIN m_pc = Users BY DEF HoldInv, HoldTypes
<1>1. /\ m_pc'[e] = "out" /\ \A f \in Users : f # e => m_pc'[f] = m_pc[f] BY <1>0
<1>2. Sents' = Sents BY DEF Sents
<1>3. HoldTypes' /\ RequestsMatch' BY <1>1 DEF HoldInv, HoldTypes, RequestsMatch
<1>4. \A f \in Users : m_pc'[f] = "enter" => m_pc[f] = "enter" BY <1>1
<1>5. EntersAreFresh' BY <1>2, <1>4 DEF HoldInv, EntersAreFresh
<1>6. \A f \in Users : Pending(f)' => Pending(f) BY <1>4 DEF Pending
<1>7. PendingsHeld' BY <1>2, <1>6 DEF HoldInv, PendingsHeld
<1>8. \A h \in Users, k \in Nat : Spent(h, k) => Spent(h, k)' BY <1>1 DEF Spent
<1>9. LastHeld' BY <1>2, <1>4, <1>6, <1>8 DEF HoldInv, LastHeld
<1> QED BY <1>3, <1>5, <1>7, <1>9 DEF HoldInv

LEMMA HoldStep ==
  ASSUME Leased!TaskLockAssumption, Leased!OneThreadEach, HoldInv, [Leased!Next]_Leased!vars
  PROVE  HoldInv'
<1>0. /\ m_now \in Nat /\ m_nonce \in [Workers -> 0..MaxEntries] /\ MaxEntries \in Nat /\ Lease \in Nat
      /\ m_acquired_at \in [Workers -> Nat \cup {Null}] /\ m_req = [f \in Users |-> m_req[f]]
      /\ m_min_hold \in [Workers -> MinHolds] /\ DOMAIN m_req = Users
      /\ Leased!Entrants = Users
  BY DEF HoldInv, HoldTypes, Leased!TaskLockAssumption, Leased!Entrants, Users
<1>1. \A w \in Workers : m_nonce[w] \in Nat /\ m_nonce[w] <= m_nonce[w] BY <1>0
<1>2. ASSUME NEW e \in Users, NEW op \in {"acquire", "release"}, NEW d \in Nat
      PROVE  /\ Leased!Ask(op, Leased!Token(e), d) \in Asks
             /\ Leased!Ask(op, Leased!Token(e), d).state = "sent"
             /\ Leased!Ask(op, Leased!Token(e), d).op = op
             /\ Leased!Ask(op, Leased!Token(e), d).duration = d
             /\ Leased!Ask(op, Leased!Token(e), d).token = Tok(e, m_nonce[WorkerOf[e]])
  <2>1. Leased!Token(e) = Tok(e, m_nonce[WorkerOf[e]]) /\ m_nonce[WorkerOf[e]] \in Nat
    BY UserFacts, NonceFacts
  <2>2. Leased!Token(e) \in Toks BY <2>1 DEF Toks
  <2> QED BY <2>1, <2>2 DEF Leased!Ask, Asks
<1>3. ASSUME NEW e \in Users, Leased!enter(e) PROVE HoldInv'
  <2> DEFINE q == Leased!Ask("acquire", Leased!Token(e), Lease)
  <2>1. /\ q \in Asks /\ q.state = "sent" /\ q.token = Tok(e, m_nonce[WorkerOf[e]]) /\ Opening(q)
    BY <1>0, <1>2 DEF Opening
  <2>2. /\ m_pc[e] = "out" /\ m_acquired_at[WorkerOf[e]] = Null
        /\ m_pc' = [m_pc EXCEPT ![e] = "enter"] /\ m_req' = [m_req EXCEPT ![e] = q]
        /\ UNCHANGED <<m_now, m_owner, m_expire_at, m_min_hold, m_acquired_at, m_nonce, m_orphans, m_granted>>
    BY <1>3 DEF Leased!enter, Leased!store, Leased!object
  <2> HIDE DEF q
  <2> QED BY <1>0, <1>1, <2>1, <2>2, AskKeeps
<1>4. ASSUME NEW e \in Users, Leased!refresh(e) PROVE HoldInv'
  <2> DEFINE q == Leased!Ask("acquire", Leased!Token(e), Lease)
  <2>1. /\ q \in Asks /\ q.state = "sent" /\ q.token = Tok(e, m_nonce[WorkerOf[e]]) /\ Opening(q)
    BY <1>0, <1>2 DEF Opening
  <2>2. /\ m_pc[e] = "body"
        /\ m_pc' = [m_pc EXCEPT ![e] = "refresh"] /\ m_req' = [m_req EXCEPT ![e] = q]
        /\ UNCHANGED <<m_now, m_owner, m_expire_at, m_min_hold, m_acquired_at, m_nonce, m_orphans, m_granted>>
    BY <1>4 DEF Leased!refresh, Leased!store, Leased!object
  <2> HIDE DEF q
  <2> QED BY <1>0, <1>1, <2>1, <2>2, AskKeeps
<1>5. ASSUME NEW e \in Users, Leased!exit(e) PROVE HoldInv'
  <2> DEFINE w == WorkerOf[e]
             elapsed == m_now - m_acquired_at[w]
             hold == m_min_hold[w]
             q == IF elapsed >= hold THEN Leased!Ask("release", Leased!Token(e), 0)
                  ELSE Leased!Ask("acquire", Leased!Token(e), hold - elapsed)
  <2>1. CASE m_acquired_at[w] = Null
    BY <1>5, <2>1, NotOwnedKeeps DEF Leased!exit, Leased!store, Leased!object
  <2>2. CASE m_acquired_at[w] # Null
    <3>1. /\ m_pc[e] = "body" /\ m_nonce[w] < MaxEntries
          /\ m_acquired_at' = [m_acquired_at EXCEPT ![w] = Null]
          /\ m_nonce' = [m_nonce EXCEPT ![w] = m_nonce[w] + 1]
          /\ m_pc' = [m_pc EXCEPT ![e] = "exit"] /\ m_req' = [m_req EXCEPT ![e] = q]
          /\ UNCHANGED <<m_now, m_owner, m_expire_at, m_min_hold, m_orphans, m_granted>>
      BY <1>5, <2>2 DEF Leased!exit, Leased!store, Leased!NextNonce, Leased!Remaining
    <3>2. w \in Workers BY UserFacts
    <3>3. m_acquired_at[w] \in Nat /\ m_acquired_at[w] <= m_now /\ hold \in Nat /\ Shortest \in Nat /\ Shortest <= hold
      BY <1>0, <2>2, <3>2, ShortestFacts DEF HoldInv, HoldTypes
    <3>4. elapsed \in Nat /\ (~ (elapsed >= hold) => hold - elapsed \in Nat) BY <1>0, <3>3
    <3>5. /\ q \in Asks /\ q.state = "sent" /\ q.token = Tok(e, m_nonce[WorkerOf[e]])
          /\ q.op = (IF elapsed >= hold THEN "release" ELSE "acquire")
          /\ q.duration = (IF elapsed >= hold THEN 0 ELSE hold - elapsed)
      <4>1. CASE elapsed >= hold BY <1>2, <4>1
      <4>2. CASE ~ (elapsed >= hold)
        <5> DEFINE d == hold - elapsed
        <5>1. d \in Nat BY <3>4, <4>2
        <5>2. q = Leased!Ask("acquire", Leased!Token(e), d) BY <4>2
        <5> HIDE DEF d, q
        <5>3. /\ q \in Asks /\ q.state = "sent" /\ q.token = Tok(e, m_nonce[WorkerOf[e]])
              /\ q.op = "acquire" /\ q.duration = d
          BY <1>2, <5>1, <5>2
        <5> QED BY <4>2, <5>3 DEF d
      <4> QED BY <4>1, <4>2
    <3> HIDE DEF q
    <3>6. m_acquired_at[w] + Shortest <= m_now + IF q.op = "release" THEN 0 ELSE q.duration
      <4> DEFINE A == m_acquired_at[w]
                 s == Shortest
                 x == IF q.op = "release" THEN 0 ELSE q.duration
      <4>1. x = IF m_now - A >= hold THEN 0 ELSE hold - (m_now - A) BY <3>5
      <4>2. A \in Nat /\ A <= m_now /\ s \in Nat /\ s <= hold BY <3>3
      <4> HIDE DEF A, s, x, hold
      <4>3. hold \in Nat BY <3>3
      <4>4. A + s <= m_now + x BY <1>0, <4>1, <4>2, <4>3
      <4> QED BY <4>4 DEF A, s, x
    <3>7. /\ m_nonce' \in [Workers -> 0..MaxEntries] /\ m_nonce[w] < m_nonce'[w]
          /\ \A v \in Workers : m_nonce[v] <= m_nonce'[v]
      <4>1. m_nonce[w] + 1 \in 0..MaxEntries /\ m_nonce[w] < m_nonce[w] + 1 BY <1>0, <3>1, <3>2
      <4>2. m_nonce'[w] = m_nonce[w] + 1 /\ \A v \in Workers : v # w => m_nonce'[v] = m_nonce[v]
        BY <1>0, <3>1, <3>2
      <4>3. m_nonce[w] <= m_nonce[w] + 1 BY <1>0, <3>2
      <4>4. m_nonce' \in [Workers -> 0..MaxEntries] BY <1>0, <3>1, <4>1
      <4> QED BY <1>1, <4>1, <4>2, <4>3, <4>4
    <3>8. /\ m_acquired_at' \in [Workers -> Nat \cup {Null}]
          /\ \A v \in Workers : \/ m_acquired_at'[v] = m_acquired_at[v]
                                \/ m_acquired_at'[v] = Null /\ m_nonce[v] < m_nonce'[v]
      BY <1>0, <3>1, <3>2, <3>7
    <3> QED BY <2>2, <3>1, <3>5, <3>6, <3>7, <3>8, AskKeeps
  <2> QED BY <2>1, <2>2
<1>6. ASSUME NEW e \in Users, Leased!ServeRequest(e) PROVE HoldInv'
  <2>1. PICK yes \in BOOLEAN :
          /\ Leased!Serve(m_req[e], yes)
          /\ m_req' = [m_req EXCEPT ![e].state = IF yes THEN "yes" ELSE "no", ![e].at = m_now]
    BY <1>6 DEF Leased!ServeRequest
  <2>2. m_req[e].state = "sent" /\ m_req[e] \in Sents BY <1>6, SentsFacts DEF Leased!ServeRequest
  <2>3. /\ m_req'[e] = [m_req[e] EXCEPT !.state = IF yes THEN "yes" ELSE "no", !.at = m_now]
        /\ m_req' = [f \in Users |-> m_req'[f]]
        /\ \A f \in Users : f # e => m_req'[f] = m_req[f]
    BY <1>0, <2>1
  <2>4. UNCHANGED <<m_now, m_min_hold, m_acquired_at, m_nonce, m_pc, m_orphans, m_granted>>
    BY <1>6 DEF Leased!ServeRequest, Leased!object
  <2> DEFINE r == m_req[e]
  <2>5. \A f \in Users :
           \/ m_req'[f] = m_req[f]
           \/ /\ m_req[f] = r /\ r.state = "sent"
              /\ m_req'[f] = [r EXCEPT !.state = IF yes THEN "yes" ELSE "no", !.at = m_now]
    BY <2>2, <2>3
  <2>6. r \in Sents /\ Leased!Serve(r, yes) /\ m_orphans' \subseteq m_orphans BY <2>1, <2>2, <2>4
  <2> HIDE DEF r
  <2> QED BY <2>3, <2>4, <2>5, <2>6, AnswerKeeps
<1>7. ASSUME NEW r \in m_orphans, Leased!ServeOrphan(r) PROVE HoldInv'
  <2>1. PICK yes \in BOOLEAN : Leased!Serve(r, yes) BY <1>7 DEF Leased!ServeOrphan
  <2>2. /\ UNCHANGED <<m_now, m_min_hold, m_acquired_at, m_nonce, m_pc, m_req, m_granted>>
        /\ m_orphans' \subseteq m_orphans
    BY <1>7 DEF Leased!ServeOrphan, Leased!object
  <2>3. r \in Sents BY DEF Sents
  <2>4. m_req' = [f \in Users |-> m_req'[f]] /\ \A f \in Users : m_req'[f] = m_req[f] BY <1>0, <2>2
  <2> QED BY <2>1, <2>2, <2>3, <2>4, AnswerKeeps
<1>8. CASE UNCHANGED Leased!vars
  <2>1. Quiet
    <3>1. m_now' = m_now /\ m_now' \in Nat /\ m_now <= m_now' BY <1>0, <1>8 DEF Leased!vars
    <3>2. m_pc = [f \in Users |-> m_pc[f]] /\ m_orphans \subseteq Sents BY DEF HoldInv, HoldTypes, Sents
    <3> QED BY <1>0, <1>8, <3>1, <3>2 DEF Quiet, Leased!vars, Leased!store, Leased!object
  <2> QED BY <2>1, QuietKeeps
<1>9. ASSUME \/ \E e \in Users : \/ Leased!WouldBlock(e) \/ Leased!Refreshed(e) \/ Leased!Exited(e)
                                \/ Leased!Fail(e)
             \/ \E w \in Workers : Leased!reconfigure(w)
             \/ Leased!Tick
      PROVE  HoldInv'
  BY <1>9, QuietSteps, QuietKeeps
<1> QED BY <1>0, <1>3, <1>4, <1>5, <1>6, <1>7, <1>8, <1>9, EnteredKeeps DEF Leased!Next

\* coordination/tasklock.py: the grants of two bodies that ran lie at least min_hold_duration
\* apart at the backend, whatever the number of workers, the reconfigurations, the slow and
\* lost answers and the late requests, as long as no two threads share a TaskLock.
THEOREM BodiesAreSeparated ==
  ASSUME Leased!TaskLockAssumption
  PROVE  Leased!Spec => MinHoldSeparation
<1> DEFINE Inv == Leased!OneThreadEach => HoldInv
<1>1. Leased!Init => Inv BY HoldInit
<1>2. Inv /\ [Leased!Next]_Leased!vars => Inv' BY HoldStep DEF Leased!OneThreadEach
<1>3. Inv /\ [Leased!Next]_Leased!vars =>
        [Leased!OneThreadEach =>
           \A e \in Leased!Entrants : m_pc[e] = "enter" /\ m_pc'[e] = "body" /\ m_granted # Null =>
             \E m \in MinHolds : Leased!Apart(m_req[e].at, m_granted, m)]_m_pc
  <2> SUFFICES ASSUME HoldInv, [Leased!Next]_Leased!vars, NEW e \in Leased!Entrants, m_pc[e] = "enter",
                      m_pc'[e] = "body", m_granted # Null
               PROVE  \E m \in MinHolds : Leased!Apart(m_req[e].at, m_granted, m)
    OBVIOUS
  <2>0. e \in Users BY DEF Users, Leased!Entrants
  <2>1. Pending(e)
    <3>1. DOMAIN m_pc = Users BY DEF HoldInv, HoldTypes
    <3>2. ASSUME NEW f \in Users, Leased!Entered(f) PROVE Pending(e)
      BY <2>0, <3>1, <3>2 DEF Leased!Entered, Leased!Answered, Leased!Resume, Pending
    <3>3. ASSUME NEW f \in Users, NEW place, place # "body" \/ m_pc[f] # "enter",
                 m_pc' = [m_pc EXCEPT ![f] = place]
          PROVE  FALSE
      BY <2>0, <3>1, <3>3
    <3>4. m_pc' # m_pc OBVIOUS
    <3>5. Leased!Next BY <3>4 DEF Leased!vars
    <3>6. ASSUME NEW f \in Users, Leased!enter(f) PROVE FALSE BY <3>3, <3>6 DEF Leased!enter
    <3>7. ASSUME NEW f \in Users, Leased!refresh(f) PROVE FALSE BY <3>3, <3>7 DEF Leased!refresh
    <3>8. ASSUME NEW f \in Users, Leased!WouldBlock(f) PROVE FALSE
      BY <3>3, <3>8 DEF Leased!WouldBlock, Leased!Resume
    <3>9. ASSUME NEW f \in Users, Leased!Refreshed(f) PROVE FALSE
      BY <3>3, <3>9 DEF Leased!Refreshed, Leased!Resume
    <3>10. ASSUME NEW f \in Users, Leased!exit(f) PROVE FALSE BY <3>3, <3>10 DEF Leased!exit
    <3>11. ASSUME NEW f \in Users, Leased!Exited(f) PROVE FALSE BY <3>3, <3>11 DEF Leased!Exited, Leased!Resume
    <3>12. ASSUME NEW f \in Users, Leased!Fail(f) PROVE FALSE
      <4> DEFINE place == IF m_pc[f] = "refresh" THEN "body" ELSE "out"
      <4>1. m_pc' = [m_pc EXCEPT ![f] = place] BY <3>12 DEF Leased!Fail
      <4>2. place # "body" \/ m_pc[f] # "enter" OBVIOUS
      <4> HIDE DEF place
      <4> QED BY <3>3, <4>1, <4>2
    <3>13. \A f \in Users : ~ Leased!ServeRequest(f) BY <3>4 DEF Leased!ServeRequest
    <3>14. ~ Leased!Tick /\ (\A r \in m_orphans : ~ Leased!ServeOrphan(r)) /\ (\A w \in Workers : ~ Leased!reconfigure(w))
      BY <3>4 DEF Leased!Tick, Leased!ServeOrphan, Leased!reconfigure
    <3>15. Leased!Entrants = Users BY DEF Users, Leased!Entrants
    <3> QED BY <3>2, <3>5, <3>6, <3>7, <3>8, <3>9, <3>10, <3>11, <3>12, <3>13, <3>14, <3>15 DEF Leased!Next
  <2>2. Leased!Apart(m_req[e].at, m_granted, Shortest) BY <2>0, <2>1 DEF HoldInv, LastHeld
  <2> QED BY <2>2, ShortestFacts
<1> HIDE DEF Inv
<1> QED BY <1>1, <1>2, <1>3, PTL DEF Leased!Spec, MinHoldSeparation, Leased!MinHoldSeparation

\* What the variables of TaskLock hold, however many threads share one: a request was answered
\* in the past, and its token has a nonce that its TaskLock had.
LeaseStore ==
  /\ m_now \in 0..LeaseTime /\ m_owner \in Leased!Tokens \cup {Null}
  /\ m_expire_at \in Nat /\ m_expire_at <= m_now + Lease
  /\ m_orphans \subseteq Leased!Requests /\ m_faults \in 0..MaxFaults
  /\ m_granted \in Nat \cup {Null} /\ (m_granted # Null => m_granted <= m_now)
LeaseObjects ==
  /\ m_min_hold \in [Workers -> MinHolds] /\ m_nonce \in [Workers -> 0..MaxEntries]
  /\ m_acquired_at \in [Workers -> Nat \cup {Null}]
  /\ \A w \in Workers : m_acquired_at[w] # Null => m_acquired_at[w] <= m_now
  /\ m_entered \in [Users -> MinHolds \cup {0}]
LeaseRequests ==
  /\ m_pc \in [Users -> {"out", "enter", "body", "refresh", "exit"}]
  /\ m_req \in [Users -> Leased!Requests \cup {Leased!NoRequest}]
  /\ \A e \in Users :
       /\ m_pc[e] \in {"out", "body"} <=> m_req[e] = Leased!NoRequest
       /\ m_req[e] \in Leased!Requests => m_req[e].at <= m_now
LeaseInv == LeaseStore /\ LeaseObjects /\ LeaseRequests

LEMMA LeaseConstants ==
  ASSUME Leased!TaskLockAssumption
  PROVE  /\ Lease \in Nat /\ LeaseTime \in Nat /\ MaxEntries \in Nat /\ MaxFaults \in Nat
         /\ Null \notin Nat /\ \A m \in MinHolds : m \in Nat /\ m <= Lease
         /\ Leased!Entrants = Users /\ \A e \in Users : WorkerOf[e] \in Workers
  BY DEF Leased!TaskLockAssumption, Leased!Entrants, Users

LEMMA LeaseRequestFacts ==
  ASSUME NEW r \in Leased!Requests
  PROVE  /\ r # Leased!NoRequest /\ r.state # "none"
         /\ r.op \in {"acquire", "release"} /\ r.token \in Leased!Tokens
         /\ r.duration \in 0..Lease /\ r.at \in 0..LeaseTime
  BY DEF Leased!Requests, Leased!NoRequest

LEMMA LeaseAsks ==
  ASSUME Leased!TaskLockAssumption, LeaseObjects, NEW e \in Users, NEW op \in {"acquire", "release"},
         NEW d \in 0..Lease
  PROVE  /\ Leased!Ask(op, Leased!Token(e), d) \in Leased!Requests
         /\ Leased!Ask(op, Leased!Token(e), d).at = 0
<1>1. WorkerOf[e] \in Workers /\ LeaseTime \in Nat /\ 0 \in 0..LeaseTime
  BY LeaseConstants
<1>2. m_nonce[WorkerOf[e]] \in 0..MaxEntries
  BY <1>1 DEF LeaseObjects
<1>3. Leased!Token(e) \in Leased!Tokens
  BY <1>1, <1>2 DEF Leased!Token, Leased!Tokens, Users
<1> HIDE DEF Users
<1> QED BY <1>1, <1>3 DEF Leased!Ask, Leased!Requests

LEMMA LeaseMoves ==
  ASSUME Leased!TaskLockAssumption, LeaseRequests, m_now \in Nat, NEW e \in Users, NEW place, NEW r,
         \/ place \in {"out", "body"} /\ r = Leased!NoRequest
         \/ place \in {"enter", "refresh", "exit"} /\ r \in Leased!Requests /\ r.at <= m_now,
         m_pc' = [m_pc EXCEPT ![e] = place], m_req' = [m_req EXCEPT ![e] = r], m_now' = m_now
  PROVE  LeaseRequests'
<1>1. r \in Leased!Requests => r # Leased!NoRequest
  BY LeaseRequestFacts
<1>2. m_pc' \in [Users -> {"out", "enter", "body", "refresh", "exit"}]
      /\ m_req' \in [Users -> Leased!Requests \cup {Leased!NoRequest}]
  BY DEF LeaseRequests
<1>3. \A f \in Users : /\ m_pc'[f] = IF f = e THEN place ELSE m_pc[f]
                       /\ m_req'[f] = IF f = e THEN r ELSE m_req[f]
  BY DEF LeaseRequests
<1>4. Leased!NoRequest \notin Leased!Requests
  BY LeaseRequestFacts
<1>5. ASSUME NEW f \in Users
      PROVE  /\ m_pc'[f] \in {"out", "body"} <=> m_req'[f] = Leased!NoRequest
             /\ m_req'[f] \in Leased!Requests => m_req'[f].at <= m_now
  <2>1. CASE f = e
    BY <1>1, <1>3, <1>4, <2>1
  <2>2. CASE f # e
    BY <1>3, <2>2 DEF LeaseRequests
  <2> QED BY <2>1, <2>2
<1> QED BY <1>2, <1>5 DEF LeaseRequests

\* What the backend makes of a request.
LEMMA LeaseServes ==
  ASSUME Leased!TaskLockAssumption, m_now \in Nat, m_owner \in Leased!Tokens \cup {Null},
         m_expire_at \in Nat, m_expire_at <= m_now + Lease,
         NEW r \in Leased!Requests, NEW yes, Leased!Serve(r, yes)
  PROVE  /\ m_owner' \in Leased!Tokens \cup {Null}
         /\ m_expire_at' \in Nat /\ m_expire_at' <= m_now + Lease
<1>1. r.token \in Leased!Tokens /\ r.duration \in 0..Lease /\ Lease \in Nat
  BY LeaseRequestFacts, LeaseConstants
<1> QED BY <1>1 DEF Leased!Serve, Leased!store

LEMMA LeaseStep ==
  ASSUME Leased!TaskLockAssumption, LeaseInv, [Leased!Next]_Leased!vars
  PROVE  LeaseInv'
<1>0. /\ LeaseStore /\ LeaseObjects /\ LeaseRequests /\ m_now \in Nat /\ Lease \in Nat
      /\ Leased!Entrants = Users /\ Leased!NoRequest \notin Leased!Requests
  BY LeaseConstants, LeaseRequestFacts DEF LeaseInv, LeaseStore
<1>1. ASSUME NEW e \in Users, m_req[e].state \in {"sent", "yes", "no"}
      PROVE  /\ m_req[e] \in Leased!Requests /\ m_req[e].at <= m_now
             /\ m_pc[e] \in {"enter", "refresh", "exit"}
  <2>1. m_req[e] # Leased!NoRequest
    BY <1>1 DEF Leased!NoRequest
  <2> QED BY <1>0, <2>1 DEF LeaseRequests
<1>2. ASSUME NEW e \in Users, Leased!enter(e) \/ Leased!refresh(e) PROVE LeaseInv'
  <2> DEFINE r == Leased!Ask("acquire", Leased!Token(e), Lease)
  <2>1. r \in Leased!Requests /\ r.at <= m_now
    BY <1>0, LeaseAsks
  <2>2. PICK place \in {"enter", "refresh"} :
          m_pc' = [m_pc EXCEPT ![e] = place] /\ m_req' = [m_req EXCEPT ![e] = r]
    BY <1>2 DEF Leased!enter, Leased!refresh
  <2>3. /\ UNCHANGED <<m_now, m_owner, m_expire_at, m_min_hold, m_acquired_at, m_nonce, m_entered>>
        /\ UNCHANGED <<m_orphans, m_granted, m_faults>>
    BY <1>2 DEF Leased!enter, Leased!refresh, Leased!store, Leased!object
  <2> HIDE DEF r
  <2>4. LeaseRequests'
    BY <1>0, <2>1, <2>2, <2>3, LeaseMoves
  <2> QED BY <1>0, <2>3, <2>4 DEF LeaseInv, LeaseStore, LeaseObjects
<1>3. ASSUME NEW e \in Users, NEW place \in {"out", "body"}, Leased!Resume(e, place)
      PROVE  LeaseRequests'
  BY <1>0, <1>3, LeaseMoves DEF Leased!Resume
<1>4. ASSUME NEW e \in Users, Leased!Entered(e) PROVE LeaseInv'
  <2>1. LeaseRequests'
    BY <1>3, <1>4 DEF Leased!Entered
  <2>2. m_req[e].at \in Nat /\ m_req[e].at <= m_now /\ WorkerOf[e] \in Workers
    BY <1>1, <1>4, LeaseRequestFacts, LeaseConstants DEF Leased!Entered, Leased!Answered
  <2>3. /\ UNCHANGED <<m_now, m_owner, m_expire_at, m_min_hold, m_nonce, m_orphans, m_faults>>
        /\ m_granted' = m_req[e].at /\ m_acquired_at' = [m_acquired_at EXCEPT ![WorkerOf[e]] = m_now]
        /\ m_entered' = [m_entered EXCEPT ![e] = m_min_hold[WorkerOf[e]]]
    BY <1>4 DEF Leased!Entered, Leased!Resume, Leased!store
  <2>4. LeaseStore'
    BY <1>0, <2>2, <2>3 DEF LeaseStore
  <2>5. LeaseObjects'
    <3>1. \A w \in Workers : m_acquired_at'[w] # Null => m_acquired_at'[w] <= m_now
      BY <1>0, <2>3 DEF LeaseObjects
    <3>2. m_acquired_at' \in [Workers -> Nat \cup {Null}]
      BY <1>0, <2>3 DEF LeaseObjects
    <3>3. m_entered' \in [Users -> MinHolds \cup {0}]
      BY <1>0, <2>2, <2>3 DEF LeaseObjects
    <3> QED BY <1>0, <2>3, <3>1, <3>2, <3>3 DEF LeaseObjects
  <2> QED BY <2>1, <2>4, <2>5 DEF LeaseInv
<1>5. ASSUME NEW e \in Users, Leased!WouldBlock(e) \/ Leased!Refreshed(e) \/ Leased!Exited(e)
      PROVE  LeaseInv'
  <2>1. LeaseRequests' /\ UNCHANGED <<m_now, m_owner, m_expire_at, m_orphans, m_faults>>
    BY <1>3, <1>5 DEF Leased!WouldBlock, Leased!Refreshed, Leased!Exited, Leased!Resume, Leased!store
  <2>2. UNCHANGED <<m_min_hold, m_acquired_at, m_nonce, m_entered, m_granted>>
    BY <1>5 DEF Leased!WouldBlock, Leased!Refreshed, Leased!Exited, Leased!object
  <2> QED BY <1>0, <2>1, <2>2 DEF LeaseInv, LeaseStore, LeaseObjects
<1>6. ASSUME NEW e \in Users, Leased!exit(e) PROVE LeaseInv'
  <2> DEFINE w == WorkerOf[e]
             elapsed == m_now - m_acquired_at[w]
  <2>1. LeaseStore' /\ UNCHANGED <<m_now, m_entered>>
    BY <1>0, <1>6 DEF Leased!exit, Leased!store, LeaseStore
  <2>2. w \in Workers
    BY LeaseConstants
  <2>3. CASE m_acquired_at[w] = Null
    <3>1. m_pc' = [m_pc EXCEPT ![e] = "out"] /\ UNCHANGED <<m_req, m_min_hold, m_acquired_at, m_nonce>>
      BY <1>6, <2>3 DEF Leased!exit, Leased!object
    <3>2. m_req[e] = Leased!NoRequest /\ m_req' = [m_req EXCEPT ![e] = Leased!NoRequest]
      BY <1>0, <1>6, <3>1 DEF Leased!exit, LeaseRequests
    <3>3. LeaseRequests'
      BY <1>0, <2>1, <3>1, <3>2, LeaseMoves
    <3> QED BY <1>0, <2>1, <3>1, <3>3 DEF LeaseInv, LeaseObjects
  <2>4. CASE m_acquired_at[w] # Null
    <3> DEFINE r == IF elapsed >= m_min_hold[w]
                    THEN Leased!Ask("release", Leased!Token(e), 0)
                    ELSE Leased!Ask("acquire", Leased!Token(e), Leased!Remaining(m_min_hold[w], elapsed))
    <3>1. /\ m_nonce[w] < MaxEntries /\ UNCHANGED m_min_hold
          /\ m_acquired_at' = [m_acquired_at EXCEPT ![w] = Null]
          /\ m_nonce' = [m_nonce EXCEPT ![w] = m_nonce[w] + 1]
          /\ m_pc' = [m_pc EXCEPT ![e] = "exit"] /\ m_req' = [m_req EXCEPT ![e] = r]
      BY <1>6, <2>4 DEF Leased!exit, Leased!NextNonce
    <3>2. m_min_hold[w] \in Nat /\ m_min_hold[w] <= Lease /\ elapsed \in Nat
      BY <1>0, <2>2, <2>4, LeaseConstants DEF LeaseObjects
    <3>3. r \in Leased!Requests /\ r.at = 0
      <4> HIDE DEF elapsed, w
      <4>1. CASE elapsed >= m_min_hold[w]
        BY <1>0, <4>1, LeaseAsks
      <4>2. CASE ~ (elapsed >= m_min_hold[w])
        <5>1. Leased!Remaining(m_min_hold[w], elapsed) \in 0..Lease
          BY <1>0, <3>2, <4>2 DEF Leased!Remaining
        <5> QED BY <1>0, <4>2, <5>1, LeaseAsks
      <4> QED BY <4>1, <4>2
    <3> HIDE DEF r
    <3>7. r.at <= m_now
      BY <1>0, <3>3
    <3>4. LeaseRequests'
      BY <1>0, <2>1, <3>1, <3>3, <3>7, LeaseMoves
    <3>5. m_nonce' \in [Workers -> 0..MaxEntries]
      <4>1. m_nonce[w] + 1 \in 0..MaxEntries
        BY <1>0, <2>2, <3>1, LeaseConstants DEF LeaseObjects
      <4> QED BY <1>0, <2>2, <3>1, <4>1 DEF LeaseObjects
    <3>6. m_acquired_at' \in [Workers -> Nat \cup {Null}]
          /\ \A v \in Workers : m_acquired_at'[v] # Null => m_acquired_at'[v] <= m_now
      BY <1>0, <2>2, <3>1 DEF LeaseObjects
    <3> QED BY <1>0, <2>1, <3>1, <3>4, <3>5, <3>6 DEF LeaseInv, LeaseObjects
  <2> QED BY <2>3, <2>4
<1>7. ASSUME NEW e \in Users, Leased!ServeRequest(e) PROVE LeaseInv'
  <2>1. m_req[e] \in Leased!Requests /\ m_pc[e] \in {"enter", "refresh", "exit"}
    BY <1>1, <1>7 DEF Leased!ServeRequest
  <2>2. PICK yes \in BOOLEAN :
          /\ Leased!Serve(m_req[e], yes)
          /\ m_req' = [m_req EXCEPT ![e].state = IF yes THEN "yes" ELSE "no", ![e].at = m_now]
    BY <1>7 DEF Leased!ServeRequest
  <2>3. /\ UNCHANGED <<m_now, m_min_hold, m_acquired_at, m_nonce, m_pc, m_entered>>
        /\ UNCHANGED <<m_orphans, m_granted, m_faults>>
    BY <1>7 DEF Leased!ServeRequest, Leased!object
  <2> DEFINE x == IF yes THEN "yes" ELSE "no"
             r == [m_req[e] EXCEPT !.state = x, !.at = m_now]
  <2>4. r \in Leased!Requests /\ r.at <= m_now
    <3> DEFINE q == m_req[e]
    <3>1. x \in {"sent", "yes", "no"} /\ m_now \in 0..LeaseTime
      BY <1>0 DEF LeaseStore
    <3>2. q \in Leased!Requests
      BY <2>1
    <3> HIDE DEF x, q
    <3>3. [q EXCEPT !.state = x, !.at = m_now] \in Leased!Requests
          /\ [q EXCEPT !.state = x, !.at = m_now].at = m_now
      BY <3>1, <3>2 DEF Leased!Requests
    <3> QED BY <1>0, <3>3 DEF q
  <2>5. m_req' = [m_req EXCEPT ![e] = r] /\ m_pc' = [m_pc EXCEPT ![e] = m_pc[e]]
    <3> HIDE DEF x
    <3>1. DOMAIN m_req = Users /\ m_pc' = m_pc /\ m_req' = [m_req EXCEPT ![e].state = x, ![e].at = m_now]
      BY <1>0, <2>2, <2>3 DEF LeaseRequests, x
    <3>2. m_req'[e] = r /\ DOMAIN m_req' = Users /\ m_req' = [f \in Users |-> m_req'[f]]
      BY <3>1
    <3>3. \A f \in Users : f # e => m_req'[f] = m_req[f]
      BY <3>1
    <3> HIDE DEF r
    <3>4. [m_req EXCEPT ![e] = r] = [f \in Users |-> IF f = e THEN r ELSE m_req[f]]
      BY <3>1
    <3>5. m_req' = [m_req EXCEPT ![e] = r]
      BY <3>2, <3>3, <3>4
    <3> QED BY <1>0, <3>1, <3>5 DEF LeaseRequests
  <2> HIDE DEF r
  <2>6. LeaseRequests'
    BY <1>0, <2>1, <2>3, <2>4, <2>5, LeaseMoves
  <2>7. LeaseStore'
    BY <1>0, <2>1, <2>2, <2>3, LeaseServes DEF LeaseStore
  <2> QED BY <1>0, <2>3, <2>6, <2>7 DEF LeaseInv, LeaseObjects
<1>8. ASSUME NEW e \in Users, Leased!Fail(e) PROVE LeaseInv'
  <2>1. /\ m_orphans' \subseteq m_orphans \cup {m_req[e]} /\ m_faults' = m_faults + 1
        /\ m_faults < MaxFaults /\ m_req[e] \in Leased!Requests
    BY <1>0, <1>8 DEF Leased!Fail, LeaseRequests
  <2>2. /\ UNCHANGED <<m_now, m_owner, m_expire_at, m_min_hold, m_acquired_at, m_nonce, m_entered>>
        /\ UNCHANGED m_granted
    BY <1>8 DEF Leased!Fail, Leased!store, Leased!object
  <2>3. PICK place \in {"out", "body"} :
          m_pc' = [m_pc EXCEPT ![e] = place] /\ m_req' = [m_req EXCEPT ![e] = Leased!NoRequest]
    BY <1>8 DEF Leased!Fail
  <2>4. LeaseRequests'
    BY <1>0, <2>2, <2>3, LeaseMoves
  <2>5. LeaseStore'
    BY <1>0, <2>1, <2>2, LeaseConstants DEF LeaseStore
  <2> QED BY <1>0, <2>2, <2>4, <2>5 DEF LeaseInv, LeaseObjects
<1>9. ASSUME NEW r \in m_orphans, Leased!ServeOrphan(r) PROVE LeaseInv'
  <2>1. r \in Leased!Requests /\ \E yes \in BOOLEAN : Leased!Serve(r, yes)
    BY <1>0, <1>9 DEF Leased!ServeOrphan, LeaseStore
  <2>2. /\ UNCHANGED <<m_now, m_min_hold, m_acquired_at, m_nonce, m_pc, m_req, m_entered>>
        /\ UNCHANGED <<m_granted, m_faults>> /\ m_orphans' = m_orphans \ {r}
    BY <1>9 DEF Leased!ServeOrphan, Leased!object
  <2>3. LeaseStore'
    BY <1>0, <2>1, <2>2, LeaseServes DEF LeaseStore
  <2> QED BY <1>0, <2>2, <2>3 DEF LeaseInv, LeaseObjects, LeaseRequests
<1>10. ASSUME NEW w \in Workers, Leased!reconfigure(w) PROVE LeaseInv'
  <2>1. m_min_hold' \in [Workers -> MinHolds]
    BY <1>0, <1>10 DEF Leased!reconfigure, LeaseObjects
  <2>2. /\ UNCHANGED <<m_now, m_owner, m_expire_at, m_acquired_at, m_nonce, m_pc, m_req>>
        /\ UNCHANGED <<m_entered, m_orphans, m_granted, m_faults>>
    BY <1>10 DEF Leased!reconfigure, Leased!store
  <2> QED BY <1>0, <2>1, <2>2 DEF LeaseInv, LeaseStore, LeaseObjects, LeaseRequests
<1>11. CASE Leased!Tick
  <2>1. /\ m_now < LeaseTime /\ m_now' = m_now + 1
        /\ UNCHANGED <<m_owner, m_expire_at, m_min_hold, m_acquired_at, m_nonce, m_pc, m_req>>
        /\ UNCHANGED <<m_entered, m_orphans, m_granted, m_faults>>
    BY <1>11 DEF Leased!Tick, Leased!store, Leased!object
  <2>2. LeaseStore'
    BY <1>0, <2>1, LeaseConstants DEF LeaseStore
  <2>3. LeaseObjects'
    <3>1. \A w \in Workers : m_acquired_at[w] # Null => m_acquired_at[w] \in Nat
      BY <1>0 DEF LeaseObjects
    <3>2. \A w \in Workers : m_acquired_at[w] # Null => m_acquired_at[w] <= m_now'
      BY <1>0, <2>1, <3>1 DEF LeaseObjects
    <3> QED BY <1>0, <2>1, <3>2 DEF LeaseObjects
  <2>4. LeaseRequests'
    <3>1. \A e \in Users : m_req[e] \in Leased!Requests => m_req[e].at <= m_now'
      BY <1>0, <2>1, LeaseRequestFacts DEF LeaseRequests
    <3> QED BY <1>0, <2>1, <3>1 DEF LeaseRequests
  <2> QED BY <2>2, <2>3, <2>4 DEF LeaseInv
<1>12. CASE UNCHANGED Leased!vars
  BY <1>0, <1>12 DEF Leased!vars, Leased!store, Leased!object, LeaseInv, LeaseStore, LeaseObjects,
     LeaseRequests
<1> QED
  BY <1>0, <1>2, <1>4, <1>5, <1>6, <1>7, <1>8, <1>9, <1>10, <1>11, <1>12 DEF Leased!Next

LEMMA TaskLockKeepsTypes ==
  ASSUME Leased!TaskLockAssumption
  PROVE  Leased!Spec => []Leased!TypeOK
<1>1. Leased!Init => LeaseInv
  <2> SUFFICES ASSUME Leased!Init PROVE LeaseInv
    OBVIOUS
  <2>1. LeaseStore
    BY LeaseConstants DEF Leased!Init, LeaseStore
  <2>2. LeaseObjects
    BY LeaseConstants DEF Leased!Init, LeaseObjects
  <2>3. LeaseRequests
    BY LeaseConstants, LeaseRequestFacts DEF Leased!Init, LeaseRequests
  <2> QED BY <2>1, <2>2, <2>3 DEF LeaseInv
<1>2. LeaseInv /\ [Leased!Next]_Leased!vars => LeaseInv'
  BY LeaseStep
<1>3. LeaseInv => Leased!TypeOK
  <2> SUFFICES ASSUME LeaseInv PROVE Leased!TypeOK
    OBVIOUS
  <2>1. m_now \in Nat /\ Lease \in Nat /\ m_acquired_at \in [Workers -> 0..m_now \cup {Null}]
    <3>1. \A w \in Workers : m_acquired_at[w] \in 0..m_now \cup {Null}
      BY DEF LeaseInv, LeaseObjects, LeaseStore
    <3> QED BY <3>1, LeaseConstants DEF LeaseInv, LeaseObjects, LeaseStore
  <2>2. m_expire_at \in 0..(m_now + Lease) /\ m_granted \in 0..m_now \cup {Null}
    BY <2>1 DEF LeaseInv, LeaseStore
  <2>3. Leased!Entrants = Users
    BY LeaseConstants
  <2> QED BY <2>1, <2>2, <2>3 DEF LeaseInv, LeaseStore, LeaseObjects, LeaseRequests, Leased!TypeOK
<1> QED BY <1>1, <1>2, <1>3, PTL DEF Leased!Spec

-----------------------------------------------------------------------------
\* The attempts of a retry.

\* The recursive definitions have solutions, and those have their types.
LEMMA DoubledIs == Doubled = [n \in Nat |-> IF n = 0 THEN 1 ELSE 2 * Doubled[n - 1]]
<1> DEFINE f == [x \in Nat |-> 2 * x]
<1>1. f \in [Nat -> Nat] /\ \A x \in Nat : f[x] = 2 * x
  OBVIOUS
<1> HIDE DEF f
<1>2. PICK g : Iterates(Nat, f, 1, g)
  BY <1>1, Iteration
<1>3. ASSUME NEW n \in Nat PROVE g[n] = IF n = 0 THEN 1 ELSE 2 * g[n - 1]
  BY <1>1, <1>2 DEF Iterates
<1>4. g = [n \in Nat |-> IF n = 0 THEN 1 ELSE 2 * g[n - 1]]
  <2>1. g \in [Nat -> Nat]
    BY <1>2 DEF Iterates
  <2> QED BY <1>3, <2>1
<1> QED BY <1>4, Zenon DEF Doubled

LEMMA DoubledType == \A n \in Nat : Doubled[n] \in Nat
<1> DEFINE T == {n \in Nat : Doubled[n] \notin Nat}
<1>1. SUFFICES ASSUME T # {} PROVE FALSE
  OBVIOUS
<1>2. PICK n \in T : \A k \in T : n <= k
  BY <1>1, LeastNatural
<1>3. Doubled[n] = IF n = 0 THEN 1 ELSE 2 * Doubled[n - 1]
  BY DoubledIs, Zenon
<1>4. n # 0 /\ n - 1 \in Nat /\ n - 1 \notin T
  BY <1>2, <1>3
<1> QED BY <1>3, <1>4

LEMMA FibonacciIs ==
  _prev = [n \in Nat |-> IF n = 0 THEN <<0, 1>> ELSE <<_prev[n - 1][2], _prev[n - 1][1] + _prev[n - 1][2]>>]
<1> DEFINE f == [x \in Nat \X Nat |-> <<x[2], x[1] + x[2]>>]
<1>1. f \in [Nat \X Nat -> Nat \X Nat] /\ \A x \in Nat \X Nat : f[x] = <<x[2], x[1] + x[2]>>
  OBVIOUS
<1> HIDE DEF f
<1>2. PICK g : Iterates(Nat \X Nat, f, <<0, 1>>, g)
  BY <1>1, Iteration
<1>3. ASSUME NEW n \in Nat
      PROVE  g[n] = IF n = 0 THEN <<0, 1>> ELSE <<g[n - 1][2], g[n - 1][1] + g[n - 1][2]>>
  <2>1. CASE n = 0
    BY <1>2, <2>1 DEF Iterates
  <2>2. CASE n # 0
    <3>1. g[n - 1] \in Nat \X Nat /\ g[n] = f[g[n - 1]]
      BY <1>2, <2>2, n - 1 \in Nat DEF Iterates
    <3> QED BY <1>1, <2>2, <3>1
  <2> QED BY <2>1, <2>2
<1>4. g = [n \in Nat |-> IF n = 0 THEN <<0, 1>> ELSE <<g[n - 1][2], g[n - 1][1] + g[n - 1][2]>>]
  <2>1. g \in [Nat -> Nat \X Nat]
    BY <1>2 DEF Iterates
  <2> QED BY <1>3, <2>1
<1> QED BY <1>4, Zenon DEF _prev

LEMMA FibonacciType == \A n \in Nat : _prev[n] \in Nat \X Nat
<1> DEFINE T == {n \in Nat : _prev[n] \notin Nat \X Nat}
<1>1. SUFFICES ASSUME T # {} PROVE FALSE
  OBVIOUS
<1>2. PICK n \in T : \A k \in T : n <= k
  BY <1>1, LeastNatural
<1>3. _prev[n] = IF n = 0 THEN <<0, 1>> ELSE <<_prev[n - 1][2], _prev[n - 1][1] + _prev[n - 1][2]>>
  BY FibonacciIs, Zenon
<1>4. n # 0 /\ n - 1 \in Nat /\ n - 1 \notin T
  BY <1>2, <1>3
<1> QED BY <1>3, <1>4

\* No backoff makes a call wait longer than its longest delay.
LEMMA DelayBounds ==
  ASSUME PoliciesAssumption, NEW n \in Nat \ {0}, NEW p \in Nat,
         NEW backoff \in {"none", "full", "equal", "decorrelated", "constant", "linear", "fibonacci", "random"},
         NEW d \in delay(backoff, n, p)
  PROVE  d \in Nat /\ d <= Longest(backoff) /\ Most(d, BaseDelay) \in Nat
<1>0. BaseDelay \in Nat \ {0} /\ MaxDelay \in Nat \ {0}
  BY DEF PoliciesAssumption
<1>1. raw(n) \in Nat /\ raw(n) <= MaxDelay
  <2>1. Doubled[n - 1] \in Nat
    BY DoubledType, n - 1 \in Nat
  <2>2. BaseDelay * Doubled[n - 1] \in Nat
    BY <1>0, <2>1
  <2> QED BY <1>0, <2>2 DEF raw, Least
<1>2. CASE backoff \in {"none", "full", "equal"}
  <2>1. d \in _ExponentialStrategy_delay(backoff, n, p)
    BY <1>2 DEF delay
  <2>2. raw(n) \div 2 \in Nat
    BY <1>1
  <2>3. d \in Nat /\ d <= raw(n)
    BY <1>1, <1>2, <2>1, <2>2 DEF _ExponentialStrategy_delay
  <2> QED BY <1>0, <1>1, <1>2, <2>3 DEF Longest, Most
<1>3. CASE backoff = "decorrelated"
  <2>1. d \in {Least(MaxDelay, e) : e \in BaseDelay..Most(BaseDelay, p * 3)}
    BY <1>3 DEF delay, _ExponentialStrategy_delay
  <2>2. PICK e \in BaseDelay..Most(BaseDelay, p * 3) : d = Least(MaxDelay, e)
    BY <2>1
  <2>3. Most(BaseDelay, p * 3) \in Nat
    BY <1>0 DEF Most
  <2>4. e \in Nat
    BY <1>0, <2>2, <2>3
  <2> QED BY <1>0, <1>3, <2>2, <2>4 DEF Longest, Most, Least
<1>4. CASE backoff = "constant"
  <2>1. d = BaseDelay
    BY <1>4 DEF delay, _ConstantStrategy_delay
  <2> QED BY <1>0, <1>4, <2>1 DEF Longest, Most
<1>5. CASE backoff = "linear"
  <2>1. d = Least(BaseDelay * n, MaxDelay)
    BY <1>5 DEF delay, _LinearStrategy_delay
  <2>2. BaseDelay * n \in Nat
    BY <1>0
  <2> QED BY <1>0, <1>5, <2>1, <2>2 DEF Longest, Most, Least
<1>6. CASE backoff = "fibonacci"
  <2>1. d = Least(BaseDelay * _prev[n][1], MaxDelay)
    BY <1>6 DEF delay, _FibonacciStrategy_delay
  <2>2. _prev[n][1] \in Nat
    BY FibonacciType
  <2>3. BaseDelay * _prev[n][1] \in Nat
    BY <1>0, <2>2
  <2> QED BY <1>0, <1>6, <2>1, <2>3 DEF Longest, Most, Least
<1>7. CASE backoff = "random"
  <2>1. d \in BaseDelay..MaxDelay
    BY <1>7 DEF delay, _RandomStrategy_delay
  <2> QED BY <1>0, <1>7, <2>1 DEF Longest, Most
<1> QED BY <1>2, <1>3, <1>4, <1>5, <1>6, <1>7

\* The configuration of a call and its counters.
RetryInv ==
  /\ TypeOK /\ RetriesStayInBudget
  /\ started <= now
  /\ pc # "idle" => number >= 1

LEMMA RetryConfigs ==
  ASSUME PoliciesAssumption, NEW c \in Configs
  PROVE  /\ c.retry.attempts \in Nat \ {0} /\ c.retry.max_seconds \in Nat \cup {NoLimit}
         /\ c.retry.backoff \in {"none", "full", "equal", "decorrelated", "constant", "linear", "fibonacci", "random"}
         /\ Longest(c.retry.backoff) \in Nat
<1>1. /\ c.retry.attempts \in Nat \ {0} /\ c.retry.max_seconds \in Nat \cup {NoLimit}
      /\ c.retry.backoff \in {"none", "full", "equal", "decorrelated", "constant", "linear", "fibonacci", "random"}
  BY DEF PoliciesAssumption
<1>2. Longest(c.retry.backoff) \in Nat
  BY DEF PoliciesAssumption, Longest
<1> QED BY <1>1, <1>2

\* The end of an attempt, by the way the call was made, is the end of the call or a backoff.
LEMMA AttemptEnds ==
  ASSUME PoliciesAssumption, RetryInv, pc = "running", UNCHANGED <<style, live, config, now>>,
         NEW o, Settle(o)
  PROVE  RetryInv'
<1> DEFINE r == config.retry
<1>0. /\ config \in Configs /\ now \in Nat /\ started \in Nat /\ number \in Nat \ {0} /\ previous \in Nat
      /\ deadline \in Nat /\ wake \in Nat /\ number <= r.attempts /\ started <= now
  BY DEF RetryInv, TypeOK, RetriesStayInBudget
<1>1. /\ r.attempts \in Nat \ {0} /\ r.max_seconds \in Nat \cup {NoLimit} /\ Longest(r.backoff) \in Nat
      /\ r.backoff \in {"none", "full", "equal", "decorrelated", "constant", "linear", "fibonacci", "random"}
  BY <1>0, RetryConfigs
<1>2. CASE Finish(o)
  BY <1>2 DEF Finish, RetryInv, TypeOK, RetriesStayInBudget
<1>3. CASE ~ Exhausted(r) /\ Backoff
  <2>1. PICK d \in delay(r.backoff, number, previous) :
          /\ pc' = "sleeping" /\ wake' = now + d /\ previous' = Most(d, BaseDelay)
          /\ UNCHANGED <<number, started, deadline, outcome>>
    BY <1>3 DEF Backoff
  <2>2. d \in Nat /\ d <= Longest(r.backoff) /\ Most(d, BaseDelay) \in Nat
    BY <1>0, <1>1, DelayBounds
  <2>3. number < r.attempts /\ (r.max_seconds # NoLimit => now < started + r.max_seconds)
    BY <1>0, <1>1, <1>3 DEF Exhausted
  <2>4. TypeOK'
    BY <1>0, <2>1, <2>2 DEF RetryInv, TypeOK
  <2>5. wake' <= now + Longest(r.backoff) /\ (r.max_seconds # NoLimit => wake' < started + r.max_seconds + Longest(r.backoff))
    BY <1>0, <1>1, <2>1, <2>2, <2>3
  <2>6. RetriesStayInBudget'
    BY <1>0, <2>1, <2>3, <2>5 DEF RetriesStayInBudget
  <2> QED BY <1>0, <2>1, <2>4, <2>6 DEF RetryInv
<1>4. Finish(o) \/ (~ Exhausted(r) /\ Backoff)
  BY DEF Settle, _run_async, _run_sync, _async_iter, _sync_iter, Retried, _handle_exit
<1> QED BY <1>2, <1>3, <1>4

\* Retrying stays within the configuration that the call took with it.
THEOREM RetriesAreBounded ==
  ASSUME PoliciesAssumption
  PROVE  Spec => []RetriesStayInBudget /\ []TypeOK
<1>1. Init => RetryInv
  <2> SUFFICES ASSUME Init PROVE RetryInv
    OBVIOUS
  <2>1. config \in Configs
    BY DEF Init
  <2>2. config.retry.attempts \in Nat \ {0}
    BY <2>1, RetryConfigs
  <2> QED BY <2>2 DEF Init, RetryInv, TypeOK, RetriesStayInBudget, PoliciesAssumption
<1>2. RetryInv /\ [Next]_vars => RetryInv'
  <2> SUFFICES ASSUME RetryInv, [Next]_vars PROVE RetryInv'
    OBVIOUS
  <2>0. /\ live \in Configs /\ now \in Nat /\ number \in Nat /\ {MaxTime + 1, now + Seconds} \subseteq Nat
        /\ config.retry.attempts \in Nat /\ live.retry.attempts \in Nat \ {0} /\ started \in Nat /\ started <= now
    BY RetryConfigs DEF RetryInv, TypeOK, PoliciesAssumption
  <2>1. CASE UNCHANGED vars
    BY <2>1 DEF vars, RetryInv, TypeOK, RetriesStayInBudget
  <2>2. CASE call
    <3>1. /\ pc' = "running" /\ config' = live /\ number' = 1 /\ started' = now /\ deadline' \in Nat
          /\ UNCHANGED <<style, live, now, wake, previous, outcome>>
      BY <2>0, <2>2 DEF call, Timeout__aenter__
    <3> QED BY <2>0, <3>1 DEF RetryInv, TypeOK, RetriesStayInBudget
  <2>3. CASE attempt
    <3>1. /\ pc = "sleeping" /\ pc' = "running" /\ number' = number + 1 /\ deadline' \in Nat
          /\ UNCHANGED <<style, live, config, now, started, wake, previous, outcome>>
      BY <2>0, <2>3 DEF attempt, Timeout__aenter__
    <3>2. number < config.retry.attempts
      BY <3>1 DEF RetryInv, RetriesStayInBudget
    <3> QED BY <2>0, <3>1, <3>2 DEF RetryInv, TypeOK, RetriesStayInBudget
  <2>4. CASE Timeout__aexit__
    BY <2>4, AttemptEnds DEF Timeout__aexit__
  <2>5. CASE cancel
    BY <2>5 DEF cancel, RetryInv, TypeOK, RetriesStayInBudget
  <2>6. CASE _apply_reconfigure
    BY <2>6 DEF _apply_reconfigure, RetryInv, TypeOK, RetriesStayInBudget
  <2>7. CASE Tick
    <3>1. now' = now + 1 /\ now' \in 0..MaxTime
      BY <2>0, <2>7 DEF Tick, PoliciesAssumption
    <3>2. pc = "sleeping" => wake \in Nat /\ Longest(config.retry.backoff) \in Nat /\ wake <= now' + Longest(config.retry.backoff)
      BY <2>0, <3>1, RetryConfigs DEF RetryInv, TypeOK, RetriesStayInBudget
    <3> QED BY <2>0, <2>7, <3>1, <3>2 DEF Tick, RetryInv, TypeOK, RetriesStayInBudget
  <2>8. ASSUME NEW o \in Outcome, returns(o) PROVE RetryInv'
    BY <2>8, AttemptEnds DEF returns
  <2> QED BY <2>1, <2>2, <2>3, <2>4, <2>5, <2>6, <2>7, <2>8 DEF Next
<1>3. RetryInv => RetriesStayInBudget /\ TypeOK
  BY DEF RetryInv
<1> QED BY <1>1, <1>2, <1>3, PTL DEF Spec

-----------------------------------------------------------------------------
\* The records a log filter drops.

LogEntry == [key : Log!Keys, count : Nat \ {0}, seen : Int]
LogTable(s) ==
  /\ s \in Seq(LogEntry)
  /\ \A i, j \in 1..Len(s) : s[i].key = s[j].key => i = j

\* What the burst of a key has come to when its entry is e: the entry's count is at most one
\* more than the allowed records, it is that when a record was dropped, and then the entry
\* still has the time of the first one that was.
Tallied(e, b) ==
  /\ e.count <= d_config.allowed_repetitions + 1
  /\ b.passed = IF e.count <= d_config.allowed_repetitions THEN e.count
                ELSE d_config.allowed_repetitions
  /\ e.count = d_config.allowed_repetitions + 1 <=> b.dropped # Null
  /\ b.dropped # Null => b.dropped.first = e.seen

Bursts == [passed : Nat, dropped : {Null} \cup [first : Int, last : Int]]

\* The part of the property that is about one key.
Reminded(b) ==
  /\ b.passed <= d_config.allowed_repetitions
  /\ b.dropped # Null =>
       /\ b.passed = d_config.allowed_repetitions
       /\ d_config.ttl > 0 => b.dropped.last - b.dropped.first <= d_config.ttl

LogInv ==
  /\ d_config \in FilterConfigs /\ d_now \in 0..LogTime /\ d_records \in 0..MaxRecords
  /\ LogTable(d_counts) /\ Len(d_counts) <= d_config.cache_size
  /\ d_at = [t \in Callers |-> d_at[t]]
  /\ \A t \in Callers : d_at[t] # Null => d_at[t].key \in Log!Keys /\ d_at[t].now \in Nat
  /\ d_burst \in [Log!Keys -> Bursts]
  /\ \A k \in Log!Keys : Reminded(d_burst[k])
  /\ \A n \in 1..Len(d_counts) : Tallied(d_counts[n], d_burst[d_counts[n].key])

LEMMA LogConfig ==
  ASSUME Log!DuplicateFilterAssumption, d_config \in FilterConfigs
  PROVE  /\ d_config.allowed_repetitions \in Nat \ {0} /\ d_config.cache_size \in Nat \ {0}
         /\ d_config.key_mode \in DOMAIN KeyOf /\ d_config.ttl \in Nat
  BY DEF Log!DuplicateFilterAssumption, Log!DuplicateFilterConfig

LEMMA LogOnly ==
  ASSUME NEW s, NEW S
  PROVE  Log!Only(s, S) = Only(s, S)
  BY Zenon DEF Log!Only, Only

\* What is left of a table when some entries go.
LEMMA TableOnly ==
  ASSUME NEW s, NEW S, LogTable(s)
  PROVE  /\ LogTable(Log!Only(s, S)) /\ Len(Log!Only(s, S)) <= Len(s)
         /\ \A i \in 1..Len(Log!Only(s, S)) :
              \E j \in 1..Len(s) : Log!Only(s, S)[i] = s[j] /\ s[j] \in S
<1> DEFINE o == Only(s, S)
<1>1. s \in Seq(LogEntry) /\ \A i, j \in 1..Len(s) : s[i].key = s[j].key => i = j
  BY DEF LogTable
<1>2. \A i, j \in 1..Len(s) : s[i] = s[j] => i = j
  BY <1>1
<1>3. /\ o \in Seq(LogEntry) /\ Len(o) <= Len(s)
      /\ \A i \in 1..Len(o) : \E j \in 1..Len(s) : o[i] = s[j] /\ s[j] \in S
      /\ \A i, j \in 1..Len(o) : o[i] = o[j] => i = j
  BY <1>1, <1>2, OnlyKeeps
<1>4. Log!Only(s, S) = o
  BY LogOnly
<1> HIDE DEF o
<1>5. ASSUME NEW i \in 1..Len(o), NEW j \in 1..Len(o), o[i].key = o[j].key PROVE i = j
  <2>1. PICK m \in 1..Len(s) : o[i] = s[m]
    BY <1>3
  <2>2. PICK n \in 1..Len(s) : o[j] = s[n]
    BY <1>3
  <2>3. m = n
    BY <1>1, <1>5, <2>1, <2>2
  <2> QED BY <1>3, <2>1, <2>2, <2>3
<1> QED BY <1>3, <1>4, <1>5 DEF LogTable

\* An entry comes to the end, alone of its key, and the table stays within its size.
LEMMA TableMoves ==
  ASSUME Log!DuplicateFilterAssumption, d_config \in FilterConfigs,
         NEW s, NEW e \in LogEntry, LogTable(s), Len(s) <= d_config.cache_size
  PROVE  /\ LogTable(Log!MovedToEnd(s, e)) /\ Len(Log!MovedToEnd(s, e)) <= d_config.cache_size
         /\ \A i \in 1..Len(Log!MovedToEnd(s, e)) :
              \/ Log!MovedToEnd(s, e)[i] = e
              \/ \E j \in 1..Len(s) : Log!MovedToEnd(s, e)[i] = s[j] /\ s[j].key # e.key
<1> DEFINE w == Log!Without(s, e.key)
           m == Append(w, e)
           t == Log!MovedToEnd(s, e)
<1>1. d_config.cache_size \in Nat \ {0}
  BY LogConfig
<1>2. /\ LogTable(w) /\ Len(w) <= Len(s)
      /\ \A i \in 1..Len(w) : \E j \in 1..Len(s) : w[i] = s[j] /\ s[j].key # e.key
  <2> DEFINE S == {x \in Log!Range(s) : x.key # e.key}
  <2>1. w = Log!Only(s, S)
    BY DEF Log!Without
  <2>2. \A x : x \in S => x.key # e.key
    OBVIOUS
  <2> HIDE DEF w, S
  <2> QED BY <2>1, <2>2, TableOnly
<1>3. t = IF Len(m) > d_config.cache_size THEN Tail(m) ELSE m
  BY DEF Log!MovedToEnd
<1> HIDE DEF w, t
<1>4. w \in Seq(LogEntry) /\ Len(w) \in Nat /\ Len(s) \in Nat
  BY <1>2 DEF LogTable
<1>5. /\ m \in Seq(LogEntry) /\ Len(m) = Len(w) + 1 /\ m[Len(w) + 1] = e
      /\ \A i \in 1..Len(w) : m[i] = w[i]
  BY <1>4
<1> HIDE DEF m
<1>6. ASSUME NEW i \in 1..Len(m)
      PROVE  \/ m[i] = e /\ i = Len(m)
             \/ i \in 1..Len(w) /\ m[i] = w[i] /\ m[i].key # e.key
  <2>1. i = Len(w) + 1 \/ i \in 1..Len(w)
    BY <1>4, <1>5
  <2>2. ASSUME i \in 1..Len(w) PROVE m[i] = w[i] /\ m[i].key # e.key
    BY <1>2, <1>5, <2>2
  <2> QED BY <1>5, <2>1, <2>2
<1>7. ASSUME NEW i \in 1..Len(m), NEW j \in 1..Len(m), m[i].key = m[j].key PROVE i = j
  BY <1>2, <1>6, <1>7 DEF LogTable
<1>8. ASSUME NEW i \in 1..Len(m)
      PROVE  m[i] = e \/ \E j \in 1..Len(s) : m[i] = s[j] /\ s[j].key # e.key
  BY <1>2, <1>6
<1>9. CASE Len(m) > d_config.cache_size
  <2>1. m # <<>> /\ t = Tail(m) /\ Len(m) \in Nat
    BY <1>3, <1>4, <1>5, <1>9
  <2>2. /\ t \in Seq(LogEntry) /\ Len(t) = Len(m) - 1
        /\ \A i \in 1..Len(t) : t[i] = m[i + 1]
    BY <1>5, <2>1
  <2>3. \A i \in 1..Len(t) : i + 1 \in 1..Len(m)
    BY <2>1, <2>2
  <2>4. ASSUME NEW i \in 1..Len(t), NEW j \in 1..Len(t), t[i].key = t[j].key PROVE i = j
    <3>1. i + 1 = j + 1
      BY <1>7, <2>2, <2>3, <2>4
    <3> QED BY <3>1
  <2>5. Len(t) <= d_config.cache_size
    BY <1>1, <1>2, <1>4, <1>5, <2>2
  <2> QED BY <1>8, <2>2, <2>3, <2>4, <2>5 DEF LogTable, t
<1>10. CASE ~ Len(m) > d_config.cache_size
  <2>1. t = m /\ Len(m) <= d_config.cache_size
    BY <1>1, <1>3, <1>4, <1>5, <1>10
  <2> QED BY <1>5, <1>7, <1>8, <2>1 DEF LogTable, t
<1> QED BY <1>9, <1>10

\* What the filter makes of the entry and what becomes of the burst fit together.
LEMMA JudgedTallies ==
  ASSUME Log!DuplicateFilterAssumption, d_config \in FilterConfigs, d_burst \in [Log!Keys -> Bursts],
         NEW k \in Log!Keys, NEW time \in Nat, NEW e, Reminded(d_burst[k]),
         e # Null => e \in LogEntry /\ e.key = k /\ Tallied(e, d_burst[k])
  PROVE  /\ Log!Judged(e, k, time).entry \in LogEntry
         /\ Log!Judged(e, k, time).entry.key = k
         /\ Log!Noted(k, Log!Judged(e, k, time), time) \in Bursts
         /\ Reminded(Log!Noted(k, Log!Judged(e, k, time), time))
         /\ Tallied(Log!Judged(e, k, time).entry, Log!Noted(k, Log!Judged(e, k, time), time))
<1> DEFINE v == Log!Judged(e, k, time)
           b == Log!Noted(k, v, time)
           c == d_burst[k]
           A == d_config.allowed_repetitions
<1>1. A \in Nat \ {0} /\ d_config.ttl \in Nat
  BY LogConfig
<1>2. c \in Bursts
  OBVIOUS
<1>3. CASE Log!Forgotten(e, time)
  <2> DEFINE n == [key |-> k, count |-> 1, seen |-> time]
  <2>1. v = Log!Verdict(n, TRUE)
    BY <1>3 DEF Log!Judged
  <2>2. v.entry = n
    BY <2>1 DEF Log!Verdict
  <2>3. n \in LogEntry /\ n.key = k /\ n.count = 1
    BY DEF LogEntry
  <2> HIDE DEF v, n
  <2>4. b = [passed |-> 1, dropped |-> Null]
    BY <2>2, <2>3 DEF Log!Noted
  <2>5. b.passed = 1 /\ b.dropped = Null /\ b \in Bursts
    BY <2>4 DEF Bursts
  <2> HIDE DEF b
  <2>6. Reminded(b)
    BY <1>1, <2>5 DEF Reminded
  <2>7. Tallied(n, b)
    BY <1>1, <2>3, <2>5 DEF Tallied
  <2> QED BY <2>2, <2>3, <2>5, <2>6, <2>7 DEF v, b
<1>4. ASSUME ~ Log!Forgotten(e, time)
      PROVE  /\ e \in LogEntry /\ e.key = k /\ Tallied(e, c)
             /\ e.count \in Nat \ {0} /\ e.seen \in Int
             /\ d_config.ttl > 0 => time - e.seen <= d_config.ttl
  <2>1. e # Null
    BY <1>4 DEF Log!Forgotten
  <2>2. e \in LogEntry /\ e.key = k /\ Tallied(e, c)
    BY <2>1
  <2>3. e.count \in Nat \ {0} /\ e.seen \in Int
    BY <2>2 DEF LogEntry
  <2>4. d_config.ttl > 0 => ~ (time - e.seen > d_config.ttl)
    BY <1>4 DEF Log!Forgotten
  <2> QED BY <1>1, <2>2, <2>3, <2>4
<1>5. CASE ~ Log!Forgotten(e, time) /\ e.count > A
  <2>1. v = Log!Verdict(e, FALSE)
    BY <1>5 DEF Log!Judged
  <2>2. v.entry = e /\ v.passes = FALSE
    BY <2>1 DEF Log!Verdict
  <2>3. e.count = A + 1 /\ e.count # 1
    BY <1>1, <1>4, <1>5 DEF Tallied
  <2>4. c.dropped # Null /\ c.dropped.first = e.seen /\ c.passed = A
    BY <1>1, <1>4, <1>5, <2>3 DEF Tallied
  <2>5. c.dropped \in [first : Int, last : Int] /\ c.passed \in Nat
    BY <1>2, <2>4 DEF Bursts
  <2> HIDE DEF v
  <2> DEFINE d == [c.dropped EXCEPT !.last = time]
  <2>6. b = [c EXCEPT !.dropped = d]
    BY <2>2, <2>3, <2>4 DEF Log!Noted
  <2>7. d \in [first : Int, last : Int] /\ d.first = e.seen /\ d.last = time
    BY <2>4, <2>5
  <2> HIDE DEF d
  <2>8. b \in Bursts /\ b.passed = A /\ b.dropped = d
    BY <1>2, <2>4, <2>6, <2>7 DEF Bursts
  <2>9. d # Null
    BY <2>7 DEF Log!DuplicateFilterAssumption
  <2> HIDE DEF b
  <2>10. Reminded(b)
    BY <1>1, <1>4, <1>5, <2>7, <2>8 DEF Reminded
  <2>11. Tallied(e, b)
    BY <1>1, <2>3, <2>7, <2>8, <2>9 DEF Tallied
  <2> QED BY <1>4, <1>5, <2>2, <2>8, <2>10, <2>11 DEF v, b
<1>6. CASE ~ Log!Forgotten(e, time) /\ ~ e.count > A
  <2> DEFINE n == [key |-> k, count |-> e.count + 1, seen |-> time]
  <2>1. v = Log!Verdict(n, e.count < A)
    BY <1>6 DEF Log!Judged
  <2>2. v.entry = n
    BY <2>1 DEF Log!Verdict
  <2>3. \A p \in BOOLEAN : Log!Verdict(n, p).passes = p
    BY Zenon DEF Log!Verdict
  <2>4. n \in LogEntry /\ n.key = k /\ n.count = e.count + 1 /\ n.seen = time /\ n.count # 1
    BY <1>4, <1>6 DEF LogEntry
  <2>5. e.count <= A /\ c.passed = e.count /\ c.dropped = Null
    BY <1>1, <1>4, <1>6 DEF Tallied
  <2> HIDE DEF v, n
  <2>6. CASE e.count < A
    <3>0. (e.count < A) = TRUE
      BY <2>6
    <3>1. v.passes
      BY <2>1, <2>3, <3>0, Zenon
    <3>2. b = [c EXCEPT !.passed = @ + 1]
      BY <2>2, <2>4, <3>1 DEF Log!Noted
    <3>3. b \in Bursts /\ b.passed = e.count + 1 /\ b.dropped = Null
      BY <1>2, <1>4, <1>6, <2>5, <3>2 DEF Bursts
    <3> HIDE DEF b
    <3>4. Reminded(b)
      BY <1>1, <1>4, <1>6, <2>6, <3>3 DEF Reminded
    <3>5. Tallied(n, b)
      BY <1>1, <1>4, <1>6, <2>4, <2>6, <3>3 DEF Tallied
    <3> QED BY <2>2, <2>4, <3>3, <3>4, <3>5 DEF v, b
  <2>7. CASE ~ e.count < A
    <3>0. (e.count < A) = FALSE
      BY <2>7
    <3>1. ~ v.passes
      BY <2>1, <2>3, <3>0, Zenon
    <3>2. e.count = A
      BY <1>1, <1>4, <1>6, <2>5, <2>7
    <3> DEFINE d == [first |-> time, last |-> time]
    <3>3. b = [c EXCEPT !.dropped = d]
      BY <2>2, <2>4, <2>5, <3>1 DEF Log!Noted
    <3>4. d \in [first : Int, last : Int] /\ d.first = time /\ d.last = time
      OBVIOUS
    <3> HIDE DEF d
    <3>5. b \in Bursts /\ b.passed = A /\ b.dropped = d
      BY <1>2, <2>5, <3>2, <3>3, <3>4 DEF Bursts
    <3>6. d # Null
      BY <3>4 DEF Log!DuplicateFilterAssumption
    <3> HIDE DEF b
    <3>7. Reminded(b)
      BY <1>1, <3>4, <3>5 DEF Reminded
    <3>8. Tallied(n, b)
      BY <1>1, <2>4, <3>2, <3>4, <3>5, <3>6 DEF Tallied
    <3> QED BY <2>2, <2>4, <3>5, <3>7, <3>8 DEF v, b
  <2> QED BY <2>6, <2>7
<1> QED BY <1>3, <1>5, <1>6

LEMMA LogJudges ==
  ASSUME Log!DuplicateFilterAssumption, LogInv, NEW t \in Callers, Log!judge(t)
  PROVE  LogInv'
<1> DEFINE k == d_at[t].key
           time == d_at[t].now
           swept == Log!Swept(t)
           e == Log!Entry(swept, k)
           v == Log!Judged(e, k, time)
           b == Log!Noted(k, v, time)
<1>1. /\ k \in Log!Keys /\ time \in Nat
      /\ d_counts' = Log!MovedToEnd(swept, v.entry)
      /\ d_burst' = [d_burst EXCEPT ![k] = b]
      /\ d_at' = [d_at EXCEPT ![t] = Null]
      /\ UNCHANGED d_config /\ UNCHANGED d_now /\ UNCHANGED d_records
  BY DEF Log!judge, LogInv
<1>2. /\ LogTable(swept) /\ Len(swept) <= Len(d_counts)
      /\ \A i \in 1..Len(swept) : \E j \in 1..Len(d_counts) : swept[i] = d_counts[j]
  <2>0. LogTable(d_counts)
    BY DEF LogInv
  <2>1. CASE Log!Sweeps(t)
    <3> DEFINE S == {x \in Log!Range(d_counts) : x.seen > d_at[t].now - d_config.ttl}
    <3>1. swept = Log!Only(d_counts, S)
      BY <2>1, Zenon DEF Log!Swept
    <3> HIDE DEF S, swept
    <3> QED BY <2>0, <3>1, TableOnly
  <2>2. CASE ~ Log!Sweeps(t)
    <3>1. swept = d_counts
      BY <2>2 DEF Log!Swept
    <3>2. d_counts \in Seq(LogEntry)
      BY DEF LogInv, LogTable
    <3> QED BY <3>1, <3>2 DEF LogInv
  <2> QED BY <2>1, <2>2
<1> HIDE DEF swept
<1>3. /\ swept \in Seq(LogEntry) /\ Len(swept) \in Nat /\ Len(d_counts) \in Nat
      /\ DOMAIN swept = 1..Len(swept)
  BY <1>2 DEF LogInv, LogTable
<1>4. \A i \in 1..Len(swept) : Tallied(swept[i], d_burst[swept[i].key])
  BY <1>2 DEF LogInv
<1>5. e # Null => e \in LogEntry /\ e.key = k /\ Tallied(e, d_burst[k])
  <2>1. CASE \E n \in DOMAIN swept : swept[n].key = k
    <3>1. PICK n \in DOMAIN swept : e = swept[n] /\ swept[n].key = k
      BY <2>1, Zenon DEF Log!Entry
    <3> QED BY <1>3, <1>4, <3>1
  <2>2. CASE ~ \E n \in DOMAIN swept : swept[n].key = k
    BY <2>2 DEF Log!Entry
  <2> QED BY <2>1, <2>2
<1> HIDE DEF e, k, time
<1>6. /\ v.entry \in LogEntry /\ v.entry.key = k
      /\ b \in Bursts /\ Reminded(b) /\ Tallied(v.entry, b)
  BY <1>1, <1>5, JudgedTallies DEF LogInv
<1> HIDE DEF v, b
<1>7. d_config.cache_size \in Nat /\ Len(swept) <= d_config.cache_size
  BY <1>2, <1>3, LogConfig DEF LogInv
<1>8. /\ LogTable(d_counts') /\ Len(d_counts') <= d_config.cache_size
      /\ \A i \in 1..Len(d_counts') :
           \/ d_counts'[i] = v.entry
           \/ \E j \in 1..Len(swept) : d_counts'[i] = swept[j] /\ swept[j].key # v.entry.key
  <2>1. d_config \in FilterConfigs
    BY DEF LogInv
  <2> DEFINE x == v.entry
  <2>2. x \in LogEntry /\ d_counts' = Log!MovedToEnd(swept, x)
    BY <1>1, <1>6
  <2> HIDE DEF x
  <2>3. /\ LogTable(Log!MovedToEnd(swept, x)) /\ Len(Log!MovedToEnd(swept, x)) <= d_config.cache_size
        /\ \A i \in 1..Len(Log!MovedToEnd(swept, x)) :
             \/ Log!MovedToEnd(swept, x)[i] = x
             \/ \E j \in 1..Len(swept) : Log!MovedToEnd(swept, x)[i] = swept[j] /\ swept[j].key # x.key
    BY <1>2, <1>7, <2>1, <2>2, TableMoves
  <2> HIDE DEF LogTable
  <2> QED BY <2>2, <2>3, Zenon DEF x
<1>9. /\ d_burst' \in [Log!Keys -> Bursts] /\ d_burst'[k] = b
      /\ \A l \in Log!Keys : l # k => d_burst'[l] = d_burst[l]
  BY <1>1, <1>6 DEF LogInv
<1>10. \A l \in Log!Keys : Reminded(d_burst'[l])
  BY <1>6, <1>9 DEF LogInv
<1>11. ASSUME NEW i \in 1..Len(d_counts') PROVE Tallied(d_counts'[i], d_burst'[d_counts'[i].key])
  <2>1. CASE d_counts'[i] = v.entry
    BY <1>6, <1>9, <2>1
  <2>2. ASSUME NEW j \in 1..Len(swept), d_counts'[i] = swept[j], swept[j].key # v.entry.key
        PROVE  Tallied(d_counts'[i], d_burst'[d_counts'[i].key])
    <3>0. swept[j] \in LogEntry
      BY <1>3
    <3>1. swept[j].key \in Log!Keys
      BY <3>0 DEF LogEntry
    <3> QED BY <1>4, <1>6, <1>9, <2>2, <3>1
  <2> QED BY <1>8, <2>1, <2>2
<1>12. /\ d_at' = [u \in Callers |-> d_at'[u]]
       /\ \A u \in Callers : d_at'[u] # Null => d_at'[u].key \in Log!Keys /\ d_at'[u].now \in Nat
  BY <1>1 DEF LogInv
<1>13. ASSUME NEW l \in Log!Keys PROVE Reminded(d_burst[l])'
  BY <1>1, <1>10 DEF Reminded
<1>14. ASSUME NEW i \in 1..Len(d_counts') PROVE Tallied(d_counts[i], d_burst[d_counts[i].key])'
  BY <1>1, <1>11 DEF Tallied
<1>15. LogTable(d_counts)'
  BY <1>8 DEF LogTable
<1> QED BY <1>1, <1>8, <1>9, <1>12, <1>13, <1>14, <1>15 DEF LogInv

\* A record is dropped only after the allowed ones have passed, and with a ttl no flood is
\* silent for longer than that, for any number of threads that log and of keys.
THEOREM FloodsAreNeverSilent ==
  ASSUME Log!DuplicateFilterAssumption
  PROVE  Log!Spec => []FloodsAreReminded /\ []Log!TypeOK
<1>1. Log!Init => LogInv
  <2> SUFFICES ASSUME Log!Init PROVE LogInv
    OBVIOUS
  <2>1. /\ d_config \in FilterConfigs /\ d_now = 0 /\ d_counts = <<>> /\ d_records = 0
        /\ d_at = [t \in Callers |-> Null] /\ d_burst = [k \in Log!Keys |-> Log!NoBurst]
    BY DEF Log!Init
  <2>2. /\ d_config.allowed_repetitions \in Nat \ {0} /\ d_config.cache_size \in Nat \ {0}
    BY <2>1, LogConfig
  <2>3. Log!NoBurst \in Bursts /\ Reminded(Log!NoBurst)
    BY <2>2 DEF Log!NoBurst, Bursts, Reminded
  <2>4. LogTable(d_counts) /\ Len(d_counts) = 0
    BY <2>1 DEF LogTable
  <2>5. 0 \in 0..LogTime /\ 0 \in 0..MaxRecords
    BY DEF Log!DuplicateFilterAssumption
  <2> QED BY <2>1, <2>2, <2>3, <2>4, <2>5 DEF LogInv
<1>2. LogInv /\ [Log!Next]_Log!vars => LogInv'
  <2> SUFFICES ASSUME LogInv, [Log!Next]_Log!vars PROVE LogInv'
    OBVIOUS
  <2> USE DEF LogTable, Reminded, Tallied
  <2>1. CASE UNCHANGED Log!vars
    BY <2>1 DEF Log!vars, LogInv
  <2>2. ASSUME NEW t \in Callers, Log!judge(t) PROVE LogInv'
    BY <2>2, LogJudges
  <2>3. ASSUME NEW t \in Callers, NEW r \in Records, Log!filter(t, r) PROVE LogInv'
    <3> DEFINE k == KeyOf[d_config.key_mode][r]
    <3>1. d_config.key_mode \in DOMAIN KeyOf /\ d_now \in Nat
      BY LogConfig DEF LogInv, Log!DuplicateFilterAssumption
    <3>2. k \in Log!Keys
      BY <3>1 DEF Log!Keys
    <3>3. /\ d_records < MaxRecords /\ d_records' = d_records + 1
          /\ d_at' = [d_at EXCEPT ![t] = [key |-> k, now |-> d_now]]
          /\ UNCHANGED d_config /\ UNCHANGED d_now /\ UNCHANGED d_counts /\ UNCHANGED d_burst
      BY <2>3 DEF Log!filter
    <3> HIDE DEF k
    <3>4. d_records' \in 0..MaxRecords
      BY <3>3 DEF LogInv, Log!DuplicateFilterAssumption
    <3>5. d_at = [u \in Callers |-> d_at[u]]
      BY DEF LogInv
    <3>6. /\ d_at' = [u \in Callers |-> d_at'[u]]
          /\ d_at'[t] = [key |-> k, now |-> d_now]
          /\ \A u \in Callers : u # t => d_at'[u] = d_at[u]
      BY <3>3, <3>5
    <3>7. \A u \in Callers : d_at'[u] # Null => d_at'[u].key \in Log!Keys /\ d_at'[u].now \in Nat
      BY <3>1, <3>2, <3>6 DEF LogInv
    <3> QED BY <3>3, <3>4, <3>6, <3>7 DEF LogInv
  <2>4. CASE Log!Tick
    <3>1. d_now' \in 0..LogTime
      BY <2>4 DEF Log!Tick, LogInv, Log!DuplicateFilterAssumption
    <3> QED BY <2>4, <3>1 DEF Log!Tick, LogInv
  <2> QED BY <2>1, <2>2, <2>3, <2>4 DEF Log!Next
<1>3. LogInv => FloodsAreReminded
  BY DEF LogInv, FloodsAreReminded, Log!FloodsAreReminded, Reminded
<1>4. LogInv => Log!TypeOK
  <2> SUFFICES ASSUME LogInv PROVE Log!TypeOK
    OBVIOUS
  <2>1. /\ d_counts \in Seq(LogEntry) /\ DOMAIN d_counts = 1..Len(d_counts)
        /\ d_config.allowed_repetitions \in Nat
    BY LogConfig DEF LogInv, LogTable
  <2>2. ASSUME NEW n \in DOMAIN d_counts
        PROVE  d_counts[n].count \in 1..(d_config.allowed_repetitions + 1)
    <3>1. d_counts[n] \in LogEntry /\ Tallied(d_counts[n], d_burst[d_counts[n].key])
      BY <2>1 DEF LogInv
    <3>2. d_counts[n].count \in Nat \ {0} /\ d_counts[n].count <= d_config.allowed_repetitions + 1
      BY <3>1 DEF LogEntry, Tallied
    <3> QED BY <2>1, <3>2
  <2> QED BY <2>1, <2>2 DEF LogInv, LogTable, Log!TypeOK
<1> QED BY <1>1, <1>2, <1>3, <1>4, PTL DEF Log!Spec

-----------------------------------------------------------------------------
\* Every component keeps the types and the bounds of its variables, whatever the number of
\* callers, workers, threads, providers and records, the sizes and the clocks: what a bucket,
\* a gate or a table holds stays within what it was given, and a request to a backend is one
\* that its caller waits for.
THEOREM PoliciesKeepTypes ==
  ASSUME PoliciesAssumption, Leased!TaskLockAssumption, Limiter!RateLimiterAssumption,
         Pool!BulkheadAssumption, Guard!ShieldAssumption, Checks!HealthAssumption,
         Log!DuplicateFilterAssumption
  PROVE  Spec /\ Leased!Spec /\ Limiter!Spec /\ Pool!Spec /\ Guard!Spec /\ Checks!Spec /\ Log!Spec
           => []PolicyTypes
<1>1. Spec => []TypeOK
  BY RetriesAreBounded, PTL
<1>2. Pool!Spec => []Pool!TypeOK
  BY NoPermitMoves, PTL
<1>3. Log!Spec => []Log!TypeOK
  BY FloodsAreNeverSilent, PTL
<1>4. TypeOK /\ Leased!TypeOK /\ Limiter!TypeOK /\ Pool!TypeOK /\ Guard!TypeOK /\ Checks!TypeOK
        /\ Log!TypeOK => PolicyTypes
  BY DEF PolicyTypes
<1> QED
  BY <1>1, <1>2, <1>3, <1>4, TaskLockKeepsTypes, LimiterKeepsTypes, ShieldKeepsTypes,
     ChecksKeepTypes, PTL

=============================================================================

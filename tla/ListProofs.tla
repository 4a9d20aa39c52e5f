------------------------------ MODULE ListProofs ------------------------------
(***************************************************************************)
(* What Filter leaves of a list.  The induction over the list's length is  *)
(* by the least element of a set, because a theorem that takes a predicate *)
(* cannot be instantiated by the provers.                                  *)
(***************************************************************************)
EXTENDS Lists, WellFoundedInduction, TLAPS

\* Every nonempty set of natural numbers has a least element.
LEMMA LeastElement ==
    ASSUME NEW T \in SUBSET Nat, T # {}
    PROVE  \E m \in T : \A n \in T : m <= n
<1> DEFINE R == OpToRel(<, Nat)
<1>1. IsWellFoundedOn(R, Nat)
    BY NatLessThanWellFounded
<1>2. \E m \in T : \A n \in T : <<n, m>> \notin R
  <2> HIDE DEF R
  <2>1. QED BY <1>1, WFMin
<1>3. PICK m \in T : \A n \in T : <<n, m>> \notin R
    BY <1>2
<1>4. \A n \in T : <<n, m>> \notin R => ~(n < m)
    BY DEF OpToRel
<1>5. \A n \in T : ~(n < m)
  <2> HIDE DEF R
  <2>1. QED BY <1>3, <1>4
<1>6. QED BY <1>5

\* Induction over the natural numbers, with a set in place of a predicate.
LEMMA InductionOverSet ==
    ASSUME NEW S \in SUBSET Nat, 0 \in S, \A n \in S : n + 1 \in S
    PROVE  S = Nat
<1>1. CASE Nat \ S = {}
    BY <1>1
<1>2. CASE Nat \ S # {}
  <2>1. PICK m \in Nat \ S : \A n \in Nat \ S : m <= n
      BY <1>2, LeastElement
  <2>2. m # 0 /\ m - 1 \in Nat
      BY <2>1
  <2>3. m - 1 \in S
      BY <2>1, <2>2
  <2>4. QED BY <2>1, <2>2, <2>3
<1>3. QED BY <1>1, <1>2

\* f lists, for each n up to m, what is left of the first n entries of s.
Filters(f, m, s, S, T) ==
    /\ f \in [0 .. m -> Seq(T)]
    /\ \A n \in 0 .. m :
          f[n] = IF n = 0 THEN <<>>
                 ELSE IF s[n] \in S THEN Append(f[n - 1], s[n]) ELSE f[n - 1]

LEMMA FiltersExists ==
    ASSUME NEW T, NEW s \in Seq(T), NEW S
    PROVE  \E f : Filters(f, Len(s), s, S, T)
<1> DEFINE N == {m \in Nat : m <= Len(s) => \E f : Filters(f, m, s, S, T)}
<1>1. 0 \in N
  <2>1. Filters([n \in 0 .. 0 |-> <<>>], 0, s, S, T)
      BY DEF Filters
  <2>2. QED BY <2>1
<1>2. ASSUME NEW m \in N PROVE m + 1 \in N
  <2> SUFFICES ASSUME m + 1 <= Len(s) PROVE \E g : Filters(g, m + 1, s, S, T)
      OBVIOUS
  <2>1. m \in Nat /\ m <= Len(s)
      OBVIOUS
  <2>2. PICK f : Filters(f, m, s, S, T)
      BY <2>1
  <2> DEFINE last == IF s[m + 1] \in S THEN Append(f[m], s[m + 1]) ELSE f[m]
             g == [n \in 0 .. m + 1 |-> IF n = m + 1 THEN last ELSE f[n]]
  <2>3. f[m] \in Seq(T) /\ s[m + 1] \in T
      BY <2>1, <2>2 DEF Filters
  <2>4. last \in Seq(T)
      BY <2>3
  <2>5. g \in [0 .. m + 1 -> Seq(T)]
    <3> HIDE DEF last
    <3>1. QED BY <2>1, <2>2, <2>4 DEF Filters
  <2>6. ASSUME NEW n \in 0 .. m + 1
        PROVE  g[n] = IF n = 0 THEN <<>>
                      ELSE IF s[n] \in S THEN Append(g[n - 1], s[n]) ELSE g[n - 1]
    <3>1. CASE n = m + 1
      <4>1. g[n] = last /\ n - 1 = m /\ g[n - 1] = f[m] /\ n # 0
          BY <3>1, <2>1
      <4>2. QED BY <4>1, <3>1
    <3>2. CASE n \in 0 .. m
      <4>1. g[n] = f[n] /\ (n # 0 => n - 1 \in 0 .. m /\ g[n - 1] = f[n - 1])
          BY <3>2, <2>1
      <4> HIDE DEF g, last
      <4>2. QED BY <4>1, <3>2, <2>2 DEF Filters
    <3>3. QED BY <3>1, <3>2, <2>1
  <2>7. QED
    <3> HIDE DEF g
    <3>1. QED BY <2>5, <2>6 DEF Filters
<1>3. N = Nat
  <2> HIDE DEF N
  <2>1. N \in SUBSET Nat
      BY DEF N
  <2>2. QED BY <2>1, <1>1, <1>2, InductionOverSet
<1>4. Len(s) \in N
  <2> HIDE DEF N
  <2>1. QED BY <1>3
<1>5. QED BY <1>4

\* Filter's function is such a list.
LEMMA FilterByStep ==
    ASSUME NEW T, NEW s \in Seq(T), NEW S
    PROVE  \E f : Filters(f, Len(s), s, S, T) /\ Filter(s, S) = f[Len(s)]
<1> DEFINE body(f) == [n \in 0 .. Len(s) |->
                          IF n = 0 THEN <<>>
                          ELSE IF s[n] \in S THEN Append(f[n - 1], s[n]) ELSE f[n - 1]]
           kept == CHOOSE f : f = body(f)
<1>1. Filter(s, S) = kept[Len(s)]
    BY DEF Filter
<1>2. PICK f : Filters(f, Len(s), s, S, T)
    BY FiltersExists
<1>3. f = body(f)
    BY <1>2 DEF Filters
<1>4. kept = body(kept)
    BY <1>3
<1> HIDE DEF kept
<1>5. \A n \in 0 .. Len(s) : kept[n] = f[n]
  <2> DEFINE N == {n \in Nat : n <= Len(s) => kept[n] = f[n]}
  <2>1. 0 \in N
      BY <1>3, <1>4
  <2>2. ASSUME NEW n \in N PROVE n + 1 \in N
    <3> SUFFICES ASSUME n + 1 <= Len(s) PROVE kept[n + 1] = f[n + 1]
        OBVIOUS
    <3>1. n \in Nat /\ kept[n] = f[n] /\ n + 1 # 0 /\ (n + 1) - 1 = n /\ n + 1 \in 0 .. Len(s)
        OBVIOUS
    <3>2. body(f)[n + 1] = body(kept)[n + 1]
        BY <3>1
    <3> HIDE DEF body
    <3>3. QED BY <3>2, <1>3, <1>4
  <2>3. N = Nat
    <3> HIDE DEF N
    <3>1. N \in SUBSET Nat
        BY DEF N
    <3>2. QED BY <3>1, <2>1, <2>2, InductionOverSet
  <2>4. QED BY <2>3
<1>6. Len(s) \in 0 .. Len(s)
    OBVIOUS
<1>7. QED BY <1>1, <1>2, <1>5, <1>6

\* at says where each entry of l comes from in the first m of s.
From(at, l, m, s, S) ==
    /\ at \in [1 .. Len(l) -> 1 .. m]
    /\ \A j \in 1 .. Len(l) : l[j] = s[at[j]] /\ l[j] \in S
    /\ \A j, k \in 1 .. Len(l) : j < k => at[j] < at[k]
    /\ \A i \in 1 .. m : s[i] \in S => \E j \in 1 .. Len(l) : at[j] = i

\* What Filter leaves are the entries in S, each once and in their order.
LEMMA FilterKeeps ==
    ASSUME NEW T, NEW s \in Seq(T), NEW S
    PROVE  /\ Filter(s, S) \in Seq(T)
           /\ \E at : From(at, Filter(s, S), Len(s), s, S)
<1>1. PICK f : Filters(f, Len(s), s, S, T) /\ Filter(s, S) = f[Len(s)]
    BY FilterByStep
<1> DEFINE N == {m \in Nat : m <= Len(s) => \E at : From(at, f[m], m, s, S)}
<1>2. 0 \in N
  <2>1. f[0] = <<>>
      BY <1>1 DEF Filters
  <2>2. From(<<>>, f[0], 0, s, S)
      BY <2>1 DEF From
  <2>3. QED BY <2>2
<1>3. ASSUME NEW m \in N PROVE m + 1 \in N
  <2> SUFFICES ASSUME m + 1 <= Len(s) PROVE \E at : From(at, f[m + 1], m + 1, s, S)
      OBVIOUS
  <2>1. m \in Nat /\ m <= Len(s) /\ m + 1 \in 0 .. Len(s) /\ m \in 0 .. Len(s)
      OBVIOUS
  <2>2. PICK at : From(at, f[m], m, s, S)
      BY <2>1
  <2>3. f[m] \in Seq(T) /\ f[m + 1] \in Seq(T) /\ s[m + 1] \in T
    <3>1. f \in [0 .. Len(s) -> Seq(T)]
        BY <1>1, Zenon DEF Filters
    <3>2. QED BY <2>1, <3>1
  <2>4. f[m + 1] = IF s[m + 1] \in S THEN Append(f[m], s[m + 1]) ELSE f[m]
    <3>1. m + 1 # 0 /\ (m + 1) - 1 = m
        BY <2>1
    <3>2. \A n \in 0 .. Len(s) :
             f[n] = IF n = 0 THEN <<>>
                    ELSE IF s[n] \in S THEN Append(f[n - 1], s[n]) ELSE f[n - 1]
        BY <1>1, Zenon DEF Filters
    <3>3. f[m + 1] = IF s[m + 1] \in S THEN Append(f[(m + 1) - 1], s[m + 1]) ELSE f[(m + 1) - 1]
        BY <2>1, <3>1, <3>2, Zenon
    <3>4. QED BY <3>1, <3>3, Zenon
  <2>5. CASE s[m + 1] \in S
    <3> DEFINE n == Len(f[m])
               to == [j \in 1 .. n + 1 |-> IF j = n + 1 THEN m + 1 ELSE at[j]]
    <3>1. f[m + 1] = Append(f[m], s[m + 1]) /\ n \in Nat
        BY <2>3, <2>4, <2>5
    <3>2. /\ Len(f[m + 1]) = n + 1 /\ f[m + 1][n + 1] = s[m + 1]
          /\ \A j \in 1 .. n : f[m + 1][j] = f[m][j]
        BY <2>3, <3>1
    <3>3. /\ at \in [1 .. n -> 1 .. m]
          /\ \A j \in 1 .. n : f[m][j] = s[at[j]] /\ f[m][j] \in S
          /\ \A j, k \in 1 .. n : j < k => at[j] < at[k]
          /\ \A i \in 1 .. m : s[i] \in S => \E j \in 1 .. n : at[j] = i
        BY <2>2 DEF From
    <3> HIDE DEF n
    <3>4. to \in [1 .. n + 1 -> 1 .. m + 1]
        BY <3>1, <3>3, <2>1
    <3>5. \A j \in 1 .. n + 1 : f[m + 1][j] = s[to[j]] /\ f[m + 1][j] \in S
        BY <3>1, <3>2, <3>3, <2>5
    <3>6. \A j, k \in 1 .. n + 1 : j < k => to[j] < to[k]
      <4>1. TAKE j, k \in 1 .. n + 1
      <4>2. CASE k = n + 1
          BY <4>2, <3>1, <3>3, <2>1
      <4>3. CASE k \in 1 .. n
          BY <4>3, <3>1, <3>3, <2>1
      <4>4. QED BY <4>2, <4>3, <3>1
    <3>7. \A i \in 1 .. m + 1 : s[i] \in S => \E j \in 1 .. n + 1 : to[j] = i
      <4>1. SUFFICES ASSUME NEW i \in 1 .. m + 1, s[i] \in S PROVE \E j \in 1 .. n + 1 : to[j] = i
          OBVIOUS
      <4>2. CASE i = m + 1
          BY <4>2, <3>1
      <4>3. CASE i \in 1 .. m
        <5>1. PICK j \in 1 .. n : at[j] = i
            BY <4>1, <4>3, <3>3
        <5>2. j \in 1 .. n + 1 /\ to[j] = i
            BY <5>1, <3>1
        <5>3. QED BY <5>2
      <4>4. QED BY <4>2, <4>3, <2>1
    <3> HIDE DEF to
    <3>8. From(to, f[m + 1], m + 1, s, S)
      <4>1. Len(f[m + 1]) = n + 1
          BY <3>2
      <4>2. QED BY <4>1, <3>4, <3>5, <3>6, <3>7, Zenon DEF From
    <3>9. QED BY <3>8
  <2>6. CASE s[m + 1] \notin S
    <3>1. f[m + 1] = f[m]
        BY <2>4, <2>6
    <3>2. at \in [1 .. Len(f[m]) -> 1 .. m + 1]
        BY <2>2, <2>1, <2>3 DEF From
    <3>3. From(at, f[m], m + 1, s, S)
        BY <2>2, <2>1, <2>6, <3>2 DEF From
    <3>4. QED BY <3>1, <3>3
  <2>7. QED BY <2>5, <2>6
<1>4. N = Nat
  <2> HIDE DEF N
  <2>1. N \in SUBSET Nat
      BY DEF N
  <2>2. QED BY <2>1, <1>2, <1>3, InductionOverSet
<1>5. Len(s) \in Nat /\ Len(s) \in 0 .. Len(s)
    OBVIOUS
<1>6. f[Len(s)] \in Seq(T)
    BY <1>1, <1>5 DEF Filters
<1>7. QED BY <1>1, <1>4, <1>5, <1>6

\* An entry is left if it was in the list and is in S.
LEMMA FilterEntries ==
    ASSUME NEW T, NEW s \in Seq(T), NEW S, NEW x
    PROVE  (\E j \in 1 .. Len(Filter(s, S)) : Filter(s, S)[j] = x)
              <=> x \in S /\ \E i \in 1 .. Len(s) : s[i] = x
<1>1. PICK at : From(at, Filter(s, S), Len(s), s, S)
    BY FilterKeeps
<1> DEFINE l == Filter(s, S)
<1>2. /\ at \in [1 .. Len(l) -> 1 .. Len(s)]
      /\ \A j \in 1 .. Len(l) : l[j] = s[at[j]] /\ l[j] \in S
      /\ \A i \in 1 .. Len(s) : s[i] \in S => \E j \in 1 .. Len(l) : at[j] = i
    BY <1>1 DEF From
<1> HIDE DEF l
<1>3. ASSUME NEW j \in 1 .. Len(l), l[j] = x PROVE x \in S /\ \E i \in 1 .. Len(s) : s[i] = x
  <2>1. at[j] \in 1 .. Len(s) /\ s[at[j]] = x
      BY <1>2, <1>3
  <2>2. QED BY <1>2, <1>3, <2>1
<1>4. ASSUME NEW i \in 1 .. Len(s), s[i] = x, x \in S PROVE \E j \in 1 .. Len(l) : l[j] = x
  <2>1. PICK j \in 1 .. Len(l) : at[j] = i
      BY <1>2, <1>4
  <2>2. l[j] = x
      BY <1>2, <1>4, <2>1
  <2>3. QED BY <2>2
<1>5. QED BY <1>3, <1>4 DEF l
=============================================================================

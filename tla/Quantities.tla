----------------------------- MODULE Quantities -----------------------------
(***************************************************************************)
(* Sums of stock quantities.  A quantity is a natural number of the        *)
(* smallest unit a material is counted in: Numeric(18, 6) columns hold     *)
(* multiples of 10^-6.  Most handlers add them as Decimal; documents of    *)
(* warehouse/service.py add floats, which is exact as well while a balance *)
(* stays below 9 * 10^9 (2^53 units).                                      *)
(*                                                                         *)
(* The sum of f over a finite set S is the number of units in the disjoint *)
(* union of 1..f[x] for x in S.  It is stated this way, and not as a fold, *)
(* because the cardinality of a finite set is what the library's theorems  *)
(* speak of.                                                               *)
(***************************************************************************)
EXTENDS Integers, FiniteSets, FunctionTheorems, FiniteSetTheorems, TLAPS

Units(f, S) == UNION {{x} \X (1 .. f[x]) : x \in S}

\* SELECT sum(f) FROM S
Total(f, S) == Cardinality(Units(f, S))

AtMost(a, b) == IF a <= b THEN a ELSE b

AtLeast(a, b) == IF a >= b THEN a ELSE b

(***************************************************************************)
(* `after' is what is left of `before' when quantity q is taken from the   *)
(* rows in S in the order of their numbers, as far as they go:             *)
(*     for row in rows: take = min(pending, left(row)); ...                *)
(***************************************************************************)
TakenInOrder(before, after, S, q) ==
    /\ \A x \in S : after[x] <= before[x]
    /\ Total(after, S) = AtLeast(0, Total(before, S) - q)
    /\ \A x, y \in S : x < y /\ after[y] < before[y] => after[x] = 0

------------------------------------------------------------------------------
(* What a sum does when rows change.  *)

\* The units of one row are as many as its quantity.
LEMMA UnitsOfOne ==
    ASSUME NEW n \in Nat, NEW x
    PROVE  /\ IsFiniteSet({x} \X (1 .. n))
           /\ Cardinality({x} \X (1 .. n)) = n
  <1>1. IsFiniteSet({x}) /\ Cardinality({x}) = 1
    BY FS_Singleton
  <1>2. IsFiniteSet(1 .. n) /\ Cardinality(1 .. n) = n
    BY FS_Interval
  <1>3. /\ IsFiniteSet({x} \X (1 .. n))
        /\ Cardinality({x} \X (1 .. n)) = Cardinality({x}) * Cardinality(1 .. n)
    BY <1>1, <1>2, FS_Product
  <1>4. Cardinality({x}) * Cardinality(1 .. n) = n
    BY <1>1, <1>2
  <1> QED
    BY <1>3, <1>4

LEMMA UnitsFinite ==
    ASSUME NEW S, IsFiniteSet(S), NEW f, \A x \in S : f[x] \in Nat
    PROVE  IsFiniteSet(Units(f, S))
  <1> DEFINE rows == {{x} \X (1 .. f[x]) : x \in S}
             g == [x \in S |-> {x} \X (1 .. f[x])]
  <1>1. g \in Surjection(S, rows)
    BY DEF Surjection
  <1>2. IsFiniteSet(rows)
    <2> HIDE DEF rows, g
    <2> QED BY <1>1, FS_Surjection
  <1>3. ASSUME NEW T \in rows PROVE IsFiniteSet(T)
    <2>1. PICK x \in S : T = {x} \X (1 .. f[x])
      OBVIOUS
    <2> QED
      BY <2>1, UnitsOfOne
  <1> QED
    <2> HIDE DEF rows
    <2>1. IsFiniteSet(UNION rows)
      BY <1>2, <1>3, FS_UNION
    <2> QED
      BY <2>1 DEF rows, Units

\* A sum of quantities is a quantity.
LEMMA TotalType ==
    ASSUME NEW S, IsFiniteSet(S), NEW f, \A x \in S : f[x] \in Nat
    PROVE  Total(f, S) \in Nat
  BY UnitsFinite, FS_CardinalityType DEF Total

\* Rows that no quantity differs in have one sum.
LEMMA TotalSame ==
    ASSUME NEW S, NEW f, NEW g, \A x \in S : f[x] = g[x]
    PROVE  Total(f, S) = Total(g, S)
  <1>1. {{x} \X (1 .. f[x]) : x \in S} = {{x} \X (1 .. g[x]) : x \in S}
    OBVIOUS
  <1> QED
    BY <1>1 DEF Total, Units

\* Empty rows sum to nothing.
LEMMA TotalZero ==
    ASSUME NEW S, NEW f, \A x \in S : f[x] = 0
    PROVE  Total(f, S) = 0
  <1>1. \A x \in S : {x} \X (1 .. f[x]) = {}
    OBVIOUS
  <1>2. Units(f, S) = {}
    BY <1>1 DEF Units
  <1> QED
    BY <1>2, FS_EmptySet DEF Total

\* The sum over two disjoint sets of rows is the sum of the two sums.
LEMMA TotalUnion ==
    ASSUME NEW S, IsFiniteSet(S), NEW T, IsFiniteSet(T), S \cap T = {},
           NEW f, \A x \in S \cup T : f[x] \in Nat
    PROVE  Total(f, S \cup T) = Total(f, S) + Total(f, T)
  <1>1. Units(f, S \cup T) = Units(f, S) \cup Units(f, T)
    BY DEF Units
  <1>2. Units(f, S) \cap Units(f, T) = {}
    BY DEF Units
  <1>3. IsFiniteSet(Units(f, S)) /\ IsFiniteSet(Units(f, T))
    BY UnitsFinite
  <1> DEFINE A == Units(f, S)
             B == Units(f, T)
  <1>4. Cardinality(A \cup B) = Cardinality(A) + Cardinality(B) - Cardinality(A \cap B)
    <2> HIDE DEF A, B
    <2> QED BY <1>3, FS_Union DEF A, B
  <1>5. Cardinality(A) \in Nat /\ Cardinality(B) \in Nat
    BY <1>3, FS_CardinalityType
  <1>6. Cardinality(A \cap B) = 0
    BY <1>2, FS_EmptySet
  <1>7. Cardinality(A \cup B) = Cardinality(A) + Cardinality(B)
    <2> HIDE DEF A, B
    <2> QED BY <1>4, <1>5, <1>6
  <1> QED
    BY <1>1, <1>7 DEF Total

LEMMA TotalOne ==
    ASSUME NEW f, NEW x, f[x] \in Nat
    PROVE  Total(f, {x}) = f[x]
  <1>1. Units(f, {x}) = {x} \X (1 .. f[x])
    BY DEF Units
  <1> QED
    BY <1>1, UnitsOfOne DEF Total

\* A row at a time: the sum is that row and the sum of the others.
LEMMA TotalSplit ==
    ASSUME NEW S, IsFiniteSet(S), NEW f, \A y \in S : f[y] \in Nat, NEW x \in S
    PROVE  /\ Total(f, S) = Total(f, S \ {x}) + f[x]
           /\ Total(f, S \ {x}) \in Nat
  <1>1. IsFiniteSet(S \ {x}) /\ IsFiniteSet({x})
    BY FS_RemoveElement, FS_Singleton
  <1>2. S = (S \ {x}) \cup {x} /\ (S \ {x}) \cap {x} = {}
    OBVIOUS
  <1>3. Total(f, S) = Total(f, S \ {x}) + Total(f, {x})
    BY <1>1, <1>2, TotalUnion
  <1>4. Total(f, {x}) = f[x]
    BY TotalOne
  <1> QED
    BY <1>1, <1>3, <1>4, TotalType

\* UPDATE of one row: the sum moves by what the row moves.
LEMMA TotalUpdate ==
    ASSUME NEW S, IsFiniteSet(S), NEW x \in S,
           NEW f, \A y \in S : f[y] \in Nat,
           NEW g, \A y \in S : g[y] \in Nat,
           \A y \in S \ {x} : g[y] = f[y]
    PROVE  Total(g, S) = Total(f, S) - f[x] + g[x]
  <1>1. Total(g, S \ {x}) = Total(f, S \ {x})
    BY TotalSame
  <1>2. Total(f, S) = Total(f, S \ {x}) + f[x] /\ Total(f, S \ {x}) \in Nat
    BY TotalSplit
  <1>3. Total(g, S) = Total(g, S \ {x}) + g[x]
    BY TotalSplit
  <1> QED
    BY <1>1, <1>2, <1>3

\* Only one row counts.
LEMMA TotalPoint ==
    ASSUME NEW S, IsFiniteSet(S), NEW x \in S, NEW f, f[x] \in Nat,
           \A y \in S \ {x} : f[y] = 0
    PROVE  Total(f, S) = f[x]
  <1>1. \A y \in S : f[y] \in Nat
    OBVIOUS
  <1>2. Total(f, S) = Total(f, S \ {x}) + f[x]
    BY <1>1, TotalSplit
  <1>3. Total(f, S \ {x}) = 0
    BY TotalZero
  <1> QED
    BY <1>2, <1>3

\* Rows outside T are empty: the sum is the sum over T.
LEMMA TotalOnPart ==
    ASSUME NEW S, IsFiniteSet(S), NEW T \in SUBSET S, NEW f, NEW g,
           \A x \in S : f[x] \in Nat,
           \A x \in T : g[x] = f[x], \A x \in S \ T : f[x] = 0
    PROVE  Total(f, S) = Total(g, T)
  <1> DEFINE R == S \ T
  <1>1. S = T \cup R /\ T \cap R = {} /\ \A x \in T \cup R : f[x] \in Nat
    OBVIOUS
  <1>2. IsFiniteSet(T) /\ IsFiniteSet(R)
    BY FS_Subset
  <1>3. \A x \in R : f[x] = 0
    OBVIOUS
  <1> HIDE DEF R
  <1>4. Total(f, T \cup R) = Total(f, T) + Total(f, R)
    BY <1>1, <1>2, TotalUnion
  <1>5. Total(f, R) = 0 /\ Total(f, T) = Total(g, T)
    BY <1>3, TotalZero, TotalSame
  <1>6. Total(f, T) \in Nat
    BY <1>1, <1>2, TotalType
  <1> QED
    BY <1>1, <1>4, <1>5, <1>6

\* Rows that only shrink shrink the sum.
LEMMA TotalMonotonic ==
    ASSUME NEW S, IsFiniteSet(S),
           NEW f, \A y \in S : f[y] \in Nat,
           NEW g, \A y \in S : g[y] \in Nat /\ g[y] <= f[y]
    PROVE  Total(g, S) <= Total(f, S)
  <1>1. \A x \in S : (1 .. g[x]) \subseteq (1 .. f[x])
    OBVIOUS
  <1>2. Units(g, S) \subseteq Units(f, S)
    BY <1>1 DEF Units
  <1>3. IsFiniteSet(Units(f, S))
    BY UnitsFinite
  <1> QED
    BY <1>2, <1>3, FS_Subset DEF Total

\* The sum over some of the rows is at most the sum over all.
LEMMA TotalSubset ==
    ASSUME NEW S, IsFiniteSet(S), NEW T \in SUBSET S, NEW f, \A y \in S : f[y] \in Nat
    PROVE  Total(f, T) <= Total(f, S)
  <1>1. Units(f, T) \subseteq Units(f, S)
    BY DEF Units
  <1>2. IsFiniteSet(Units(f, S))
    BY UnitsFinite
  <1> QED
    BY <1>1, <1>2, FS_Subset DEF Total
\* The sum of two columns is the sum of their sums.
LEMMA TotalAdd ==
    ASSUME NEW S, IsFiniteSet(S),
           NEW f, \A x \in S : f[x] \in Nat,
           NEW g, \A x \in S : g[x] \in Nat,
           NEW h, \A x \in S : h[x] = f[x] + g[x]
    PROVE  Total(h, S) = Total(f, S) + Total(g, S)
  <1> DEFINE A == Units(f, S)
             B == Units(g, S)
             C == UNION {{x} \X ((f[x] + 1) .. h[x]) : x \in S}
             F == [u \in B |-> <<u[1], f[u[1]] + u[2]>>]
  <1>1. Units(h, S) = A \cup C /\ A \cap C = {}
    <2>1. \A x \in S : /\ 1 .. h[x] = (1 .. f[x]) \cup ((f[x] + 1) .. h[x])
                       /\ (1 .. f[x]) \cap ((f[x] + 1) .. h[x]) = {}
      OBVIOUS
    <2>2. \A u : u \in Units(h, S) <=> \E x \in S : \E i \in 1 .. h[x] : u = <<x, i>>
      BY DEF Units
    <2>3. \A u : u \in A <=> \E x \in S : \E i \in 1 .. f[x] : u = <<x, i>>
      BY DEF Units
    <2>4. \A u : u \in C <=> \E x \in S : \E i \in (f[x] + 1) .. h[x] : u = <<x, i>>
      OBVIOUS
    <2> HIDE DEF A, C
    <2>5. \A u : u \in Units(h, S) <=> u \in A \/ u \in C
      BY <2>1, <2>2, <2>3, <2>4
    <2>6. \A u : ~(u \in A /\ u \in C)
      BY <2>1, <2>3, <2>4
    <2> QED
      BY <2>5, <2>6
  <1>2. IsFiniteSet(A) /\ IsFiniteSet(B)
    BY UnitsFinite
  <1>3. F \in Bijection(B, C)
    <2>1. \A u : u \in B <=> \E x \in S : \E i \in 1 .. g[x] : u = <<x, i>>
      BY DEF Units
    <2>2. \A u : u \in C <=> \E x \in S : \E i \in (f[x] + 1) .. h[x] : u = <<x, i>>
      OBVIOUS
    <2>3. \A x \in S : \A i \in Int : f[x] + i \in (f[x] + 1) .. h[x] <=> i \in 1 .. g[x]
      OBVIOUS
    <2> HIDE DEF B, C
    <2>4. \A x \in S : \A i \in 1 .. g[x] : <<x, i>> \in B /\ F[<<x, i>>] = <<x, f[x] + i>>
      BY <2>1
    <2> HIDE DEF F
    <2>5. \A u \in B : F[u] \in C
      BY <2>1, <2>2, <2>3, <2>4
    <2>6. F \in [B -> C]
      BY <2>5 DEF F
    <2>7. \A u, v \in B : F[u] = F[v] => u = v
      <3> SUFFICES ASSUME NEW u \in B, NEW v \in B, F[u] = F[v] PROVE u = v
        OBVIOUS
      <3>a. PICK x \in S : \E i \in 1 .. g[x] : u = <<x, i>>
        BY <2>1
      <3>1. PICK i \in 1 .. g[x] : u = <<x, i>>
        BY <3>a
      <3>b. PICK y \in S : \E j \in 1 .. g[y] : v = <<y, j>>
        BY <2>1
      <3>2. PICK j \in 1 .. g[y] : v = <<y, j>>
        BY <3>b
      <3>3. <<x, f[x] + i>> = <<y, f[y] + j>>
        BY <2>4, <3>1, <3>2
      <3> QED
        BY <3>1, <3>2, <3>3
    <2>8. \A c \in C : \E u \in B : F[u] = c
      <3> SUFFICES ASSUME NEW c \in C PROVE \E u \in B : F[u] = c
        OBVIOUS
      <3>a. PICK x \in S : \E i \in (f[x] + 1) .. h[x] : c = <<x, i>>
        BY <2>2
      <3>1. PICK i \in (f[x] + 1) .. h[x] : c = <<x, i>>
        BY <3>a
      <3>2. i - f[x] \in 1 .. g[x] /\ f[x] + (i - f[x]) = i
        OBVIOUS
      <3> QED
        BY <2>4, <3>1, <3>2
    <2> QED
      BY <2>6, <2>7, <2>8, Fun_IsBij
  <1>4. IsFiniteSet(C) /\ Cardinality(C) = Cardinality(B)
    <2>1. ExistsBijection(B, C)
      BY <1>3 DEF ExistsBijection
    <2> HIDE DEF B, C
    <2> QED BY <1>2, <2>1, FS_Bijection
  <1>5. Cardinality(A \cup C) = Cardinality(A) + Cardinality(C)
    <2> HIDE DEF A, C
    <2>1. Cardinality(A \cap C) = 0
      BY <1>1, FS_EmptySet
    <2>2. Cardinality(A) \in Nat /\ Cardinality(C) \in Nat
      BY <1>2, <1>4, FS_CardinalityType
    <2>3. Cardinality(A \cup C) = Cardinality(A) + Cardinality(C) - Cardinality(A \cap C)
      BY <1>2, <1>4, FS_Union
    <2> QED
      BY <2>1, <2>2, <2>3
  <1> QED
    BY <1>1, <1>4, <1>5 DEF Total

\* g[t] is the sum over the rows that belong to t.
GroupedBy(g, T, owner, f, S) ==
    /\ \A x \in S : owner[x] \in T
    /\ \A t \in T : g[t] = Total(f, {x \in S : owner[x] = t})

\* The rows sorted by what they belong to: the sum is the sum of the groups' sums.
LEMMA TotalGrouped ==
    ASSUME NEW S, IsFiniteSet(S), NEW T, IsFiniteSet(T),
           NEW f, \A x \in S : f[x] \in Nat,
           NEW owner, NEW g, GroupedBy(g, T, owner, f, S)
    PROVE  Total(g, T) = Total(f, S)
  <1> USE DEF GroupedBy
  <1> DEFINE Of(t) == Units(f, {x \in S : owner[x] = t})
             A == Units(g, T)
             B == Units(f, S)
             b == [t \in T |-> CHOOSE c : c \in Bijection(1 .. g[t], Of(t))]
             F == [u \in A |-> b[u[1]][u[2]]]
  <1>1. \A t \in T : IsFiniteSet(Of(t)) /\ g[t] = Cardinality(Of(t)) /\ g[t] \in Nat
    <2> SUFFICES ASSUME NEW t \in T
                 PROVE IsFiniteSet(Of(t)) /\ g[t] = Cardinality(Of(t)) /\ g[t] \in Nat
      OBVIOUS
    <2> DEFINE R == {x \in S : owner[x] = t}
    <2>1. IsFiniteSet(R)
      <3>1. R \in SUBSET S
        OBVIOUS
      <3> HIDE DEF R
      <3> QED BY <3>1, FS_Subset
    <2>2. \A x \in R : f[x] \in Nat
      OBVIOUS
    <2> HIDE DEF R
    <2>3. IsFiniteSet(Units(f, R)) /\ Cardinality(Units(f, R)) \in Nat
      BY <2>1, <2>2, UnitsFinite, FS_CardinalityType
    <2> QED
      BY <2>3 DEF R, Total
  <1>2. \A t \in T : b[t] \in Bijection(1 .. g[t], Of(t))
    <2> SUFFICES ASSUME NEW t \in T PROVE b[t] \in Bijection(1 .. g[t], Of(t))
      OBVIOUS
    <2>1. ExistsBijection(1 .. g[t], Of(t))
      <3> DEFINE O == Of(t)
      <3>1. IsFiniteSet(O) /\ g[t] = Cardinality(O)
        BY <1>1
      <3> HIDE DEF O
      <3>2. ExistsBijection(1 .. g[t], O)
        BY <3>1, FS_CardinalityType
      <3> QED BY <3>2 DEF O
    <2>2. \E c : c \in Bijection(1 .. g[t], Of(t))
      BY <2>1 DEF ExistsBijection
    <2> HIDE DEF Of
    <2> QED
      BY <2>2
  <1>3. \A t \in T : /\ \A i \in 1 .. g[t] : b[t][i] \in Of(t)
                     /\ \A i, j \in 1 .. g[t] : b[t][i] = b[t][j] => i = j
                     /\ \A c \in Of(t) : \E i \in 1 .. g[t] : b[t][i] = c
    <2> HIDE DEF Of, b
    <2> QED
      BY <1>2 DEF Bijection, Injection, Surjection, IsInjective
  <1>4. /\ \A u : u \in A <=> \E t \in T : \E i \in 1 .. g[t] : u = <<t, i>>
        /\ \A c : c \in B <=> \E x \in S : \E i \in 1 .. f[x] : c = <<x, i>>
        /\ \A t, c : c \in Of(t) <=> \E x \in S : \E i \in 1 .. f[x] : owner[x] = t /\ c = <<x, i>>
    BY DEF Units
  <1>5. \A c \in B : owner[c[1]] \in T /\ c \in Of(owner[c[1]])
    <2> HIDE DEF Of, b, A, B, F
    <2> QED BY <1>4
  <1>6. \A t \in T : \A c \in Of(t) : c \in B /\ owner[c[1]] = t
    <2> HIDE DEF Of, b, A, B, F
    <2> QED BY <1>4
  <1>7. \A t \in T : \A i \in 1 .. g[t] : <<t, i>> \in A /\ F[<<t, i>>] = b[t][i]
    <2>1. \A t \in T : \A i \in 1 .. g[t] : <<t, i>> \in A
      <3> HIDE DEF Of, b, A, B, F
      <3> QED BY <1>4
    <2> HIDE DEF Of, b, A, B
    <2> QED BY <2>1
  <1> HIDE DEF Of, b, A, B
  <1>8. F \in Bijection(A, B)
    <2>1. \A u \in A : F[u] \in B
      <3> HIDE DEF F
      <3> QED BY <1>3, <1>4, <1>6, <1>7
    <2>2. F \in [A -> B]
      BY <2>1
    <2> HIDE DEF F
    <2>3. \A u, v \in A : F[u] = F[v] => u = v
      <3> SUFFICES ASSUME NEW u \in A, NEW v \in A, F[u] = F[v] PROVE u = v
        OBVIOUS
      <3>a. PICK t \in T : \E i \in 1 .. g[t] : u = <<t, i>>
        BY <1>4
      <3>1. PICK i \in 1 .. g[t] : u = <<t, i>>
        BY <3>a
      <3>b. PICK s \in T : \E j \in 1 .. g[s] : v = <<s, j>>
        BY <1>4
      <3>2. PICK j \in 1 .. g[s] : v = <<s, j>>
        BY <3>b
      <3>3. F[u] = b[t][i] /\ F[v] = b[s][j]
        BY <1>7, <3>1, <3>2
      <3>4. t = s
        <4>1. b[t][i] \in Of(t) /\ b[s][j] \in Of(s) /\ b[t][i] = b[s][j]
          BY <1>3, <3>3
        <4>2. owner[b[t][i][1]] = t
          BY <1>6, <4>1
        <4>3. owner[b[s][j][1]] = s
          BY <1>6, <4>1
        <4> QED
          BY <4>1, <4>2, <4>3
      <3> QED
        BY <1>3, <3>1, <3>2, <3>3, <3>4
    <2>4. \A c \in B : \E u \in A : F[u] = c
      <3> SUFFICES ASSUME NEW c \in B PROVE \E u \in A : F[u] = c
        OBVIOUS
      <3>1. owner[c[1]] \in T /\ c \in Of(owner[c[1]])
        BY <1>5
      <3>2. PICK t \in T : c \in Of(t)
        BY <3>1
      <3>3. PICK i \in 1 .. g[t] : b[t][i] = c
        BY <1>3, <3>2
      <3> QED
        BY <1>7, <3>3
    <2> QED
      BY <2>2, <2>3, <2>4, Fun_IsBij
  <1>9. IsFiniteSet(B)
    BY UnitsFinite DEF B
  <1>10. ExistsBijection(B, A)
    <2>1. ExistsBijection(A, B)
      BY <1>8 DEF ExistsBijection
    <2> QED
      BY <2>1, Fun_ExistsBijSymmetric
  <1>11. Cardinality(A) = Cardinality(B)
    BY <1>9, <1>10, FS_Bijection
  <1> QED
    BY <1>11 DEF Total, A, B
=============================================================================

---------------------------- MODULE RequestsProofs --------------------------
(***************************************************************************)
(* Theorems about requests that are served at the same time: the locks of  *)
(* any number of handlers over a warehouse of any size, the decisions of a *)
(* chat, and the calls of remote tools.                                    *)
(***************************************************************************)
EXTENDS MCRequests, FiniteSetTheorems, FunctionTheorems, SequenceTheorems, TLAPS

------------------------------------------------------------------------------
(* Sequences                                                                *)

\* A set of naturals that is not empty has a least element.
LEMMA Least ==
    ASSUME NEW T, T \subseteq Nat, T # {}
    PROVE  \E x \in T : \A y \in T : x <= y
  <1>1. PICK t \in T : TRUE
    OBVIOUS
  <1> DEFINE B == {j \in 0..t : \A i \in 0..j : i \notin T}
             b == Cardinality(B)
  <1>2. t \in Nat /\ t \notin B /\ B \subseteq 0..t
    BY <1>1
  <1>3. \A c \in B : 0..c \subseteq B /\ c \in Nat
    BY <1>2
  <1>4. \A j \in 0..t : j \in B <=> \A i \in 0..j : i \notin T
    OBVIOUS
  <1> HIDE DEF B
  <1>5. IsFiniteSet(B) /\ b \in Nat
    <2>1. IsFiniteSet(0..t) /\ B \in SUBSET (0..t)
      BY <1>2, FS_Interval
    <2> QED  BY <2>1, FS_Subset, FS_CardinalityType
  <1>6. ASSUME NEW c \in B PROVE c < b
    <2>1. Cardinality(0..c) = c + 1
      BY <1>3, FS_Interval
    <2>2. Cardinality(0..c) <= b
      BY <1>3, <1>5, FS_Subset
    <2> QED  BY <1>3, <1>5, <2>1, <2>2
  <1>7. B = 0..(b - 1)
    <2>1. B \subseteq 0..(b - 1)
      BY <1>3, <1>5, <1>6
    <2>2. IsFiniteSet(0..(b - 1)) /\ Cardinality(0..(b - 1)) = b
      <3>1. b - 1 \in Int /\ (IF 0 > b - 1 THEN 0 ELSE (b - 1) - 0 + 1) = b
        BY <1>5
      <3> HIDE DEF b
      <3> QED  BY <3>1, FS_Interval
    <2>3. B \in SUBSET (0..(b - 1)) /\ Cardinality(0..(b - 1)) = Cardinality(B)
      BY <2>1, <2>2
    <2> QED  BY <2>2, <2>3, FS_Subset
  <1>8. \A j \in Nat : j < b => j \notin T
    <2> SUFFICES ASSUME NEW j \in Nat, j < b PROVE j \notin T
      OBVIOUS
    <2>1. j \in B /\ j \in 0..t /\ j \in 0..j
      BY <1>2, <1>5, <1>7
    <2> QED  BY <2>1, <1>4
  <1>9. b \in T
    <2>1. b \in 0..t
      BY <1>2, <1>5, <1>7
    <2>2. b \notin B
      BY <1>5, <1>7
    <2>3. PICK i \in 0..b : i \in T
      BY <1>4, <2>1, <2>2
    <2> QED  BY <1>5, <1>8, <2>3
  <1> QED  BY <1>5, <1>8, <1>9

\* What is so of 1 and of the successor of whatever it is so of, is so of all up to n.
LEMMA UpTo ==
    ASSUME NEW n \in Nat, NEW S, 1 \in S, \A i \in 1..(n - 1) : i \in S => i + 1 \in S
    PROVE  1..n \subseteq S
  <1> SUFFICES ASSUME NEW k \in 1..n, k \notin S PROVE FALSE
    OBVIOUS
  <1> DEFINE T == {j \in 1..n : j \notin S}
  <1>1. T \subseteq Nat /\ T # {}
    OBVIOUS
  <1>2. \A j \in 1..n : j \in T <=> j \notin S
    OBVIOUS
  <1>3. T \subseteq 1..n
    OBVIOUS
  <1> HIDE DEF T
  <1>4. PICK x \in T : \A y \in T : x <= y
    BY <1>1, Least
  <1>5. x \in 1..n /\ x # 1 /\ x \notin S
    BY <1>2, <1>3, <1>4
  <1>6. x - 1 \in 1..(n - 1) /\ x - 1 \in 1..n
    BY <1>5
  <1>7. x - 1 \notin T
    BY <1>4, <1>5
  <1>8. x - 1 \in S
    BY <1>2, <1>6, <1>7
  <1>9. (x - 1) + 1 = x
    BY <1>5
  <1>10. (x - 1) + 1 \in S
    BY <1>6, <1>8
  <1> QED  BY <1>5, <1>9, <1>10

\* The sequences joined one after the other.
Joins(seqs, k, f) == f = [i \in 1..k |-> IF i = 1 THEN seqs[i] ELSE f[i - 1] \o seqs[i]]

LEMMA JoinsExist ==
    ASSUME NEW seqs, NEW n \in Nat \ {0}
    PROVE  \E f : Joins(seqs, n, f)
  <1> DEFINE S == {k \in 1..n : \E f : Joins(seqs, k, f)}
  <1>1. 1 \in S
    <2>1. Joins(seqs, 1, [i \in 1..1 |-> seqs[i]])
      BY DEF Joins
    <2> QED  BY <2>1
  <1>2. ASSUME NEW k \in 1..(n - 1), k \in S PROVE k + 1 \in S
    <2>1. PICK f : Joins(seqs, k, f)
      BY <1>2
    <2> DEFINE g == [i \in 1..(k + 1) |-> IF i = k + 1 THEN f[k] \o seqs[i] ELSE f[i]]
    <2>2. \A i \in 1..k : f[i] = IF i = 1 THEN seqs[i] ELSE f[i - 1] \o seqs[i]
      BY <2>1 DEF Joins
    <2>3. \A i \in 1..k : g[i] = f[i]
      OBVIOUS
    <2>4. g[k + 1] = f[k] \o seqs[k + 1]
      <3>1. k + 1 \in 1..(k + 1)
        OBVIOUS
      <3> QED  BY <3>1
    <2>5. g = [i \in 1..(k + 1) |-> g[i]]
      OBVIOUS
    <2> HIDE DEF g
    <2>6. ASSUME NEW i \in 1..(k + 1) PROVE g[i] = IF i = 1 THEN seqs[i] ELSE g[i - 1] \o seqs[i]
      <3>1. CASE i = k + 1
        <4>1. i # 1 /\ i - 1 = k /\ k \in 1..k
          BY <3>1
        <4> QED  BY <2>3, <2>4, <3>1, <4>1
      <3>2. CASE i \in 1..k
        <4>1. i # 1 => i - 1 \in 1..k
          BY <3>2
        <4> QED  BY <2>2, <2>3, <3>2, <4>1
      <3> QED  BY <3>1, <3>2
    <2>7. g = [i \in 1..(k + 1) |-> IF i = 1 THEN seqs[i] ELSE g[i - 1] \o seqs[i]]
      BY <2>5, <2>6
    <2>8. k + 1 \in 1..n
      OBVIOUS
    <2> QED  BY <2>7, <2>8 DEF Joins
  <1>3. n \in 1..n
    OBVIOUS
  <1> QED  BY <1>1, <1>2, <1>3, UpTo

LEMMA FlattenUnfolds ==
    ASSUME NEW seqs, Len(seqs) \in Nat \ {0}
    PROVE  \E f : Joins(seqs, Len(seqs), f) /\ FlattenSeq(seqs) = f[Len(seqs)]
  <1> DEFINE f == CHOOSE flat : flat = [i \in 1..Len(seqs) |-> IF i = 1 THEN seqs[i] ELSE flat[i - 1] \o seqs[i]]
  <1>1. f = [i \in 1..Len(seqs) |-> IF i = 1 THEN seqs[i] ELSE f[i - 1] \o seqs[i]]
    BY JoinsExist DEF Joins
  <1>2. FlattenSeq(seqs) = f[Len(seqs)]
    BY DEF FlattenSeq
  <1> QED  BY <1>1, <1>2 DEF Joins

\* Sequences of one element each are joined into the sequence of these.
LEMMA FlattenSingles ==
    ASSUME NEW n \in Nat, n # 0, NEW g, NEW seqs, Len(seqs) = n, DOMAIN seqs = 1..n,
           \A i \in 1..n : seqs[i] = <<g[i]>>
    PROVE  FlattenSeq(seqs) = [i \in 1..n |-> g[i]]
  <1>1. PICK f : Joins(seqs, n, f) /\ FlattenSeq(seqs) = f[n]
    BY FlattenUnfolds
  <1>2. \A i \in 1..n : f[i] = IF i = 1 THEN seqs[i] ELSE f[i - 1] \o seqs[i]
    BY <1>1 DEF Joins
  <1> DEFINE S == {k \in 1..n : f[k] = [i \in 1..k |-> g[i]]}
  <1>3. 1 \in S
    <2>1. f[1] = <<g[1]>> /\ 1 \in 1..n
      BY <1>2
    <2>2. <<g[1]>> = [i \in 1..1 |-> g[i]]
      OBVIOUS
    <2> QED  BY <2>1, <2>2
  <1>4. ASSUME NEW k \in 1..(n - 1), k \in S PROVE k + 1 \in S
    <2>1. k + 1 \in 1..n /\ k + 1 # 1 /\ (k + 1) - 1 = k
      OBVIOUS
    <2>2. f[k + 1] = [i \in 1..k |-> g[i]] \o <<g[k + 1]>>
      <3>1. f[k] = [i \in 1..k |-> g[i]]
        BY <1>4
      <3>2. f[k + 1] = f[k] \o seqs[k + 1] /\ seqs[k + 1] = <<g[k + 1]>>
        BY <1>2, <2>1
      <3> QED  BY <3>1, <3>2
    <2>3. [i \in 1..k |-> g[i]] \o <<g[k + 1]>> = [i \in 1..(k + 1) |-> g[i]]
      OBVIOUS
    <2> QED  BY <2>1, <2>2, <2>3
  <1>5. n \in 1..n
    OBVIOUS
  <1> HIDE DEF S
  <1>6. n \in S
    BY <1>3, <1>4, <1>5, UpTo
  <1> QED  BY <1>1, <1>6 DEF S

\* A finite set of ids has an order, and every id has its place in it.
LEMMA InOrderIs ==
    ASSUME NEW ids, ids \subseteq Nat, IsFiniteSet(ids)
    PROVE  LET seq == InOrder(ids)
               n == Cardinality(ids)
           IN  /\ n \in Nat /\ seq \in [1..n -> ids] /\ Len(seq) = n
               /\ \A i, j \in 1..n : i < j => seq[i] < seq[j]
               /\ \A x \in ids : \E i \in 1..n : seq[i] = x
  <1> DEFINE n == Cardinality(ids)
             UpToId(x) == {y \in ids : y <= x}
             rank == [x \in ids |-> Cardinality(UpToId(x))]
  <1>1. n \in Nat
    BY FS_CardinalityType
  <1>2. ASSUME NEW x \in ids
        PROVE  IsFiniteSet(UpToId(x)) /\ rank[x] \in 1..n
    <2>1. UpToId(x) \in SUBSET ids /\ UpToId(x) # {}
      OBVIOUS
    <2>2. IsFiniteSet(UpToId(x)) /\ Cardinality(UpToId(x)) <= n
      BY <2>1, FS_Subset
    <2>3. Cardinality(UpToId(x)) \in Nat /\ Cardinality(UpToId(x)) # 0
      BY <2>1, <2>2, FS_CardinalityType, FS_EmptySet
    <2> QED  BY <1>1, <2>2, <2>3
  <1>3. ASSUME NEW x \in ids, NEW y \in ids, x < y PROVE rank[x] < rank[y]
    <2>1. UpToId(x) \in SUBSET UpToId(y) /\ y \in UpToId(y) /\ y \notin UpToId(x)
      <3>1. x \in Nat /\ y \in Nat /\ \A z \in ids : z \in Nat
        OBVIOUS
      <3>2. \A z \in ids : z <= x => z <= y
        BY <1>3, <3>1
      <3>3. y <= y /\ ~(y <= x)
        BY <1>3, <3>1
      <3> QED  BY <3>2, <3>3
    <2>2. Cardinality(UpToId(x)) <= Cardinality(UpToId(y)) /\ Cardinality(UpToId(y)) # Cardinality(UpToId(x))
      BY <1>2, <2>1, FS_Subset
    <2>3. rank[x] \in Nat /\ rank[y] \in Nat
      BY <1>1, <1>2
    <2> QED  BY <2>2, <2>3
  <1>4. rank \in [ids -> 1..n] /\ \A x, y \in ids : rank[x] = rank[y] => x = y
    <2>1. \A x, y \in ids : x < y \/ y < x \/ x = y
      OBVIOUS
    <2>2. \A x \in ids : rank[x] \in Nat
      BY <1>1, <1>2
    <2> HIDE DEF rank
    <2>3. \A x, y \in ids : rank[x] = rank[y] => x = y
      BY <1>3, <2>1, <2>2
    <2>4. rank \in [ids -> 1..n]
      BY <1>2 DEF rank
    <2> QED  BY <2>3, <2>4
  <1> HIDE DEF rank
  <1>5. \A i \in 1..n : \E x \in ids : rank[x] = i
    <2>1. rank \in Injection(ids, 1..n)
      BY <1>4 DEF Injection, IsInjective
    <2>2. IsFiniteSet(1..n) /\ Cardinality(1..n) = n
      BY <1>1, FS_Interval
    <2>3. rank \in Surjection(ids, 1..n)
      BY <2>1, <2>2, FS_Injection
    <2> QED  BY <2>3 DEF Surjection
  <1> DEFINE at_(i) == CHOOSE x \in ids : rank[x] = i
             seq == [i \in 1..n |-> at_(i)]
             Fits(s) == \A i, j \in DOMAIN s : i < j => s[i] < s[j]
  <1>6. \A i \in 1..n : seq[i] \in ids /\ rank[seq[i]] = i
    BY <1>5
  <1>7. seq \in [1..n -> ids] /\ Fits(seq)
    <2>1. seq \in [1..n -> ids]
      BY <1>6
    <2>2. DOMAIN seq = 1..n
      OBVIOUS
    <2> HIDE DEF seq
    <2>3. ASSUME NEW i \in 1..n, NEW j \in 1..n, i < j PROVE seq[i] < seq[j]
      <3>1. seq[i] \in Nat /\ seq[j] \in Nat /\ seq[i] # seq[j] /\ ~(seq[j] < seq[i])
        <4>1. seq[i] \in ids /\ seq[j] \in ids /\ rank[seq[i]] = i /\ rank[seq[j]] = j
          BY <1>6
        <4>2. i \in Nat /\ j \in Nat /\ i # j /\ ~(j < i)
          BY <1>1, <2>3
        <4>3. ~(seq[j] < seq[i]) /\ seq[i] # seq[j]
          BY <1>3, <4>1, <4>2
        <4> QED  BY <4>1, <4>3
      <3> QED  BY <3>1
    <2> QED  BY <2>1, <2>2, <2>3
  <1> HIDE DEF seq
  <1>8. InOrder(ids) \in [1..n -> ids] /\ Fits(InOrder(ids))
    BY <1>7 DEF InOrder
  <1> DEFINE s == InOrder(ids)
  <1>9. s \in [1..n -> ids] /\ DOMAIN s = 1..n /\ \A i, j \in 1..n : i < j => s[i] < s[j]
    BY <1>8
  <1> HIDE DEF s
  <1>10. \A x \in ids : \E i \in 1..n : s[i] = x
    <2>1. \A i, j \in 1..n : s[i] = s[j] => i = j
      <3> SUFFICES ASSUME NEW i \in 1..n, NEW j \in 1..n, s[i] = s[j], i # j PROVE FALSE
        OBVIOUS
      <3>1. s[i] \in Nat /\ s[j] \in Nat
        BY <1>9
      <3>2. i < j \/ j < i
        BY <1>1
      <3>3. s[i] < s[j] \/ s[j] < s[i]
        BY <1>9, <3>2
      <3> QED  BY <3>1, <3>3
    <2>2. s \in Injection(1..n, ids)
      BY <1>9, <2>1 DEF Injection, IsInjective
    <2>3. Cardinality(1..n) = n
      BY <1>1, FS_Interval
    <2>4. s \in Surjection(1..n, ids)
      BY <2>2, <2>3, FS_Injection
    <2> QED  BY <2>4 DEF Surjection
  <1>11. Len(s) = n
    BY <1>1, <1>9
  <1> QED  BY <1>1, <1>9, <1>10, <1>11 DEF s

------------------------------------------------------------------------------
(* What handlers lock                                                        *)
(*                                                                           *)
(* A fact is true while the row it is of stays locked, its home.  All        *)
(* handlers lock their rows in the order of these ranks, those of one table  *)
(* by their ids; only rows of the cache and holds have no rank, and who      *)
(* locks a hold has locked its material.                                     *)

HomeOf(kind) ==
    CASE kind \in {"free", "balance"} -> "material"
      [] kind = "payable" -> "order"
      [] kind = "returned" -> "receipt"
      [] kind = "refundable" -> "return"
      [] kind = "totals" -> "supplier"
      [] OTHER -> kind

Home(f) == <<HomeOf(f[1]), f[2]>>

RankOf(table) ==
    CASE table = "payment" -> 1 [] table = "refund" -> 2 [] table = "order" -> 3 [] table = "receipt" -> 4
      [] table = "return" -> 5 [] table = "document" -> 6 [] table = "target" -> 7
      [] table = "sales_order" -> 8 [] table = "shipment" -> 9 [] table = "request" -> 10
      [] table = "norm" -> 11 [] table = "recipe" -> 12 [] table = "material" -> 13
      [] table = "supplier" -> 14 [] OTHER -> 0

Ranked(row) == RankOf(row[1]) # 0

Below(a, b) ==
    \/ RankOf(a[1]) < RankOf(b[1])
    \/ a[1] = b[1] /\ a[2] \in Nat /\ b[2] \in Nat /\ a[2] < b[2]

Tables ==
    {"payment", "refund", "order", "receipt", "return", "document", "target", "sales_order", "shipment",
     "request", "norm", "recipe", "material", "supplier", "hold", "cache"}

Names == Tables \cup {"free", "balance", "payable", "returned", "refundable", "totals"}

Ids == Nat \cup {"warehouse", "production"} \cup SalesOrders \cup Documents \cup Purchases \cup {Null}

LockSteps == [mode : {"update", "share"}, row : (Tables \cup {"none"}) \X Ids, reads : SUBSET (Names \X Ids)]

\* Orders that are none: receipts of goods nobody ordered break them, and nobody reads them
Unread == {"order", "payable"} \X (Purchases \ Ordered)

LocksOf(s) == {s[i].row : i \in {j \in 1..Len(s) : s[j].mode = "update"}}

\* What a step reads is of a row in G, or of one that is locked by then
ReadsLocked(s, G) ==
    \A i \in 1..Len(s) : \A f \in s[i].reads :
        /\ f \notin Unread
        /\ Home(f) \in G \/ \E j \in 1..i : s[j].mode = "update" /\ s[j].row = Home(f)

HoldsGuarded(s, G) ==
    \A i \in 1..Len(s) : s[i].row[1] = "hold" =>
        LET m == <<"material", HoldMaterial[s[i].row[2]]>>
        IN  m \in G \/ \E j \in 1..(i - 1) : s[j].mode = "update" /\ s[j].row = m

RanksIn(s, R) == \A i \in 1..Len(s) : Ranked(s[i].row) => RankOf(s[i].row[1]) \in R

Climbs(s) ==
    \A i, j \in 1..Len(s) : i < j /\ Ranked(s[i].row) /\ Ranked(s[j].row) =>
        Below(s[i].row, s[j].row) \/ s[i].row = s[j].row

\* Steps with rows of ranks R, after the rows in G were locked
Made(s, R, G) ==
    s \in Seq(LockSteps) /\ ReadsLocked(s, G) /\ HoldsGuarded(s, G) /\ RanksIn(s, R) /\ Climbs(s)

LEMMA RankType == \A t : RankOf(t) \in 0..14
  BY DEF RankOf

\* Steps that follow on others, of higher ranks
LEMMA MadeThen ==
    ASSUME NEW a, NEW b, NEW Q, NEW R, NEW G,
           Made(a, Q, G), Made(b, R, G \cup LocksOf(a)), \A x \in Q, y \in R : x < y
    PROVE  Made(a \o b, Q \cup R, G) /\ LocksOf(a \o b) = LocksOf(a) \cup LocksOf(b)
  <1> DEFINE s == a \o b
             n == Len(a)
             k == Len(b)
  <1>1. a \in Seq(LockSteps) /\ b \in Seq(LockSteps)
    BY DEF Made
  <1>2. n \in Nat /\ k \in Nat /\ s \in Seq(LockSteps) /\ Len(s) = n + k
    BY <1>1
  <1>3. \A i \in 1..n : s[i] = a[i]
    BY <1>1
  <1>4. \A i \in 1..k : s[n + i] = b[i]
    BY <1>1
  <1>5. \A i \in 1..(n + k) : i \in 1..n \/ \E j \in 1..k : i = n + j
    <2> SUFFICES ASSUME NEW i \in 1..(n + k), i \notin 1..n PROVE \E j \in 1..k : i = n + j
      OBVIOUS
    <2>1. i - n \in 1..k /\ i = n + (i - n)
      BY <1>2
    <2> QED  BY <2>1
  <1>6. (\A i \in 1..n : i \in 1..(n + k)) /\ (\A i \in 1..k : n + i \in 1..(n + k))
    BY <1>2
  <1> HIDE DEF s, n, k
  <1>7. ReadsLocked(s, G)
    <2> SUFFICES ASSUME NEW i \in 1..Len(s), NEW f \in s[i].reads
                 PROVE  /\ f \notin Unread
                        /\ Home(f) \in G \/ \E j \in 1..i : s[j].mode = "update" /\ s[j].row = Home(f)
      BY DEF ReadsLocked
    <2>1. CASE i \in 1..n
      <3>1. f \in a[i].reads
        BY <1>3, <2>1
      <3>2. f \notin Unread /\ (Home(f) \in G \/ \E j \in 1..i : a[j].mode = "update" /\ a[j].row = Home(f))
        BY <2>1, <3>1 DEF Made, ReadsLocked, n
      <3>3. \A j \in 1..i : j \in 1..n
        BY <1>2, <2>1
      <3> QED  BY <1>3, <3>2, <3>3
    <2>2. ASSUME NEW j \in 1..k, i = n + j
          PROVE  /\ f \notin Unread
                 /\ Home(f) \in G \/ \E l \in 1..i : s[l].mode = "update" /\ s[l].row = Home(f)
      <3>1. f \in b[j].reads
        BY <1>4, <2>2
      <3>2. /\ f \notin Unread
            /\ Home(f) \in G \cup LocksOf(a) \/ \E l \in 1..j : b[l].mode = "update" /\ b[l].row = Home(f)
        BY <3>1 DEF Made, ReadsLocked, k
      <3>3. CASE Home(f) \in LocksOf(a)
        <4>1. PICK l \in 1..n : a[l].mode = "update" /\ a[l].row = Home(f)
          BY <3>3 DEF LocksOf, n
        <4>2. l \in 1..i
          BY <1>2, <2>2
        <4> QED  BY <1>3, <3>2, <4>1, <4>2
      <3>4. ASSUME NEW l \in 1..j, b[l].mode = "update", b[l].row = Home(f)
            PROVE  \E h \in 1..i : s[h].mode = "update" /\ s[h].row = Home(f)
        <4>1. l \in 1..k /\ n + l \in 1..i
          BY <1>2, <2>2
        <4> QED  BY <1>4, <3>4, <4>1
      <3> QED  BY <3>2, <3>3, <3>4
    <2> QED  BY <1>2, <1>5, <2>1, <2>2
  <1>8. HoldsGuarded(s, G)
    <2> SUFFICES ASSUME NEW i \in 1..Len(s), s[i].row[1] = "hold", NEW m, m = <<"material", HoldMaterial[s[i].row[2]]>>
                 PROVE  m \in G \/ \E j \in 1..(i - 1) : s[j].mode = "update" /\ s[j].row = m
      BY DEF HoldsGuarded
    <2>1. CASE i \in 1..n
      <3>1. s[i] = a[i]
        BY <1>3, <2>1
      <3>2. m \in G \/ \E j \in 1..(i - 1) : a[j].mode = "update" /\ a[j].row = m
        BY <2>1, <3>1 DEF Made, HoldsGuarded, n
      <3>3. \A j \in 1..(i - 1) : j \in 1..n
        BY <1>2, <2>1
      <3> QED  BY <1>3, <3>2, <3>3
    <2>2. ASSUME NEW j \in 1..k, i = n + j
          PROVE  m \in G \/ \E l \in 1..(i - 1) : s[l].mode = "update" /\ s[l].row = m
      <3>1. s[i] = b[j]
        BY <1>4, <2>2
      <3>2. m \in G \cup LocksOf(a) \/ \E l \in 1..(j - 1) : b[l].mode = "update" /\ b[l].row = m
        BY <3>1 DEF Made, HoldsGuarded, k
      <3>3. CASE m \in LocksOf(a)
        <4>1. PICK l \in 1..n : a[l].mode = "update" /\ a[l].row = m
          BY <3>3 DEF LocksOf, n
        <4>2. l \in 1..(i - 1)
          BY <1>2, <2>2
        <4> QED  BY <1>3, <4>1, <4>2
      <3>4. ASSUME NEW l \in 1..(j - 1), b[l].mode = "update", b[l].row = m
            PROVE  \E h \in 1..(i - 1) : s[h].mode = "update" /\ s[h].row = m
        <4>1. l \in 1..k /\ n + l \in 1..(i - 1)
          BY <1>2, <2>2
        <4> QED  BY <1>4, <3>4, <4>1
      <3> QED  BY <3>2, <3>3, <3>4
    <2> QED  BY <1>2, <1>5, <2>1, <2>2
  <1>9. RanksIn(s, Q \cup R)
    <2>1. \A i \in 1..n : Ranked(a[i].row) => RankOf(a[i].row[1]) \in Q
      BY DEF Made, RanksIn, n
    <2>2. \A i \in 1..k : Ranked(b[i].row) => RankOf(b[i].row[1]) \in R
      BY DEF Made, RanksIn, k
    <2> QED  BY <1>2, <1>3, <1>4, <1>5, <2>1, <2>2 DEF RanksIn
  <1>10. Climbs(s)
    <2> SUFFICES ASSUME NEW i \in 1..Len(s), NEW j \in 1..Len(s), i < j, Ranked(s[i].row), Ranked(s[j].row)
                 PROVE  Below(s[i].row, s[j].row) \/ s[i].row = s[j].row
      BY DEF Climbs
    <2>1. CASE j \in 1..n
      <3>1. i \in 1..n
        BY <1>2, <2>1
      <3> QED  BY <1>3, <2>1, <3>1 DEF Made, Climbs, n
    <2>2. ASSUME NEW h \in 1..k, j = n + h
          PROVE  Below(s[i].row, s[j].row) \/ s[i].row = s[j].row
      <3>1. CASE i \in 1..n
        <4>1. RankOf(s[i].row[1]) \in Q
          BY <1>3, <3>1 DEF Made, RanksIn, n
        <4>2. RankOf(s[j].row[1]) \in R
          BY <1>4, <2>2 DEF Made, RanksIn, k
        <4> QED  BY <4>1, <4>2 DEF Below
      <3>2. ASSUME NEW g \in 1..k, i = n + g
            PROVE  Below(s[i].row, s[j].row) \/ s[i].row = s[j].row
        <4>1. g < h
          BY <1>2, <2>2, <3>2
        <4> QED  BY <1>4, <2>2, <3>2, <4>1 DEF Made, Climbs, k
      <3> QED  BY <1>2, <1>5, <3>1, <3>2
    <2> QED  BY <1>2, <1>5, <2>1, <2>2
  <1>11. LocksOf(s) = LocksOf(a) \cup LocksOf(b)
    <2>1. ASSUME NEW row \in LocksOf(s) PROVE row \in LocksOf(a) \cup LocksOf(b)
      <3>1. PICK i \in 1..Len(s) : s[i].mode = "update" /\ s[i].row = row
        BY <2>1 DEF LocksOf
      <3>2. CASE i \in 1..n
        BY <1>3, <3>1, <3>2 DEF LocksOf, n
      <3>3. ASSUME NEW j \in 1..k, i = n + j PROVE row \in LocksOf(b)
        BY <1>4, <3>1, <3>3 DEF LocksOf, k
      <3> QED  BY <1>2, <1>5, <3>2, <3>3
    <2>2. ASSUME NEW row \in LocksOf(a) PROVE row \in LocksOf(s)
      <3>1. PICK i \in 1..n : a[i].mode = "update" /\ a[i].row = row
        BY <2>2 DEF LocksOf, n
      <3>2. i \in 1..Len(s) /\ s[i] = a[i]
        BY <1>2, <1>3, <1>6
      <3> QED  BY <3>1, <3>2 DEF LocksOf
    <2>3. ASSUME NEW row \in LocksOf(b) PROVE row \in LocksOf(s)
      <3>1. PICK i \in 1..k : b[i].mode = "update" /\ b[i].row = row
        BY <2>3 DEF LocksOf, k
      <3>2. n + i \in 1..Len(s) /\ s[n + i] = b[i]
        BY <1>2, <1>4, <1>6
      <3> QED  BY <3>1, <3>2 DEF LocksOf
    <2> QED  BY <2>1, <2>2, <2>3
  <1> QED  BY <1>2, <1>7, <1>8, <1>9, <1>10, <1>11 DEF Made, s

LEMMA MadeMore ==
    ASSUME NEW s, NEW Q, NEW R, NEW F, NEW G, Made(s, Q, F), Q \subseteq R, F \subseteq G
    PROVE  Made(s, R, G)
  BY DEF Made, ReadsLocked, HoldsGuarded, RanksIn

LEMMA MadeNothing ==
    ASSUME NEW R, NEW G
    PROVE  Made(<<>>, R, G) /\ LocksOf(<<>>) = {}
  BY DEF Made, ReadsLocked, HoldsGuarded, RanksIn, Climbs, LocksOf


\* One lock
LEMMA MadeLock ==
    ASSUME NEW table \in Tables, NEW id \in Ids, NEW kinds \in SUBSET Names, NEW G,
           \A kind \in kinds : HomeOf(kind) = table,
           table = "order" => id \in Ordered \/ kinds = {},
           table = "hold" => <<"material", HoldMaterial[id]>> \in G
    PROVE  /\ Made(Lock(table, id, kinds), {RankOf(table)}, G)
           /\ LocksOf(Lock(table, id, kinds)) = {<<table, id>>}
  <1> DEFINE step == [mode |-> "update", row |-> <<table, id>>, reads |-> kinds \X {id}]
             s == Lock(table, id, kinds)
  <1>1. step \in LockSteps
    BY DEF LockSteps
  <1>2. \A f \in step.reads : Home(f) = step.row /\ f \notin Unread
    <2> SUFFICES ASSUME NEW f \in step.reads PROVE Home(f) = step.row /\ f \notin Unread
      OBVIOUS
    <2>1. Home(f) = <<table, id>> /\ f = <<f[1], f[2]>> /\ f[1] \in kinds /\ f[2] = id
      <3>1. f \in kinds \X {id}
        OBVIOUS
      <3>2. f = <<f[1], f[2]>> /\ f[1] \in kinds /\ f[2] = id
        BY <3>1
      <3> QED  BY <3>2 DEF Home
    <2>2. f[1] \in {"order", "payable"} => table = "order"
      BY <2>1 DEF HomeOf
    <2> QED  BY <2>1, <2>2 DEF Unread
  <1>3. s = <<step>>
    BY DEF Lock, Step
  <1>4. step.mode = "update" /\ step.row = <<table, id>>
    OBVIOUS
  <1> HIDE DEF step, s
  <1>5. s \in Seq(LockSteps) /\ Len(s) = 1 /\ s[1] = step
    BY <1>1, <1>3
  <1>6. ReadsLocked(s, G)
    BY <1>2, <1>4, <1>5 DEF ReadsLocked
  <1>7. HoldsGuarded(s, G)
    BY <1>4, <1>5 DEF HoldsGuarded
  <1>8. RanksIn(s, {RankOf(table)}) /\ Climbs(s)
    BY <1>4, <1>5 DEF RanksIn, Climbs
  <1>9. LocksOf(s) = {<<table, id>>}
    BY <1>4, <1>5 DEF LocksOf
  <1> QED  BY <1>5, <1>6, <1>7, <1>8, <1>9 DEF Made, s

\* A row that is referred to, or nothing at all
LEMMA MadeShare ==
    ASSUME NEW table \in Tables, NEW id \in Ids, NEW G, table # "hold"
    PROVE  Made(Share(table, id), {RankOf(table)}, G) /\ LocksOf(Share(table, id)) = {}
  <1> DEFINE step == [mode |-> "share", row |-> <<table, id>>, reads |-> {}]
             s == Share(table, id)
  <1>1. step \in LockSteps /\ step.mode = "share" /\ step.row = <<table, id>> /\ step.reads = {}
    BY DEF LockSteps
  <1>2. s = <<step>>
    BY DEF Share, Step
  <1> HIDE DEF step, s
  <1>3. s \in Seq(LockSteps) /\ Len(s) = 1 /\ s[1] = step
    BY <1>1, <1>2
  <1> QED  BY <1>1, <1>3 DEF Made, ReadsLocked, HoldsGuarded, RanksIn, Climbs, LocksOf, s

\* What is read of rows that are locked
LEMMA MadeRead ==
    ASSUME NEW facts \in SUBSET (Names \X Ids), NEW R, NEW G, \A f \in facts : Home(f) \in G /\ f \notin Unread
    PROVE  Made(Read(facts), R, G) /\ LocksOf(Read(facts)) = {}
  <1> DEFINE step == [mode |-> "share", row |-> <<"none", Null>>, reads |-> facts]
             s == Read(facts)
  <1>1. step \in LockSteps /\ step.mode = "share" /\ step.row = <<"none", Null>> /\ step.reads = facts
    <2>1. Null \in Ids /\ "none" \in Tables \cup {"none"}
      BY DEF Ids
    <2>2. <<"none", Null>> \in (Tables \cup {"none"}) \X Ids /\ "share" \in {"update", "share"}
      BY <2>1
    <2>3. \A row \in (Tables \cup {"none"}) \X Ids : [mode |-> "share", row |-> row, reads |-> facts] \in LockSteps
      BY <2>2 DEF LockSteps
    <2>4. step \in LockSteps
      BY <2>2, <2>3
    <2> QED  BY <2>4
  <1>2. s = <<step>>
    BY DEF Read, Step
  <1>3. RankOf("none") = 0
    BY DEF RankOf
  <1> HIDE DEF step, s
  <1>4. s \in Seq(LockSteps) /\ Len(s) = 1 /\ s[1] = step
    BY <1>1, <1>2
  <1> QED  BY <1>1, <1>3, <1>4 DEF Made, ReadsLocked, HoldsGuarded, RanksIn, Climbs, LocksOf, Ranked, s

\* Rows of one table, in the order of their ids
LEMMA MadeLockAll ==
    ASSUME NEW table \in Tables, NEW ids \in SUBSET Nat, IsFiniteSet(ids), NEW kinds \in SUBSET Names, NEW G,
           \A kind \in kinds : HomeOf(kind) = table,
           table # "order",
           table = "hold" => \A id \in ids : <<"material", HoldMaterial[id]>> \in G
    PROVE  /\ Made(LockAll(table, ids, kinds), {RankOf(table)}, G)
           /\ LocksOf(LockAll(table, ids, kinds)) = {table} \X ids
  <1> DEFINE seq == InOrder(ids)
             n == Cardinality(ids)
             g == [i \in 1..n |-> [mode |-> "update", row |-> <<table, seq[i]>>, reads |-> kinds \X {seq[i]}]]
             singles == [i \in DOMAIN seq |-> Lock(table, seq[i], kinds)]
             s == LockAll(table, ids, kinds)
  <1>1. /\ n \in Nat /\ seq \in [1..n -> ids] /\ Len(seq) = n
        /\ \A i, j \in 1..n : i < j => seq[i] < seq[j]
        /\ \A x \in ids : \E i \in 1..n : seq[i] = x
    BY InOrderIs
  <1>2. s = FlattenSeq(singles)
    BY DEF LockAll
  <1> HIDE DEF seq
  <1>3. DOMAIN singles = 1..n /\ Len(singles) = n /\ \A i \in 1..n : singles[i] = <<g[i]>>
    <2>1. DOMAIN seq = 1..n
      BY <1>1
    <2>2. \A i \in 1..n : singles[i] = Lock(table, seq[i], kinds) /\ g[i] = [mode |-> "update", row |-> <<table, seq[i]>>, reads |-> kinds \X {seq[i]}]
      BY <2>1
    <2>3. \A id : Lock(table, id, kinds) = <<[mode |-> "update", row |-> <<table, id>>, reads |-> kinds \X {id}]>>
      BY DEF Lock, Step
    <2>4. DOMAIN singles = 1..n
      BY <2>1
    <2> HIDE DEF g, singles
    <2>5. Len(singles) = n
      BY <1>1, <2>4
    <2> QED  BY <2>2, <2>3, <2>4, <2>5
  <1>4. \A i \in 1..n : /\ g[i].mode = "update" /\ g[i].row = <<table, seq[i]>>
                        /\ g[i].reads = kinds \X {seq[i]} /\ seq[i] \in ids
    BY <1>1
  <1>5. s = [i \in 1..n |-> g[i]]
    <2>1. CASE n = 0
      <3>1. singles = <<>>
        BY <1>3, <2>1
      <3> HIDE DEF singles, n
      <3>2. FlattenSeq(singles) = <<>>
        BY <3>1 DEF FlattenSeq
      <3>3. <<>> = [i \in 1..n |-> g[i]]
        BY <2>1
      <3> QED  BY <1>2, <3>2, <3>3
    <2>2. CASE n # 0
      <3> HIDE DEF singles, g, n
      <3> QED  BY <1>1, <1>2, <1>3, <2>2, FlattenSingles, SMTT(30)
    <2> QED  BY <2>1, <2>2
  <1>6. \A i \in 1..n : g[i] \in LockSteps
    <2>1. \A id \in ids : id \in Ids
      BY DEF Ids
    <2>2. \A i \in 1..n : g[i] = [mode |-> "update", row |-> <<table, seq[i]>>, reads |-> kinds \X {seq[i]}]
      OBVIOUS
    <2> QED  BY <1>1, <2>1, <2>2 DEF LockSteps
  <1> HIDE DEF g, singles, n, s
  <1>7. s \in Seq(LockSteps) /\ Len(s) = n /\ \A i \in 1..n : s[i] = g[i]
    BY <1>1, <1>5, <1>6
  <1>8. ReadsLocked(s, G)
    <2> SUFFICES ASSUME NEW i \in 1..n, NEW f \in g[i].reads
                 PROVE  f \notin Unread /\ Home(f) = g[i].row
      BY <1>1, <1>4, <1>7 DEF ReadsLocked
    <2>1. f \in kinds \X {seq[i]}
      BY <1>4
    <2>2. Home(f) = <<table, seq[i]>> /\ f = <<f[1], f[2]>> /\ f[1] \in kinds
      <3>1. f = <<f[1], f[2]>> /\ f[1] \in kinds /\ f[2] = seq[i]
        BY <2>1
      <3> QED  BY <3>1 DEF Home
    <2>4. Home(f) = g[i].row
      BY <1>4, <2>2
    <2>3. f[1] \notin {"order", "payable"}
      BY <2>2 DEF HomeOf
    <2> QED  BY <2>2, <2>3, <2>4 DEF Unread
  <1>13. \A i \in 1..n : s[i].mode = "update" /\ s[i].row[1] = table /\ s[i].row[2] = seq[i] /\ seq[i] \in ids
    BY <1>4, <1>7
  <1>9. HoldsGuarded(s, G)
    BY <1>7, <1>13 DEF HoldsGuarded
  <1>10. RanksIn(s, {RankOf(table)})
    BY <1>4, <1>7 DEF RanksIn
  <1>11. Climbs(s)
    <2> SUFFICES ASSUME NEW i \in 1..n, NEW j \in 1..n, i < j PROVE Below(s[i].row, s[j].row)
      BY <1>7 DEF Climbs
    <2>1. seq[i] < seq[j] /\ seq[i] \in Nat /\ seq[j] \in Nat
      BY <1>1, <1>13
    <2> QED  BY <1>13, <2>1 DEF Below
  <1>12. LocksOf(s) = {table} \X ids
    <2>1. \A i \in 1..n : s[i].mode = "update" /\ s[i].row = <<table, seq[i]>> /\ seq[i] \in ids
      BY <1>4, <1>7
    <2>2. LocksOf(s) = {<<table, seq[i]>> : i \in 1..n}
      BY <1>7, <2>1, ZenonT(30) DEF LocksOf
    <2>3. \A x \in ids : <<table, x>> \in LocksOf(s)
      <3> SUFFICES ASSUME NEW x \in ids PROVE <<table, x>> \in LocksOf(s)
        OBVIOUS
      <3>1. PICK i \in 1..n : seq[i] = x
        BY <1>1
      <3> QED  BY <2>2, <3>1
    <2>4. \A row \in LocksOf(s) : row \in {table} \X ids
      BY <2>1, <2>2
    <2>5. \A row \in {table} \X ids : row = <<table, row[2]>> /\ row[2] \in ids
      OBVIOUS
    <2>6. \A row \in {table} \X ids : row \in LocksOf(s)
      BY <2>3, <2>5
    <2> QED  BY <2>4, <2>6
  <1> QED  BY <1>7, <1>8, <1>9, <1>10, <1>11, <1>12 DEF Made, s

\* A row that is referred to and then locked
LEMMA MadeUpgrade ==
    ASSUME NEW table \in Tables \ {"hold", "order"}, NEW id \in Ids, NEW kinds \in SUBSET Names, NEW G,
           \A kind \in kinds : HomeOf(kind) = table
    PROVE  /\ Made(Share(table, id) \o Lock(table, id, kinds), {RankOf(table)}, G)
           /\ LocksOf(Share(table, id) \o Lock(table, id, kinds)) = {<<table, id>>}
  <1> DEFINE a == [mode |-> "share", row |-> <<table, id>>, reads |-> {}]
             b == [mode |-> "update", row |-> <<table, id>>, reads |-> kinds \X {id}]
             s == Share(table, id) \o Lock(table, id, kinds)
  <1>1. a \in LockSteps /\ a.mode = "share" /\ a.row = <<table, id>> /\ a.reads = {}
    BY DEF LockSteps
  <1>2. b \in LockSteps /\ b.mode = "update" /\ b.row = <<table, id>> /\ b.reads = kinds \X {id}
    BY DEF LockSteps
  <1>9. \A f \in b.reads : Home(f) = b.row /\ f \notin Unread
    <2> SUFFICES ASSUME NEW f \in kinds \X {id} PROVE Home(f) = <<table, id>> /\ f \notin Unread
      BY <1>2
    <2>1. f = <<f[1], f[2]>> /\ f[1] \in kinds /\ f[2] = id
      OBVIOUS
    <2>2. f[1] \notin {"order", "payable"}
      BY <2>1 DEF HomeOf
    <2> QED  BY <2>1, <2>2 DEF Home, Unread
  <1>3. s = <<a>> \o <<b>>
    BY DEF Share, Lock, Step
  <1> HIDE DEF a, b, s
  <1>4. s \in Seq(LockSteps) /\ Len(s) = 2 /\ s[1] = a /\ s[2] = b
    BY <1>1, <1>2, <1>3
  <1>5. 1..2 = {1, 2}
    OBVIOUS
  <1>10. \A f \in s[1].reads : FALSE
    BY <1>1, <1>4
  <1>11. \A f \in s[2].reads : f \notin Unread /\ s[2].mode = "update" /\ s[2].row = Home(f)
    BY <1>2, <1>4, <1>9
  <1>6. ReadsLocked(s, G) /\ HoldsGuarded(s, G)
    <2>1. ReadsLocked(s, G)
      BY <1>4, <1>5, <1>10, <1>11 DEF ReadsLocked
    <2> QED  BY <1>1, <1>2, <1>4, <1>5, <2>1 DEF HoldsGuarded
  <1>7. RanksIn(s, {RankOf(table)}) /\ Climbs(s)
    BY <1>1, <1>2, <1>4, <1>5 DEF RanksIn, Climbs
  <1>8. LocksOf(s) = {<<table, id>>}
    BY <1>1, <1>2, <1>4, <1>5 DEF LocksOf
  <1> QED  BY <1>4, <1>6, <1>7, <1>8 DEF Made, s

LEMMA MadeUnranked ==
    ASSUME NEW s, NEW R, NEW G, Made(s, {0}, G)
    PROVE  Made(s, R, G)
  BY DEF Made, RanksIn, Ranked

\* Rows without a rank, wherever they come
LEMMA MadeThenFree ==
    ASSUME NEW a, NEW b, NEW R, NEW G, Made(a, R, G), Made(b, {}, G \cup LocksOf(a))
    PROVE  Made(a \o b, R, G) /\ LocksOf(a \o b) = LocksOf(a) \cup LocksOf(b)
  <1> DEFINE none == {}
  <1>1. (\A x \in R, y \in none : x < y) /\ Made(b, none, G \cup LocksOf(a))
    OBVIOUS
  <1>3. R \cup none = R
    OBVIOUS
  <1> HIDE DEF none
  <1>2. Made(a \o b, R \cup none, G) /\ LocksOf(a \o b) = LocksOf(a) \cup LocksOf(b)
    BY <1>1, MadeThen
  <1> QED  BY <1>2, <1>3

\* Sequences of rows without a rank, joined
LEMMA MadeFlatten ==
    ASSUME NEW n \in Nat, NEW seqs, Len(seqs) = n, DOMAIN seqs = 1..n, seqs \in Seq(Seq(LockSteps)), NEW G,
           \A i \in 1..n : Made(seqs[i], {}, G)
    PROVE  /\ Made(FlattenSeq(seqs), {}, G)
           /\ LocksOf(FlattenSeq(seqs)) = UNION {LocksOf(seqs[i]) : i \in 1..n}
  <1>1. CASE n = 0
    <2>1. FlattenSeq(seqs) = <<>> /\ seqs = <<>>
      BY <1>1 DEF FlattenSeq
    <2>2. UNION {LocksOf(seqs[i]) : i \in 1..n} = {}
      BY <1>1
    <2> QED  BY <2>1, <2>2, MadeNothing
  <1>2. CASE n # 0
    <2>1. PICK f : Joins(seqs, n, f) /\ FlattenSeq(seqs) = f[n]
      BY <1>2, FlattenUnfolds
    <2>2. \A i \in 1..n : f[i] = IF i = 1 THEN seqs[i] ELSE f[i - 1] \o seqs[i]
      BY <2>1 DEF Joins
    <2> DEFINE S == {k \in 1..n : Made(f[k], {}, G) /\ LocksOf(f[k]) = UNION {LocksOf(seqs[i]) : i \in 1..k}}
    <2>3. 1 \in S
      <3>1. f[1] = seqs[1] /\ 1 \in 1..n
        BY <1>2, <2>2
      <3>2. UNION {LocksOf(seqs[i]) : i \in 1..1} = LocksOf(seqs[1])
        OBVIOUS
      <3> QED  BY <3>1, <3>2
    <2>4. ASSUME NEW k \in 1..(n - 1), k \in S PROVE k + 1 \in S
      <3>1. k + 1 \in 1..n /\ k + 1 # 1 /\ (k + 1) - 1 = k
        OBVIOUS
      <3>2. f[k + 1] = f[k] \o seqs[k + 1]
        BY <2>2, <3>1
      <3>3. Made(f[k], {}, G) /\ LocksOf(f[k]) = UNION {LocksOf(seqs[i]) : i \in 1..k}
        BY <2>4
      <3>4. Made(seqs[k + 1], {}, G \cup LocksOf(f[k]))
        BY <3>1, MadeMore
      <3>5. Made(f[k] \o seqs[k + 1], {}, G) /\ LocksOf(f[k] \o seqs[k + 1]) = LocksOf(f[k]) \cup LocksOf(seqs[k + 1])
        BY <3>3, <3>4, MadeThenFree
      <3>6. UNION {LocksOf(seqs[i]) : i \in 1..(k + 1)} = (UNION {LocksOf(seqs[i]) : i \in 1..k}) \cup LocksOf(seqs[k + 1])
        <4>1. \A i : i \in 1..(k + 1) <=> i \in 1..k \/ i = k + 1
          OBVIOUS
        <4> QED  BY <4>1
      <3> QED  BY <3>1, <3>2, <3>3, <3>5, <3>6
    <2>5. n \in 1..n
      BY <1>2
    <2> HIDE DEF S
    <2>6. n \in S
      BY <2>3, <2>4, <2>5, UpTo
    <2> QED  BY <2>1, <2>6 DEF S
  <1> QED  BY <1>1, <1>2

LEMMA RanksAre ==
    /\ RankOf("payment") = 1 /\ RankOf("refund") = 2 /\ RankOf("order") = 3 /\ RankOf("receipt") = 4
    /\ RankOf("return") = 5 /\ RankOf("document") = 6 /\ RankOf("target") = 7 /\ RankOf("sales_order") = 8
    /\ RankOf("shipment") = 9 /\ RankOf("request") = 10 /\ RankOf("norm") = 11 /\ RankOf("recipe") = 12
    /\ RankOf("material") = 13 /\ RankOf("supplier") = 14
    /\ RankOf("hold") = 0 /\ RankOf("cache") = 0 /\ RankOf("none") = 0
  BY DEF RankOf

LEMMA MadeCache ==
    ASSUME NEW section \in {"warehouse", "production"}, NEW R, NEW G
    PROVE  Made(Cache(section), R, G)
  <1>1. "cache" \in Tables /\ section \in Ids
    BY DEF Names, Tables, Ids
  <1>2. Made(Lock("cache", section, {}), {RankOf("cache")}, G)
    BY <1>1, MadeLock
  <1> QED  BY <1>2, RanksAre, MadeUnranked DEF Cache

LEMMA MadeForHouse ==
    ASSUME NEW h, NEW R, NEW G
    PROVE  Made(ForHouse(h), R, G)
  <1>1. Made(Cache("warehouse"), {}, G)
    BY MadeCache
  <1>2. Made(IF h = Null THEN <<>> ELSE Cache("production"), {}, G \cup LocksOf(Cache("warehouse")))
    BY MadeCache, MadeNothing
  <1>3. Made(Cache("warehouse") \o (IF h = Null THEN <<>> ELSE Cache("production")), {}, G)
    BY <1>1, <1>2, MadeThenFree
  <1> QED  BY <1>3, MadeMore DEF ForHouse

\* Steps with rows of rank k; of ranks up to k; of ranks from j to k; without a rank
MadeAt(s, k, G) == Made(s, {k}, G)

MadeTo(s, k) == Made(s, 0..k, {})

MadeFrom(s, j, k, G) == Made(s, j..k, G)

MadeFree(s, G) == Made(s, {}, G)

\* One more rank on top of those taken so far
LEMMA MadeNext ==
    ASSUME NEW a, NEW b, NEW i \in Nat, NEW k \in Nat, i < k,
           MadeTo(a, i), MadeAt(b, k, LocksOf(a))
    PROVE  MadeTo(a \o b, k) /\ LocksOf(a \o b) = LocksOf(a) \cup LocksOf(b)
  <1> DEFINE Q == 0..i
             R == {k}
  <1>1. \A x \in Q, y \in R : x < y
    OBVIOUS
  <1>2. Q \cup R \subseteq 0..k
    OBVIOUS
  <1>3. Made(a, Q, {}) /\ Made(b, R, {} \cup LocksOf(a))
    <2>1. {} \cup LocksOf(a) = LocksOf(a)
      OBVIOUS
    <2> QED  BY <2>1 DEF MadeTo, MadeAt
  <1> HIDE DEF Q, R
  <1>4. Made(a \o b, Q \cup R, {}) /\ LocksOf(a \o b) = LocksOf(a) \cup LocksOf(b)
    BY <1>1, <1>3, MadeThen
  <1>5. {} \subseteq {}
    OBVIOUS
  <1> QED  BY <1>2, <1>4, <1>5, MadeMore DEF MadeTo

\* Several ranks on top of those taken so far
LEMMA MadeOnTop ==
    ASSUME NEW a, NEW b, NEW i \in Nat, NEW j \in Nat, NEW k \in Nat, i < j, i <= k,
           MadeTo(a, i), MadeFrom(b, j, k, LocksOf(a))
    PROVE  MadeTo(a \o b, k) /\ LocksOf(a \o b) = LocksOf(a) \cup LocksOf(b)
  <1> DEFINE Q == 0..i
             R == j..k
  <1>1. \A x \in Q, y \in R : x < y
    OBVIOUS
  <1>2. Q \cup R \subseteq 0..k
    OBVIOUS
  <1>3. Made(a, Q, {}) /\ Made(b, R, {} \cup LocksOf(a))
    <2>1. {} \cup LocksOf(a) = LocksOf(a)
      OBVIOUS
    <2> QED  BY <2>1 DEF MadeTo, MadeFrom
  <1> HIDE DEF Q, R
  <1>4. Made(a \o b, Q \cup R, {}) /\ LocksOf(a \o b) = LocksOf(a) \cup LocksOf(b)
    BY <1>1, <1>3, MadeThen
  <1>5. {} \subseteq {}
    OBVIOUS
  <1> QED  BY <1>2, <1>4, <1>5, MadeMore DEF MadeTo

\* Rows without a rank, after the others
LEMMA MadeAlso ==
    ASSUME NEW a, NEW b, NEW k, MadeTo(a, k), MadeFree(b, LocksOf(a))
    PROVE  MadeTo(a \o b, k) /\ LocksOf(a \o b) = LocksOf(a) \cup LocksOf(b)
  <1> DEFINE R == 0..k
  <1>1. Made(a, R, {}) /\ Made(b, {}, {} \cup LocksOf(a))
    <2>1. {} \cup LocksOf(a) = LocksOf(a)
      OBVIOUS
    <2> QED  BY <2>1 DEF MadeTo, MadeFree
  <1> HIDE DEF R
  <1>2. Made(a \o b, R, {}) /\ LocksOf(a \o b) = LocksOf(a) \cup LocksOf(b)
    BY <1>1, MadeThenFree
  <1> QED  BY <1>2 DEF MadeTo, R

LEMMA MadeUp ==
    ASSUME NEW s, NEW k \in Nat, MadeAt(s, k, {})
    PROVE  MadeTo(s, k)
  <1>1. {k} \subseteq 0..k /\ {} \subseteq {} /\ Made(s, {k}, {})
    BY DEF MadeAt
  <1> QED  BY <1>1, MadeMore DEF MadeTo

LEMMA MadeAtFrom ==
    ASSUME NEW s, NEW G, NEW i \in Nat, NEW j \in Nat, NEW k \in Nat, i <= j, j <= k, MadeAt(s, j, G)
    PROVE  MadeFrom(s, i, k, G)
  <1>1. {j} \subseteq i..k /\ G \subseteq G /\ Made(s, {j}, G)
    BY DEF MadeAt
  <1> QED  BY <1>1, MadeMore DEF MadeFrom

\* Nothing, and rows without a rank, have any rank.
LEMMA MadeAny ==
    ASSUME NEW s, NEW G, MadeFree(s, G)
    PROVE  /\ \A k : MadeAt(s, k, G)
           /\ \A j, k : MadeFrom(s, j, k, G)
           /\ G = {} => \A k : MadeTo(s, k)
  <1>1. \A R : {} \subseteq R
    OBVIOUS
  <1>2. G \subseteq G
    OBVIOUS
  <1>3. Made(s, {}, G)
    BY DEF MadeFree
  <1>4. \A R : Made(s, R, G)
    BY <1>1, <1>2, <1>3, MadeMore
  <1> QED  BY <1>4 DEF MadeAt, MadeTo, MadeFrom

LEMMA MadeFreeNothing ==
    \A G : MadeFree(<<>>, G) /\ LocksOf(<<>>) = {}
  BY MadeNothing DEF MadeFree

LEMMA HomesAre ==
    /\ HomeOf("free") = "material" /\ HomeOf("balance") = "material"
    /\ HomeOf("payable") = "order" /\ HomeOf("order") = "order" /\ HomeOf("returned") = "receipt"
    /\ HomeOf("return") = "return" /\ HomeOf("refundable") = "return" /\ HomeOf("totals") = "supplier"
    /\ HomeOf("norm") = "norm" /\ HomeOf("hold") = "hold" /\ HomeOf("request") = "request"
    /\ HomeOf("document") = "document" /\ HomeOf("shipment") = "shipment"
    /\ HomeOf("sales_order") = "sales_order" /\ HomeOf("payment") = "payment" /\ HomeOf("refund") = "refund"
  BY DEF HomeOf

\* What a commit breaks is of rows that are locked.
Kept(broken, locks) == \A f \in broken : f \in Unread \/ Home(f) \in locks

LEMMA KeptOne ==
    ASSUME NEW kind, NEW id, NEW locks, <<HomeOf(kind), id>> \in locks
    PROVE  Kept({<<kind, id>>}, locks)
  <1>1. <<kind, id>>[1] = kind /\ <<kind, id>>[2] = id
    OBVIOUS
  <1>2. Home(<<kind, id>>) = <<HomeOf(kind), id>>
    BY <1>1 DEF Home
  <1> QED  BY <1>2 DEF Kept

LEMMA KeptAll ==
    ASSUME NEW kinds, NEW ids, NEW locks, \A kind \in kinds, id \in ids : <<HomeOf(kind), id>> \in locks
    PROVE  Kept(kinds \X ids, locks)
  <1> SUFFICES ASSUME NEW f \in kinds \X ids PROVE Home(f) \in locks
    BY DEF Kept
  <1>1. f = <<f[1], f[2]>> /\ f[1] \in kinds /\ f[2] \in ids
    OBVIOUS
  <1>2. <<HomeOf(f[1]), f[2]>> \in locks
    BY <1>1
  <1> QED  BY <1>2 DEF Home

LEMMA KeptBoth ==
    ASSUME NEW A, NEW B, NEW locks, Kept(A, locks), Kept(B, locks)
    PROVE  Kept(A \cup B, locks)
  BY DEF Kept

LEMMA KeptMore ==
    ASSUME NEW A, NEW few, NEW locks, Kept(A, few), few \subseteq locks
    PROVE  Kept(A, locks)
  BY DEF Kept

LEMMA KeptNothing == \A locks : Kept({}, locks)
  BY DEF Kept

\* A handler that locks in order, and before it decides
Sound(p) == Made(p.steps, 0..14, {}) /\ Kept(p.breaks, LocksOf(p.steps))

LEMMA SoundHandler ==
    ASSUME NEW steps, NEW broken, NEW k \in 0..14, MadeTo(steps, k), Kept(broken, LocksOf(steps))
    PROVE  Sound(Handler(steps, broken))
  <1>1. 0..k \subseteq 0..14 /\ {} \subseteq {}
    OBVIOUS
  <1>2. Made(steps, 0..14, {})
    BY <1>1, MadeMore DEF MadeTo
  <1>3. Handler(steps, broken).steps = steps /\ Handler(steps, broken).breaks = broken
    BY DEF Handler
  <1> QED  BY <1>2, <1>3 DEF Sound

LEMMA SoundIdle == Sound(Idle)
  <1>1. Made(<<>>, 0..14, {}) /\ Kept({}, LocksOf(<<>>))
    BY MadeNothing, KeptNothing
  <1>2. Idle.steps = <<>> /\ Idle.breaks = {}
    BY DEF Idle, Handler
  <1> QED  BY <1>1, <1>2 DEF Sound

------------------------------------------------------------------------------
(* The parts of the handlers                                                 *)

LEMMA Rows ==
    /\ Materials \subseteq Nat /\ Norms \subseteq Nat /\ Holds \subseteq Nat
    /\ Materials \subseteq Ids /\ Norms \subseteq Ids /\ Holds \subseteq Ids /\ SalesOrders \subseteq Ids
    /\ Documents \subseteq Ids /\ Purchases \subseteq Ids /\ 1 \in Ids
    /\ \A S \in SUBSET Materials : IsFiniteSet(S)
    /\ \A S \in SUBSET Norms : IsFiniteSet(S)
    /\ \A S \in SUBSET Holds : IsFiniteSet(S)
  <1>1. Materials \subseteq Nat /\ Norms \subseteq Nat /\ Holds \subseteq Nat
    BY LocksAssumption
  <1>2. \A S \in SUBSET Materials : IsFiniteSet(S)
    BY LocksAssumption, FS_Subset
  <1>3. \A S \in SUBSET Norms : IsFiniteSet(S)
    BY LocksAssumption, FS_Subset
  <1>4. \A S \in SUBSET Holds : IsFiniteSet(S)
    BY LocksAssumption, FS_Subset
  <1>5. 1 \in Nat
    OBVIOUS
  <1> QED  BY <1>1, <1>2, <1>3, <1>4, <1>5 DEF Ids

LEMMA MadeMaterials ==
    ASSUME NEW mats \in SUBSET Materials, NEW kinds \in SUBSET {"free", "balance"}, NEW G
    PROVE  /\ MadeAt(LockAll("material", mats, kinds), 13, G)
           /\ LocksOf(LockAll("material", mats, kinds)) = {"material"} \X mats
  <1>1. mats \in SUBSET Nat /\ IsFiniteSet(mats)
    BY Rows
  <1>2. kinds \in SUBSET Names /\ "material" \in Tables
    BY DEF Names, Tables
  <1>3. \A kind \in kinds : HomeOf(kind) = "material"
    BY HomesAre
  <1>4. RankOf("material") = 13 /\ "material" # "order" /\ "material" # "hold"
    BY RanksAre
  <1> QED  BY <1>1, <1>2, <1>3, <1>4, MadeLockAll DEF MadeAt

LEMMA MadeNorms ==
    ASSUME NEW ids \in SUBSET Norms, NEW G
    PROVE  /\ MadeAt(LockAll("norm", ids, {"norm"}), 11, G)
           /\ LocksOf(LockAll("norm", ids, {"norm"})) = {"norm"} \X ids
  <1>1. ids \in SUBSET Nat /\ IsFiniteSet(ids)
    BY Rows
  <1>2. {"norm"} \in SUBSET Names /\ "norm" \in Tables
    BY DEF Names, Tables
  <1>3. \A kind \in {"norm"} : HomeOf(kind) = "norm"
    BY HomesAre
  <1>4. RankOf("norm") = 11 /\ "norm" # "order" /\ "norm" # "hold"
    BY RanksAre
  <1> QED  BY <1>1, <1>2, <1>3, <1>4, MadeLockAll DEF MadeAt

LEMMA MadeHolds ==
    ASSUME NEW ids \in SUBSET Holds, NEW G, \A x \in ids : <<"material", HoldMaterial[x]>> \in G
    PROVE  /\ MadeFree(LockAll("hold", ids, {"hold"}), G)
           /\ LocksOf(LockAll("hold", ids, {"hold"})) = {"hold"} \X ids
  <1>1. ids \in SUBSET Nat /\ IsFiniteSet(ids)
    BY Rows
  <1>2. {"hold"} \in SUBSET Names /\ "hold" \in Tables
    BY DEF Names, Tables
  <1>3. \A kind \in {"hold"} : HomeOf(kind) = "hold"
    BY HomesAre
  <1>4. RankOf("hold") = 0 /\ "hold" # "order"
    BY RanksAre
  <1>5. /\ Made(LockAll("hold", ids, {"hold"}), {0}, G)
        /\ LocksOf(LockAll("hold", ids, {"hold"})) = {"hold"} \X ids
    BY <1>1, <1>2, <1>3, <1>4, MadeLockAll
  <1> QED  BY <1>5, MadeUnranked DEF MadeFree

\* One row of a table other than the orders and the holds
LEMMA MadeOne ==
    ASSUME NEW table \in Tables \ {"hold", "order"}, NEW id \in Ids, NEW kinds \in SUBSET Names, NEW G,
           \A kind \in kinds : HomeOf(kind) = table
    PROVE  /\ MadeAt(Lock(table, id, kinds), RankOf(table), G)
           /\ LocksOf(Lock(table, id, kinds)) = {<<table, id>>}
  BY MadeLock DEF MadeAt

\* ... that nothing but facts of its own name is read of
LEMMA MadeOwn ==
    ASSUME NEW table \in {"payment", "refund", "receipt", "return", "document", "target", "sales_order",
                          "shipment", "request", "norm", "material", "supplier"},
           NEW id \in Ids, NEW kinds \in SUBSET {table}, NEW G
    PROVE  /\ MadeAt(Lock(table, id, kinds), RankOf(table), G)
           /\ LocksOf(Lock(table, id, kinds)) = {<<table, id>>}
  <1>1. table \in Tables \ {"hold", "order"} /\ kinds \in SUBSET Names
    BY DEF Names, Tables
  <1>2. \A kind \in kinds : HomeOf(kind) = table
    BY DEF HomeOf
  <1> QED  BY <1>1, <1>2, MadeOne

LEMMA MadeMaterial ==
    ASSUME NEW m \in Materials, NEW kinds \in SUBSET {"free", "balance"}, NEW G
    PROVE  /\ MadeAt(Lock("material", m, kinds), 13, G)
           /\ LocksOf(Lock("material", m, kinds)) = {<<"material", m>>}
  <1>1. "material" \in Tables \ {"hold", "order"} /\ kinds \in SUBSET Names
    BY DEF Names, Tables
  <1>2. \A kind \in kinds : HomeOf(kind) = "material"
    BY HomesAre
  <1>3. m \in Ids
    BY Rows
  <1> QED  BY <1>1, <1>2, <1>3, MadeOne, RanksAre

LEMMA MadeHold ==
    ASSUME NEW x \in Holds, NEW kinds \in SUBSET {"free", "balance"}
    PROVE  /\ MadeTo(LockHold(x, kinds), 13)
           /\ LocksOf(LockHold(x, kinds)) = {<<"material", HoldMaterial[x]>>, <<"hold", x>>}
  <1> DEFINE m == HoldMaterial[x]
             a == Lock("material", m, kinds)
             b == Lock("hold", x, {"hold"})
  <1>1. m \in Materials
    BY LocksAssumption
  <1>2. MadeAt(a, 13, {}) /\ LocksOf(a) = {<<"material", m>>}
    BY <1>1, MadeMaterial
  <1>3. MadeFree(b, LocksOf(a)) /\ LocksOf(b) = {<<"hold", x>>}
    <2> DEFINE G == LocksOf(a)
    <2>1. "hold" \in Tables /\ {"hold"} \in SUBSET Names /\ "hold" # "order"
      BY DEF Names, Tables
    <2>2. \A kind \in {"hold"} : HomeOf(kind) = "hold"
      BY HomesAre
    <2>3. x \in Ids
      BY Rows
    <2>4. <<"material", HoldMaterial[x]>> \in G
      BY <1>2
    <2> HIDE DEF G
    <2>5. Made(b, {RankOf("hold")}, G) /\ LocksOf(b) = {<<"hold", x>>}
      BY <2>1, <2>2, <2>3, <2>4, MadeLock
    <2>6. Made(b, {}, G)
      BY <2>5, RanksAre, MadeUnranked
    <2> QED  BY <2>5, <2>6 DEF G, MadeFree
  <1>4. LockHold(x, kinds) = a \o b
    BY DEF LockHold
  <1> HIDE DEF m, a, b
  <1>5. MadeTo(a, 13)
    BY <1>2, MadeUp
  <1>6. MadeTo(a \o b, 13) /\ LocksOf(a \o b) = LocksOf(a) \cup LocksOf(b)
    BY <1>3, <1>5, MadeAlso
  <1>7. LocksOf(a) \cup LocksOf(b) = {<<"material", m>>, <<"hold", x>>}
    BY <1>2, <1>3
  <1> QED  BY <1>4, <1>6, <1>7 DEF m

\* consume_for_production, after the material was locked
LEMMA MadeConsume ==
    ASSUME NEW m \in Materials, NEW h \in Houses, NEW G, <<"material", m>> \in G
    PROVE  MadeFree(Consume(m, h), G) /\ {"hold"} \X HoldsFor(m, h) \subseteq LocksOf(Consume(m, h))
  <1>1. CASE HoldsFor(m, h) = {}
    <2>1. Consume(m, h) = <<>>
      BY <1>1 DEF Consume
    <2>2. {"hold"} \X HoldsFor(m, h) = {}
      BY <1>1
    <2> QED  BY <2>1, <2>2, MadeFreeNothing
  <1>2. CASE HoldsFor(m, h) # {}
    <2> DEFINE a == LockAll("hold", HoldsFor(m, h), {"hold"})
    <2>1. HoldsFor(m, h) \in SUBSET Holds /\ \A x \in HoldsFor(m, h) : <<"material", HoldMaterial[x]>> \in G
      BY DEF HoldsFor
    <2>2. Made(a, {}, G) /\ LocksOf(a) = {"hold"} \X HoldsFor(m, h)
      BY <2>1, MadeHolds DEF MadeFree
    <2>3. Made(ForHouse(h), {}, G \cup LocksOf(a))
      BY MadeForHouse
    <2>4. Consume(m, h) = a \o ForHouse(h)
      BY <1>2 DEF Consume
    <2> HIDE DEF a
    <2>5. Made(a \o ForHouse(h), {}, G) /\ LocksOf(a \o ForHouse(h)) = LocksOf(a) \cup LocksOf(ForHouse(h))
      BY <2>2, <2>3, MadeThenFree
    <2> QED  BY <2>2, <2>4, <2>5 DEF MadeFree
  <1> QED  BY <1>1, <1>2

LEMMA MadeConsumeAll ==
    ASSUME NEW mats \in SUBSET Materials, NEW h \in Houses, NEW G, {"material"} \X mats \subseteq G
    PROVE  MadeFree(ConsumeAll(mats, h), G) /\ Kept(Consumed(mats, h), LocksOf(ConsumeAll(mats, h)))
  <1> DEFINE seq == InOrder(mats)
             n == Cardinality(mats)
             parts == [i \in DOMAIN seq |-> Consume(seq[i], h)]
  <1>1. /\ n \in Nat /\ seq \in [1..n -> mats] /\ Len(seq) = n
        /\ \A x \in mats : \E i \in 1..n : seq[i] = x
    <2>1. mats \in SUBSET Nat /\ IsFiniteSet(mats)
      BY Rows
    <2> QED  BY <2>1, InOrderIs
  <1>2. ConsumeAll(mats, h) = FlattenSeq(parts)
    BY DEF ConsumeAll
  <1>3. DOMAIN parts = 1..n /\ \A i \in 1..n : parts[i] = Consume(seq[i], h)
    BY <1>1
  <1> HIDE DEF seq, n, parts
  <1>4. \A i \in 1..n : Made(parts[i], {}, G) /\ {"hold"} \X HoldsFor(seq[i], h) \subseteq LocksOf(parts[i])
    <2> SUFFICES ASSUME NEW i \in 1..n
                 PROVE  Made(parts[i], {}, G) /\ {"hold"} \X HoldsFor(seq[i], h) \subseteq LocksOf(parts[i])
      OBVIOUS
    <2>1. seq[i] \in mats
      BY <1>1
    <2>2. seq[i] \in Materials /\ <<"material", seq[i]>> \in G
      BY <2>1
    <2> QED  BY <1>3, <2>2, MadeConsume DEF MadeFree
  <1>5. parts \in Seq(Seq(LockSteps)) /\ Len(parts) = n
    <2>1. \A i \in 1..n : parts[i] \in Seq(LockSteps)
      BY <1>4 DEF Made
    <2>2. parts = [i \in 1..n |-> parts[i]]
      BY <1>3 DEF parts
    <2> QED  BY <1>1, <2>1, <2>2
  <1>6. /\ Made(FlattenSeq(parts), {}, G)
        /\ LocksOf(FlattenSeq(parts)) = UNION {LocksOf(parts[i]) : i \in 1..n}
    BY <1>1, <1>3, <1>4, <1>5, MadeFlatten
  <1>7. ASSUME NEW f \in Consumed(mats, h) PROVE Home(f) \in LocksOf(FlattenSeq(parts))
    <2>1. PICK m \in mats : f \in {"hold"} \X HoldsFor(m, h)
      BY <1>7 DEF Consumed
    <2>2. f = <<f[1], f[2]>> /\ f[1] = "hold"
      BY <2>1
    <2>3. Home(f) = f
      BY <2>2, HomesAre DEF Home
    <2>4. PICK i \in 1..n : seq[i] = m
      BY <1>1
    <2>5. f \in LocksOf(parts[i])
      BY <1>4, <2>1, <2>4
    <2> QED  BY <1>6, <2>3, <2>5
  <1> QED  BY <1>2, <1>6, <1>7 DEF Kept, MadeFree

------------------------------------------------------------------------------
(* The handlers of holds                                                     *)

LEMMA FreeForHouse == \A h, G : MadeFree(ForHouse(h), G)
  BY MadeForHouse DEF MadeFree

LEMMA FreeCache == \A G : MadeFree(Cache("production"), G) /\ MadeFree(Cache("warehouse"), G)
  BY MadeCache DEF MadeFree

LEMMA SoundCreateHoldForHouse ==
    ASSUME NEW h \in Houses, NEW m \in Materials
    PROVE  Sound(CreateHoldForHouse(h, m))
  <1> DEFINE a == LockAll("norm", NormsOf(h, Materials), {"norm"})
             b == Lock("material", m, {"free"})
             c == ForHouse(h)
             s == a \o b \o c
  <1>1. NormsOf(h, Materials) \in SUBSET Norms
    BY DEF NormsOf
  <1>2. {"free"} \in SUBSET {"free", "balance"}
    OBVIOUS
  <1>3. \A G : MadeAt(a, 11, G) /\ LocksOf(a) = {"norm"} \X NormsOf(h, Materials)
    BY <1>1, <1>2, MadeNorms
  <1>4. \A G : MadeAt(b, 13, G) /\ LocksOf(b) = {<<"material", m>>}
    BY <1>1, <1>2, MadeMaterial
  <1>5. \A G : MadeFree(c, G)
    BY <1>1, <1>2, FreeForHouse
  <1>6. CreateHoldForHouse(h, m) = Handler(s, {<<"free", m>>})
    BY DEF CreateHoldForHouse
  <1> HIDE DEF a, b, c
  <1>7. MadeTo(a, 11)
    BY <1>3, MadeUp
  <1>8. MadeTo(a \o b, 13) /\ LocksOf(a \o b) = LocksOf(a) \cup LocksOf(b)
    <2>1. MadeAt(b, 13, LocksOf(a))
      BY <1>4
    <2> QED  BY <1>7, <2>1, MadeNext, SMTT(30)
  <1>9. MadeTo(a \o b \o c, 13) /\ LocksOf(a \o b \o c) = LocksOf(a \o b) \cup LocksOf(c)
    <2>1. MadeFree(c, LocksOf(a \o b))
      BY <1>5
    <2> QED  BY <1>8, <2>1, MadeAlso, SMTT(30)
  <1>10. LocksOf(s) = LocksOf(a) \cup LocksOf(b) \cup LocksOf(c)
    BY <1>8, <1>9
  <1>11. Kept({<<"free", m>>}, LocksOf(s))
    <2>1. <<HomeOf("free"), m>> \in LocksOf(s)
      BY <1>3, <1>4, <1>10, <1>1, <1>2, HomesAre
    <2> QED  BY <2>1, KeptOne
  <1>12. MadeTo(s, 13) /\ 13 \in 0..14
    BY <1>9
  <1> HIDE DEF s
  <1> QED  BY <1>6, <1>11, <1>12, SoundHandler

LEMMA SoundCreateHoldForOrder ==
    ASSUME NEW o \in SalesOrders, NEW m \in Materials
    PROVE  Sound(CreateHoldForOrder(o, m))
  <1> DEFINE a == Lock("sales_order", o, {"sales_order"})
             b == Lock("material", m, {"free"})
             c == ForHouse(Null)
             s == a \o b \o c
  <1>1. {"free"} \in SUBSET {"free", "balance"}
    OBVIOUS
  <1>2. \A G : MadeAt(a, 8, G) /\ LocksOf(a) = {<<"sales_order", o>>}
    BY <1>1, MadeOwn, RanksAre, Rows
  <1>3. \A G : MadeAt(b, 13, G) /\ LocksOf(b) = {<<"material", m>>}
    BY <1>1, MadeMaterial
  <1>4. \A G : MadeFree(c, G)
    BY <1>1, FreeForHouse
  <1>5. CreateHoldForOrder(o, m) = Handler(s, {<<"free", m>>} \cup {<<"sales_order", o>>})
    BY DEF CreateHoldForOrder
  <1> HIDE DEF a, b, c
  <1>6. MadeTo(a, 8)
    BY <1>2, MadeUp
  <1>7. MadeTo(a \o b, 13) /\ LocksOf(a \o b) = LocksOf(a) \cup LocksOf(b)
    <2>1. MadeAt(b, 13, LocksOf(a))
      BY <1>3
    <2> QED  BY <1>6, <2>1, MadeNext, SMTT(30)
  <1>8. MadeTo(a \o b \o c, 13) /\ LocksOf(a \o b \o c) = LocksOf(a \o b) \cup LocksOf(c)
    <2>1. MadeFree(c, LocksOf(a \o b))
      BY <1>4
    <2> QED  BY <1>7, <2>1, MadeAlso, SMTT(30)
  <1>9. LocksOf(s) = LocksOf(a) \cup LocksOf(b) \cup LocksOf(c)
    BY <1>7, <1>8
  <1>10. Kept({<<"free", m>>}, LocksOf(s))
    <2>1. <<HomeOf("free"), m>> \in LocksOf(s)
      BY <1>2, <1>3, <1>9, <1>1, HomesAre
    <2> QED  BY <2>1, KeptOne
  <1>11. Kept({<<"sales_order", o>>}, LocksOf(s))
    <2>1. <<HomeOf("sales_order"), o>> \in LocksOf(s)
      BY <1>2, <1>3, <1>9, <1>1, HomesAre
    <2> QED  BY <2>1, KeptOne
  <1>12. Kept({<<"free", m>>} \cup {<<"sales_order", o>>}, LocksOf(s))
    BY <1>10, <1>11, KeptBoth
  <1>13. MadeTo(s, 13) /\ 13 \in 0..14
    BY <1>8
  <1> HIDE DEF s
  <1> QED  BY <1>5, <1>12, <1>13, SoundHandler

LEMMA SoundCreateHold ==
    ASSUME NEW m \in Materials
    PROVE  Sound(CreateHold(m))
  <1> DEFINE a == Lock("material", m, {"free"})
             c == ForHouse(Null)
             s == a \o c
  <1>1. {"free"} \in SUBSET {"free", "balance"}
    OBVIOUS
  <1>2. \A G : MadeAt(a, 13, G) /\ LocksOf(a) = {<<"material", m>>}
    BY <1>1, MadeMaterial
  <1>3. \A G : MadeFree(c, G)
    BY <1>1, FreeForHouse
  <1>4. CreateHold(m) = Handler(s, {<<"free", m>>})
    BY DEF CreateHold
  <1> HIDE DEF a, c
  <1>5. MadeTo(a, 13)
    BY <1>2, MadeUp
  <1>6. MadeTo(a \o c, 13) /\ LocksOf(a \o c) = LocksOf(a) \cup LocksOf(c)
    <2>1. MadeFree(c, LocksOf(a))
      BY <1>3
    <2> QED  BY <1>5, <2>1, MadeAlso, SMTT(30)
  <1>7. LocksOf(s) = LocksOf(a) \cup LocksOf(c)
    BY <1>6
  <1>8. Kept({<<"free", m>>}, LocksOf(s))
    <2>1. <<HomeOf("free"), m>> \in LocksOf(s)
      BY <1>2, <1>7, <1>1, HomesAre
    <2> QED  BY <2>1, KeptOne
  <1>9. MadeTo(s, 13) /\ 13 \in 0..14
    BY <1>6
  <1> HIDE DEF s
  <1> QED  BY <1>4, <1>8, <1>9, SoundHandler

LEMMA SoundOfHold ==
    ASSUME NEW x \in Holds, NEW kinds \in SUBSET {"free", "balance"}, NEW end, \A G : MadeFree(end, G),
           NEW broken, Kept(broken, {<<"material", HoldMaterial[x]>>, <<"hold", x>>})
    PROVE  Sound(Handler(LockHold(x, kinds) \o end, broken)) /\ Sound(Handler(LockHold(x, kinds), broken))
  <1> DEFINE a == LockHold(x, kinds)
             L == {<<"material", HoldMaterial[x]>>, <<"hold", x>>}
  <1>1. MadeTo(a, 13) /\ LocksOf(a) = L /\ Kept(broken, L)
    BY MadeHold
  <1> HIDE DEF a, L
  <1>2. MadeTo(a \o end, 13) /\ LocksOf(a \o end) = LocksOf(a) \cup LocksOf(end)
    BY <1>1, MadeAlso
  <1>3. Kept(broken, LocksOf(a)) /\ Kept(broken, LocksOf(a \o end))
    BY <1>1, <1>2, KeptMore
  <1>4. 13 \in 0..14
    OBVIOUS
  <1>5. Sound(Handler(a, broken))
    BY <1>1, <1>3, <1>4, SoundHandler
  <1>6. Sound(Handler(a \o end, broken))
    BY <1>2, <1>3, <1>4, SoundHandler
  <1> QED  BY <1>5, <1>6 DEF a

LEMMA HoldIsKept ==
    ASSUME NEW x \in Holds
    PROVE  /\ Kept({<<"hold", x>>}, {<<"material", HoldMaterial[x]>>, <<"hold", x>>})
           /\ Kept({<<"hold", x>>, <<"balance", HoldMaterial[x]>>}, {<<"material", HoldMaterial[x]>>, <<"hold", x>>})
  <1> DEFINE L == {<<"material", HoldMaterial[x]>>, <<"hold", x>>}
             m == HoldMaterial[x]
  <1>1. <<HomeOf("hold"), x>> \in L /\ <<HomeOf("balance"), m>> \in L
    BY HomesAre
  <1> HIDE DEF L, m
  <1>2. Kept({<<"hold", x>>}, L) /\ Kept({<<"balance", m>>}, L)
    BY <1>1, KeptOne
  <1>3. Kept({<<"hold", x>>} \cup {<<"balance", m>>}, L)
    BY <1>2, KeptBoth
  <1>4. {<<"hold", x>>} \cup {<<"balance", m>>} = {<<"hold", x>>, <<"balance", m>>}
    OBVIOUS
  <1> QED  BY <1>2, <1>3, <1>4 DEF L, m

LEMMA SoundHoldPlans == \A p \in HoldPlans : Sound(p)
  <1>1. ASSUME NEW h \in Houses, NEW m \in Materials PROVE Sound(CreateHoldForHouse(h, m))
    BY SoundCreateHoldForHouse
  <1>2. ASSUME NEW o \in SalesOrders, NEW m \in Materials PROVE Sound(CreateHoldForOrder(o, m))
    BY SoundCreateHoldForOrder
  <1>3. ASSUME NEW m \in Materials PROVE Sound(CreateHold(m))
    BY SoundCreateHold
  <1>4. ASSUME NEW x \in Holds PROVE Sound(Release(x)) /\ Sound(ArchiveHold(x)) /\ Sound(Issue(x))
    <2> DEFINE B == {<<"hold", x>>}
               C == {<<"hold", x>>, <<"balance", HoldMaterial[x]>>}
               L == {<<"material", HoldMaterial[x]>>, <<"hold", x>>}
               none == {}
               some == {"free", "balance"}
    <2>1. Kept(B, L) /\ Kept(C, L)
      BY HoldIsKept
    <2>2. none \in SUBSET {"free", "balance"} /\ some \in SUBSET {"free", "balance"}
      OBVIOUS
    <2>3. \A h, G : MadeFree(ForHouse(h), G)
      BY FreeForHouse
    <2>4. /\ Release(x) = Handler(LockHold(x, none) \o ForHouse(HoldHouse[x]), B)
          /\ ArchiveHold(x) = Handler(LockHold(x, none), B)
          /\ Issue(x) = Handler(LockHold(x, some) \o ForHouse(Null), C)
      BY DEF Release, ArchiveHold, Issue
    <2> HIDE DEF B, C, none, some
    <2>5. Sound(Handler(LockHold(x, none) \o ForHouse(HoldHouse[x]), B))
      BY <2>1, <2>2, <2>3, SoundOfHold
    <2>6. Sound(Handler(LockHold(x, none), B))
      BY <2>1, <2>2, <2>3, SoundOfHold
    <2>7. Sound(Handler(LockHold(x, some) \o ForHouse(Null), C))
      BY <2>1, <2>2, <2>3, SoundOfHold
    <2> QED  BY <2>4, <2>5, <2>6, <2>7
  <1> QED  BY <1>1, <1>2, <1>3, <1>4 DEF HoldPlans

LEMMA KeptTwo ==
    ASSUME NEW kind, NEW id, NEW kind2, NEW id2, NEW locks,
           <<HomeOf(kind), id>> \in locks, <<HomeOf(kind2), id2>> \in locks
    PROVE  Kept({<<kind, id>>, <<kind2, id2>>}, locks)
  <1>1. Kept({<<kind, id>>}, locks) /\ Kept({<<kind2, id2>>}, locks)
    BY KeptOne
  <1> QED  BY <1>1 DEF Kept

LEMMA MadeFromUp ==
    ASSUME NEW s, NEW j \in Nat, NEW k \in Nat, MadeFrom(s, j, k, {})
    PROVE  MadeTo(s, k)
  <1>1. j..k \subseteq 0..k /\ {} \subseteq {} /\ Made(s, j..k, {})
    BY DEF MadeFrom
  <1> QED  BY <1>1, MadeMore DEF MadeTo

------------------------------------------------------------------------------
(* The handlers of documents                                                 *)

LEMMA Kinds ==
    /\ {"balance"} \in SUBSET {"free", "balance"} /\ {"free"} \in SUBSET {"free", "balance"}
    /\ {"free", "balance"} \in SUBSET {"free", "balance"} /\ {} \in SUBSET {"free", "balance"}
  OBVIOUS

LEMMA MadeRecipe ==
    \A G : /\ MadeAt(Share("recipe", 1) \o Lock("recipe", 1, {}), 12, G)
           /\ LocksOf(Share("recipe", 1) \o Lock("recipe", 1, {})) = {<<"recipe", 1>>}
  <1> DEFINE none == {}
  <1>1. "recipe" \in Tables \ {"hold", "order"} /\ 1 \in Ids /\ none \in SUBSET Names /\ \A kind \in none : HomeOf(kind) = "recipe"
    BY Rows DEF Names, Tables
  <1> HIDE DEF none
  <1>2. \A G : /\ MadeAt(Share("recipe", 1) \o Lock("recipe", 1, none), 12, G)
               /\ LocksOf(Share("recipe", 1) \o Lock("recipe", 1, none)) = {<<"recipe", 1>>}
    BY <1>1, MadeUpgrade, RanksAre DEF MadeAt
  <1> QED  BY <1>2 DEF none

LEMMA SoundStockIn ==
    ASSUME NEW mats \in SUBSET Materials
    PROVE  Sound(StockIn(mats))
  <1> DEFINE a == LockAll("material", mats, {"balance"})
             s == a
  <1>1. \A G : MadeAt(a, 13, G) /\ LocksOf(a) = {"material"} \X mats
    BY MadeMaterials, Kinds
  <1>2. StockIn(mats) = Handler(s, ({"balance"} \X mats))
    BY DEF StockIn
  <1> HIDE DEF a
  <1>3. MadeTo(a, 13)
    BY <1>1, MadeUp
  <1>4. Kept({"balance"} \X mats, LocksOf(s))
    <2>1. \A kind \in {"balance"}, id \in mats : <<HomeOf(kind), id>> \in LocksOf(s)
      BY <1>1, HomesAre
    <2> QED  BY <2>1, KeptAll
  <1>5. MadeTo(s, 13) /\ 13 \in 0..14
    BY <1>3
  <1> HIDE DEF s
  <1> QED  BY <1>2, <1>4, <1>5, SoundHandler

LEMMA SoundStockOut ==
    ASSUME NEW mats \in SUBSET Materials
    PROVE  Sound(StockOut(mats))
  <1> DEFINE a == LockAll("material", mats, {"free", "balance"})
             s == a
  <1>1. \A G : MadeAt(a, 13, G) /\ LocksOf(a) = {"material"} \X mats
    BY MadeMaterials, Kinds
  <1>2. StockOut(mats) = Handler(s, ({"free", "balance"} \X mats))
    BY DEF StockOut, Taking, Taken
  <1> HIDE DEF a
  <1>3. MadeTo(a, 13)
    BY <1>1, MadeUp
  <1>4. Kept({"free", "balance"} \X mats, LocksOf(s))
    <2>1. \A kind \in {"free", "balance"}, id \in mats : <<HomeOf(kind), id>> \in LocksOf(s)
      BY <1>1, HomesAre
    <2> QED  BY <2>1, KeptAll
  <1>5. MadeTo(s, 13) /\ 13 \in 0..14
    BY <1>3
  <1> HIDE DEF s
  <1> QED  BY <1>2, <1>4, <1>5, SoundHandler

LEMMA SoundManufacture ==
    ASSUME NEW in \in SUBSET Materials, NEW out \in SUBSET Materials
    PROVE  Sound(Manufacture(in, out))
  <1> DEFINE a == Share("recipe", 1) \o Lock("recipe", 1, {})
             b == LockAll("material", in \cup out, {"free", "balance"})
             s == a \o b
  <1>1. in \cup out \in SUBSET Materials
    OBVIOUS
  <1>2. \A G : MadeAt(a, 12, G)
    BY <1>1, MadeRecipe
  <1>3. \A G : MadeAt(b, 13, G) /\ LocksOf(b) = {"material"} \X (in \cup out)
    BY <1>1, MadeMaterials, Kinds
  <1>4. Manufacture(in, out) = Handler(s, ({"free", "balance"} \X in) \cup ({"balance"} \X out))
    BY DEF Manufacture, Taken
  <1> HIDE DEF a, b
  <1>5. MadeTo(a, 12)
    BY <1>2, MadeUp
  <1>6. MadeTo(a \o b, 13) /\ LocksOf(a \o b) = LocksOf(a) \cup LocksOf(b)
    <2>1. MadeAt(b, 13, LocksOf(a))
      BY <1>3
    <2> QED  BY <1>5, <2>1, MadeNext, SMTT(30)
  <1>7. LocksOf(s) = LocksOf(a) \cup LocksOf(b)
    BY <1>6
  <1>8. Kept({"free", "balance"} \X in, LocksOf(s))
    <2>1. \A kind \in {"free", "balance"}, id \in in : <<HomeOf(kind), id>> \in LocksOf(s)
      BY <1>3, <1>7, <1>1, HomesAre
    <2> QED  BY <2>1, KeptAll
  <1>9. Kept({"balance"} \X out, LocksOf(s))
    <2>1. \A kind \in {"balance"}, id \in out : <<HomeOf(kind), id>> \in LocksOf(s)
      BY <1>3, <1>7, <1>1, HomesAre
    <2> QED  BY <2>1, KeptAll
  <1>10. Kept(({"free", "balance"} \X in) \cup ({"balance"} \X out), LocksOf(s))
    BY <1>8, <1>9, KeptBoth
  <1>11. MadeTo(s, 13) /\ 13 \in 0..14
    BY <1>6
  <1> HIDE DEF s
  <1> QED  BY <1>4, <1>10, <1>11, SoundHandler

LEMMA SoundCreateDocument ==
    ASSUME NEW mats \in SUBSET Materials
    PROVE  Sound(CreateDocument(mats))
  <1> DEFINE a == LockAll("material", mats, {"balance"})
             s == a
  <1>1. \A G : MadeAt(a, 13, G) /\ LocksOf(a) = {"material"} \X mats
    BY MadeMaterials, Kinds
  <1>2. CreateDocument(mats) = Handler(s, {})
    BY DEF CreateDocument, Snapshot
  <1> HIDE DEF a
  <1>3. MadeTo(a, 13)
    BY <1>1, MadeUp
  <1>4. Kept({}, LocksOf(s))
    BY KeptNothing
  <1>5. MadeTo(s, 13) /\ 13 \in 0..14
    BY <1>3
  <1> HIDE DEF s
  <1> QED  BY <1>2, <1>4, <1>5, SoundHandler

LEMMA SoundChangeDocument ==
    ASSUME NEW d \in Documents, NEW mats \in SUBSET Materials
    PROVE  Sound(ChangeDocument(d, mats))
  <1> DEFINE a == Lock("document", d, {"document"})
             b == LockAll("material", mats, {"balance"})
             s == a \o b
  <1>1. \A G : MadeAt(a, 6, G) /\ LocksOf(a) = {<<"document", d>>}
    BY MadeOwn, RanksAre, Rows
  <1>2. \A G : MadeAt(b, 13, G) /\ LocksOf(b) = {"material"} \X mats
    BY MadeMaterials, Kinds
  <1>3. ChangeDocument(d, mats) = Handler(s, {<<"document", d>>})
    BY DEF ChangeDocument, Snapshot
  <1> HIDE DEF a, b
  <1>4. MadeTo(a, 6)
    BY <1>1, MadeUp
  <1>5. MadeTo(a \o b, 13) /\ LocksOf(a \o b) = LocksOf(a) \cup LocksOf(b)
    <2>1. MadeAt(b, 13, LocksOf(a))
      BY <1>2
    <2> QED  BY <1>4, <2>1, MadeNext, SMTT(30)
  <1>6. LocksOf(s) = LocksOf(a) \cup LocksOf(b)
    BY <1>5
  <1>7. Kept({<<"document", d>>}, LocksOf(s))
    <2>1. <<HomeOf("document"), d>> \in LocksOf(s)
      BY <1>1, <1>2, <1>6, HomesAre
    <2> QED  BY <2>1, KeptOne
  <1>8. MadeTo(s, 13) /\ 13 \in 0..14
    BY <1>5
  <1> HIDE DEF s
  <1> QED  BY <1>3, <1>7, <1>8, SoundHandler

LEMMA SoundArchiveDocument ==
    ASSUME NEW d \in Documents
    PROVE  Sound(ArchiveDocument(d))
  <1> DEFINE a == Lock("document", d, {"document"})
             s == a
  <1>1. \A G : MadeAt(a, 6, G) /\ LocksOf(a) = {<<"document", d>>}
    BY MadeOwn, RanksAre, Rows
  <1>2. ArchiveDocument(d) = Handler(s, {<<"document", d>>})
    BY DEF ArchiveDocument
  <1> HIDE DEF a
  <1>3. MadeTo(a, 6)
    BY <1>1, MadeUp
  <1>4. Kept({<<"document", d>>}, LocksOf(s))
    <2>1. <<HomeOf("document"), d>> \in LocksOf(s)
      BY <1>1, HomesAre
    <2> QED  BY <2>1, KeptOne
  <1>5. MadeTo(s, 6) /\ 6 \in 0..14
    BY <1>3
  <1> HIDE DEF s
  <1> QED  BY <1>2, <1>4, <1>5, SoundHandler

LEMMA SoundPostInventory ==
    ASSUME NEW d \in Documents, NEW mats \in SUBSET Materials
    PROVE  Sound(PostInventory(d, mats))
  <1> DEFINE a == Lock("document", d, {"document"})
             b == LockAll("material", mats, {"balance"})
             s == a \o b
  <1>1. \A G : MadeAt(a, 6, G) /\ LocksOf(a) = {<<"document", d>>}
    BY MadeOwn, RanksAre, Rows
  <1>2. \A G : MadeAt(b, 13, G) /\ LocksOf(b) = {"material"} \X mats
    BY MadeMaterials, Kinds
  <1>3. PostInventory(d, mats) = Handler(s, {<<"document", d>>} \cup ({"free", "balance"} \X mats))
    BY DEF PostInventory, Taken
  <1> HIDE DEF a, b
  <1>4. MadeTo(a, 6)
    BY <1>1, MadeUp
  <1>5. MadeTo(a \o b, 13) /\ LocksOf(a \o b) = LocksOf(a) \cup LocksOf(b)
    <2>1. MadeAt(b, 13, LocksOf(a))
      BY <1>2
    <2> QED  BY <1>4, <2>1, MadeNext, SMTT(30)
  <1>6. LocksOf(s) = LocksOf(a) \cup LocksOf(b)
    BY <1>5
  <1>7. Kept({<<"document", d>>}, LocksOf(s))
    <2>1. <<HomeOf("document"), d>> \in LocksOf(s)
      BY <1>1, <1>2, <1>6, HomesAre
    <2> QED  BY <2>1, KeptOne
  <1>8. Kept({"free", "balance"} \X mats, LocksOf(s))
    <2>1. \A kind \in {"free", "balance"}, id \in mats : <<HomeOf(kind), id>> \in LocksOf(s)
      BY <1>1, <1>2, <1>6, HomesAre
    <2> QED  BY <2>1, KeptAll
  <1>9. Kept({<<"document", d>>} \cup ({"free", "balance"} \X mats), LocksOf(s))
    BY <1>7, <1>8, KeptBoth
  <1>10. MadeTo(s, 13) /\ 13 \in 0..14
    BY <1>5
  <1> HIDE DEF s
  <1> QED  BY <1>3, <1>9, <1>10, SoundHandler

LEMMA SoundPostTransfer ==
    ASSUME NEW d \in Documents, NEW in \in SUBSET Materials, NEW out \in SUBSET Materials
    PROVE  Sound(PostTransfer(d, in, out))
  <1> DEFINE a == Lock("document", d, {"document"})
             b == Lock("target", 1, {})
             c == LockAll("material", in \cup out, {"free", "balance"})
             s == a \o b \o c
  <1>1. in \cup out \in SUBSET Materials
    OBVIOUS
  <1>2. \A G : MadeAt(a, 6, G) /\ LocksOf(a) = {<<"document", d>>}
    BY <1>1, MadeOwn, RanksAre, Rows
  <1>3. \A G : MadeAt(b, 7, G) /\ LocksOf(b) = {<<"target", 1>>}
    BY <1>1, MadeOwn, RanksAre, Rows
  <1>4. \A G : MadeAt(c, 13, G) /\ LocksOf(c) = {"material"} \X (in \cup out)
    BY <1>1, MadeMaterials, Kinds
  <1>5. PostTransfer(d, in, out) = Handler(s, {<<"document", d>>} \cup ({"free", "balance"} \X in) \cup ({"balance"} \X out))
    BY DEF PostTransfer, Taken
  <1> HIDE DEF a, b, c
  <1>6. MadeTo(a, 6)
    BY <1>2, MadeUp
  <1>7. MadeTo(a \o b, 7) /\ LocksOf(a \o b) = LocksOf(a) \cup LocksOf(b)
    <2>1. MadeAt(b, 7, LocksOf(a))
      BY <1>3
    <2> QED  BY <1>6, <2>1, MadeNext, SMTT(30)
  <1>8. MadeTo(a \o b \o c, 13) /\ LocksOf(a \o b \o c) = LocksOf(a \o b) \cup LocksOf(c)
    <2>1. MadeAt(c, 13, LocksOf(a \o b))
      BY <1>4
    <2> QED  BY <1>7, <2>1, MadeNext, SMTT(30)
  <1>9. LocksOf(s) = LocksOf(a) \cup LocksOf(b) \cup LocksOf(c)
    BY <1>7, <1>8
  <1>10. Kept({<<"document", d>>}, LocksOf(s))
    <2>1. <<HomeOf("document"), d>> \in LocksOf(s)
      BY <1>2, <1>3, <1>4, <1>9, <1>1, HomesAre
    <2> QED  BY <2>1, KeptOne
  <1>11. Kept({"free", "balance"} \X in, LocksOf(s))
    <2>1. \A kind \in {"free", "balance"}, id \in in : <<HomeOf(kind), id>> \in LocksOf(s)
      BY <1>2, <1>3, <1>4, <1>9, <1>1, HomesAre
    <2> QED  BY <2>1, KeptAll
  <1>12. Kept({"balance"} \X out, LocksOf(s))
    <2>1. \A kind \in {"balance"}, id \in out : <<HomeOf(kind), id>> \in LocksOf(s)
      BY <1>2, <1>3, <1>4, <1>9, <1>1, HomesAre
    <2> QED  BY <2>1, KeptAll
  <1>13. Kept({<<"document", d>>} \cup ({"free", "balance"} \X in) \cup ({"balance"} \X out), LocksOf(s))
    BY <1>10, <1>11, <1>12, KeptBoth
  <1>14. MadeTo(s, 13) /\ 13 \in 0..14
    BY <1>8
  <1> HIDE DEF s
  <1> QED  BY <1>5, <1>13, <1>14, SoundHandler

LEMMA SoundStockPlans == \A p \in StockPlans : Sound(p)
  <1>1. \A S \in SUBSET Materials : Sound(StockIn(S)) /\ Sound(StockOut(S)) /\ Sound(CreateDocument(S))
    BY SoundStockIn, SoundStockOut, SoundCreateDocument
  <1>2. \A d \in Documents, S \in SUBSET Materials : Sound(ChangeDocument(d, S)) /\ Sound(PostInventory(d, S))
    BY SoundChangeDocument, SoundPostInventory
  <1>3. \A d \in Documents : Sound(ArchiveDocument(d))
    BY SoundArchiveDocument
  <1>4. \A in, out \in SUBSET Materials : /\ Sound(Manufacture(in, out))
                                          /\ \A d \in Documents : Sound(PostTransfer(d, in, out))
    BY SoundManufacture, SoundPostTransfer
  <1> DEFINE Some == (SUBSET Materials) \ {{}}
             Single == {{m} : m \in Materials}
             Pairs == {q \in Single \X Single : q[1] # q[2]}
  <1>5. (\A S \in Some : S \in SUBSET Materials) /\ (\A S \in Single : S \in SUBSET Materials)
    OBVIOUS
  <1>6. \A q \in Pairs : q[1] \in SUBSET Materials /\ q[2] \in SUBSET Materials
    <2> HIDE DEF Single
    <2> QED  BY <1>5
  <1> SUFFICES ASSUME NEW p \in StockPlans PROVE Sound(p)
    OBVIOUS
  <1>7. StockPlans =
        {StockIn(S) : S \in Some} \cup {StockOut(S) : S \in Some}
          \cup {Manufacture(in, out) : in, out \in Single}
          \cup {CreateDocument(S) : S \in Some}
          \cup {ChangeDocument(d, S) : d \in Documents, S \in Some}
          \cup {ArchiveDocument(d) : d \in Documents}
          \cup {PostInventory(d, S) : d \in Documents, S \in Some}
          \cup {PostTransfer(d, q[1], q[2]) : d \in Documents, q \in Pairs}
    BY DEF StockPlans
  <1> HIDE DEF Some, Single, Pairs
  <1>8. \/ \E S \in Some : p = StockIn(S) \/ p = StockOut(S) \/ p = CreateDocument(S)
        \/ \E in, out \in Single : p = Manufacture(in, out)
        \/ \E d \in Documents, S \in Some : p = ChangeDocument(d, S) \/ p = PostInventory(d, S)
        \/ \E d \in Documents : p = ArchiveDocument(d)
        \/ \E d \in Documents, q \in Pairs : p = PostTransfer(d, q[1], q[2])
    BY <1>7
  <1> QED  BY <1>1, <1>2, <1>3, <1>4, <1>5, <1>6, <1>8

------------------------------------------------------------------------------
(* The handlers of norms and of requests for materials                       *)

\* Steps of two ranks, whatever was locked before
LEMMA MadeTwo ==
    ASSUME NEW a, NEW b, NEW j \in Nat, NEW k \in Nat, NEW G, j < k,
           MadeAt(a, j, G), MadeAt(b, k, G \cup LocksOf(a))
    PROVE  MadeFrom(a \o b, j, k, G) /\ LocksOf(a \o b) = LocksOf(a) \cup LocksOf(b)
  <1> DEFINE Q == {j}
             R == {k}
  <1>1. (\A x \in Q, y \in R : x < y) /\ Q \cup R \subseteq j..k /\ G \subseteq G
    OBVIOUS
  <1>2. Made(a, Q, G) /\ Made(b, R, G \cup LocksOf(a))
    BY DEF MadeAt
  <1> HIDE DEF Q, R
  <1>3. Made(a \o b, Q \cup R, G) /\ LocksOf(a \o b) = LocksOf(a) \cup LocksOf(b)
    BY <1>1, <1>2, MadeThen
  <1> QED  BY <1>1, <1>3, MadeMore DEF MadeFrom

LEMMA MadeAtAlso ==
    ASSUME NEW a, NEW b, NEW k, NEW G, MadeAt(a, k, G), MadeFree(b, G \cup LocksOf(a))
    PROVE  MadeAt(a \o b, k, G) /\ LocksOf(a \o b) = LocksOf(a) \cup LocksOf(b)
  <1> DEFINE R == {k}
  <1>1. Made(a, R, G) /\ Made(b, {}, G \cup LocksOf(a))
    BY DEF MadeAt, MadeFree
  <1> HIDE DEF R
  <1>2. Made(a \o b, R, G) /\ LocksOf(a \o b) = LocksOf(a) \cup LocksOf(b)
    BY <1>1, MadeThenFree
  <1> QED  BY <1>2 DEF MadeAt, R

LEMMA MadeChangeNorm ==
    ASSUME NEW n \in Norms
    PROVE  \A G : /\ MadeFrom(ChangeNorm(n).steps, 11, 13, G)
                  /\ <<"norm", n>> \in LocksOf(ChangeNorm(n).steps)
  <1> DEFINE a == Lock("norm", n, {"norm"})
             b == Cache("production")
             m == NormMaterial[n]
             c == Share("material", m)
  <1>1. \A G : MadeAt(a, 11, G) /\ LocksOf(a) = {<<"norm", n>>}
    BY MadeOwn, RanksAre, Rows
  <1>2. \A G : MadeFree(b, G)
    BY FreeCache
  <1>3. \A G : MadeAt(c, 13, G)
    <2>1. m \in Ids /\ "material" \in Tables /\ "material" # "hold"
      BY LocksAssumption, Rows DEF Names, Tables
    <2>2. \A G : Made(c, {RankOf("material")}, G)
      BY <2>1, MadeShare
    <2> QED  BY <2>2, RanksAre DEF MadeAt
  <1>4. ChangeNorm(n).steps = a \o b \o c
    BY DEF ChangeNorm, Handler
  <1> HIDE DEF a, b, c
  <1> SUFFICES ASSUME NEW G PROVE MadeFrom(a \o b \o c, 11, 13, G) /\ <<"norm", n>> \in LocksOf(a \o b \o c)
    BY <1>4
  <1>5. MadeAt(a \o b, 11, G) /\ LocksOf(a \o b) = LocksOf(a) \cup LocksOf(b)
    <2>1. MadeAt(a, 11, G) /\ MadeFree(b, G \cup LocksOf(a))
      BY <1>1, <1>2
    <2> QED  BY <2>1, MadeAtAlso
  <1>6. /\ MadeFrom(a \o b \o c, 11, 13, G)
        /\ LocksOf(a \o b \o c) = LocksOf(a \o b) \cup LocksOf(c)
    <2>1. MadeAt(c, 13, G \cup LocksOf(a \o b))
      BY <1>3
    <2> QED  BY <1>5, <2>1, MadeTwo
  <1> QED  BY <1>1, <1>5, <1>6

LEMMA SoundChangeNorm ==
    ASSUME NEW n \in Norms
    PROVE  Sound(ChangeNorm(n))
  <1> DEFINE s == ChangeNorm(n).steps
  <1>1. ChangeNorm(n) = Handler(s, {<<"norm", n>>})
    BY DEF ChangeNorm, Handler
  <1>2. MadeTo(s, 13) /\ 13 \in 0..14
    <2>1. MadeFrom(s, 11, 13, {})
      BY MadeChangeNorm
    <2> HIDE DEF s
    <2> QED  BY <2>1, MadeFromUp
  <1>3. <<HomeOf("norm"), n>> \in LocksOf(s)
    BY MadeChangeNorm, HomesAre
  <1>4. Kept({<<"norm", n>>}, LocksOf(s))
    BY <1>3, KeptOne
  <1> HIDE DEF s
  <1> QED  BY <1>1, <1>2, <1>4, SoundHandler

LEMMA SoundIssueByTechcard ==
    ASSUME NEW h \in Houses, NEW mats \in SUBSET Materials
    PROVE  Sound(IssueByTechcard(h, mats))
  <1> DEFINE a == LockAll("norm", NormsOf(h, Materials), {"norm"})
             b == LockAll("material", mats, {"free", "balance"})
             c == ConsumeAll(mats, h)
             d == Cache("production")
             s == a \o b \o c \o d
  <1>1. NormsOf(h, Materials) \in SUBSET Norms /\ NormsOf(h, mats) \subseteq NormsOf(h, Materials)
    BY DEF NormsOf
  <1>2. \A G : MadeAt(a, 11, G) /\ LocksOf(a) = {"norm"} \X NormsOf(h, Materials)
    BY <1>1, MadeNorms
  <1>3. \A G : MadeAt(b, 13, G) /\ LocksOf(b) = {"material"} \X mats
    BY <1>1, MadeMaterials, Kinds
  <1>4. \A G : MadeFree(d, G)
    BY <1>1, FreeCache
  <1>5. IssueByTechcard(h, mats) = Handler(s, ({"norm"} \X NormsOf(h, mats)) \cup ({"free", "balance"} \X mats) \cup Consumed(mats, h))
    BY DEF IssueByTechcard, Taking, Taken
  <1> HIDE DEF a, b, d
  <1>6. MadeTo(a, 11)
    BY <1>2, MadeUp
  <1>7. MadeTo(a \o b, 13) /\ LocksOf(a \o b) = LocksOf(a) \cup LocksOf(b)
    <2>1. MadeAt(b, 13, LocksOf(a))
      BY <1>3
    <2> QED  BY <1>6, <2>1, MadeNext, SMTT(30)
  <1>8. MadeFree(c, LocksOf(a \o b)) /\ Kept(Consumed(mats, h), LocksOf(c))
    <2>1. {"material"} \X mats \subseteq LocksOf(a \o b)
      BY <1>3, <1>7
    <2> QED  BY <2>1, MadeConsumeAll DEF c
  <1> HIDE DEF c
  <1>9. MadeTo(a \o b \o c, 13) /\ LocksOf(a \o b \o c) = LocksOf(a \o b) \cup LocksOf(c)
    <2>1. MadeFree(c, LocksOf(a \o b))
      BY <1>8
    <2> QED  BY <1>7, <2>1, MadeAlso, SMTT(30)
  <1>10. MadeTo(a \o b \o c \o d, 13) /\ LocksOf(a \o b \o c \o d) = LocksOf(a \o b \o c) \cup LocksOf(d)
    <2>1. MadeFree(d, LocksOf(a \o b \o c))
      BY <1>4
    <2> QED  BY <1>9, <2>1, MadeAlso, ZenonT(30)
  <1>11. LocksOf(s) = LocksOf(a) \cup LocksOf(b) \cup LocksOf(c) \cup LocksOf(d)
    BY <1>7, <1>9, <1>10
  <1>12. Kept({"norm"} \X NormsOf(h, mats), LocksOf(s))
    <2>1. \A kind \in {"norm"}, id \in NormsOf(h, mats) : <<HomeOf(kind), id>> \in LocksOf(s)
      BY <1>2, <1>3, <1>8, <1>11, <1>1, HomesAre
    <2> QED  BY <2>1, KeptAll
  <1>13. Kept({"free", "balance"} \X mats, LocksOf(s))
    <2>1. \A kind \in {"free", "balance"}, id \in mats : <<HomeOf(kind), id>> \in LocksOf(s)
      BY <1>2, <1>3, <1>8, <1>11, <1>1, HomesAre
    <2> QED  BY <2>1, KeptAll
  <1>14. Kept(Consumed(mats, h), LocksOf(s))
    <2>1. LocksOf(c) \subseteq LocksOf(s) /\ Kept(Consumed(mats, h), LocksOf(c))
      BY <1>2, <1>3, <1>8, <1>11, <1>1
    <2> QED  BY <2>1, KeptMore
  <1>15. Kept(({"norm"} \X NormsOf(h, mats)) \cup ({"free", "balance"} \X mats) \cup Consumed(mats, h), LocksOf(s))
    BY <1>12, <1>13, <1>14, KeptBoth
  <1>16. MadeTo(s, 13) /\ 13 \in 0..14
    BY <1>10
  <1> HIDE DEF s
  <1> QED  BY <1>5, <1>15, <1>16, SoundHandler

LEMMA SoundApproveRequest ==
    ASSUME NEW n \in Norms
    PROVE  Sound(ApproveRequest(n))
  <1> DEFINE m == NormMaterial[n]
             h == NormHouse[n]
             a == Lock("request", n, {"request"})
             b == Lock("norm", n, {"norm"})
             c == LockAll("material", {m}, {"free", "balance"})
             d == Cache("production")
             e == Consume(m, h)
             s == a \o b \o c \o d \o e
  <1>1. m \in Materials /\ h \in Houses
    BY LocksAssumption
  <1>2. {m} \in SUBSET Materials
    BY <1>1
  <1>3. \A G : MadeAt(a, 10, G) /\ LocksOf(a) = {<<"request", n>>}
    BY <1>1, <1>2, MadeOwn, RanksAre, Rows
  <1>4. \A G : MadeAt(b, 11, G) /\ LocksOf(b) = {<<"norm", n>>}
    BY <1>1, <1>2, MadeOwn, RanksAre, Rows
  <1>5. \A G : MadeAt(c, 13, G) /\ LocksOf(c) = {"material"} \X {m}
    BY <1>1, <1>2, MadeMaterials, Kinds
  <1>6. \A G : MadeFree(d, G)
    BY <1>1, <1>2, FreeCache
  <1>7. ApproveRequest(n) = Handler(s, {<<"request", n>>, <<"norm", n>>} \cup ({"free", "balance"} \X {m}) \cup {"hold"} \X UNION {HoldsFor(g, h) : g \in {m}})
    BY DEF ApproveRequest, Taking, Taken, Consumed
  <1> HIDE DEF a, b, c, d
  <1>8. MadeTo(a, 10)
    BY <1>3, MadeUp
  <1>9. MadeTo(a \o b, 11) /\ LocksOf(a \o b) = LocksOf(a) \cup LocksOf(b)
    <2>1. MadeAt(b, 11, LocksOf(a))
      BY <1>4
    <2> QED  BY <1>8, <2>1, MadeNext, SMTT(30)
  <1>10. MadeTo(a \o b \o c, 13) /\ LocksOf(a \o b \o c) = LocksOf(a \o b) \cup LocksOf(c)
    <2>1. MadeAt(c, 13, LocksOf(a \o b))
      BY <1>5
    <2> QED  BY <1>9, <2>1, MadeNext, SMTT(30)
  <1>11. MadeTo(a \o b \o c \o d, 13) /\ LocksOf(a \o b \o c \o d) = LocksOf(a \o b \o c) \cup LocksOf(d)
    <2>1. MadeFree(d, LocksOf(a \o b \o c))
      BY <1>6
    <2> QED  BY <1>10, <2>1, MadeAlso, ZenonT(30)
  <1>12. MadeFree(e, LocksOf(a \o b \o c \o d)) /\ \A x \in HoldsFor(m, h) : <<"hold", x>> \in LocksOf(e)
    <2>1. <<"material", m>> \in LocksOf(a \o b \o c \o d)
      BY <1>5, <1>10, <1>11
    <2>2. MadeFree(e, LocksOf(a \o b \o c \o d)) /\ {"hold"} \X HoldsFor(m, h) \subseteq LocksOf(e)
      BY <1>1, <2>1, MadeConsume DEF e
    <2>3. \A x \in HoldsFor(m, h) : <<"hold", x>> \in LocksOf(e)
      BY <2>2
    <2> QED  BY <2>2, <2>3
  <1> HIDE DEF e
  <1>13. MadeTo(a \o b \o c \o d \o e, 13) /\ LocksOf(a \o b \o c \o d \o e) = LocksOf(a \o b \o c \o d) \cup LocksOf(e)
    <2>1. MadeFree(e, LocksOf(a \o b \o c \o d))
      BY <1>12
    <2> QED  BY <1>11, <2>1, MadeAlso, SMTT(30)
  <1>14. LocksOf(s) = LocksOf(a) \cup LocksOf(b) \cup LocksOf(c) \cup LocksOf(d) \cup LocksOf(e)
    BY <1>9, <1>10, <1>11, <1>13
  <1>15. Kept({<<"request", n>>, <<"norm", n>>}, LocksOf(s))
    <2>1. <<HomeOf("request"), n>> \in LocksOf(s) /\ <<HomeOf("norm"), n>> \in LocksOf(s)
      BY <1>3, <1>4, <1>5, <1>12, <1>14, <1>1, <1>2, HomesAre
    <2> QED  BY <2>1, KeptTwo
  <1>16. Kept({"free", "balance"} \X {m}, LocksOf(s))
    <2>1. \A kind \in {"free", "balance"}, id \in {m} : <<HomeOf(kind), id>> \in LocksOf(s)
      BY <1>3, <1>4, <1>5, <1>12, <1>14, <1>1, <1>2, HomesAre
    <2> QED  BY <2>1, KeptAll
  <1>17. Kept({"hold"} \X UNION {HoldsFor(g, h) : g \in {m}}, LocksOf(s))
    <2>1. UNION {HoldsFor(g, h) : g \in {m}} = HoldsFor(m, h)
      OBVIOUS
    <2>2. \A kind \in {"hold"}, id \in HoldsFor(m, h) : <<HomeOf(kind), id>> \in LocksOf(s)
      BY <1>3, <1>4, <1>5, <1>12, <1>14, <1>1, <1>2, HomesAre
    <2>3. Kept({"hold"} \X HoldsFor(m, h), LocksOf(s))
      BY <2>2, KeptAll
    <2> QED  BY <2>1, <2>3
  <1>18. Kept({<<"request", n>>, <<"norm", n>>} \cup ({"free", "balance"} \X {m}) \cup {"hold"} \X UNION {HoldsFor(g, h) : g \in {m}}, LocksOf(s))
    BY <1>15, <1>16, <1>17, KeptBoth
  <1>19. MadeTo(s, 13) /\ 13 \in 0..14
    BY <1>13
  <1> HIDE DEF s
  <1> QED  BY <1>7, <1>18, <1>19, SoundHandler

LEMMA SoundRejectRequest ==
    ASSUME NEW n \in Norms
    PROVE  Sound(RejectRequest(n))
  <1> DEFINE a == Lock("request", n, {"request"})
             b == ChangeNorm(n).steps
             s == a \o b
  <1>1. \A G : MadeAt(a, 10, G) /\ LocksOf(a) = {<<"request", n>>}
    BY MadeOwn, RanksAre, Rows
  <1>2. \A G : MadeFrom(b, 11, 13, G) /\ <<"norm", n>> \in LocksOf(b)
    BY MadeChangeNorm
  <1>3. RejectRequest(n) = Handler(s, {<<"request", n>>, <<"norm", n>>})
    BY DEF RejectRequest
  <1> HIDE DEF a, b
  <1>4. MadeTo(a, 10)
    BY <1>1, MadeUp
  <1>5. MadeTo(a \o b, 13) /\ LocksOf(a \o b) = LocksOf(a) \cup LocksOf(b)
    <2>1. MadeFrom(b, 11, 13, LocksOf(a))
      BY <1>2
    <2> QED  BY <1>4, <2>1, MadeOnTop
  <1>6. LocksOf(s) = LocksOf(a) \cup LocksOf(b)
    BY <1>5
  <1>7. Kept({<<"request", n>>, <<"norm", n>>}, LocksOf(s))
    <2>1. <<HomeOf("request"), n>> \in LocksOf(s) /\ <<HomeOf("norm"), n>> \in LocksOf(s)
      BY <1>1, <1>2, <1>6, HomesAre
    <2> QED  BY <2>1, KeptTwo
  <1>8. MadeTo(s, 13) /\ 13 \in 0..14
    BY <1>5
  <1> HIDE DEF s
  <1> QED  BY <1>3, <1>7, <1>8, SoundHandler

LEMMA SoundAddNorm ==
    ASSUME NEW m \in Materials
    PROVE  Sound(AddNorm(m))
  <1> DEFINE a == Share("material", m)
             b == Cache("production")
             s == a \o b
  <1>1. \A G : MadeAt(a, 13, G)
    <2>1. m \in Ids /\ "material" \in Tables /\ "material" # "hold"
      BY Rows DEF Names, Tables
    <2>2. \A G : Made(a, {RankOf("material")}, G)
      BY <2>1, MadeShare
    <2> QED  BY <2>2, RanksAre DEF MadeAt
  <1>2. \A G : MadeFree(b, G)
    BY FreeCache
  <1>3. AddNorm(m) = Handler(s, {})
    BY DEF AddNorm
  <1> HIDE DEF a, b
  <1>4. MadeTo(a, 13)
    BY <1>1, MadeUp
  <1>5. MadeTo(a \o b, 13) /\ LocksOf(a \o b) = LocksOf(a) \cup LocksOf(b)
    <2>1. MadeFree(b, LocksOf(a))
      BY <1>2
    <2> QED  BY <1>4, <2>1, MadeAlso, SMTT(30)
  <1>6. LocksOf(s) = LocksOf(a) \cup LocksOf(b)
    BY <1>5
  <1>7. Kept({}, LocksOf(s))
    BY KeptNothing
  <1>8. MadeTo(s, 13) /\ 13 \in 0..14
    BY <1>5
  <1> HIDE DEF s
  <1> QED  BY <1>3, <1>7, <1>8, SoundHandler

LEMMA SoundNormPlans == \A p \in NormPlans : Sound(p)
  <1> DEFINE Needed(h) == (SUBSET {NormMaterial[n] : n \in NormsOf(h, Materials)}) \ {{}}
  <1>1. \A h \in Houses : \A S \in Needed(h) : S \in SUBSET Materials
    <2>1. \A n \in Norms : NormMaterial[n] \in Materials
      BY LocksAssumption
    <2> QED  BY <2>1 DEF NormsOf
  <1> SUFFICES ASSUME NEW p \in NormPlans PROVE Sound(p)
    OBVIOUS
  <1>2. NormPlans =
        (UNION {{IssueByTechcard(h, S) : S \in Needed(h)} : h \in Houses})
          \cup {ApproveRequest(n) : n \in Norms} \cup {RejectRequest(n) : n \in Norms}
          \cup {ChangeNorm(n) : n \in Norms} \cup {AddNorm(m) : m \in Materials}
    BY DEF NormPlans
  <1> HIDE DEF Needed
  <1>3. \/ \E h \in Houses : \E S \in Needed(h) : p = IssueByTechcard(h, S)
        \/ \E n \in Norms : p = ApproveRequest(n) \/ p = RejectRequest(n) \/ p = ChangeNorm(n)
        \/ \E m \in Materials : p = AddNorm(m)
    BY <1>2
  <1>4. CASE \E h \in Houses : \E S \in Needed(h) : p = IssueByTechcard(h, S)
    BY <1>1, <1>4, SoundIssueByTechcard
  <1>5. CASE \E n \in Norms : p = ApproveRequest(n) \/ p = RejectRequest(n) \/ p = ChangeNorm(n)
    BY <1>5, SoundApproveRequest, SoundRejectRequest, SoundChangeNorm
  <1>6. CASE \E m \in Materials : p = AddNorm(m)
    BY <1>6, SoundAddNorm
  <1> QED  BY <1>3, <1>4, <1>5, <1>6

------------------------------------------------------------------------------
(* The handlers of sales                                                     *)

LEMMA SoundChangeSalesOrder ==
    ASSUME NEW o \in SalesOrders
    PROVE  Sound(ChangeSalesOrder(o))
  <1> DEFINE a == Lock("sales_order", o, {"sales_order"})
             s == a
  <1>1. \A G : MadeAt(a, 8, G) /\ LocksOf(a) = {<<"sales_order", o>>}
    BY MadeOwn, RanksAre, Rows
  <1>2. ChangeSalesOrder(o) = Handler(s, {<<"sales_order", o>>})
    BY DEF ChangeSalesOrder
  <1> HIDE DEF a
  <1>3. MadeTo(a, 8)
    BY <1>1, MadeUp
  <1>4. Kept({<<"sales_order", o>>}, LocksOf(s))
    <2>1. <<HomeOf("sales_order"), o>> \in LocksOf(s)
      BY <1>1, HomesAre
    <2> QED  BY <2>1, KeptOne
  <1>5. MadeTo(s, 8) /\ 8 \in 0..14
    BY <1>3
  <1> HIDE DEF s
  <1> QED  BY <1>2, <1>4, <1>5, SoundHandler

LEMMA SoundArchiveShipment ==
    ASSUME NEW o \in SalesOrders
    PROVE  Sound(ArchiveShipment(o))
  <1> DEFINE a == Lock("sales_order", o, {"sales_order"})
             b == Lock("shipment", o, {"shipment"})
             s == a \o b
  <1>1. \A G : MadeAt(a, 8, G) /\ LocksOf(a) = {<<"sales_order", o>>}
    BY MadeOwn, RanksAre, Rows
  <1>2. \A G : MadeAt(b, 9, G) /\ LocksOf(b) = {<<"shipment", o>>}
    BY MadeOwn, RanksAre, Rows
  <1>3. ArchiveShipment(o) = Handler(s, {<<"shipment", o>>})
    BY DEF ArchiveShipment, LockShipment
  <1> HIDE DEF a, b
  <1>4. MadeTo(a, 8)
    BY <1>1, MadeUp
  <1>5. MadeTo(a \o b, 9) /\ LocksOf(a \o b) = LocksOf(a) \cup LocksOf(b)
    <2>1. MadeAt(b, 9, LocksOf(a))
      BY <1>2
    <2> QED  BY <1>4, <2>1, MadeNext, SMTT(30)
  <1>6. LocksOf(s) = LocksOf(a) \cup LocksOf(b)
    BY <1>5
  <1>7. Kept({<<"shipment", o>>}, LocksOf(s))
    <2>1. <<HomeOf("shipment"), o>> \in LocksOf(s)
      BY <1>1, <1>2, <1>6, HomesAre
    <2> QED  BY <2>1, KeptOne
  <1>8. MadeTo(s, 9) /\ 9 \in 0..14
    BY <1>5
  <1> HIDE DEF s
  <1> QED  BY <1>3, <1>7, <1>8, SoundHandler

LEMMA SoundPostShipment ==
    ASSUME NEW o \in SalesOrders, NEW mats \in SUBSET Materials
    PROVE  Sound(PostShipment(o, mats))
  <1> DEFINE holds == {x \in Holds : HoldOrder[x] = o /\ HoldMaterial[x] \in mats}
             a == Lock("sales_order", o, {"sales_order"})
             b == Lock("shipment", o, {"shipment"})
             c == LockAll("material", mats, {"free", "balance"})
             d == LockAll("hold", holds, {"hold"})
             e == ForHouse(Null)
             s == a \o b \o c \o d \o e
  <1>1. holds \in SUBSET Holds /\ \A x \in holds : HoldMaterial[x] \in mats
    OBVIOUS
  <1>2. \A G : MadeAt(a, 8, G) /\ LocksOf(a) = {<<"sales_order", o>>}
    BY <1>1, MadeOwn, RanksAre, Rows
  <1>3. \A G : MadeAt(b, 9, G) /\ LocksOf(b) = {<<"shipment", o>>}
    BY <1>1, MadeOwn, RanksAre, Rows
  <1>4. \A G : MadeAt(c, 13, G) /\ LocksOf(c) = {"material"} \X mats
    BY <1>1, MadeMaterials, Kinds
  <1>5. \A G : MadeFree(e, G)
    BY <1>1, FreeForHouse
  <1>6. PostShipment(o, mats) = Handler(s, {<<"sales_order", o>>, <<"shipment", o>>} \cup ({"free", "balance"} \X mats) \cup ({"hold"} \X holds))
    BY DEF PostShipment, LockShipment, Taking, Taken
  <1> HIDE DEF a, b, c, e
  <1>7. MadeTo(a, 8)
    BY <1>2, MadeUp
  <1>8. MadeTo(a \o b, 9) /\ LocksOf(a \o b) = LocksOf(a) \cup LocksOf(b)
    <2>1. MadeAt(b, 9, LocksOf(a))
      BY <1>3
    <2> QED  BY <1>7, <2>1, MadeNext, SMTT(30)
  <1>9. MadeTo(a \o b \o c, 13) /\ LocksOf(a \o b \o c) = LocksOf(a \o b) \cup LocksOf(c)
    <2>1. MadeAt(c, 13, LocksOf(a \o b))
      BY <1>4
    <2> QED  BY <1>8, <2>1, MadeNext, SMTT(30)
  <1>10. MadeFree(d, LocksOf(a \o b \o c)) /\ LocksOf(d) = {"hold"} \X holds
    <2>1. {"material"} \X mats \subseteq LocksOf(a \o b \o c)
      BY <1>4, <1>9
    <2>2. \A x \in holds : <<"material", HoldMaterial[x]>> \in LocksOf(a \o b \o c)
      BY <1>1, <2>1
    <2> QED  BY <1>1, <2>2, MadeHolds DEF d
  <1> HIDE DEF d
  <1>11. MadeTo(a \o b \o c \o d, 13) /\ LocksOf(a \o b \o c \o d) = LocksOf(a \o b \o c) \cup LocksOf(d)
    <2>1. MadeFree(d, LocksOf(a \o b \o c))
      BY <1>10
    <2> QED  BY <1>9, <2>1, MadeAlso, ZenonT(30)
  <1>12. MadeTo(a \o b \o c \o d \o e, 13) /\ LocksOf(a \o b \o c \o d \o e) = LocksOf(a \o b \o c \o d) \cup LocksOf(e)
    <2>1. MadeFree(e, LocksOf(a \o b \o c \o d))
      BY <1>5
    <2> QED  BY <1>11, <2>1, MadeAlso, SMTT(30)
  <1>13. LocksOf(s) = LocksOf(a) \cup LocksOf(b) \cup LocksOf(c) \cup LocksOf(d) \cup LocksOf(e)
    BY <1>8, <1>9, <1>11, <1>12
  <1>14. Kept({<<"sales_order", o>>, <<"shipment", o>>}, LocksOf(s))
    <2>1. <<HomeOf("sales_order"), o>> \in LocksOf(s) /\ <<HomeOf("shipment"), o>> \in LocksOf(s)
      BY <1>2, <1>3, <1>4, <1>10, <1>13, <1>1, HomesAre
    <2> QED  BY <2>1, KeptTwo
  <1>15. Kept({"free", "balance"} \X mats, LocksOf(s))
    <2>1. \A kind \in {"free", "balance"}, id \in mats : <<HomeOf(kind), id>> \in LocksOf(s)
      BY <1>2, <1>3, <1>4, <1>10, <1>13, <1>1, HomesAre
    <2> QED  BY <2>1, KeptAll
  <1>16. Kept({"hold"} \X holds, LocksOf(s))
    <2>1. \A kind \in {"hold"}, id \in holds : <<HomeOf(kind), id>> \in LocksOf(s)
      BY <1>2, <1>3, <1>4, <1>10, <1>13, <1>1, HomesAre
    <2> QED  BY <2>1, KeptAll
  <1>17. Kept({<<"sales_order", o>>, <<"shipment", o>>} \cup ({"free", "balance"} \X mats) \cup ({"hold"} \X holds), LocksOf(s))
    BY <1>14, <1>15, <1>16, KeptBoth
  <1>18. MadeTo(s, 13) /\ 13 \in 0..14
    BY <1>12
  <1> HIDE DEF s
  <1> QED  BY <1>6, <1>17, <1>18, SoundHandler

LEMMA SoundCancelShipment ==
    ASSUME NEW o \in SalesOrders, NEW mats \in SUBSET Materials
    PROVE  Sound(CancelShipment(o, mats))
  <1> DEFINE a == Lock("sales_order", o, {"sales_order"})
             b == Lock("shipment", o, {"shipment"})
             c == LockAll("material", mats, {"balance"})
             d == ForHouse(Null)
             s == a \o b \o c \o d
  <1>1. \A G : MadeAt(a, 8, G) /\ LocksOf(a) = {<<"sales_order", o>>}
    BY MadeOwn, RanksAre, Rows
  <1>2. \A G : MadeAt(b, 9, G) /\ LocksOf(b) = {<<"shipment", o>>}
    BY MadeOwn, RanksAre, Rows
  <1>3. \A G : MadeAt(c, 13, G) /\ LocksOf(c) = {"material"} \X mats
    BY MadeMaterials, Kinds
  <1>4. \A G : MadeFree(d, G)
    BY FreeForHouse
  <1>5. CancelShipment(o, mats) = Handler(s, {<<"sales_order", o>>, <<"shipment", o>>} \cup ({"balance"} \X mats))
    BY DEF CancelShipment, LockShipment
  <1> HIDE DEF a, b, c, d
  <1>6. MadeTo(a, 8)
    BY <1>1, MadeUp
  <1>7. MadeTo(a \o b, 9) /\ LocksOf(a \o b) = LocksOf(a) \cup LocksOf(b)
    <2>1. MadeAt(b, 9, LocksOf(a))
      BY <1>2
    <2> QED  BY <1>6, <2>1, MadeNext, SMTT(30)
  <1>8. MadeTo(a \o b \o c, 13) /\ LocksOf(a \o b \o c) = LocksOf(a \o b) \cup LocksOf(c)
    <2>1. MadeAt(c, 13, LocksOf(a \o b))
      BY <1>3
    <2> QED  BY <1>7, <2>1, MadeNext, SMTT(30)
  <1>9. MadeTo(a \o b \o c \o d, 13) /\ LocksOf(a \o b \o c \o d) = LocksOf(a \o b \o c) \cup LocksOf(d)
    <2>1. MadeFree(d, LocksOf(a \o b \o c))
      BY <1>4
    <2> QED  BY <1>8, <2>1, MadeAlso, ZenonT(30)
  <1>10. LocksOf(s) = LocksOf(a) \cup LocksOf(b) \cup LocksOf(c) \cup LocksOf(d)
    BY <1>7, <1>8, <1>9
  <1>11. Kept({<<"sales_order", o>>, <<"shipment", o>>}, LocksOf(s))
    <2>1. <<HomeOf("sales_order"), o>> \in LocksOf(s) /\ <<HomeOf("shipment"), o>> \in LocksOf(s)
      BY <1>1, <1>2, <1>3, <1>10, HomesAre
    <2> QED  BY <2>1, KeptTwo
  <1>12. Kept({"balance"} \X mats, LocksOf(s))
    <2>1. \A kind \in {"balance"}, id \in mats : <<HomeOf(kind), id>> \in LocksOf(s)
      BY <1>1, <1>2, <1>3, <1>10, HomesAre
    <2> QED  BY <2>1, KeptAll
  <1>13. Kept({<<"sales_order", o>>, <<"shipment", o>>} \cup ({"balance"} \X mats), LocksOf(s))
    BY <1>11, <1>12, KeptBoth
  <1>14. MadeTo(s, 13) /\ 13 \in 0..14
    BY <1>9
  <1> HIDE DEF s
  <1> QED  BY <1>5, <1>13, <1>14, SoundHandler

LEMMA SoundSalesPlans == \A p \in SalesPlans : Sound(p)
  <1> DEFINE Sold(o) == SUBSET OrderMaterials[o]
             Shipped(o) == (SUBSET OrderMaterials[o]) \ {{}}
  <1>1. \A o \in SalesOrders : (\A S \in Sold(o) : S \in SUBSET Materials) /\ (\A S \in Shipped(o) : S \in SUBSET Materials)
    BY LocksAssumption
  <1> SUFFICES ASSUME NEW p \in SalesPlans PROVE Sound(p)
    OBVIOUS
  <1>2. SalesPlans =
        UNION {{ChangeSalesOrder(o), ArchiveShipment(o)}
                 \cup {PostShipment(o, S) : S \in Shipped(o)}
                 \cup {CancelShipment(o, S) : S \in Sold(o)} : o \in SalesOrders}
    BY DEF SalesPlans
  <1> HIDE DEF Sold, Shipped
  <1>3. PICK o \in SalesOrders :
           \/ p = ChangeSalesOrder(o) \/ p = ArchiveShipment(o)
           \/ \E S \in Shipped(o) : p = PostShipment(o, S)
           \/ \E S \in Sold(o) : p = CancelShipment(o, S)
    BY <1>2
  <1> QED  BY <1>1, <1>3, SoundChangeSalesOrder, SoundArchiveShipment, SoundPostShipment, SoundCancelShipment

------------------------------------------------------------------------------
(* The handlers of purchases and of money                                    *)

\* What is broken of an order that is none, nobody reads.
LEMMA KeptOrders ==
    ASSUME NEW kinds, NEW p \in Purchases, NEW locks,
           \A kind \in kinds : \/ kind \in {"order", "payable"} /\ p \notin Ordered
                               \/ <<HomeOf(kind), p>> \in locks
    PROVE  Kept(kinds \X {p}, locks)
  <1> SUFFICES ASSUME NEW f \in kinds \X {p} PROVE f \in Unread \/ Home(f) \in locks
    BY DEF Kept
  <1>1. f = <<f[1], f[2]>> /\ f[1] \in kinds /\ f[2] = p
    OBVIOUS
  <1>2. CASE f[1] \in {"order", "payable"} /\ p \notin Ordered
    <2>1. <<f[1], p>> \in Unread
      BY <1>2 DEF Unread
    <2> QED  BY <1>1, <2>1
  <1>3. CASE <<HomeOf(f[1]), p>> \in locks
    BY <1>1, <1>3 DEF Home
  <1> QED  BY <1>1, <1>2, <1>3

LEMMA KeptOrder ==
    ASSUME NEW kind \in {"order", "payable"}, NEW p \in Purchases, NEW locks, p \in Ordered => <<"order", p>> \in locks
    PROVE  Kept({<<kind, p>>}, locks)
  <1>1. \A x \in {kind} : \/ x \in {"order", "payable"} /\ p \notin Ordered
                          \/ <<HomeOf(x), p>> \in locks
    BY HomesAre
  <1>2. Kept({kind} \X {p}, locks)
    BY <1>1, KeptOrders
  <1>3. {kind} \X {p} = {<<kind, p>>}
    OBVIOUS
  <1> QED  BY <1>2, <1>3

LEMMA MadeOrder ==
    ASSUME NEW p \in Purchases, NEW kinds \in SUBSET {"order", "payable"}
    PROVE  \A G : /\ MadeAt(LockOrder(p, kinds), 3, G)
                  /\ p \in Ordered => LocksOf(LockOrder(p, kinds)) = {<<"order", p>>}
  <1> SUFFICES ASSUME NEW G
               PROVE  /\ MadeAt(LockOrder(p, kinds), 3, G)
                      /\ p \in Ordered => LocksOf(LockOrder(p, kinds)) = {<<"order", p>>}
    OBVIOUS
  <1>1. CASE p \in Ordered
    <2>1. "order" \in Tables /\ p \in Ids /\ kinds \in SUBSET Names /\ "order" # "hold"
      BY Rows DEF Names, Tables
    <2>2. \A kind \in kinds : HomeOf(kind) = "order"
      BY HomesAre
    <2>3. Made(Lock("order", p, kinds), {RankOf("order")}, G) /\ LocksOf(Lock("order", p, kinds)) = {<<"order", p>>}
      BY <1>1, <2>1, <2>2, MadeLock
    <2> QED  BY <1>1, <2>3, RanksAre DEF LockOrder, MadeAt
  <1>2. CASE p \notin Ordered
    <2>1. LockOrder(p, kinds) = <<>>
      BY <1>2 DEF LockOrder
    <2> QED  BY <1>2, <2>1, MadeFreeNothing, MadeAny
  <1> QED  BY <1>1, <1>2

LEMMA MadeTotals ==
    \A G : MadeAt(LockTotals, 14, G) /\ LocksOf(LockTotals) = {<<"supplier", 1>>}
  <1>1. "supplier" \in Tables \ {"hold", "order"} /\ 1 \in Ids /\ {"totals"} \in SUBSET Names
    BY Rows DEF Names, Tables
  <1>2. \A kind \in {"totals"} : HomeOf(kind) = "supplier"
    BY HomesAre
  <1> QED  BY <1>1, <1>2, MadeOne, RanksAre DEF LockTotals

\* ... if they change at all
LEMMA MadeTotalsIf ==
    ASSUME NEW changed \in BOOLEAN
    PROVE  \A G : /\ MadeAt(IF changed THEN LockTotals ELSE <<>>, 14, G)
                  /\ changed => LocksOf(IF changed THEN LockTotals ELSE <<>>) = {<<"supplier", 1>>}
  <1>1. \A G : MadeAt(<<>>, 14, G)
    BY MadeFreeNothing, MadeAny
  <1>2. CASE changed
    BY <1>2, MadeTotals
  <1>3. CASE ~changed
    BY <1>1, <1>3
  <1> QED  BY <1>2, <1>3

\* A new row refers to the supplier, whose totals it may change.
LEMMA MadeReferTotals ==
    ASSUME NEW changed \in BOOLEAN
    PROVE  \A G : /\ MadeAt(Share("supplier", 1) \o (IF changed THEN LockTotals ELSE <<>>), 14, G)
                  /\ changed => LocksOf(Share("supplier", 1) \o (IF changed THEN LockTotals ELSE <<>>)) = {<<"supplier", 1>>}
  <1> DEFINE kinds == {"totals"}
             a == Share("supplier", 1)
             b == IF changed THEN LockTotals ELSE <<>>
  <1>1. "supplier" \in Tables \ {"hold", "order"} /\ 1 \in Ids /\ kinds \in SUBSET Names /\ "supplier" # "hold"
    BY Rows DEF Names, Tables
  <1>2. \A kind \in kinds : HomeOf(kind) = "supplier"
    BY HomesAre
  <1>3. CASE changed
    <2>1. b = Lock("supplier", 1, kinds)
      BY <1>3 DEF LockTotals
    <2> HIDE DEF kinds, b
    <2>2. \A G : /\ Made(a \o Lock("supplier", 1, kinds), {RankOf("supplier")}, G)
                 /\ LocksOf(a \o Lock("supplier", 1, kinds)) = {<<"supplier", 1>>}
      BY <1>1, <1>2, MadeUpgrade
    <2>3. \A G : Made(a \o b, {14}, G) /\ LocksOf(a \o b) = {<<"supplier", 1>>}
      BY <2>1, <2>2, RanksAre
    <2> QED  BY <2>3 DEF MadeAt, b
  <1>4. CASE ~changed
    <2>1. b = <<>>
      BY <1>4
    <2> HIDE DEF a, b
    <2> SUFFICES ASSUME NEW G PROVE MadeAt(a \o b, 14, G)
      BY <1>4 DEF a, b
    <2>2. Made(a, {RankOf("supplier")}, G)
      BY <1>1, MadeShare DEF a
    <2>3. MadeAt(a, 14, G)
      BY <2>2, RanksAre DEF MadeAt
    <2>4. MadeFree(b, G \cup LocksOf(a))
      BY <2>1, MadeFreeNothing
    <2> QED  BY <2>3, <2>4, MadeAtAlso
  <1> QED  BY <1>3, <1>4

LEMMA MadeReturn ==
    ASSUME NEW p \in Purchases
    PROVE  \A G : MadeAt(LockReturn(p), 5, G) /\ LocksOf(LockReturn(p)) = {<<"return", p>>}
  <1>1. "return" \in Tables \ {"hold", "order"} /\ p \in Ids /\ {"return", "refundable"} \in SUBSET Names
    BY Rows DEF Names, Tables
  <1>2. \A kind \in {"return", "refundable"} : HomeOf(kind) = "return"
    BY HomesAre
  <1> QED  BY <1>1, <1>2, MadeOne, RanksAre DEF LockReturn

\* The rows of a payment or of a refund
PaidOf(kind, p) == p \in Purchases /\ kind \in {"payment", "refund"} /\ (kind = "payment" => p \in Ordered)

LEMMA MadeMoney ==
    ASSUME NEW kind, NEW p, PaidOf(kind, p)
    PROVE  \A G : /\ MadeFrom(MoneyRows(kind, p), 3, 5, G)
                  /\ p \in Ordered => <<"order", p>> \in LocksOf(MoneyRows(kind, p))
                  /\ kind = "refund" => <<"return", p>> \in LocksOf(MoneyRows(kind, p))
  <1> DEFINE s == MoneyRows(kind, p)
             none == {}
             a == LockOrder(p, none)
             b == LockReturn(p)
             c == LockOrder(p, {"payable"})
  <1>1. p \in Purchases
    BY DEF PaidOf
  <1>2. CASE kind = "payment"
    <2>1. p \in Ordered
      BY <1>2 DEF PaidOf
    <2>2. s = c
      BY <1>2, <2>1 DEF MoneyRows, LockOrder
    <2>3. \A G : MadeAt(c, 3, G) /\ LocksOf(c) = {<<"order", p>>}
      BY <1>1, <2>1, MadeOrder
    <2> HIDE DEF c, s
    <2>4. \A G : MadeFrom(c, 3, 5, G)
      BY <2>3, MadeAtFrom
    <2> QED  BY <1>2, <2>2, <2>3, <2>4 DEF s
  <1>3. CASE kind = "refund"
    <2>1. s = a \o b
      BY <1>3 DEF MoneyRows
    <2>2. \A G : MadeAt(a, 3, G) /\ (p \in Ordered => LocksOf(a) = {<<"order", p>>})
      <3>1. none \in SUBSET {"order", "payable"}
        OBVIOUS
      <3> HIDE DEF none
      <3> QED  BY <1>1, <3>1, MadeOrder
    <2>3. \A G : MadeAt(b, 5, G) /\ LocksOf(b) = {<<"return", p>>}
      BY <1>1, MadeReturn
    <2> HIDE DEF a, b, s
    <2>4. \A G : MadeFrom(a \o b, 3, 5, G) /\ LocksOf(a \o b) = LocksOf(a) \cup LocksOf(b)
      <3> TAKE G
      <3>1. MadeAt(a, 3, G) /\ MadeAt(b, 5, G \cup LocksOf(a))
        BY <2>2, <2>3
      <3> QED  BY <3>1, MadeTwo
    <2>5. /\ p \in Ordered => <<"order", p>> \in LocksOf(a \o b)
          /\ <<"return", p>> \in LocksOf(a \o b)
      BY <2>2, <2>3, <2>4
    <2> QED  BY <2>1, <2>4, <2>5 DEF s
  <1> QED  BY <1>2, <1>3 DEF PaidOf

LEMMA MadeMovement ==
    ASSUME NEW kind, NEW p, PaidOf(kind, p)
    PROVE  \A G : MadeFrom(Lock(kind, p, {kind}), 1, 2, G) /\ LocksOf(Lock(kind, p, {kind})) = {<<kind, p>>}
  <1>1. kind \in {"payment", "refund"} /\ p \in Ids
    BY Rows DEF PaidOf
  <1>2. \A G : MadeAt(Lock(kind, p, {kind}), RankOf(kind), G) /\ LocksOf(Lock(kind, p, {kind})) = {<<kind, p>>}
    BY <1>1, MadeOwn
  <1>3. RankOf(kind) \in 1..2
    BY <1>1, RanksAre
  <1> QED  BY <1>2, <1>3, MadeAtFrom

LEMMA KeptRoom ==
    ASSUME NEW kind, NEW p, PaidOf(kind, p), NEW locks, LocksOf(MoneyRows(kind, p)) \subseteq locks
    PROVE  Kept(Room(kind, p), locks)
  <1>1. /\ p \in Ordered => <<"order", p>> \in locks
        /\ kind = "refund" => <<"return", p>> \in locks
    BY MadeMoney
  <1>2. CASE kind = "payment"
    <2>1. <<HomeOf("payable"), p>> \in locks
      BY <1>1, <1>2, HomesAre DEF PaidOf
    <2> QED  BY <1>2, <2>1, KeptOne DEF Room
  <1>3. CASE kind = "refund"
    <2>1. <<HomeOf("refundable"), p>> \in locks
      BY <1>1, <1>3, HomesAre
    <2> QED  BY <1>3, <2>1, KeptOne DEF Room
  <1> QED  BY <1>2, <1>3 DEF PaidOf

LEMMA KeptTotals ==
    ASSUME NEW changed \in BOOLEAN, NEW locks, changed => <<"supplier", 1>> \in locks
    PROVE  Kept(IF changed THEN Totals ELSE {}, locks)
  <1>1. CASE changed
    <2>1. <<HomeOf("totals"), 1>> \in locks
      BY <1>1, HomesAre
    <2> QED  BY <1>1, <2>1, KeptOne DEF Totals
  <1>2. CASE ~changed
    BY <1>2, KeptNothing
  <1> QED  BY <1>1, <1>2

LEMMA KeptMovement ==
    ASSUME NEW kind, NEW p, PaidOf(kind, p), NEW locks, <<kind, p>> \in locks
    PROVE  Kept({<<kind, p>>}, locks)
  <1>1. HomeOf(kind) = kind
    BY HomesAre DEF PaidOf
  <1> QED  BY <1>1, KeptOne

LEMMA SoundRecalculate == Sound(Recalculate)
  <1> DEFINE a == LockTotals
             s == a
  <1>1. \A G : MadeAt(a, 14, G) /\ LocksOf(a) = {<<"supplier", 1>>}
    BY MadeTotals
  <1>2. Recalculate = Handler(s, {<<"totals", 1>>})
    BY DEF Recalculate, Totals
  <1> HIDE DEF a
  <1>3. MadeTo(a, 14)
    BY <1>1, MadeUp
  <1>4. Kept({<<"totals", 1>>}, LocksOf(s))
    <2>1. <<HomeOf("totals"), 1>> \in LocksOf(s)
      BY <1>1, HomesAre
    <2> QED  BY <2>1, KeptOne
  <1>5. MadeTo(s, 14) /\ 14 \in 0..14
    BY <1>3
  <1> HIDE DEF s
  <1> QED  BY <1>2, <1>4, <1>5, SoundHandler

LEMMA SoundCreateOrder == Sound(CreateOrder)
  <1> DEFINE a == Share("supplier", 1)
             s == a
  <1>1. \A G : MadeAt(a, 14, G)
    <2>1. "supplier" \in Tables /\ 1 \in Ids /\ "supplier" # "hold"
      BY Rows DEF Names, Tables
    <2>2. \A G : Made(a, {RankOf("supplier")}, G)
      BY <2>1, MadeShare
    <2> QED  BY <2>2, RanksAre DEF MadeAt
  <1>2. CreateOrder = Handler(s, {})
    BY DEF CreateOrder
  <1> HIDE DEF a
  <1>3. MadeTo(a, 14)
    BY <1>1, MadeUp
  <1>4. Kept({}, LocksOf(s))
    BY KeptNothing
  <1>5. MadeTo(s, 14) /\ 14 \in 0..14
    BY <1>3
  <1> HIDE DEF s
  <1> QED  BY <1>2, <1>4, <1>5, SoundHandler

LEMMA SoundChangeOrder ==
    ASSUME NEW p \in Ordered
    PROVE  Sound(ChangeOrder(p))
  <1> DEFINE a == LockOrder(p, {"order", "payable"})
             s == a
  <1>1. p \in Purchases
    BY LocksAssumption
  <1>2. \A G : MadeAt(a, 3, G) /\ LocksOf(a) = {<<"order", p>>}
    BY <1>1, MadeOrder
  <1>3. ChangeOrder(p) = Handler(s, ({"order", "payable"} \X {p}))
    BY DEF ChangeOrder, LockOrder
  <1> HIDE DEF a
  <1>4. MadeTo(a, 3)
    BY <1>2, MadeUp
  <1>5. Kept({"order", "payable"} \X {p}, LocksOf(s))
    <2>1. \A kind \in {"order", "payable"}, id \in {p} : <<HomeOf(kind), id>> \in LocksOf(s)
      BY <1>2, <1>1, HomesAre
    <2> QED  BY <2>1, KeptAll
  <1>6. MadeTo(s, 3) /\ 3 \in 0..14
    BY <1>4
  <1> HIDE DEF s
  <1> QED  BY <1>3, <1>5, <1>6, SoundHandler

LEMMA SoundReceive ==
    ASSUME NEW p \in Purchases
    PROVE  Sound(Receive(p))
  <1> DEFINE a == LockOrder(p, {"order"})
             b == LockAll("material", Goods[p], {"balance"})
             c == Share("supplier", 1)
             s == a \o b \o c
  <1>1. Goods[p] \in SUBSET Materials
    BY LocksAssumption
  <1>2. \A G : MadeAt(a, 3, G) /\ (p \in Ordered => LocksOf(a) = {<<"order", p>>})
    BY <1>1, MadeOrder
  <1>3. \A G : MadeAt(b, 13, G) /\ LocksOf(b) = {"material"} \X Goods[p]
    BY <1>1, MadeMaterials, Kinds
  <1>4. \A G : MadeAt(c, 14, G)
    <2>1. "supplier" \in Tables /\ 1 \in Ids /\ "supplier" # "hold"
      BY Rows DEF Names, Tables
    <2>2. \A G : Made(c, {RankOf("supplier")}, G)
      BY <2>1, MadeShare
    <2> QED  BY <2>2, RanksAre DEF MadeAt
  <1>5. Receive(p) = Handler(s, {<<"order", p>>} \cup ({"balance"} \X Goods[p]))
    BY DEF Receive
  <1> HIDE DEF a, b, c
  <1>6. MadeTo(a, 3)
    BY <1>2, MadeUp
  <1>7. MadeTo(a \o b, 13) /\ LocksOf(a \o b) = LocksOf(a) \cup LocksOf(b)
    <2>1. MadeAt(b, 13, LocksOf(a))
      BY <1>3
    <2>2. MadeTo(a, 3) /\ 3 < 13
      BY <1>6
    <2> QED  BY <2>1, <2>2, MadeNext
  <1>8. MadeTo(a \o b \o c, 14) /\ LocksOf(a \o b \o c) = LocksOf(a \o b) \cup LocksOf(c)
    <2>1. MadeAt(c, 14, LocksOf(a \o b))
      BY <1>4
    <2>2. MadeTo(a \o b, 13) /\ 13 < 14
      BY <1>7
    <2> QED  BY <2>1, <2>2, MadeNext
  <1>9. LocksOf(s) = LocksOf(a) \cup LocksOf(b) \cup LocksOf(c)
    BY <1>7, <1>8
  <1>10. Kept({<<"order", p>>}, LocksOf(s))
    <2>1. p \in Ordered => <<"order", p>> \in LocksOf(s)
      BY <1>2, <1>3, <1>9, <1>1
    <2> QED  BY <2>1, KeptOrder
  <1>11. Kept({"balance"} \X Goods[p], LocksOf(s))
    <2>1. \A kind \in {"balance"}, id \in Goods[p] : <<HomeOf(kind), id>> \in LocksOf(s)
      BY <1>2, <1>3, <1>9, <1>1, HomesAre
    <2> QED  BY <2>1, KeptAll
  <1>12. Kept({<<"order", p>>} \cup ({"balance"} \X Goods[p]), LocksOf(s))
    BY <1>10, <1>11, KeptBoth
  <1>13. MadeTo(s, 14) /\ 14 \in 0..14
    BY <1>8
  <1> HIDE DEF s
  <1> QED  BY <1>5, <1>12, <1>13, SoundHandler

LEMMA SoundReturnGoods ==
    ASSUME NEW p \in Purchases
    PROVE  Sound(ReturnGoods(p))
  <1> DEFINE a == LockOrder(p, {"order"})
             b == Lock("receipt", p, {"returned"})
             c == LockAll("material", Goods[p], {"free", "balance"})
             d == IF p \in Ordered THEN Read({<<"payable", p>>}) ELSE <<>>
             e == Share("supplier", 1) \o (IF p \in Ordered THEN LockTotals ELSE <<>>)
             s == a \o b \o c \o d \o e
  <1>1. Goods[p] \in SUBSET Materials
    BY LocksAssumption
  <1>2. \A G : MadeAt(a, 3, G) /\ (p \in Ordered => LocksOf(a) = {<<"order", p>>})
    BY <1>1, MadeOrder
  <1>3. \A G : MadeAt(b, 4, G) /\ LocksOf(b) = {<<"receipt", p>>}
    <2>1. "receipt" \in Tables \ {"hold", "order"} /\ p \in Ids /\ {"returned"} \in SUBSET Names
      BY Rows DEF Names, Tables
    <2>2. \A kind \in {"returned"} : HomeOf(kind) = "receipt"
      BY HomesAre
    <2> QED  BY <2>1, <2>2, MadeOne, RanksAre
  <1>4. \A G : MadeAt(c, 13, G) /\ LocksOf(c) = {"material"} \X Goods[p]
    BY <1>1, MadeMaterials, Kinds
  <1>5. \A G : MadeAt(e, 14, G) /\ (p \in Ordered => LocksOf(e) = {<<"supplier", 1>>})
    <2>1. (p \in Ordered) \in BOOLEAN
      OBVIOUS
    <2> QED  BY <2>1, MadeReferTotals
  <1>6. ReturnGoods(p) = Handler(s, ({"order", "returned"} \X {p}) \cup ({"free", "balance"} \X Goods[p]) \cup (IF p \in Ordered THEN {<<"payable", p>>} \cup Totals ELSE {}))
    BY DEF ReturnGoods, Taking, Taken
  <1> HIDE DEF a, b, c, e
  <1>7. MadeTo(a, 3)
    BY <1>2, MadeUp
  <1>8. MadeTo(a \o b, 4) /\ LocksOf(a \o b) = LocksOf(a) \cup LocksOf(b)
    <2>1. MadeAt(b, 4, LocksOf(a))
      BY <1>3
    <2>2. MadeTo(a, 3) /\ 3 < 4
      BY <1>7
    <2> QED  BY <2>1, <2>2, MadeNext
  <1>9. MadeTo(a \o b \o c, 13) /\ LocksOf(a \o b \o c) = LocksOf(a \o b) \cup LocksOf(c)
    <2>1. MadeAt(c, 13, LocksOf(a \o b))
      BY <1>4
    <2>2. MadeTo(a \o b, 4) /\ 4 < 13
      BY <1>8
    <2> QED  BY <2>1, <2>2, MadeNext
  <1>10. MadeFree(d, LocksOf(a \o b \o c))
    <2> DEFINE facts == {<<"payable", p>>}
    <2>1. CASE p \in Ordered
      <3>1. <<"payable", p>>[1] = "payable" /\ <<"payable", p>>[2] = p
        OBVIOUS
      <3>2. Home(<<"payable", p>>) = <<"order", p>> /\ <<"payable", p>> \notin Unread
        BY <2>1, <3>1, HomesAre DEF Home, Unread
      <3>3. <<"order", p>> \in LocksOf(a \o b \o c)
        BY <2>1, <1>2, <1>8, <1>9
      <3>4. facts \in SUBSET (Names \X Ids)
        BY Rows DEF Names, Tables
      <3>5. \A f \in facts : Home(f) \in LocksOf(a \o b \o c) /\ f \notin Unread
        BY <3>2, <3>3
      <3> HIDE DEF facts
      <3>6. Made(Read(facts), {}, LocksOf(a \o b \o c))
        BY <3>4, <3>5, MadeRead
      <3> QED  BY <2>1, <3>6 DEF MadeFree, facts
    <2>2. CASE p \notin Ordered
      BY <2>2, MadeFreeNothing
    <2> QED  BY <2>1, <2>2
  <1> HIDE DEF d
  <1>11. MadeTo(a \o b \o c \o d, 13) /\ LocksOf(a \o b \o c \o d) = LocksOf(a \o b \o c) \cup LocksOf(d)
    <2>1. MadeFree(d, LocksOf(a \o b \o c))
      BY <1>10
    <2>2. MadeTo(a \o b \o c, 13)
      BY <1>9
    <2> QED  BY <2>1, <2>2, MadeAlso
  <1>12. MadeTo(a \o b \o c \o d \o e, 14) /\ LocksOf(a \o b \o c \o d \o e) = LocksOf(a \o b \o c \o d) \cup LocksOf(e)
    <2>1. MadeAt(e, 14, LocksOf(a \o b \o c \o d))
      BY <1>5
    <2>2. MadeTo(a \o b \o c \o d, 13) /\ 13 < 14
      BY <1>11
    <2> QED  BY <2>1, <2>2, MadeNext
  <1>13. LocksOf(s) = LocksOf(a) \cup LocksOf(b) \cup LocksOf(c) \cup LocksOf(d) \cup LocksOf(e)
    BY <1>8, <1>9, <1>11, <1>12
  <1>14. Kept(({"order", "returned"} \X {p}), LocksOf(s))
    <2>1. \A kind \in {"order", "returned"} : (kind \in {"order", "payable"} /\ p \notin Ordered) \/ <<HomeOf(kind), p>> \in LocksOf(s)
      BY <1>2, <1>3, <1>4, <1>5, <1>13, <1>1, HomesAre
    <2> QED  BY <2>1, KeptOrders
  <1>15. Kept({"free", "balance"} \X Goods[p], LocksOf(s))
    <2>1. \A kind \in {"free", "balance"}, id \in Goods[p] : <<HomeOf(kind), id>> \in LocksOf(s)
      BY <1>2, <1>3, <1>4, <1>5, <1>13, <1>1, HomesAre
    <2> QED  BY <2>1, KeptAll
  <1>16. Kept((IF p \in Ordered THEN {<<"payable", p>>} \cup Totals ELSE {}), LocksOf(s))
    <2>1. CASE p \in Ordered
      <3>1. <<HomeOf("payable"), p>> \in LocksOf(s) /\ <<HomeOf("totals"), 1>> \in LocksOf(s)
        BY <2>1, <1>2, <1>3, <1>4, <1>5, <1>13, <1>1, HomesAre
      <3>2. Kept({<<"payable", p>>}, LocksOf(s)) /\ Kept({<<"totals", 1>>}, LocksOf(s))
        BY <3>1, KeptOne
      <3> QED  BY <2>1, <3>2, KeptBoth DEF Totals
    <2>2. CASE p \notin Ordered
      BY <2>2, KeptNothing
    <2> QED  BY <2>1, <2>2
  <1>17. Kept(({"order", "returned"} \X {p}) \cup ({"free", "balance"} \X Goods[p]) \cup (IF p \in Ordered THEN {<<"payable", p>>} \cup Totals ELSE {}), LocksOf(s))
    BY <1>14, <1>15, <1>16, KeptBoth
  <1>18. MadeTo(s, 14) /\ 14 \in 0..14
    BY <1>12
  <1> HIDE DEF s
  <1> QED  BY <1>6, <1>17, <1>18, SoundHandler

LEMMA SoundCancelReturn ==
    ASSUME NEW p \in Purchases
    PROVE  Sound(CancelReturn(p))
  <1> DEFINE a == LockOrder(p, {"order"})
             b == Lock("receipt", p, {})
             c == LockReturn(p)
             d == LockAll("material", Goods[p], {"balance"})
             e == IF p \in Ordered THEN LockTotals ELSE <<>>
             s == a \o b \o c \o d \o e
  <1>1. Goods[p] \in SUBSET Materials
    BY LocksAssumption
  <1>2. \A G : MadeAt(a, 3, G) /\ (p \in Ordered => LocksOf(a) = {<<"order", p>>})
    BY <1>1, MadeOrder
  <1>3. \A G : MadeAt(b, 4, G) /\ LocksOf(b) = {<<"receipt", p>>}
    BY <1>1, MadeOwn, RanksAre, Rows
  <1>4. \A G : MadeAt(c, 5, G) /\ LocksOf(c) = {<<"return", p>>}
    BY <1>1, MadeReturn
  <1>5. \A G : MadeAt(d, 13, G) /\ LocksOf(d) = {"material"} \X Goods[p]
    BY <1>1, MadeMaterials, Kinds
  <1>6. \A G : MadeAt(e, 14, G) /\ (p \in Ordered => LocksOf(e) = {<<"supplier", 1>>})
    <2>1. (p \in Ordered) \in BOOLEAN
      OBVIOUS
    <2> QED  BY <2>1, MadeTotalsIf
  <1>7. CancelReturn(p) = Handler(s, ({"order", "return", "refundable"} \X {p}) \cup ({"balance"} \X Goods[p]) \cup (IF p \in Ordered THEN Totals ELSE {}))
    BY DEF CancelReturn
  <1> HIDE DEF a, b, c, d, e
  <1>8. MadeTo(a, 3)
    BY <1>2, MadeUp
  <1>9. MadeTo(a \o b, 4) /\ LocksOf(a \o b) = LocksOf(a) \cup LocksOf(b)
    <2>1. MadeAt(b, 4, LocksOf(a))
      BY <1>3
    <2>2. MadeTo(a, 3) /\ 3 < 4
      BY <1>8
    <2> QED  BY <2>1, <2>2, MadeNext
  <1>10. MadeTo(a \o b \o c, 5) /\ LocksOf(a \o b \o c) = LocksOf(a \o b) \cup LocksOf(c)
    <2>1. MadeAt(c, 5, LocksOf(a \o b))
      BY <1>4
    <2>2. MadeTo(a \o b, 4) /\ 4 < 5
      BY <1>9
    <2> QED  BY <2>1, <2>2, MadeNext
  <1>11. MadeTo(a \o b \o c \o d, 13) /\ LocksOf(a \o b \o c \o d) = LocksOf(a \o b \o c) \cup LocksOf(d)
    <2>1. MadeAt(d, 13, LocksOf(a \o b \o c))
      BY <1>5
    <2>2. MadeTo(a \o b \o c, 5) /\ 5 < 13
      BY <1>10
    <2> QED  BY <2>1, <2>2, MadeNext
  <1>12. MadeTo(a \o b \o c \o d \o e, 14) /\ LocksOf(a \o b \o c \o d \o e) = LocksOf(a \o b \o c \o d) \cup LocksOf(e)
    <2>1. MadeAt(e, 14, LocksOf(a \o b \o c \o d))
      BY <1>6
    <2>2. MadeTo(a \o b \o c \o d, 13) /\ 13 < 14
      BY <1>11
    <2> QED  BY <2>1, <2>2, MadeNext
  <1>13. LocksOf(s) = LocksOf(a) \cup LocksOf(b) \cup LocksOf(c) \cup LocksOf(d) \cup LocksOf(e)
    BY <1>9, <1>10, <1>11, <1>12
  <1>14. Kept(({"order", "return", "refundable"} \X {p}), LocksOf(s))
    <2>1. \A kind \in {"order", "return", "refundable"} : (kind \in {"order", "payable"} /\ p \notin Ordered) \/ <<HomeOf(kind), p>> \in LocksOf(s)
      BY <1>2, <1>3, <1>4, <1>5, <1>6, <1>13, <1>1, HomesAre
    <2> QED  BY <2>1, KeptOrders
  <1>15. Kept({"balance"} \X Goods[p], LocksOf(s))
    <2>1. \A kind \in {"balance"}, id \in Goods[p] : <<HomeOf(kind), id>> \in LocksOf(s)
      BY <1>2, <1>3, <1>4, <1>5, <1>6, <1>13, <1>1, HomesAre
    <2> QED  BY <2>1, KeptAll
  <1>16. Kept((IF p \in Ordered THEN Totals ELSE {}), LocksOf(s))
    <2>1. (p \in Ordered) \in BOOLEAN /\ (p \in Ordered => <<"supplier", 1>> \in LocksOf(s))
      BY <1>2, <1>3, <1>4, <1>5, <1>6, <1>13, <1>1
    <2> QED  BY <2>1, KeptTotals
  <1>17. Kept(({"order", "return", "refundable"} \X {p}) \cup ({"balance"} \X Goods[p]) \cup (IF p \in Ordered THEN Totals ELSE {}), LocksOf(s))
    BY <1>14, <1>15, <1>16, KeptBoth
  <1>18. MadeTo(s, 14) /\ 14 \in 0..14
    BY <1>12
  <1> HIDE DEF s
  <1> QED  BY <1>7, <1>17, <1>18, SoundHandler

LEMMA SoundArchiveReturn ==
    ASSUME NEW p \in Purchases
    PROVE  Sound(ArchiveReturn(p))
  <1> DEFINE a == LockReturn(p)
             s == a
  <1>1. \A G : MadeAt(a, 5, G) /\ LocksOf(a) = {<<"return", p>>}
    BY MadeReturn
  <1>2. ArchiveReturn(p) = Handler(s, {<<"return", p>>})
    BY DEF ArchiveReturn
  <1> HIDE DEF a
  <1>3. MadeTo(a, 5)
    BY <1>1, MadeUp
  <1>4. Kept({<<"return", p>>}, LocksOf(s))
    <2>1. <<HomeOf("return"), p>> \in LocksOf(s)
      BY <1>1, HomesAre
    <2> QED  BY <2>1, KeptOne
  <1>5. MadeTo(s, 5) /\ 5 \in 0..14
    BY <1>3
  <1> HIDE DEF s
  <1> QED  BY <1>2, <1>4, <1>5, SoundHandler

LEMMA SoundCreateMovement ==
    ASSUME NEW kind, NEW p, PaidOf(kind, p)
    PROVE  Sound(CreateMovement(kind, p))
  <1> DEFINE a == MoneyRows(kind, p)
             s == a
  <1>1. \A G : MadeFrom(a, 3, 5, G) /\ (p \in Ordered => <<"order", p>> \in LocksOf(a))
    BY MadeMoney
  <1>2. CreateMovement(kind, p) = Handler(s, Room(kind, p))
    BY DEF CreateMovement
  <1> HIDE DEF a
  <1>3. MadeTo(a, 5)
    BY <1>1, MadeFromUp
  <1>4. Kept(Room(kind, p), LocksOf(s))
    <2>1. LocksOf(a) \subseteq LocksOf(s)
      BY <1>1
    <2> QED  BY <2>1, KeptRoom DEF a
  <1>5. MadeTo(s, 5) /\ 5 \in 0..14
    BY <1>3
  <1> HIDE DEF s
  <1> QED  BY <1>2, <1>4, <1>5, SoundHandler

LEMMA SoundUpdateMovement ==
    ASSUME NEW kind, NEW p, PaidOf(kind, p)
    PROVE  Sound(UpdateMovement(kind, p))
  <1> DEFINE a == Lock(kind, p, {kind})
             b == MoneyRows(kind, p)
             s == a \o b
  <1>1. \A G : MadeFrom(a, 1, 2, G) /\ LocksOf(a) = {<<kind, p>>}
    BY MadeMovement
  <1>2. \A G : MadeFrom(b, 3, 5, G) /\ (p \in Ordered => <<"order", p>> \in LocksOf(b))
    BY MadeMoney
  <1>3. UpdateMovement(kind, p) = Handler(s, {<<kind, p>>} \cup Room(kind, p))
    BY DEF UpdateMovement
  <1> HIDE DEF a, b
  <1>4. MadeTo(a, 2)
    BY <1>1, MadeFromUp
  <1>5. MadeTo(a \o b, 5) /\ LocksOf(a \o b) = LocksOf(a) \cup LocksOf(b)
    <2>1. MadeFrom(b, 3, 5, LocksOf(a))
      BY <1>2
    <2>2. MadeTo(a, 2) /\ 2 < 3
      BY <1>4
    <2> QED  BY <2>1, <2>2, MadeOnTop
  <1>6. LocksOf(s) = LocksOf(a) \cup LocksOf(b)
    BY <1>5
  <1>7. Kept({<<kind, p>>}, LocksOf(s))
    <2>1. <<kind, p>> \in LocksOf(s)
      BY <1>1, <1>2, <1>6
    <2> QED  BY <2>1, KeptMovement
  <1>8. Kept(Room(kind, p), LocksOf(s))
    <2>1. LocksOf(b) \subseteq LocksOf(s)
      BY <1>1, <1>2, <1>6
    <2> QED  BY <2>1, KeptRoom DEF b
  <1>9. Kept({<<kind, p>>} \cup Room(kind, p), LocksOf(s))
    BY <1>7, <1>8, KeptBoth
  <1>10. MadeTo(s, 5) /\ 5 \in 0..14
    BY <1>5
  <1> HIDE DEF s
  <1> QED  BY <1>3, <1>9, <1>10, SoundHandler

LEMMA SoundDeleteMovement ==
    ASSUME NEW kind, NEW p, PaidOf(kind, p)
    PROVE  Sound(DeleteMovement(kind, p))
  <1> DEFINE a == Lock(kind, p, {kind})
             s == a
  <1>1. \A G : MadeFrom(a, 1, 2, G) /\ LocksOf(a) = {<<kind, p>>}
    BY MadeMovement
  <1>2. DeleteMovement(kind, p) = Handler(s, {<<kind, p>>})
    BY DEF DeleteMovement
  <1> HIDE DEF a
  <1>3. MadeTo(a, 2)
    BY <1>1, MadeFromUp
  <1>4. Kept({<<kind, p>>}, LocksOf(s))
    <2>1. <<kind, p>> \in LocksOf(s)
      BY <1>1
    <2> QED  BY <2>1, KeptMovement
  <1>5. MadeTo(s, 2) /\ 2 \in 0..14
    BY <1>3
  <1> HIDE DEF s
  <1> QED  BY <1>2, <1>4, <1>5, SoundHandler

LEMMA SoundApproveMovement ==
    ASSUME NEW kind, NEW p, PaidOf(kind, p)
    PROVE  Sound(ApproveMovement(kind, p))
  <1> DEFINE a == Lock(kind, p, {kind})
             b == MoneyRows(kind, p)
             c == IF kind = "refund" THEN LockTotals ELSE <<>>
             s == a \o b \o c
  <1>1. \A G : MadeFrom(a, 1, 2, G) /\ LocksOf(a) = {<<kind, p>>}
    BY MadeMovement
  <1>2. \A G : MadeFrom(b, 3, 5, G) /\ (p \in Ordered => <<"order", p>> \in LocksOf(b))
    BY MadeMoney
  <1>3. \A G : MadeAt(c, 14, G) /\ (kind = "refund" => LocksOf(c) = {<<"supplier", 1>>})
    <2>1. (kind = "refund") \in BOOLEAN
      OBVIOUS
    <2> QED  BY <2>1, MadeTotalsIf
  <1>4. ApproveMovement(kind, p) = Handler(s, {<<kind, p>>} \cup (IF kind = "refund" THEN Totals ELSE {}))
    BY DEF ApproveMovement
  <1> HIDE DEF a, b, c
  <1>5. MadeTo(a, 2)
    BY <1>1, MadeFromUp
  <1>6. MadeTo(a \o b, 5) /\ LocksOf(a \o b) = LocksOf(a) \cup LocksOf(b)
    <2>1. MadeFrom(b, 3, 5, LocksOf(a))
      BY <1>2
    <2>2. MadeTo(a, 2) /\ 2 < 3
      BY <1>5
    <2> QED  BY <2>1, <2>2, MadeOnTop
  <1>7. MadeTo(a \o b \o c, 14) /\ LocksOf(a \o b \o c) = LocksOf(a \o b) \cup LocksOf(c)
    <2>1. MadeAt(c, 14, LocksOf(a \o b))
      BY <1>3
    <2>2. MadeTo(a \o b, 5) /\ 5 < 14
      BY <1>6
    <2> QED  BY <2>1, <2>2, MadeNext
  <1>8. LocksOf(s) = LocksOf(a) \cup LocksOf(b) \cup LocksOf(c)
    BY <1>6, <1>7
  <1>9. Kept({<<kind, p>>}, LocksOf(s))
    <2>1. <<kind, p>> \in LocksOf(s)
      BY <1>1, <1>2, <1>3, <1>8
    <2> QED  BY <2>1, KeptMovement
  <1>10. Kept((IF kind = "refund" THEN Totals ELSE {}), LocksOf(s))
    <2>1. (kind = "refund") \in BOOLEAN /\ (kind = "refund" => <<"supplier", 1>> \in LocksOf(s))
      BY <1>1, <1>2, <1>3, <1>8
    <2> QED  BY <2>1, KeptTotals
  <1>11. Kept({<<kind, p>>} \cup (IF kind = "refund" THEN Totals ELSE {}), LocksOf(s))
    BY <1>9, <1>10, KeptBoth
  <1>12. MadeTo(s, 14) /\ 14 \in 0..14
    BY <1>7
  <1> HIDE DEF s
  <1> QED  BY <1>4, <1>11, <1>12, SoundHandler

LEMMA SoundPostMovement ==
    ASSUME NEW kind, NEW p, PaidOf(kind, p)
    PROVE  Sound(PostMovement(kind, p))
  <1> DEFINE a == Lock(kind, p, {kind})
             b == MoneyRows(kind, p)
             c == LockTotals
             s == a \o b \o c
  <1>1. \A G : MadeFrom(a, 1, 2, G) /\ LocksOf(a) = {<<kind, p>>}
    BY MadeMovement
  <1>2. \A G : MadeFrom(b, 3, 5, G) /\ (p \in Ordered => <<"order", p>> \in LocksOf(b))
    BY MadeMoney
  <1>3. \A G : MadeAt(c, 14, G) /\ LocksOf(c) = {<<"supplier", 1>>}
    BY MadeTotals
  <1>4. PostMovement(kind, p) = Handler(s, {<<kind, p>>} \cup Totals)
    BY DEF PostMovement
  <1> HIDE DEF a, b, c
  <1>5. MadeTo(a, 2)
    BY <1>1, MadeFromUp
  <1>6. MadeTo(a \o b, 5) /\ LocksOf(a \o b) = LocksOf(a) \cup LocksOf(b)
    <2>1. MadeFrom(b, 3, 5, LocksOf(a))
      BY <1>2
    <2>2. MadeTo(a, 2) /\ 2 < 3
      BY <1>5
    <2> QED  BY <2>1, <2>2, MadeOnTop
  <1>7. MadeTo(a \o b \o c, 14) /\ LocksOf(a \o b \o c) = LocksOf(a \o b) \cup LocksOf(c)
    <2>1. MadeAt(c, 14, LocksOf(a \o b))
      BY <1>3
    <2>2. MadeTo(a \o b, 5) /\ 5 < 14
      BY <1>6
    <2> QED  BY <2>1, <2>2, MadeNext
  <1>8. LocksOf(s) = LocksOf(a) \cup LocksOf(b) \cup LocksOf(c)
    BY <1>6, <1>7
  <1>9. Kept({<<kind, p>>}, LocksOf(s))
    <2>1. <<kind, p>> \in LocksOf(s)
      BY <1>1, <1>2, <1>3, <1>8
    <2> QED  BY <2>1, KeptMovement
  <1>10. Kept(Totals, LocksOf(s))
    <2>1. <<HomeOf("totals"), 1>> \in LocksOf(s)
      BY <1>1, <1>2, <1>3, <1>8, HomesAre
    <2> QED  BY <2>1, KeptOne DEF Totals
  <1>11. Kept({<<kind, p>>} \cup Totals, LocksOf(s))
    BY <1>9, <1>10, KeptBoth
  <1>12. MadeTo(s, 14) /\ 14 \in 0..14
    BY <1>7
  <1> HIDE DEF s
  <1> QED  BY <1>4, <1>11, <1>12, SoundHandler

LEMMA SoundCancelMovement ==
    ASSUME NEW kind, NEW p, PaidOf(kind, p)
    PROVE  Sound(CancelMovement(kind, p))
  <1> DEFINE a == Lock(kind, p, {kind})
             b == IF kind = "refund" THEN MoneyRows(kind, p) ELSE <<>>
             c == LockTotals
             s == a \o b \o c
  <1>1. \A G : MadeFrom(a, 1, 2, G) /\ LocksOf(a) = {<<kind, p>>}
    BY MadeMovement
  <1>2. \A G : MadeFrom(b, 3, 5, G) /\ (kind = "refund" /\ p \in Ordered => <<"order", p>> \in LocksOf(b))
    <2>1. \A G : MadeFrom(<<>>, 3, 5, G)
      BY MadeFreeNothing, MadeAny
    <2>2. CASE kind = "refund"
      BY <2>2, MadeMoney
    <2>3. CASE kind # "refund"
      BY <2>1, <2>3
    <2> QED  BY <2>2, <2>3
  <1>3. \A G : MadeAt(c, 14, G) /\ LocksOf(c) = {<<"supplier", 1>>}
    BY MadeTotals
  <1>4. CancelMovement(kind, p) = Handler(s, {<<kind, p>>} \cup Totals \cup (IF kind = "refund" THEN {<<"payable", p>>} ELSE {}))
    BY DEF CancelMovement
  <1> HIDE DEF a, b, c
  <1>5. MadeTo(a, 2)
    BY <1>1, MadeFromUp
  <1>6. MadeTo(a \o b, 5) /\ LocksOf(a \o b) = LocksOf(a) \cup LocksOf(b)
    <2>1. MadeFrom(b, 3, 5, LocksOf(a))
      BY <1>2
    <2>2. MadeTo(a, 2) /\ 2 < 3
      BY <1>5
    <2> QED  BY <2>1, <2>2, MadeOnTop
  <1>7. MadeTo(a \o b \o c, 14) /\ LocksOf(a \o b \o c) = LocksOf(a \o b) \cup LocksOf(c)
    <2>1. MadeAt(c, 14, LocksOf(a \o b))
      BY <1>3
    <2>2. MadeTo(a \o b, 5) /\ 5 < 14
      BY <1>6
    <2> QED  BY <2>1, <2>2, MadeNext
  <1>8. LocksOf(s) = LocksOf(a) \cup LocksOf(b) \cup LocksOf(c)
    BY <1>6, <1>7
  <1>9. Kept({<<kind, p>>}, LocksOf(s))
    <2>1. <<kind, p>> \in LocksOf(s)
      BY <1>1, <1>2, <1>3, <1>8
    <2> QED  BY <2>1, KeptMovement
  <1>10. Kept(Totals, LocksOf(s))
    <2>1. <<HomeOf("totals"), 1>> \in LocksOf(s)
      BY <1>1, <1>2, <1>3, <1>8, HomesAre
    <2> QED  BY <2>1, KeptOne DEF Totals
  <1>11. Kept((IF kind = "refund" THEN {<<"payable", p>>} ELSE {}), LocksOf(s))
    <2>1. CASE kind = "refund"
      <3>1. p \in Purchases /\ (p \in Ordered => <<"order", p>> \in LocksOf(s))
        BY <2>1, <1>1, <1>2, <1>3, <1>8 DEF PaidOf
      <3> QED  BY <2>1, <3>1, KeptOrder
    <2>2. CASE kind # "refund"
      BY <2>2, KeptNothing
    <2> QED  BY <2>1, <2>2
  <1>12. Kept({<<kind, p>>} \cup Totals \cup (IF kind = "refund" THEN {<<"payable", p>>} ELSE {}), LocksOf(s))
    BY <1>9, <1>10, <1>11, KeptBoth
  <1>13. MadeTo(s, 14) /\ 14 \in 0..14
    BY <1>7
  <1> HIDE DEF s
  <1> QED  BY <1>4, <1>12, <1>13, SoundHandler

LEMMA SoundMoneyPlans ==
    ASSUME NEW kind, NEW p, PaidOf(kind, p)
    PROVE  \A q \in MoneyPlans(kind, p) : Sound(q)
  BY SoundCreateMovement, SoundUpdateMovement, SoundDeleteMovement, SoundApproveMovement, SoundPostMovement,
     SoundCancelMovement DEF MoneyPlans

LEMMA SoundPurchasePlans == \A q \in PurchasePlans : Sound(q)
  <1> SUFFICES ASSUME NEW q \in PurchasePlans PROVE Sound(q)
    OBVIOUS
  <1>1. \/ q \in {Recalculate, CreateOrder}
        \/ \E p \in Ordered : q = ChangeOrder(p)
        \/ \E p \in Purchases : q \in {Receive(p), ReturnGoods(p), CancelReturn(p), ArchiveReturn(p)}
        \/ \E p \in Ordered : q \in MoneyPlans("payment", p)
        \/ \E p \in Purchases : q \in MoneyPlans("refund", p)
    BY DEF PurchasePlans
  <1>2. CASE q \in {Recalculate, CreateOrder}
    BY <1>2, SoundRecalculate, SoundCreateOrder
  <1>3. CASE \E p \in Ordered : q = ChangeOrder(p)
    BY <1>3, SoundChangeOrder
  <1>4. CASE \E p \in Purchases : q \in {Receive(p), ReturnGoods(p), CancelReturn(p), ArchiveReturn(p)}
    BY <1>4, SoundReceive, SoundReturnGoods, SoundCancelReturn, SoundArchiveReturn
  <1>5. CASE \E p \in Ordered : q \in MoneyPlans("payment", p)
    <2>1. \A p \in Ordered : PaidOf("payment", p)
      BY LocksAssumption DEF PaidOf
    <2> QED  BY <1>5, <2>1, SoundMoneyPlans
  <1>6. CASE \E p \in Purchases : q \in MoneyPlans("refund", p)
    <2>1. \A p \in Purchases : PaidOf("refund", p)
      BY DEF PaidOf
    <2> QED  BY <1>6, <2>1, SoundMoneyPlans
  <1> QED  BY <1>1, <1>2, <1>3, <1>4, <1>5, <1>6

\* All handlers lock in one order, and before they decide.
LEMMA SoundPlans == \A p \in Plans \cup {Idle} : Sound(p)
  BY SoundHoldPlans, SoundStockPlans, SoundNormPlans, SoundSalesPlans, SoundPurchasePlans, SoundIdle DEF Plans

------------------------------------------------------------------------------
(* What running requests hold                                                *)

LocksTyped ==
    /\ status \in [Requests -> {"new", "running", "committed", "rolled_back"}]
    /\ plan \in [Requests -> Plans \cup {Idle}]
    /\ at \in [Requests -> Nat]
    /\ \A r \in Requests : at[r] <= Len(plan[r].steps)
    /\ \A r \in Requests : status[r] # "running" => at[r] = 0

\* Two steps of two requests
Apart(a, b) == a.row = b.row /\ a.row[1] # "none" => a.mode = "share" /\ b.mode = "share"

\* Nobody holds what another has locked.
Exclusive ==
    \A r, q \in Requests : r # q =>
        \A i \in 1..at[r], j \in 1..at[q] : Apart(plan[r].steps[i], plan[q].steps[j])

LocksInv == LocksTyped /\ Exclusive

LEMMA PlanSteps ==
    ASSUME LocksTyped, NEW r \in Requests
    PROVE  /\ Sound(plan[r]) /\ plan[r].steps \in Seq(LockSteps) /\ Len(plan[r].steps) \in Nat
           /\ \A i \in 1..Len(plan[r].steps) : plan[r].steps[i] \in LockSteps
           /\ at[r] \in Nat /\ at[r] <= Len(plan[r].steps)
  <1>1. Sound(plan[r])
    <2>1. plan[r] \in Plans \cup {Idle}
      BY DEF LocksTyped
    <2> QED  BY <2>1, SoundPlans
  <1>2. plan[r].steps \in Seq(LockSteps)
    BY <1>1 DEF Sound, Made
  <1> QED  BY <1>1, <1>2 DEF LocksTyped

LEMMA LocksBegin == LocksInit => LocksInv
  <1> SUFFICES ASSUME LocksInit PROVE LocksInv
    OBVIOUS
  <1>1. Len(Idle.steps) = 0
    BY DEF Idle, Handler
  <1>2. \A r \in Requests : plan[r] = Idle /\ at[r] = 0 /\ status[r] = "new"
    BY DEF LocksInit
  <1>3. LocksTyped
    BY <1>1, <1>2 DEF LocksInit, LocksTyped
  <1>4. Exclusive
    BY <1>2 DEF Exclusive
  <1> QED  BY <1>3, <1>4 DEF LocksInv

LEMMA LocksBeginOne ==
    ASSUME LocksInv, NEW r \in Requests, status[r] = "new", NEW p \in Plans, Begin(r, p)
    PROVE  LocksInv'
  <1>1. /\ status' = [status EXCEPT ![r] = "running"] /\ plan' = [plan EXCEPT ![r] = p] /\ at' = at
    BY DEF Begin
  <1>2. at[r] = 0 /\ \A q \in Requests : at'[q] = at[q] /\ (q # r => plan'[q] = plan[q] /\ status'[q] = status[q])
    BY <1>1 DEF LocksInv, LocksTyped
  <1>3. plan'[r] = p /\ status'[r] = "running"
    BY <1>1 DEF LocksInv, LocksTyped
  <1>4. Len(p.steps) \in Nat
    <2>1. Sound(p)
      BY SoundPlans
    <2> QED  BY <2>1 DEF Sound, Made
  <1>5. LocksTyped'
    <2>1. /\ status' \in [Requests -> {"new", "running", "committed", "rolled_back"}]
          /\ plan' \in [Requests -> Plans \cup {Idle}] /\ at' \in [Requests -> Nat]
      BY <1>1 DEF LocksInv, LocksTyped
    <2>2. \A q \in Requests : at'[q] <= Len(plan'[q].steps)
      BY <1>2, <1>3, <1>4 DEF LocksInv, LocksTyped
    <2>3. \A q \in Requests : status'[q] # "running" => at'[q] = 0
      BY <1>2, <1>3 DEF LocksInv, LocksTyped
    <2> QED  BY <2>1, <2>2, <2>3 DEF LocksTyped
  <1>6. Exclusive'
    <2> SUFFICES ASSUME NEW x \in Requests, NEW q \in Requests, x # q, NEW i \in 1..at'[x], NEW j \in 1..at'[q]
                 PROVE  Apart(plan'[x].steps[i], plan'[q].steps[j])
      BY DEF Exclusive, Apart
    <2>1. x # r /\ q # r
      BY <1>2
    <2> QED  BY <1>2, <2>1 DEF LocksInv, Exclusive
  <1> QED  BY <1>5, <1>6 DEF LocksInv

LEMMA LocksAcquire ==
    ASSUME LocksInv, NEW r \in Requests, Acquire(r)
    PROVE  LocksInv'
  <1> DEFINE w == plan[r].steps[at[r] + 1]
  <1>1. /\ at' = [at EXCEPT ![r] = @ + 1] /\ status' = status /\ plan' = plan
        /\ status[r] = "running" /\ at[r] < Len(plan[r].steps) /\ Blockers(r) = {}
    BY DEF Acquire, Waiting, Running
  <1>2. at'[r] = at[r] + 1 /\ at[r] \in Nat /\ \A q \in Requests : q # r => at'[q] = at[q] /\ at[q] \in Nat
    BY <1>1 DEF LocksInv, LocksTyped
  <1>3. LocksTyped'
    <2>1. at' \in [Requests -> Nat]
      BY <1>1 DEF LocksInv, LocksTyped
    <2>2. Len(plan[r].steps) \in Nat
      BY PlanSteps DEF LocksInv
    <2>3. \A q \in Requests : at'[q] <= Len(plan'[q].steps)
      BY <1>1, <1>2, <2>2 DEF LocksInv, LocksTyped
    <2>4. \A q \in Requests : status'[q] # "running" => at'[q] = 0
      BY <1>1, <1>2 DEF LocksInv, LocksTyped
    <2> QED  BY <1>1, <2>1, <2>3, <2>4 DEF LocksInv, LocksTyped
  <1>4. ASSUME NEW q \in Requests, q # r, NEW j \in 1..at[q]
        PROVE  Apart(w, plan[q].steps[j]) /\ Apart(plan[q].steps[j], w)
    <2> DEFINE step == plan[q].steps[j]
    <2>1. step \in Done(q)
      BY DEF Done
    <2>2. ~(step.row = Wanted(r).row /\ "update" \in {step.mode, Wanted(r).mode} /\ step.row[1] # "none")
      BY <1>1, <1>4, <2>1 DEF Blockers
    <2>3. w = Wanted(r)
      BY DEF Wanted
    <2>4. at[q] <= Len(plan[q].steps) /\ at[q] \in Nat /\ Len(plan[q].steps) \in Nat
      BY PlanSteps DEF LocksInv
    <2>5. step \in LockSteps
      BY <2>4, PlanSteps DEF LocksInv
    <2>6. w \in LockSteps
      <3>1. at[r] + 1 \in 1..Len(plan[r].steps)
        BY <1>1, PlanSteps DEF LocksInv
      <3> QED  BY <3>1, PlanSteps DEF LocksInv
    <2>7. step.mode \in {"update", "share"} /\ w.mode \in {"update", "share"}
      BY <2>5, <2>6 DEF LockSteps
    <2> HIDE DEF step, w
    <2>8. Apart(w, step) /\ Apart(step, w)
      BY <2>2, <2>3, <2>7 DEF Apart
    <2> QED  BY <2>8 DEF step
  <1>5. Exclusive'
    <2> SUFFICES ASSUME NEW x \in Requests, NEW q \in Requests, x # q, NEW i \in 1..at'[x], NEW j \in 1..at'[q]
                 PROVE  Apart(plan[x].steps[i], plan[q].steps[j])
      BY <1>1 DEF Exclusive, Apart
    <2>1. CASE x = r /\ i = at[r] + 1
      <3>1. j \in 1..at[q]
        BY <1>2, <2>1
      <3> QED  BY <1>4, <2>1, <3>1
    <2>2. CASE q = r /\ j = at[r] + 1
      <3>1. i \in 1..at[x]
        BY <1>2, <2>2
      <3> QED  BY <1>4, <2>2, <3>1
    <2>3. CASE ~(x = r /\ i = at[r] + 1) /\ ~(q = r /\ j = at[r] + 1)
      <3>1. i \in 1..at[x] /\ j \in 1..at[q]
        BY <1>2, <2>3
      <3> QED  BY <3>1 DEF LocksInv, Exclusive
    <2> QED  BY <2>1, <2>2, <2>3
  <1> QED  BY <1>3, <1>5 DEF LocksInv

LEMMA LocksEnd ==
    ASSUME LocksInv, NEW r \in Requests, NEW outcome \in {"committed", "rolled_back"}, End(r, outcome)
    PROVE  LocksInv'
  <1>1. /\ status' = [status EXCEPT ![r] = outcome] /\ plan' = [plan EXCEPT ![r] = Idle] /\ at' = [at EXCEPT ![r] = 0]
    BY DEF End
  <1>2. /\ at'[r] = 0 /\ plan'[r] = Idle
        /\ \A q \in Requests : q # r => at'[q] = at[q] /\ plan'[q] = plan[q] /\ status'[q] = status[q]
    BY <1>1 DEF LocksInv, LocksTyped
  <1>3. Len(Idle.steps) = 0
    BY DEF Idle, Handler
  <1>4. LocksTyped'
    <2>1. /\ status' \in [Requests -> {"new", "running", "committed", "rolled_back"}]
          /\ plan' \in [Requests -> Plans \cup {Idle}] /\ at' \in [Requests -> Nat]
      BY <1>1 DEF LocksInv, LocksTyped
    <2>2. \A q \in Requests : at'[q] <= Len(plan'[q].steps)
      BY <1>2, <1>3 DEF LocksInv, LocksTyped
    <2>3. \A q \in Requests : status'[q] # "running" => at'[q] = 0
      BY <1>2 DEF LocksInv, LocksTyped
    <2> QED  BY <2>1, <2>2, <2>3 DEF LocksTyped
  <1>5. Exclusive'
    <2> SUFFICES ASSUME NEW x \in Requests, NEW q \in Requests, x # q, NEW i \in 1..at'[x], NEW j \in 1..at'[q]
                 PROVE  Apart(plan'[x].steps[i], plan'[q].steps[j])
      BY DEF Exclusive, Apart
    <2>1. x # r /\ q # r
      BY <1>2
    <2> QED  BY <1>2, <2>1 DEF LocksInv, Exclusive
  <1> QED  BY <1>4, <1>5 DEF LocksInv

LEMMA LocksStep ==
    ASSUME LocksInv, [LocksNext]_vars
    PROVE  LocksInv'
  <1>1. CASE UNCHANGED vars
    <2>1. status' = status /\ plan' = plan /\ at' = at
      BY <1>1 DEF vars
    <2> QED  BY <2>1 DEF LocksInv, LocksTyped, Exclusive, Apart
  <1>2. ASSUME NEW r \in Requests, status[r] = "new", NEW p \in Plans, Begin(r, p) PROVE LocksInv'
    BY <1>2, LocksBeginOne
  <1>3. ASSUME NEW r \in Requests, Acquire(r) PROVE LocksInv'
    BY <1>3, LocksAcquire
  <1>4. ASSUME NEW r \in Requests, Commit(r) \/ Refuse(r) \/ Abort(r) PROVE LocksInv'
    <2>1. End(r, "committed") \/ End(r, "rolled_back")
      BY <1>4 DEF Commit, Refuse, Abort
    <2> QED  BY <2>1, LocksEnd
  <1> QED  BY <1>1, <1>2, <1>3, <1>4 DEF LocksNext

LEMMA LocksMove == [RequestsNext]_requestsVars => [LocksNext]_vars
  <1> SUFFICES ASSUME [RequestsNext]_requestsVars PROVE [LocksNext]_vars
    OBVIOUS
  <1>1. CASE RequestsNext /\ part = "locks"
    BY <1>1 DEF RequestsNext
  <1>2. CASE RequestsNext /\ part # "locks"
    BY <1>2 DEF RequestsNext, Stays
  <1>3. CASE UNCHANGED requestsVars
    BY <1>3 DEF requestsVars
  <1> QED  BY <1>1, <1>2, <1>3

\* Locks are exclusive, and every handler takes them in order, whatever the others do.
THEOREM LocksAreExclusive == RequestsSpec => []LocksInv
  <1>1. RequestsInit => LocksInv
    BY LocksBegin DEF RequestsInit
  <1>2. LocksInv /\ [RequestsNext]_requestsVars => LocksInv'
    BY LocksMove, LocksStep
  <1> QED  BY <1>1, <1>2, PTL DEF RequestsSpec

------------------------------------------------------------------------------
(* What a handler has read stays true until it ends.                         *)

\* What a request knows is of rows it has locked.
LEMMA KnownIsLocked ==
    ASSUME LocksInv, NEW r \in Requests, NEW f \in Known(r)
    PROVE  /\ f \notin Unread /\ HomeOf(f[1]) \in Tables
           /\ \E i \in 1..at[r] : plan[r].steps[i].mode = "update" /\ plan[r].steps[i].row = Home(f)
  <1> DEFINE s == plan[r].steps
  <1>1. PICK i \in 1..at[r] : f \in s[i].reads
    BY DEF Known, Done
  <1>2. LocksTyped
    BY DEF LocksInv
  <1>3. Made(s, 0..14, {}) /\ at[r] \in Nat /\ at[r] <= Len(s) /\ Len(s) \in Nat
    BY <1>2, PlanSteps DEF Sound
  <1>4. i \in 1..Len(s) /\ s[i] \in LockSteps
    BY <1>2, <1>3, PlanSteps
  <1> HIDE DEF s
  <1>5. f \notin Unread /\ \E j \in 1..i : s[j].mode = "update" /\ s[j].row = Home(f)
    <2>1. ReadsLocked(s, {})
      BY <1>3 DEF Made
    <2> QED  BY <1>1, <1>4, <2>1 DEF ReadsLocked
  <1>6. HomeOf(f[1]) \in Tables
    <2>1. f \in Names \X Ids
      BY <1>1, <1>4 DEF LockSteps
    <2>2. f[1] \in Names
      BY <2>1
    <2> QED  BY <2>2 DEF HomeOf, Names, Tables
  <1>7. \A j \in 1..i : j \in 1..at[r]
    BY <1>3
  <1> QED  BY <1>5, <1>6, <1>7 DEF s

LEMMA CommitsSpareReaders ==
    ASSUME LocksInv, NEW q \in Requests, at[q] = Len(plan[q].steps), NEW r \in Requests, r # q
    PROVE  Known(r) \cap plan[q].breaks = {}
  <1> SUFFICES ASSUME NEW f \in Known(r), f \in plan[q].breaks PROVE FALSE
    OBVIOUS
  <1>1. /\ f \notin Unread /\ HomeOf(f[1]) \in Tables
        /\ \E i \in 1..at[r] : plan[r].steps[i].mode = "update" /\ plan[r].steps[i].row = Home(f)
    BY KnownIsLocked
  <1>2. PICK i \in 1..at[r] : plan[r].steps[i].mode = "update" /\ plan[r].steps[i].row = Home(f)
    BY <1>1
  <1>3. Home(f) \in LocksOf(plan[q].steps)
    <2>1. Kept(plan[q].breaks, LocksOf(plan[q].steps))
      BY PlanSteps DEF LocksInv, Sound
    <2> QED  BY <1>1, <2>1 DEF Kept
  <1>4. PICK j \in 1..at[q] : plan[q].steps[j].mode = "update" /\ plan[q].steps[j].row = Home(f)
    BY <1>3 DEF LocksOf
  <1>5. Home(f)[1] # "none"
    <2>1. Home(f)[1] = HomeOf(f[1])
      BY DEF Home
    <2> QED  BY <1>1, <2>1 DEF Tables
  <1>6. Apart(plan[r].steps[i], plan[q].steps[j])
    BY DEF LocksInv, Exclusive
  <1> QED  BY <1>2, <1>4, <1>5, <1>6 DEF Apart

LEMMA CommitsAreFull ==
    ASSUME LocksInv, [LocksNext]_vars, NEW q \in Requests, status[q] = "running", status'[q] = "committed"
    PROVE  at[q] = Len(plan[q].steps)
  <1>1. status' # status
    BY DEF LocksInv, LocksTyped
  <1>2. PICK r \in Requests :
           \/ status[r] = "new" /\ \E p \in Plans : Begin(r, p)
           \/ Acquire(r) \/ Commit(r) \/ Refuse(r) \/ Abort(r)
    BY <1>1 DEF LocksNext, vars
  <1>3. CASE status[r] = "new" /\ \E p \in Plans : Begin(r, p)
    <2>1. status' = [status EXCEPT ![r] = "running"]
      BY <1>3 DEF Begin
    <2> QED  BY <2>1 DEF LocksInv, LocksTyped
  <1>4. CASE Acquire(r)
    BY <1>1, <1>4 DEF Acquire
  <1>5. CASE Refuse(r) \/ Abort(r)
    <2>1. status' = [status EXCEPT ![r] = "rolled_back"]
      BY <1>5 DEF Refuse, Abort, End
    <2> QED  BY <2>1 DEF LocksInv, LocksTyped
  <1>6. CASE Commit(r)
    <2>1. status' = [status EXCEPT ![r] = "committed"] /\ at[r] = Len(plan[r].steps)
      BY <1>6 DEF Commit, End
    <2> QED  BY <2>1 DEF LocksInv, LocksTyped
  <1> QED  BY <1>2, <1>3, <1>4, <1>5, <1>6

\* reservation_service.py: what a handler has read stays true until it ends, for no other handler commits a
\* change of it meanwhile, however many there are and however large the warehouse.
THEOREM DecisionsStayTrue == RequestsSpec => DecisionsHold
  <1>1. LocksInv /\ [RequestsNext]_requestsVars =>
          [\A q \in Requests :
              status[q] = "running" /\ status'[q] = "committed"
              => \A r \in Running \ {q} : Known(r) \cap plan[q].breaks = {}]_vars
    <2> SUFFICES ASSUME LocksInv, [RequestsNext]_requestsVars, NEW q \in Requests,
                        status[q] = "running", status'[q] = "committed", NEW r \in Running \ {q}
                 PROVE  Known(r) \cap plan[q].breaks = {}
      OBVIOUS
    <2>1. [LocksNext]_vars
      BY LocksMove
    <2>2. at[q] = Len(plan[q].steps)
      BY <2>1, CommitsAreFull
    <2>3. r \in Requests /\ r # q
      BY DEF Running
    <2> QED  BY <2>2, <2>3, CommitsSpareReaders
  <1> QED  BY <1>1, LocksAreExclusive, PTL DEF RequestsSpec, DecisionsHold

------------------------------------------------------------------------------
(* Who waits for whom                                                        *)

LEMMA BelowIsStrict ==
    ASSUME NEW a, NEW b, NEW c
    PROVE  ~Below(a, a) /\ (Below(a, b) /\ Below(b, c) => Below(a, c))
  <1>1. RankOf(a[1]) \in Int /\ RankOf(b[1]) \in Int /\ RankOf(c[1]) \in Int
    BY RankType
  <1> QED  BY <1>1 DEF Below

\* Of the requests that wait for one another, each with a row below one that another of them waits for
LEMMA NoEndlessClimb ==
    ASSUME NEW D, IsFiniteSet(D), D # {}, NEW row, \A r \in D : \E q \in D : Below(row[r], row[q])
    PROVE  FALSE
  <1> DEFINE Up(r) == {q \in D : Below(row[r], row[q])}
             T == {Cardinality(Up(r)) : r \in D}
  <1>1. \A r \in D : IsFiniteSet(Up(r)) /\ Cardinality(Up(r)) \in Nat
    <2> TAKE r \in D
    <2>1. Up(r) \in SUBSET D
      OBVIOUS
    <2> QED  BY <2>1, FS_Subset, FS_CardinalityType
  <1>2. T \subseteq Nat /\ T # {}
    BY <1>1
  <1> HIDE DEF T
  <1>3. PICK t \in T : \A y \in T : t <= y
    BY <1>2, Least
  <1>4. PICK r \in D : t = Cardinality(Up(r))
    BY <1>3 DEF T
  <1>5. PICK q \in D : Below(row[r], row[q])
    OBVIOUS
  <1>6. Up(q) \subseteq Up(r) /\ q \in Up(r) /\ q \notin Up(q)
    BY <1>5, BelowIsStrict
  <1>7. Cardinality(Up(q)) < Cardinality(Up(r))
    <2> DEFINE U == Up(q)
               V == Up(r)
    <2>1. IsFiniteSet(V) /\ U \in SUBSET V /\ U # V
      BY <1>1, <1>6
    <2> HIDE DEF U, V
    <2>2. Cardinality(U) <= Cardinality(V) /\ (Cardinality(U) = Cardinality(V) => U = V)
      BY <2>1, FS_Subset
    <2>3. Cardinality(U) \in Nat /\ Cardinality(V) \in Nat
      BY <1>1 DEF U, V
    <2> QED  BY <2>1, <2>2, <2>3 DEF U, V
  <1>8. Cardinality(Up(q)) \in T /\ Cardinality(Up(q)) \in Nat /\ t \in Nat
    BY <1>1, <1>2, <1>3 DEF T
  <1> QED  BY <1>3, <1>4, <1>7, <1>8

\* A request that waits for a hold waits for its material, and nobody has the hold without it.
LEMMA NobodyWaitsForHolds ==
    ASSUME LocksInv, NEW r \in Waiting, NEW q \in Blockers(r)
    PROVE  Wanted(r).row[1] # "hold"
  <1> DEFINE s == plan[r].steps
             t == plan[q].steps
             m == <<"material", HoldMaterial[Wanted(r).row[2]]>>
  <1> SUFFICES ASSUME Wanted(r).row[1] = "hold" PROVE FALSE
    OBVIOUS
  <1>1. r \in Requests /\ q \in Requests /\ r # q /\ at[r] < Len(s) /\ Wanted(r) = s[at[r] + 1]
    BY DEF Waiting, Running, Blockers, Wanted
  <1>2. PICK j \in 1..at[q] : t[j].row = Wanted(r).row
    BY DEF Blockers, Done
  <1>3. /\ Made(s, 0..14, {}) /\ Len(s) \in Nat /\ at[r] \in Nat
        /\ Made(t, 0..14, {}) /\ Len(t) \in Nat /\ at[q] \in Nat /\ at[q] <= Len(t)
    BY <1>1, PlanSteps DEF LocksInv, Sound
  <1>4. HoldsGuarded(s, {}) /\ HoldsGuarded(t, {})
    BY <1>3 DEF Made
  <1>5. \E i \in 1..at[r] : s[i].mode = "update" /\ s[i].row = m
    <2>1. at[r] + 1 \in 1..Len(s) /\ s[at[r] + 1].row[1] = "hold"
      BY <1>1, <1>3
    <2>2. m = <<"material", HoldMaterial[s[at[r] + 1].row[2]]>>
      BY <1>1
    <2>3. (at[r] + 1) - 1 = at[r]
      BY <1>3
    <2> HIDE DEF s, m
    <2>4. \E i \in 1..((at[r] + 1) - 1) : s[i].mode = "update" /\ s[i].row = m
      BY <1>4, <2>1, <2>2 DEF HoldsGuarded
    <2> QED  BY <2>3, <2>4
  <1>6. \E i \in 1..at[q] : t[i].mode = "update" /\ t[i].row = m
    <2>1. j \in 1..Len(t) /\ t[j].row[1] = "hold"
      BY <1>2, <1>3
    <2>2. m = <<"material", HoldMaterial[t[j].row[2]]>>
      BY <1>2
    <2>3. \A i \in 1..(j - 1) : i \in 1..at[q]
      BY <1>3
    <2> HIDE DEF t, m
    <2>4. \E i \in 1..(j - 1) : t[i].mode = "update" /\ t[i].row = m
      BY <1>4, <2>1, <2>2 DEF HoldsGuarded
    <2> QED  BY <2>3, <2>4
  <1>7. PICK i \in 1..at[r] : s[i].mode = "update" /\ s[i].row = m
    BY <1>5
  <1>8. PICK k \in 1..at[q] : t[k].mode = "update" /\ t[k].row = m
    BY <1>6
  <1>9. Apart(s[i], t[k])
    BY <1>1 DEF LocksInv, Exclusive
  <1>10. m[1] # "none"
    OBVIOUS
  <1> QED  BY <1>7, <1>8, <1>9, <1>10 DEF Apart

\* Who has the row another waits for waits itself for one above it.
LEMMA WaitersClimb ==
    ASSUME LocksInv, NEW r \in Waiting, NEW q \in Blockers(r), q \in Waiting,
           Wanted(r).row[1] # "cache", Wanted(q).row[1] # "cache",
           NEW x \in Blockers(q), \A step \in Done(q) : step.row # Wanted(q).row
    PROVE  Below(Wanted(r).row, Wanted(q).row)
  <1> DEFINE t == plan[q].steps
             i == at[q] + 1
  <1>1. q \in Requests /\ at[q] < Len(t) /\ Wanted(q) = t[i]
    BY DEF Waiting, Running, Wanted
  <1>2. PICK j \in 1..at[q] : t[j].row = Wanted(r).row /\ t[j].row[1] # "none"
    BY DEF Blockers, Done
  <1>3. Wanted(r).row[1] # "hold" /\ Wanted(q).row[1] # "hold"
    BY NobodyWaitsForHolds
  <1>4. Wanted(q).row[1] # "none"
    BY DEF Blockers
  <1>5. /\ Made(t, 0..14, {}) /\ Len(t) \in Nat /\ at[q] \in Nat /\ at[q] <= Len(t)
        /\ \A k \in 1..Len(t) : t[k] \in LockSteps
    BY <1>1, PlanSteps DEF LocksInv, Sound
  <1>6. i \in 1..Len(t) /\ j \in 1..Len(t) /\ j < i
    BY <1>1, <1>5
  <1>7. t[j].row # t[i].row
    <2>1. t[j] \in Done(q)
      BY DEF Done
    <2> QED  BY <1>1, <2>1
  <1>8. \A row : row \in (Tables \cup {"none"}) \X Ids /\ row[1] \notin {"none", "cache", "hold"} => Ranked(row)
    <2> SUFFICES ASSUME NEW row, row \in (Tables \cup {"none"}) \X Ids, row[1] \notin {"none", "cache", "hold"}
                 PROVE  Ranked(row)
      OBVIOUS
    <2>1. row[1] \in Tables
      OBVIOUS
    <2> QED  BY <2>1, RanksAre DEF Ranked, Tables
  <1>9. t[i].row \in (Tables \cup {"none"}) \X Ids /\ t[j].row \in (Tables \cup {"none"}) \X Ids
    BY <1>5, <1>6 DEF LockSteps
  <1> HIDE DEF t, i
  <1>10. Ranked(t[i].row) /\ Ranked(t[j].row)
    BY <1>1, <1>2, <1>3, <1>4, <1>8, <1>9
  <1>11. Below(t[j].row, t[i].row)
    BY <1>5, <1>6, <1>7, <1>10 DEF Made, Climbs
  <1> QED  BY <1>1, <1>2, <1>11

LEMMA DeadlocksAreOfThese == LocksInv => DeadlocksOverCachesOrUpgrades
  <1> SUFFICES ASSUME LocksInv, NEW D \in SUBSET Requests, Deadlocked(D),
                      \A r \in D : /\ Wanted(r).row[1] # "cache"
                                   /\ \A step \in Done(r) : step.row # Wanted(r).row
               PROVE  FALSE
    BY DEF DeadlocksOverCachesOrUpgrades
  <1>1. D # {} /\ D \subseteq Waiting /\ \A r \in D : \E q \in D : q \in Blockers(r)
    BY DEF Deadlocked
  <1>2. IsFiniteSet(D)
    BY LocksAssumption, FS_Subset
  <1> DEFINE row == [r \in D |-> Wanted(r).row]
  <1>3. \A r \in D : \E q \in D : Below(row[r], row[q])
    <2> SUFFICES ASSUME NEW r \in D PROVE \E q \in D : Below(Wanted(r).row, Wanted(q).row)
      OBVIOUS
    <2>1. PICK q \in D : q \in Blockers(r)
      BY <1>1
    <2>2. PICK x \in D : x \in Blockers(q)
      BY <1>1
    <2>3. r \in Waiting /\ q \in Waiting
      BY <1>1
    <2>4. Below(Wanted(r).row, Wanted(q).row)
      BY <2>1, <2>2, <2>3, WaitersClimb
    <2> QED  BY <2>4
  <1> HIDE DEF row
  <1> QED  BY <1>1, <1>2, <1>3, NoEndlessClimb

\* warehouse/service.py, "the same order (block materials, then warehouse materials)": any number of requests can
\* only wait for one another over a row of the cache, or over one that each shares before it locks it.
THEOREM DeadlocksAreKnown == RequestsSpec => []DeadlocksOverCachesOrUpgrades
  BY LocksAreExclusive, DeadlocksAreOfThese, PTL

------------------------------------------------------------------------------
(* Tools elsewhere: a call runs its tool once at most, though it retries.    *)

CallRows == [step : {"idle", "token", "store", "initialize", "post", "over"},
             tool : {"none", "create_note", "append_note", "edit_note"},
             token : Nat, session : Nat, force : BOOLEAN, retried : BOOLEAN, knew : BOOLEAN,
             outcome : {"none", "done", "refused"}]

Credentials == [there : BOOLEAN, token : Nat, fresh : BOOLEAN, refresh : Nat]

\* What a call has done: nothing before it is over, whatever it has tried
CallOk(call, times, there) ==
    /\ times \in Nat
    /\ times # 0 => times = 1 /\ call.tool = "append_note" /\ call.step = "over"
    /\ call.outcome = "done" => call.step = "over" /\ IF call.tool = "append_note" THEN times = 1 ELSE there

RemoteInv ==
    /\ life \in Nat /\ era \in Nat /\ note \in BOOLEAN
    /\ credential \in Credentials
    /\ calls \in [Callers -> CallRows]
    /\ DOMAIN appended = Callers
    /\ \A c \in Callers : CallOk(calls[c], appended[c], note)

LEMMA RemoteBegins == RemoteInit => RemoteInv
  <1> SUFFICES ASSUME RemoteInit PROVE RemoteInv
    OBVIOUS
  <1>1. NoCall \in CallRows /\ NoCall.outcome # "done"
    BY DEF NoCall, NoToken, CallRows
  <1>2. credential \in Credentials
    <2>1. NoCredential \in Credentials
      BY DEF NoCredential, NoToken, Credentials
    <2>2. [there |-> TRUE, token |-> 1, fresh |-> TRUE, refresh |-> 1] \in Credentials
      BY DEF Credentials
    <2> QED  BY <2>1, <2>2 DEF RemoteInit
  <1>3. life \in Nat /\ era \in Nat /\ note \in BOOLEAN
    BY DEF RemoteInit
  <1>4. \A c \in Callers : calls[c] = NoCall /\ appended[c] = 0
    BY DEF RemoteInit
  <1>5. calls \in [Callers -> CallRows] /\ DOMAIN appended = Callers
    BY <1>1 DEF RemoteInit
  <1> QED  BY <1>1, <1>2, <1>3, <1>4, <1>5 DEF RemoteInv, CallOk

LEMMA FreshTyped ==
    ASSUME NEW tool \in {"create_note", "append_note", "edit_note"}
    PROVE  Fresh(tool) \in CallRows /\ Fresh(tool).outcome = "none" /\ Fresh(tool).tool = tool
  BY DEF Fresh, NoCall, NoToken, CallRows

LEMMA ErrorTyped ==
    ASSUME RemoteInv, NEW c \in Callers
    PROVE  /\ CallOver(c, "refused") \in CallRows /\ McpError(c) \in CallRows
           /\ CallOver(c, "refused").outcome = "refused" /\ McpError(c).outcome # "done"
           /\ CallOver(c, "refused").tool = calls[c].tool /\ CallOver(c, "refused").step = "over"
           /\ calls[c].tool = "append_note" => McpError(c) = CallOver(c, "refused")
  <1>1. calls[c] \in CallRows
    BY DEF RemoteInv
  <1>2. CallOver(c, "refused") \in CallRows /\ CallOver(c, "refused").outcome = "refused"
        /\ CallOver(c, "refused").tool = calls[c].tool /\ CallOver(c, "refused").step = "over"
    BY <1>1 DEF CallOver, CallRows
  <1>3. Fresh("edit_note") \in CallRows /\ Fresh("edit_note").outcome = "none"
    BY FreshTyped
  <1> QED  BY <1>2, <1>3 DEF McpError

\* A call that goes on without running its tool.
LEMMA CallMoves ==
    ASSUME RemoteInv, NEW c \in Callers, NEW x \in CallRows, CallGoes(c, x), x.outcome # "done",
           calls[c].step # "over", UNCHANGED <<life, era, note, appended>>, credential' \in Credentials
    PROVE  RemoteInv'
  <1>1. calls' \in [Callers -> CallRows] /\ calls'[c] = x /\ \A d \in Callers : d # c => calls'[d] = calls[d]
    BY DEF RemoteInv, CallGoes
  <1>2. ASSUME NEW d \in Callers PROVE CallOk(calls'[d], appended'[d], note')
    <2>1. CASE d = c
      <3>1. appended[c] = 0
        BY DEF RemoteInv, CallOk
      <3> QED  BY <1>1, <2>1, <3>1 DEF CallOk
    <2>2. CASE d # c
      BY <1>1, <2>2 DEF RemoteInv
    <2> QED  BY <2>1, <2>2
  <1> QED  BY <1>1, <1>2 DEF RemoteInv

\* A call whose tool is run, though its caller may not hear of it.
LEMMA CallDoes ==
    ASSUME RemoteInv, NEW c \in Callers, NEW x \in CallRows, CallGoes(c, x), Does(c),
           UNCHANGED <<life, era, credential>>,
           x.outcome = "done" => x.step = "over" /\ x.tool = calls[c].tool,
           calls[c].tool = "append_note" => x.tool = "append_note" /\ x.step = "over"
    PROVE  RemoteInv'
  <1>1. calls' \in [Callers -> CallRows] /\ calls'[c] = x /\ \A d \in Callers : d # c => calls'[d] = calls[d]
    BY DEF RemoteInv, CallGoes
  <1>2. calls[c] \in CallRows /\ calls[c].step = "post" /\ appended[c] = 0
    BY DEF RemoteInv, CallOk, Does, Reached
  <1>3. note' \in BOOLEAN /\ (note => note') /\ (calls[c].tool # "append_note" => note')
    BY DEF RemoteInv, Does
  <1>4. /\ DOMAIN appended' = Callers
        /\ appended'[c] = IF calls[c].tool = "append_note" THEN 1 ELSE 0
        /\ \A d \in Callers : d # c => appended'[d] = appended[d]
    BY <1>2 DEF RemoteInv, Does
  <1>5. ASSUME NEW d \in Callers PROVE CallOk(calls'[d], appended'[d], note')
    <2>1. CASE d = c
      BY <1>1, <1>3, <1>4, <2>1 DEF CallOk
    <2>2. CASE d # c
      BY <1>1, <1>3, <1>4, <2>2 DEF RemoteInv, CallOk
    <2> QED  BY <2>1, <2>2
  <1> QED  BY <1>1, <1>3, <1>4, <1>5 DEF RemoteInv

LEMMA RemoteStep == RemoteInv /\ [RemoteNext]_remoteVars => RemoteInv'
  <1> SUFFICES ASSUME RemoteInv, [RemoteNext]_remoteVars PROVE RemoteInv'
    OBVIOUS
  <1>1. /\ life \in Nat /\ era \in Nat /\ credential \in Credentials
        /\ \A c \in Callers : calls[c] \in CallRows
    BY DEF RemoteInv
  <1>2. CASE UNCHANGED remoteVars
    BY <1>2 DEF remoteVars, RemoteInv
  <1>3. CASE Restart \/ SessionsEnd \/ Expires
    <2>1. life' \in Nat /\ era' \in Nat /\ UNCHANGED <<note, appended, calls>>
      BY <1>1, <1>3 DEF Restart, SessionsEnd, Expires
    <2>2. credential' = credential \/ credential' = [credential EXCEPT !.fresh = FALSE]
      BY <1>3 DEF Restart, SessionsEnd, Expires
    <2>3. credential' \in Credentials
      BY <1>1, <2>2 DEF Credentials
    <2> QED  BY <2>1, <2>3 DEF RemoteInv
  <1>4. ASSUME NEW c \in Callers, create_note(c) \/ append_note(c) PROVE RemoteInv'
    <2>1. calls[c].step = "idle" /\ UNCHANGED <<life, era, note, appended, credential>>
      BY <1>4 DEF create_note, append_note, NoCall
    <2>2. CallGoes(c, Fresh("create_note")) \/ CallGoes(c, Fresh("append_note"))
      BY <1>4 DEF create_note, append_note
    <2> QED  BY <1>1, <2>1, <2>2, FreshTyped, CallMoves
  <1>5. ASSUME NEW c \in Callers, KeepsToken(c) PROVE RemoteInv'
    <2> DEFINE x == [calls[c] EXCEPT !.step = "initialize", !.token = credential.token]
    <2>1. calls[c].step = "token" /\ UNCHANGED <<life, era, note, appended, credential>> /\ CallGoes(c, x)
      BY <1>5 DEF KeepsToken
    <2>2. calls[c].outcome # "done"
      BY <2>1 DEF RemoteInv, CallOk
    <2>3. x \in CallRows /\ x.outcome # "done"
      BY <1>1, <2>2 DEF CallRows, Credentials
    <2> HIDE DEF x
    <2> QED  BY <1>1, <2>1, <2>3, CallMoves
  <1>6. ASSUME NEW c \in Callers, Granted(c) PROVE RemoteInv'
    <2> DEFINE x == [calls[c] EXCEPT !.step = "store", !.token = life, !.knew = credential.there]
    <2>1. calls[c].step = "token" /\ UNCHANGED <<life, era, note, appended, credential>> /\ CallGoes(c, x)
      BY <1>6 DEF Granted
    <2>2. calls[c].outcome # "done"
      BY <2>1 DEF RemoteInv, CallOk
    <2>3. x \in CallRows /\ x.outcome # "done"
      BY <1>1, <2>2 DEF CallRows, Credentials
    <2> HIDE DEF x
    <2> QED  BY <1>1, <2>1, <2>3, CallMoves
  <1>7. ASSUME NEW c \in Callers, _store_tokens(c) PROVE RemoteInv'
    <2> DEFINE x == [calls[c] EXCEPT !.step = "initialize", !.force = FALSE]
    <2>1. calls[c].step = "store" /\ UNCHANGED <<life, era, note, appended>>
      BY <1>7 DEF _store_tokens
    <2>2. \/ CallGoes(c, CallOver(c, "refused")) /\ UNCHANGED credential
          \/ CallGoes(c, x) /\ credential' = [there |-> TRUE, token |-> calls[c].token, fresh |-> TRUE, refresh |-> calls[c].token]
      BY <1>7 DEF _store_tokens
    <2>3. calls[c].outcome # "done"
      BY <2>1 DEF RemoteInv, CallOk
    <2>4. x \in CallRows /\ x.outcome # "done"
      BY <1>1, <2>3 DEF CallRows
    <2>5. [there |-> TRUE, token |-> calls[c].token, fresh |-> TRUE, refresh |-> calls[c].token] \in Credentials
      BY <1>1 DEF CallRows, Credentials
    <2> HIDE DEF x
    <2> QED  BY <1>1, <2>1, <2>2, <2>4, <2>5, ErrorTyped, CallMoves
  <1>8. ASSUME NEW c \in Callers, NotGranted(c) PROVE RemoteInv'
    <2>1. calls[c].step = "token" /\ UNCHANGED <<life, era, note, appended, credential>> /\ CallGoes(c, CallOver(c, "refused"))
      BY <1>8 DEF NotGranted
    <2> QED  BY <1>1, <2>1, ErrorTyped, CallMoves
  <1>9. ASSUME NEW c \in Callers, _ensure_ready(c) PROVE RemoteInv'
    <2> DEFINE x == [calls[c] EXCEPT !.step = "post", !.session = era]
    <2>1. calls[c].step = "initialize" /\ UNCHANGED <<life, era, note, appended, credential>>
          /\ (CallGoes(c, x) \/ CallGoes(c, McpError(c)))
      BY <1>9 DEF _ensure_ready
    <2>2. calls[c].outcome # "done"
      BY <2>1 DEF RemoteInv, CallOk
    <2>3. x \in CallRows /\ x.outcome # "done"
      BY <1>1, <2>2 DEF CallRows
    <2> HIDE DEF x
    <2> QED  BY <1>1, <2>1, <2>3, ErrorTyped, CallMoves
  <1>10. ASSUME NEW c \in Callers, _forget_auth(c) PROVE RemoteInv'
    <2> DEFINE x == [calls[c] EXCEPT !.step = "token", !.token = NoToken, !.session = NoToken,
                                     !.force = TRUE, !.retried = TRUE]
    <2>1. calls[c].step = "post" /\ UNCHANGED <<life, era, note, appended, credential>>
          /\ (CallGoes(c, x) \/ CallGoes(c, McpError(c)))
      BY <1>10 DEF _forget_auth
    <2>2. calls[c].outcome # "done"
      BY <2>1 DEF RemoteInv, CallOk
    <2>3. x \in CallRows /\ x.outcome # "done"
      BY <1>1, <2>2 DEF CallRows, NoToken
    <2> HIDE DEF x
    <2> QED  BY <1>1, <2>1, <2>3, ErrorTyped, CallMoves
  <1>11. ASSUME NEW c \in Callers, SessionForgotten(c) PROVE RemoteInv'
    <2> DEFINE x == [calls[c] EXCEPT !.step = "initialize", !.session = NoToken, !.retried = TRUE]
    <2>1. calls[c].step = "post" /\ UNCHANGED <<life, era, note, appended, credential>>
          /\ (CallGoes(c, x) \/ CallGoes(c, McpError(c)))
      BY <1>11 DEF SessionForgotten
    <2>2. calls[c].outcome # "done"
      BY <2>1 DEF RemoteInv, CallOk
    <2>3. x \in CallRows /\ x.outcome # "done"
      BY <1>1, <2>2 DEF CallRows, NoToken
    <2> HIDE DEF x
    <2> QED  BY <1>1, <2>1, <2>3, ErrorTyped, CallMoves
  <1>12. ASSUME NEW c \in Callers, PathTaken(c) \/ NothingToEdit(c) PROVE RemoteInv'
    <2>1. calls[c].step = "post" /\ UNCHANGED <<life, era, note, appended, credential>> /\ CallGoes(c, McpError(c))
      BY <1>12 DEF PathTaken, NothingToEdit, Reached
    <2> QED  BY <1>1, <2>1, ErrorTyped, CallMoves
  <1>13. ASSUME NEW c \in Callers, _call_tool(c) PROVE RemoteInv'
    <2> DEFINE x == CallOver(c, "done")
    <2>1. x \in CallRows /\ x.step = "over" /\ x.tool = calls[c].tool
      BY <1>1 DEF CallOver, CallRows
    <2>2. Does(c) /\ CallGoes(c, x) /\ UNCHANGED <<life, era, credential>>
      BY <1>13 DEF _call_tool
    <2> HIDE DEF x
    <2> QED  BY <2>1, <2>2, CallDoes
  <1>14. ASSUME NEW c \in Callers, AnswerIsLost(c) PROVE RemoteInv'
    <2>1. UNCHANGED <<life, era, credential>> /\ CallGoes(c, McpError(c))
      BY <1>14 DEF AnswerIsLost
    <2>2. CASE Does(c)
      BY <2>1, <2>2, ErrorTyped, CallDoes
    <2>3. CASE calls[c].step \in {"initialize", "post"} /\ UNCHANGED <<note, appended>>
      BY <1>1, <2>1, <2>3, ErrorTyped, CallMoves
    <2> QED  BY <1>14, <2>2, <2>3 DEF AnswerIsLost
  <1> QED  BY <1>2, <1>3, <1>4, <1>5, <1>6, <1>7, <1>8, <1>9, <1>10, <1>11, <1>12, <1>13, <1>14 DEF RemoteNext

LEMMA RemoteMove == [RequestsNext]_requestsVars => [RemoteNext]_remoteVars
  <1> SUFFICES ASSUME [RequestsNext]_requestsVars PROVE [RemoteNext]_remoteVars
    OBVIOUS
  <1>1. CASE RequestsNext /\ part = "remote"
    BY <1>1 DEF RequestsNext
  <1>2. CASE RequestsNext /\ part # "remote"
    BY <1>2 DEF RequestsNext, Stays
  <1>3. CASE UNCHANGED requestsVars
    BY <1>3 DEF requestsVars
  <1> QED  BY <1>1, <1>2, <1>3

\* core/mcp_remote.py, _rpc: however often tokens and sessions are forgotten and answers lost, a text is appended
\* once at most, and a call that reports success has run its tool.
THEOREM ToolsRunOnce == RequestsSpec => []RunsOnce
  <1>1. RequestsInit => RemoteInv
    BY RemoteBegins DEF RequestsInit
  <1>2. RemoteInv /\ [RequestsNext]_requestsVars => RemoteInv'
    BY RemoteMove, RemoteStep
  <1>3. RemoteInv => RunsOnce
    BY DEF RemoteInv, CallOk, RunsOnce
  <1> QED  BY <1>1, <1>2, <1>3, PTL DEF RequestsSpec

------------------------------------------------------------------------------
(* Decisions in a chat.                                                      *)

Outcomes == {"blocked", "executed", "pending"}
Verdicts == {"pending", "approved", "rejected"}
CameRows == UNION {[S -> Outcomes] : S \in SUBSET Tools}
MessageRows == [uses : SUBSET Tools, resolutions : CameRows]
RoundRows == [at : {"round"}, message : Nat, left : SUBSET Tools, came : CameRows]
TurnRows == {Free, [at |-> "ask"]} \cup RoundRows

InRound(r) == turn[r].at = "round"

ChatTyped ==
    /\ messages \in Seq(MessageRows)
    /\ turn \in [Turns -> TurnRows]
    /\ chatStops \in Nat

\* A round is of a message of its own, and has each of its calls behind it or before it
RoundsOk ==
    \A r \in Turns : InRound(r) =>
        /\ turn[r].message \in 1..Len(messages)
        /\ DOMAIN turn[r].came \cup turn[r].left = messages[turn[r].message].uses
        /\ \A q \in Turns : InRound(q) /\ turn[q].message = turn[r].message => q = r

\* An action is of a call that is behind its round, and was carried out if it was approved
ActionsOk ==
    /\ DOMAIN ran = DOMAIN actions
    /\ \A a \in DOMAIN actions :
        /\ a[1] \in 1..Len(messages) /\ a[2] \in Tools
        /\ actions[a] \in Verdicts
        /\ ran[a] = IF actions[a] = "approved" THEN 1 ELSE 0
        /\ \A r \in Turns : InRound(r) /\ turn[r].message = a[1] => a[2] \notin turn[r].left

ChatInv == ChatTyped /\ RoundsOk /\ ActionsOk /\ PendingCanBeDecided

\* One more call has come to something.
LEMMA CameGrows ==
    ASSUME NEW f \in CameRows, NEW t \in Tools, NEW v \in Outcomes
    PROVE  [u \in DOMAIN f \cup {t} |-> IF u = t THEN v ELSE f[u]] \in CameRows
  <1>1. PICK S \in SUBSET Tools : f \in [S -> Outcomes]
    BY DEF CameRows
  <1>2. DOMAIN f \cup {t} \in SUBSET Tools
    BY <1>1
  <1>3. [u \in DOMAIN f \cup {t} |-> IF u = t THEN v ELSE f[u]] \in [DOMAIN f \cup {t} -> Outcomes]
    BY <1>1
  <1> HIDE DEF Outcomes
  <1> QED  BY <1>2, <1>3 DEF CameRows

LEMMA RoundTyped ==
    ASSUME ChatTyped, NEW r \in Turns
    PROVE  /\ turn[r] \in TurnRows
           /\ InRound(r) => turn[r] \in RoundRows
           /\ turn[r] = Free => ~InRound(r)
           /\ turn[r].at = "ask" => ~InRound(r)
  BY DEF ChatTyped, TurnRows, InRound, Free

\* The results of a message are written.
LEMMA MessageRewritten ==
    ASSUME ChatTyped, NEW m \in 1..Len(messages), NEW x \in CameRows,
           messages' = [messages EXCEPT ![m].resolutions = x]
    PROVE  /\ messages' \in Seq(MessageRows) /\ Len(messages') = Len(messages)
           /\ \A i \in 1..Len(messages) : messages'[i].uses = messages[i].uses
           /\ messages'[m].resolutions = x
           /\ \A i \in 1..Len(messages) : i # m => messages'[i].resolutions = messages[i].resolutions
  <1>1. messages \in [1..Len(messages) -> MessageRows] /\ Len(messages) \in Nat
    BY DEF ChatTyped
  <1>2. PICK y : y = [messages[m] EXCEPT !.resolutions = x]
    OBVIOUS
  <1>3. y \in MessageRows /\ y.uses = messages[m].uses /\ y.resolutions = x
    BY <1>1, <1>2 DEF MessageRows
  <1>4. messages' = [messages EXCEPT ![m] = y]
    BY <1>2
  <1>5. /\ messages' \in Seq(MessageRows) /\ Len(messages') = Len(messages)
        /\ \A i \in 1..Len(messages) : messages'[i] = IF i = m THEN y ELSE messages[i]
    BY <1>1, <1>3, <1>4 DEF ChatTyped
  <1> QED  BY <1>3, <1>5

\* A turn goes somewhere that is no round, and everything else stays.
LEMMA TurnLeaves ==
    ASSUME ChatInv, NEW r \in Turns, NEW x \in {Free, [at |-> "ask"]}, Goes(r, x),
           UNCHANGED <<messages, actions, ran>>, chatStops' \in Nat,
           InRound(r) => chatStops' > 0, chatStops > 0 => chatStops' > 0
    PROVE  ChatInv'
  <1>1. /\ turn' \in [Turns -> TurnRows] /\ turn'[r] = x
        /\ \A q \in Turns : q # r => turn'[q] = turn[q]
    BY DEF ChatInv, ChatTyped, Goes, TurnRows
  <1>2. ~InRound(r)' /\ \A q \in Turns : InRound(q)' => InRound(q) /\ q # r /\ turn'[q] = turn[q]
    BY <1>1 DEF InRound, Free
  <1>3. ChatTyped'
    BY <1>1 DEF ChatInv, ChatTyped
  <1>4. RoundsOk'
    BY <1>2 DEF ChatInv, RoundsOk
  <1>5. ActionsOk'
    BY <1>2 DEF ChatInv, ActionsOk
  <1>6. PendingCanBeDecided'
    <2> SUFFICES ASSUME NEW a \in Pending,
                        ~(chatStops' > 0), ~(messages[a[1]].uses \subseteq DOMAIN messages[a[1]].resolutions)
                 PROVE  \E q \in Turns : turn'[q].at = "round" /\ turn'[q].message = a[1]
      BY DEF PendingCanBeDecided, Pending
    <2>1. PICK q \in Turns : turn[q].at = "round" /\ turn[q].message = a[1]
      BY DEF ChatInv, PendingCanBeDecided
    <2>2. q # r
      BY <2>1 DEF InRound
    <2> QED  BY <1>1, <2>1, <2>2
  <1> QED  BY <1>3, <1>4, <1>5, <1>6 DEF ChatInv

LEMMA ChatBegins == ChatInit => ChatInv
  <1> SUFFICES ASSUME ChatInit PROVE ChatInv
    OBVIOUS
  <1>1. ChatTyped
    BY DEF ChatInit, ChatTyped, TurnRows
  <1>2. \A r \in Turns : ~InRound(r)
    BY DEF ChatInit, InRound, Free
  <1>3. DOMAIN actions = {} /\ DOMAIN ran = {} /\ Pending = {}
    BY DEF ChatInit, Pending
  <1> QED  BY <1>1, <1>2, <1>3 DEF ChatInv, RoundsOk, ActionsOk, PendingCanBeDecided

LEMMA CallsKeep ==
    ASSUME ChatInv, NEW r \in Turns, call_claude(r)
    PROVE  ChatInv'
  <1>1. ~InRound(r)
    BY DEF call_claude, InRound
  <1>2. CASE Goes(r, Free) /\ UNCHANGED messages
    BY <1>1, <1>2, TurnLeaves DEF call_claude, ChatInv, ChatTyped
  <1>3. CASE ~(Goes(r, Free) /\ UNCHANGED messages)
    <2>1. PICK U \in (SUBSET Tools) \ {{}} :
             /\ messages' = Append(messages, [uses |-> U, resolutions |-> Nothing])
             /\ Goes(r, [at |-> "round", message |-> Len(messages'), left |-> U, came |-> Nothing])
      BY <1>3 DEF call_claude
    <2>2. Nothing \in CameRows /\ DOMAIN Nothing = {}
      <3>1. Nothing \in [{} -> Outcomes] /\ {} \in SUBSET Tools
        BY DEF Nothing
      <3> QED  BY <3>1 DEF CameRows
    <2> DEFINE n == Len(messages)
               y == [uses |-> U, resolutions |-> Nothing]
               x == [at |-> "round", message |-> Len(messages'), left |-> U, came |-> Nothing]
    <2>3. y \in MessageRows /\ y.uses = U
      BY <2>2 DEF MessageRows
    <2>4. messages \in Seq(MessageRows) /\ messages' = Append(messages, y) /\ n \in Nat
      BY <2>1 DEF ChatInv, ChatTyped
    <2> HIDE DEF y
    <2>5. /\ messages' \in Seq(MessageRows) /\ Len(messages') = n + 1 /\ messages'[n + 1] = y
          /\ \A i \in 1..n : messages'[i] = messages[i]
      BY <2>3, <2>4
    <2>6. x \in RoundRows /\ x.message = n + 1 /\ x.left = U /\ x.came = Nothing /\ x.at = "round"
      BY <2>2, <2>4, <2>5 DEF RoundRows
    <2>7. Goes(r, x)
      BY <2>1
    <2> HIDE DEF x, n
    <2>8. /\ turn' \in [Turns -> TurnRows] /\ turn'[r] = x
          /\ \A q \in Turns : q # r => turn'[q] = turn[q]
      BY <2>6, <2>7 DEF ChatInv, ChatTyped, Goes, TurnRows
    <2>9. UNCHANGED <<actions, ran, chatStops>>
      BY DEF call_claude
    <2>10. ChatTyped'
      BY <2>5, <2>8, <2>9 DEF ChatInv, ChatTyped
    <2>11. \A q \in Turns : InRound(q) => turn[q].message \in 1..n /\ turn[q].message \in 1..(n + 1)
                                         /\ turn[q].message # n + 1
      BY <2>4 DEF ChatInv, RoundsOk, n
    <2>12. RoundsOk'
      <3> SUFFICES ASSUME NEW p \in Turns, InRound(p)'
                   PROVE  /\ turn'[p].message \in 1..(n + 1)
                          /\ DOMAIN turn'[p].came \cup turn'[p].left = messages'[turn'[p].message].uses
                          /\ \A q \in Turns : InRound(q)' /\ turn'[q].message = turn'[p].message => q = p
        BY <2>5 DEF RoundsOk
      <3>1. CASE p = r
        <4>1. \A q \in Turns : InRound(q)' /\ q # r => turn'[q].message # n + 1
          BY <2>8, <2>11 DEF InRound
        <4>2. n + 1 \in 1..(n + 1)
          BY <2>4 DEF n
        <4> QED  BY <2>2, <2>3, <2>5, <2>6, <2>8, <3>1, <4>1, <4>2
      <3>2. CASE p # r
        <4>1. InRound(p) /\ turn'[p] = turn[p]
          BY <2>8, <3>2 DEF InRound
        <4>2. \A q \in Turns : q # r /\ InRound(q)' => InRound(q) /\ turn'[q] = turn[q]
          BY <2>8 DEF InRound
        <4>3. turn'[r].message # turn'[p].message
          BY <2>6, <2>8, <2>11, <4>1
        <4>4. messages'[turn[p].message] = messages[turn[p].message]
          BY <2>5, <2>11, <4>1
        <4> QED  BY <2>11, <4>1, <4>2, <4>3, <4>4 DEF ChatInv, RoundsOk
      <3> QED  BY <3>1, <3>2
    <2>13. ActionsOk'
      <3>1. \A a \in DOMAIN actions : a[1] \in 1..n /\ a[1] \in 1..(n + 1) /\ a[1] # n + 1
        BY <2>4 DEF ChatInv, ActionsOk, n
      <3>2. \A a \in DOMAIN actions : \A q \in Turns : InRound(q)' /\ turn'[q].message = a[1] => a[2] \notin turn'[q].left
        <4> SUFFICES ASSUME NEW a \in DOMAIN actions, NEW q \in Turns, InRound(q)', turn'[q].message = a[1]
                     PROVE  a[2] \notin turn'[q].left
          OBVIOUS
        <4>1. q # r
          BY <2>6, <2>8, <3>1
        <4>2. InRound(q) /\ turn'[q] = turn[q]
          BY <2>8, <4>1 DEF InRound
        <4> QED  BY <4>2 DEF ChatInv, ActionsOk
      <3> QED  BY <2>5, <2>9, <3>1, <3>2 DEF ChatInv, ActionsOk
    <2>14. PendingCanBeDecided'
      <3>1. Pending' = Pending
        BY <2>9 DEF Pending
      <3> SUFFICES ASSUME NEW a \in Pending, ~(chatStops > 0),
                          ~(messages'[a[1]].uses \subseteq DOMAIN messages'[a[1]].resolutions)
                   PROVE  \E q \in Turns : turn'[q].at = "round" /\ turn'[q].message = a[1]
        BY <2>9, <3>1 DEF PendingCanBeDecided
      <3>2. a[1] \in 1..n
        BY DEF ChatInv, ActionsOk, Pending, n
      <3>3. messages'[a[1]] = messages[a[1]]
        BY <2>5, <3>2
      <3>4. PICK q \in Turns : turn[q].at = "round" /\ turn[q].message = a[1]
        BY <3>3 DEF ChatInv, PendingCanBeDecided
      <3>5. q # r
        BY <1>1, <3>4 DEF InRound
      <3> QED  BY <2>8, <3>4, <3>5
    <2> QED  BY <2>10, <2>12, <2>13, <2>14 DEF ChatInv
  <1> QED  BY <1>2, <1>3

\* A round goes on or stays as it is, by the calls it has left and what the others came to.
LEMMA RoundMoves ==
    ASSUME ChatInv, NEW r \in Turns, InRound(r), NEW t \in turn[r].left, NEW v \in Outcomes,
           Goes(r, [turn[r] EXCEPT !.left = @ \ {t},
                                   !.came = [u \in DOMAIN @ \cup {t} |-> IF u = t THEN v ELSE @[u]]]),
           UNCHANGED <<messages, chatStops>>
    PROVE  /\ ChatTyped' /\ RoundsOk'
           /\ \A q \in Turns : /\ InRound(q)' <=> InRound(q)
                               /\ InRound(q) => turn'[q].message = turn[q].message /\ turn'[q].left \subseteq turn[q].left
           /\ t \notin turn'[r].left
  <1>1. turn[r] \in RoundRows
    BY RoundTyped DEF ChatInv
  <1>2. PICK c : c = [u \in DOMAIN turn[r].came \cup {t} |-> IF u = t THEN v ELSE turn[r].came[u]]
    OBVIOUS
  <1>3. turn[r].came \in CameRows /\ turn[r].left \in SUBSET Tools /\ t \in Tools
    BY <1>1 DEF RoundRows
  <1>4. c \in CameRows /\ DOMAIN c = DOMAIN turn[r].came \cup {t}
    BY <1>2, <1>3, CameGrows
  <1>5. PICK x : x = [turn[r] EXCEPT !.left = turn[r].left \ {t}, !.came = c]
    OBVIOUS
  <1>6. /\ x \in RoundRows /\ x.at = "round" /\ x.message = turn[r].message
        /\ x.left = turn[r].left \ {t} /\ x.came = c
    BY <1>1, <1>4, <1>5 DEF RoundRows
  <1>7. Goes(r, x)
    BY <1>2, <1>5
  <1>8. /\ turn' \in [Turns -> TurnRows] /\ turn'[r] = x
        /\ \A q \in Turns : q # r => turn'[q] = turn[q]
    BY <1>6, <1>7 DEF ChatInv, ChatTyped, Goes, TurnRows
  <1>9. ChatTyped'
    BY <1>8 DEF ChatInv, ChatTyped
  <1>10. \A q \in Turns : /\ InRound(q)' <=> InRound(q)
                          /\ InRound(q) => turn'[q].message = turn[q].message /\ turn'[q].left \subseteq turn[q].left
    BY <1>6, <1>8 DEF InRound
  <1>11. RoundsOk'
    <2> SUFFICES ASSUME NEW p \in Turns, InRound(p)
                 PROVE  /\ turn[p].message \in 1..Len(messages)
                        /\ DOMAIN turn'[p].came \cup turn'[p].left = messages[turn[p].message].uses
                        /\ \A q \in Turns : InRound(q) /\ turn[q].message = turn[p].message => q = p
      BY <1>10 DEF RoundsOk
    <2>1. DOMAIN turn'[p].came \cup turn'[p].left = DOMAIN turn[p].came \cup turn[p].left
      BY <1>4, <1>6, <1>8
    <2> QED  BY <2>1 DEF ChatInv, RoundsOk
  <1> QED  BY <1>6, <1>8, <1>9, <1>10, <1>11

LEMMA CallsCome ==
    ASSUME ChatInv, NEW r \in Turns, tool_call(r)
    PROVE  ChatInv'
  <1>1. InRound(r) /\ UNCHANGED <<messages, asks, chatStops>>
    BY DEF tool_call, InRound
  <1>2. PICK t \in turn[r].left, v \in Outcomes :
          /\ Goes(r, [turn[r] EXCEPT !.left = @ \ {t},
                                     !.came = [u \in DOMAIN @ \cup {t} |-> IF u = t THEN v ELSE @[u]]])
          /\ \/ UNCHANGED <<actions, ran>>
             \/ /\ actions' = [a \in DOMAIN actions \cup {<<turn[r].message, t>>} |->
                                 IF a = <<turn[r].message, t>> THEN "pending" ELSE actions[a]]
                /\ ran' = [a \in DOMAIN actions' |-> IF a = <<turn[r].message, t>> THEN 0 ELSE ran[a]]
    BY DEF tool_call, Outcomes
  <1>3. /\ ChatTyped' /\ RoundsOk'
        /\ \A q \in Turns : /\ InRound(q)' <=> InRound(q)
                            /\ InRound(q) => turn'[q].message = turn[q].message /\ turn'[q].left \subseteq turn[q].left
        /\ t \notin turn'[r].left
    BY <1>1, <1>2, RoundMoves
  <1>4. turn[r].message \in 1..Len(messages) /\ t \in Tools
    <2>1. turn[r] \in RoundRows
      BY <1>1, RoundTyped DEF ChatInv
    <2> QED  BY <1>1, <2>1 DEF ChatInv, RoundsOk, RoundRows
  <1>5. CASE UNCHANGED <<actions, ran>>
    <2>1. ActionsOk'
      BY <1>1, <1>3, <1>5 DEF ChatInv, ActionsOk
    <2>2. PendingCanBeDecided'
      BY <1>1, <1>3, <1>5 DEF ChatInv, PendingCanBeDecided, Pending, InRound
    <2> QED  BY <1>3, <2>1, <2>2 DEF ChatInv
  <1>6. CASE ~UNCHANGED <<actions, ran>>
    <2> DEFINE k == <<turn[r].message, t>>
    <2>1. k[1] = turn[r].message /\ k[2] = t
      OBVIOUS
    <2>2. /\ actions' = [a \in DOMAIN actions \cup {k} |-> IF a = k THEN "pending" ELSE actions[a]]
          /\ ran' = [a \in DOMAIN actions' |-> IF a = k THEN 0 ELSE ran[a]]
      BY <1>2, <1>6
    <2> HIDE DEF k
    <2>3. /\ DOMAIN actions' = DOMAIN actions \cup {k} /\ DOMAIN ran' = DOMAIN actions'
          /\ actions'[k] = "pending" /\ ran'[k] = 0
          /\ \A a \in DOMAIN actions : a # k => actions'[a] = actions[a] /\ ran'[a] = ran[a]
      BY <2>2
    <2>4. ActionsOk'
      <3> SUFFICES ASSUME NEW a \in DOMAIN actions'
                   PROVE  /\ a[1] \in 1..Len(messages) /\ a[2] \in Tools
                          /\ actions'[a] \in Verdicts
                          /\ ran'[a] = IF actions'[a] = "approved" THEN 1 ELSE 0
                          /\ \A q \in Turns : InRound(q)' /\ turn'[q].message = a[1] => a[2] \notin turn'[q].left
        BY <1>1, <2>3 DEF ActionsOk, Verdicts
      <3>1. CASE a = k
        <4>1. \A q \in Turns : InRound(q)' /\ turn'[q].message = k[1] => q = r
          BY <1>1, <1>3, <2>1 DEF ChatInv, RoundsOk
        <4> QED  BY <1>3, <1>4, <2>1, <2>3, <3>1, <4>1 DEF Verdicts
      <3>2. CASE a # k
        <4>1. a \in DOMAIN actions /\ actions'[a] = actions[a] /\ ran'[a] = ran[a]
          BY <2>3, <3>2
        <4> QED  BY <1>3, <4>1 DEF ChatInv, ActionsOk
      <3> QED  BY <3>1, <3>2
    <2>5. PendingCanBeDecided'
      <3> SUFFICES ASSUME NEW a \in DOMAIN actions', actions'[a] = "pending", ~(chatStops > 0),
                          ~(messages[a[1]].uses \subseteq DOMAIN messages[a[1]].resolutions)
                   PROVE  \E q \in Turns : turn'[q].at = "round" /\ turn'[q].message = a[1]
        BY <1>1 DEF PendingCanBeDecided, Pending
      <3>1. CASE a = k
        BY <1>1, <1>3, <2>1, <3>1 DEF InRound
      <3>2. CASE a # k
        <4>1. a \in Pending
          BY <2>3, <3>2 DEF Pending
        <4>2. PICK q \in Turns : turn[q].at = "round" /\ turn[q].message = a[1]
          BY <4>1 DEF ChatInv, PendingCanBeDecided
        <4> QED  BY <1>3, <4>2 DEF InRound
      <3> QED  BY <3>1, <3>2
    <2> QED  BY <1>3, <2>4, <2>5 DEF ChatInv
  <1> QED  BY <1>5, <1>6

LEMMA RoundsEnd ==
    ASSUME ChatInv, NEW r \in Turns, run_tool_round(r)
    PROVE  ChatInv'
  <1>1. InRound(r) /\ turn[r].left = {} /\ UNCHANGED <<actions, ran, asks, chatStops>>
    BY DEF run_tool_round, InRound
  <1>2. turn[r] \in RoundRows
    BY <1>1, RoundTyped DEF ChatInv
  <1>3. PICK m : m = turn[r].message
    OBVIOUS
  <1>4. PICK c : c = turn[r].came
    OBVIOUS
  <1>5. m \in 1..Len(messages) /\ c \in CameRows /\ DOMAIN c = messages[m].uses
    BY <1>1, <1>2, <1>3, <1>4 DEF ChatInv, RoundsOk, RoundRows
  <1>6. messages' = [messages EXCEPT ![m].resolutions = c]
    BY <1>3, <1>4 DEF run_tool_round
  <1>7. /\ messages' \in Seq(MessageRows) /\ Len(messages') = Len(messages)
        /\ \A i \in 1..Len(messages) : messages'[i].uses = messages[i].uses
        /\ messages'[m].resolutions = c
        /\ \A i \in 1..Len(messages) : i # m => messages'[i].resolutions = messages[i].resolutions
    BY <1>5, <1>6, MessageRewritten DEF ChatInv
  <1>8. PICK x \in {Free, [at |-> "ask"]} : Goes(r, x)
    BY DEF run_tool_round
  <1>9. /\ turn' \in [Turns -> TurnRows] /\ turn'[r] = x
        /\ \A q \in Turns : q # r => turn'[q] = turn[q]
    BY <1>8 DEF ChatInv, ChatTyped, Goes, TurnRows
  <1>10. ~InRound(r)' /\ \A q \in Turns : InRound(q)' => InRound(q) /\ q # r /\ turn'[q] = turn[q]
    BY <1>9 DEF InRound, Free
  <1>11. ChatTyped'
    BY <1>1, <1>7, <1>9 DEF ChatInv, ChatTyped
  <1>12. RoundsOk'
    BY <1>7, <1>10 DEF ChatInv, RoundsOk
  <1>13. ActionsOk'
    BY <1>1, <1>7, <1>10 DEF ChatInv, ActionsOk
  <1>14. PendingCanBeDecided'
    <2> SUFFICES ASSUME NEW a \in Pending, ~(chatStops > 0),
                        ~(messages'[a[1]].uses \subseteq DOMAIN messages'[a[1]].resolutions)
                 PROVE  \E q \in Turns : turn'[q].at = "round" /\ turn'[q].message = a[1]
      BY <1>1 DEF PendingCanBeDecided, Pending
    <2>1. a[1] \in 1..Len(messages)
      BY DEF ChatInv, ActionsOk, Pending
    <2>2. a[1] # m
      BY <1>5, <1>7
    <2>3. messages'[a[1]].uses = messages[a[1]].uses /\ messages'[a[1]].resolutions = messages[a[1]].resolutions
      BY <1>7, <2>1, <2>2
    <2>4. PICK q \in Turns : turn[q].at = "round" /\ turn[q].message = a[1]
      BY <2>3 DEF ChatInv, PendingCanBeDecided
    <2>5. q # r
      BY <1>3, <2>2, <2>4
    <2> QED  BY <1>9, <2>4, <2>5
  <1> QED  BY <1>11, <1>12, <1>13, <1>14 DEF ChatInv

\* A waiting action is decided.
LEMMA VerdictsKeep ==
    ASSUME ChatInv, NEW r \in Turns, turn[r] = Free, NEW x \in {Free, [at |-> "ask"]}, Goes(r, x),
           NEW a \in Pending, NEW verdict \in {"approved", "rejected"},
           actions' = [actions EXCEPT ![a] = verdict],
           ran' = IF verdict = "approved" THEN [ran EXCEPT ![a] = @ + 1] ELSE ran,
           messages' \in Seq(MessageRows), Len(messages') = Len(messages),
           \A i \in 1..Len(messages) :
              messages'[i].uses = messages[i].uses /\ DOMAIN messages[i].resolutions \subseteq DOMAIN messages'[i].resolutions,
           UNCHANGED chatStops
    PROVE  ChatInv'
  <1>1. a \in DOMAIN actions /\ actions[a] = "pending" /\ ran[a] = 0 /\ DOMAIN ran = DOMAIN actions
    BY DEF Pending, ChatInv, ActionsOk
  <1>2. /\ DOMAIN actions' = DOMAIN actions /\ DOMAIN ran' = DOMAIN actions
        /\ actions'[a] = verdict /\ ran'[a] = IF verdict = "approved" THEN 1 ELSE 0
        /\ \A b \in DOMAIN actions : b # a => actions'[b] = actions[b] /\ ran'[b] = ran[b]
    BY <1>1
  <1>3. /\ turn' \in [Turns -> TurnRows] /\ turn'[r] = x
        /\ \A q \in Turns : q # r => turn'[q] = turn[q]
    BY DEF ChatInv, ChatTyped, Goes, TurnRows
  <1>4. ~InRound(r) /\ ~InRound(r)'
    BY <1>3 DEF InRound, Free
  <1>5. \A q \in Turns : /\ InRound(q)' <=> InRound(q)
                         /\ InRound(q) => turn'[q] = turn[q]
    BY <1>3, <1>4 DEF InRound
  <1>6. ChatTyped'
    BY <1>3 DEF ChatInv, ChatTyped
  <1>7. RoundsOk'
    BY <1>5 DEF ChatInv, RoundsOk
  <1>8. ActionsOk'
    <2> SUFFICES ASSUME NEW b \in DOMAIN actions
                 PROVE  /\ b[1] \in 1..Len(messages) /\ b[2] \in Tools
                        /\ actions'[b] \in Verdicts
                        /\ ran'[b] = IF actions'[b] = "approved" THEN 1 ELSE 0
                        /\ \A q \in Turns : InRound(q)' /\ turn'[q].message = b[1] => b[2] \notin turn'[q].left
      BY <1>2 DEF ActionsOk
    <2>1. actions'[b] \in Verdicts /\ ran'[b] = IF actions'[b] = "approved" THEN 1 ELSE 0
      BY <1>2 DEF ChatInv, ActionsOk, Verdicts
    <2> QED  BY <1>5, <2>1 DEF ChatInv, ActionsOk
  <1>9. PendingCanBeDecided'
    <2> SUFFICES ASSUME NEW b \in DOMAIN actions, actions'[b] = "pending", ~(chatStops > 0),
                        ~(messages'[b[1]].uses \subseteq DOMAIN messages'[b[1]].resolutions)
                 PROVE  \E q \in Turns : turn'[q].at = "round" /\ turn'[q].message = b[1]
      BY <1>2 DEF PendingCanBeDecided, Pending
    <2>1. b \in Pending
      BY <1>2 DEF Pending
    <2>2. b[1] \in 1..Len(messages)
      BY DEF ChatInv, ActionsOk
    <2>3. ~(messages[b[1]].uses \subseteq DOMAIN messages[b[1]].resolutions)
      BY <2>2
    <2>4. PICK q \in Turns : turn[q].at = "round" /\ turn[q].message = b[1]
      BY <2>1, <2>3 DEF ChatInv, PendingCanBeDecided
    <2> QED  BY <1>5, <2>4 DEF InRound
  <1> QED  BY <1>6, <1>7, <1>8, <1>9 DEF ChatInv

LEMMA DecisionsKeep ==
    ASSUME ChatInv, NEW r \in Turns, resolve_pending_action(r)
    PROVE  ChatInv'
  <1>1. PICK a \in Pending, verdict \in {"approved", "rejected"} :
          /\ Decided(a, verdict)
          /\ ran' = IF verdict = "approved" THEN [ran EXCEPT ![a] = @ + 1] ELSE ran
          /\ Goes(r, IF PendingOf(a[1]) = {a} THEN [at |-> "ask"] ELSE Free)
    BY DEF resolve_pending_action
  <1>2. PICK x \in {Free, [at |-> "ask"]} : Goes(r, x)
    BY <1>1
  <1>3. PICK m : m = a[1]
    OBVIOUS
  <1>4. m \in 1..Len(messages) /\ a[2] \in Tools
    BY <1>3 DEF ChatInv, ActionsOk, Pending
  <1>5. messages[m].resolutions \in CameRows
    <2>1. messages[m] \in MessageRows
      BY <1>4 DEF ChatInv, ChatTyped
    <2> QED  BY <2>1 DEF MessageRows
  <1>6. PICK c : c = [t \in DOMAIN messages[m].resolutions \cup {a[2]} |->
                        IF t = a[2] THEN "executed" ELSE messages[m].resolutions[t]]
    OBVIOUS
  <1>7. c \in CameRows /\ DOMAIN messages[m].resolutions \subseteq DOMAIN c
    <2>1. "executed" \in Outcomes
      BY DEF Outcomes
    <2> QED  BY <1>4, <1>5, <1>6, <2>1, CameGrows
  <1>8. actions' = [actions EXCEPT ![a] = verdict] /\ messages' = [messages EXCEPT ![m].resolutions = c]
    BY <1>1, <1>3, <1>6 DEF Decided
  <1>9. /\ messages' \in Seq(MessageRows) /\ Len(messages') = Len(messages)
        /\ \A i \in 1..Len(messages) :
              messages'[i].uses = messages[i].uses /\ DOMAIN messages[i].resolutions \subseteq DOMAIN messages'[i].resolutions
    <2>1. /\ messages' \in Seq(MessageRows) /\ Len(messages') = Len(messages)
          /\ \A i \in 1..Len(messages) : messages'[i].uses = messages[i].uses
          /\ messages'[m].resolutions = c
          /\ \A i \in 1..Len(messages) : i # m => messages'[i].resolutions = messages[i].resolutions
      BY <1>4, <1>7, <1>8, MessageRewritten DEF ChatInv
    <2> QED  BY <1>7, <2>1
  <1>10. turn[r] = Free /\ UNCHANGED chatStops
    BY DEF resolve_pending_action
  <1> QED  BY <1>1, <1>2, <1>8, <1>9, <1>10, VerdictsKeep

LEMMA FailuresKeep ==
    ASSUME ChatInv, NEW r \in Turns, resolve_and_fail(r)
    PROVE  ChatInv'
  <1>1. PICK a \in Pending : actions' = [actions EXCEPT ![a] = "approved"] /\ ran' = [ran EXCEPT ![a] = @ + 1]
    BY DEF resolve_and_fail
  <1>2. turn[r] = Free /\ UNCHANGED <<messages, turn, chatStops>>
    BY DEF resolve_and_fail
  <1>3. Goes(r, Free)
    BY <1>2 DEF Goes, ChatInv, ChatTyped
  <1>4. messages' \in Seq(MessageRows) /\ Len(messages') = Len(messages)
    BY <1>2 DEF ChatInv, ChatTyped
  <1>5. \A i \in 1..Len(messages) :
           messages'[i].uses = messages[i].uses /\ DOMAIN messages[i].resolutions \subseteq DOMAIN messages'[i].resolutions
    BY <1>2
  <1>6. ran' = IF "approved" = "approved" THEN [ran EXCEPT ![a] = @ + 1] ELSE ran
    BY <1>1
  <1> QED  BY <1>1, <1>2, <1>3, <1>4, <1>5, <1>6, VerdictsKeep

LEMMA WipesKeep ==
    ASSUME ChatInv, NEW r \in Turns, wipe_chat(r)
    PROVE  ChatInv'
  <1>1. /\ messages' = <<>> /\ turn' = [x \in Turns |-> Free]
        /\ actions' = [a \in {} |-> "pending"] /\ ran' = [a \in {} |-> 0] /\ UNCHANGED chatStops
    BY DEF wipe_chat
  <1>2. DOMAIN actions' = {} /\ DOMAIN ran' = {} /\ Pending' = {}
    BY <1>1 DEF Pending
  <1>3. ChatTyped' /\ \A q \in Turns : ~InRound(q)'
    BY <1>1 DEF ChatInv, ChatTyped, TurnRows, InRound, Free
  <1> QED  BY <1>2, <1>3 DEF ChatInv, RoundsOk, ActionsOk, PendingCanBeDecided

LEMMA ChatStep == ChatInv /\ [ChatNext]_chatVars => ChatInv'
  <1> SUFFICES ASSUME ChatInv, [ChatNext]_chatVars PROVE ChatInv'
    OBVIOUS
  <1>1. CASE UNCHANGED chatVars
    BY <1>1 DEF chatVars, ChatInv, ChatTyped, RoundsOk, ActionsOk, PendingCanBeDecided, Pending, InRound
  <1>2. ASSUME NEW r \in Turns, run_turn(r) PROVE ChatInv'
    <2>1. ~InRound(r) /\ Goes(r, [at |-> "ask"]) /\ UNCHANGED <<messages, actions, ran, chatStops>>
      BY <1>2 DEF run_turn, InRound, Free
    <2>2. chatStops' \in Nat
      BY <2>1 DEF ChatInv, ChatTyped
    <2> QED  BY <2>1, <2>2, TurnLeaves
  <1>3. ASSUME NEW r \in Turns, ChatStop(r) PROVE ChatInv'
    <2>1. Goes(r, Free) /\ chatStops' = chatStops + 1 /\ UNCHANGED <<messages, actions, ran>>
      BY <1>3 DEF ChatStop
    <2>2. chatStops' \in Nat /\ chatStops' > 0
      BY <2>1 DEF ChatInv, ChatTyped
    <2> QED  BY <2>1, <2>2, TurnLeaves
  <1> QED  BY <1>1, <1>2, <1>3, CallsKeep, CallsCome, RoundsEnd, DecisionsKeep, FailuresKeep, WipesKeep DEF ChatNext

LEMMA ChatMove == [RequestsNext]_requestsVars => [ChatNext]_chatVars
  <1> SUFFICES ASSUME [RequestsNext]_requestsVars PROVE [ChatNext]_chatVars
    OBVIOUS
  <1>1. CASE RequestsNext /\ part = "chat"
    BY <1>1 DEF RequestsNext
  <1>2. CASE RequestsNext /\ part # "chat"
    BY <1>2 DEF RequestsNext, Stays
  <1>3. CASE UNCHANGED requestsVars
    BY <1>3 DEF requestsVars
  <1> QED  BY <1>1, <1>2, <1>3

\* ai/engine.py, resolve_pending_action: with any number of turns, messages and tools, an action is carried out once
\* if it was approved and never otherwise, and one that waits can be decided.
THEOREM DecisionsStayKept == RequestsSpec => []DecisionsAreKept
  <1>1. RequestsInit => ChatInv
    BY ChatBegins DEF RequestsInit
  <1>2. ChatInv /\ [RequestsNext]_requestsVars => ChatInv'
    BY ChatMove, ChatStep
  <1>3. ChatInv => DecisionsAreKept
    BY DEF ChatInv, ActionsOk, ActionsRunOnce, DecisionsAreKept
  <1> QED  BY <1>1, <1>2, <1>3, PTL DEF RequestsSpec
=============================================================================

--------------------------- MODULE Symbols_proofs ---------------------------
(***************************************************************************)
(* Proofs about AddressMap, CallChains and Symbols, for any address space, *)
(* files, samples, accesses and placements of pages.                       *)
(*                                                                         *)
(* The loops of the code are recursive functions in the model.  What one   *)
(* of them returns is proved with Steps, by induction on its argument: the *)
(* set of the arguments for which it holds.                                *)
(***************************************************************************)
EXTENDS Symbols, FiniteSetTheorems, FunctionTheorems, SequenceTheorems,
        WellFoundedInduction, TLAPS

-----------------------------------------------------------------------------
(* Induction and recursion up to a bound.                                  *)

\* A set of naturals that has a member has a smallest one.
LEMMA Smallest ==
  ASSUME NEW S \in SUBSET Nat, S # {}
  PROVE  \E x \in S : \A y \in S : x <= y
<1>1. PICK x \in S : \A y \in S : <<y, x>> \notin OpToRel(<, Nat)
  BY NatLessThanWellFounded, WFMin
<1>2. \A y \in S : ~(y < x)
  BY <1>1 DEF OpToRel
<1>3. QED
  BY <1>2

\* What holds of 0 and of each number whose predecessor it holds of.
LEMMA Steps ==
  ASSUME NEW N \in Nat, NEW S, 0 \in S,
         \A n \in 1 .. N : n - 1 \in S => n \in S
  PROVE  \A n \in 0 .. N : n \in S
<1> DEFINE T == {n \in 0 .. N : n \notin S}
<1>1. SUFFICES ASSUME T # {} PROVE FALSE
  OBVIOUS
<1>2. PICK x \in T : \A y \in T : x <= y
  <2>1. T \in SUBSET Nat
    OBVIOUS
  <2> HIDE DEF T
  <2>2. QED
    BY <1>1, <2>1, Smallest
<1>3. x \in 1 .. N /\ x \notin S
  BY <1>2
<1>4. x - 1 \notin T
  BY <1>2, <1>3
<1>5. x - 1 \in S
  BY <1>3, <1>4
<1>6. QED
  BY <1>3, <1>5

\* A set that each value of a function leads into the next.
LEMMA StaysIn ==
  ASSUME NEW N \in Nat, NEW St, NEW f, f[0] \in St,
         \A n \in 1 .. N : f[n - 1] \in St => f[n] \in St
  PROVE  \A n \in 0 .. N : f[n] \in St
<1> DEFINE S == {n \in 0 .. N : f[n] \in St}
<1>1. 0 \in S
  BY Z3
<1>2. \A n \in 1 .. N : n - 1 \in S => n \in S
  OBVIOUS
<1> HIDE DEF S
<1>3. \A n \in 0 .. N : n \in S
  BY <1>1, <1>2, Steps
<1>4. QED
  BY <1>3 DEF S

\* f begins with a, and its value at n is what G[n] makes of that at n - 1.
Follows(f, N, a, G) == f[0] = a /\ \A n \in 1 .. N : f[n] = G[n][f[n - 1]]

LEMMA Recursion ==
  ASSUME NEW N \in Nat, NEW St, NEW a \in St, NEW G \in [1 .. N -> [St -> St]]
  PROVE  \E f \in [0 .. N -> St] : Follows(f, N, a, G)
<1> DEFINE Upto(k, f) == f[0] = a /\ \A n \in 1 .. k : f[n] = G[n][f[n - 1]]
           Reaches(k) == \E f \in [0 .. N -> St] : Upto(k, f)
           S == {k \in 0 .. N : Reaches(k)}
<1>1. Reaches(0)
  <2>1. [n \in 0 .. N |-> a] \in [0 .. N -> St]
    OBVIOUS
  <2>2. Upto(0, [n \in 0 .. N |-> a])
    OBVIOUS
  <2>3. QED
    BY <2>1, <2>2
<1>2. ASSUME NEW k \in 1 .. N, Reaches(k - 1) PROVE Reaches(k)
  <2>1. PICK f \in [0 .. N -> St] : Upto(k - 1, f)
    BY <1>2
  <2>2. k - 1 \in 0 .. N /\ G[k][f[k - 1]] \in St
    OBVIOUS
  <2> DEFINE g == [f EXCEPT ![k] = G[k][f[k - 1]]]
  <2>3. g \in [0 .. N -> St]
    BY <2>2
  <2>4. g[0] = a
    BY <2>1
  <2>5. g[k] = G[k][g[k - 1]]
    BY <2>2
  <2>6. ASSUME NEW n \in 1 .. k, n # k PROVE g[n] = G[n][g[n - 1]]
    <3>1. n \in 1 .. k - 1 /\ n \in 0 .. N /\ n - 1 \in 0 .. N /\ n - 1 # k
      BY <2>6
    <3>2. g[n] = f[n] /\ g[n - 1] = f[n - 1]
      BY <2>6, <3>1
    <3>3. QED
      BY <2>1, <3>1, <3>2
  <2>7. Upto(k, g)
    BY <2>4, <2>5, <2>6
  <2>8. QED
    BY <2>3, <2>7
<1>3. Reaches(N)
  <2> HIDE DEF Reaches
  <2>1. 0 \in S /\ \A n \in 1 .. N : n - 1 \in S => n \in S
    BY <1>1, <1>2
  <2> HIDE DEF S
  <2>2. \A n \in 0 .. N : n \in S
    BY <2>1, Steps
  <2>3. N \in S
    BY <2>2
  <2>4. QED
    BY <2>3 DEF S
<1>4. PICK f \in [0 .. N -> St] : Upto(N, f)
  BY <1>3
<1>5. QED
  BY <1>4 DEF Follows

-----------------------------------------------------------------------------
(* bsearch.                                                                *)

\* The recursion of Bsearch.
Searched(cmp, find) ==
  find = [r \in (0 .. Len(cmp)) \X (0 .. Len(cmp)) |->
    IF r[1] >= r[2] THEN 0
    ELSE LET i == (r[1] + r[2]) \div 2 + 1 IN
         IF cmp[i] = 0 THEN i
         ELSE IF cmp[i] < 0 THEN find[<<r[1], i - 1>>] ELSE find[<<i, r[2]>>]]

LEMMA Middle ==
  ASSUME NEW a \in Nat, NEW b \in Nat, a < b
  PROVE  (a + b) \div 2 \in Nat /\ a <= (a + b) \div 2 /\ (a + b) \div 2 < b
OBVIOUS

\* There is a function that the recursion describes: the parts that remain to
\* be searched become smaller.
LEMMA BsearchExists ==
  ASSUME NEW cmp, Len(cmp) \in Nat
  PROVE  \E find : Searched(cmp, find)
<1> DEFINE N == Len(cmp)
           D == (0 .. N) \X (0 .. N)
           Val(f, r) == IF r[1] >= r[2] THEN 0
                        ELSE LET i == (r[1] + r[2]) \div 2 + 1 IN
                             IF cmp[i] = 0 THEN i
                             ELSE IF cmp[i] < 0 THEN f[<<r[1], i - 1>>]
                             ELSE f[<<i, r[2]>>]
           Fits(k, f) == \A r \in D : r[2] - r[1] <= k => f[r] = Val(f, r)
           Reaches(k) == \E f \in [D -> 0 .. N] : Fits(k, f)
<1>0. N \in Nat
  OBVIOUS
<1>1. Reaches(0)
  <2>1. [r \in D |-> 0] \in [D -> 0 .. N]
    OBVIOUS
  <2>2. Fits(0, [r \in D |-> 0])
    OBVIOUS
  <2>3. QED
    BY <2>1, <2>2
<1>2. ASSUME NEW k \in 1 .. N, Reaches(k - 1) PROVE Reaches(k)
  <2>1. PICK f \in [D -> 0 .. N] : Fits(k - 1, f)
    BY <1>2
  <2> DEFINE g == [r \in D |-> IF r[2] - r[1] = k THEN Val(f, r) ELSE f[r]]
  <2>2. ASSUME NEW r \in D, r[1] < r[2], NEW i, i = (r[1] + r[2]) \div 2 + 1
        PROVE  /\ i \in 1 .. N /\ r[1] < i /\ i <= r[2]
               /\ <<r[1], i - 1>> \in D /\ <<i, r[2]>> \in D
               /\ i - 1 - r[1] < r[2] - r[1] /\ r[2] - i < r[2] - r[1]
    <3>1. r[1] \in 0 .. N /\ r[2] \in 0 .. N
      OBVIOUS
    <3>2. i \in Nat /\ i - 1 \in Nat /\ r[1] <= i - 1 /\ i - 1 < r[2]
      BY <2>2, <3>1, Middle
    <3>3. i \in 1 .. N /\ i - 1 \in 0 .. N /\ i \in 0 .. N
      BY <3>1, <3>2
    <3>4. QED
      BY <3>1, <3>2, <3>3
  <2>3. \A r \in D : Val(f, r) \in 0 .. N
    BY <2>2
  <2>4. g \in [D -> 0 .. N]
    BY <2>3
  <2>5. ASSUME NEW r \in D, r[2] - r[1] <= k PROVE Val(g, r) = Val(f, r)
    <3>1. CASE r[1] >= r[2]
      BY <3>1
    <3>2. CASE r[1] < r[2]
      <4> DEFINE i == (r[1] + r[2]) \div 2 + 1
                 below == <<r[1], i - 1>>
                 above == <<i, r[2]>>
      <4>1. /\ below \in D /\ above \in D /\ i \in 1 .. N
            /\ i - 1 - r[1] < r[2] - r[1] /\ r[2] - i < r[2] - r[1]
        <5> HIDE DEF D
        <5>1. QED
          BY <2>2, <3>2, Zenon
      <4>2. below[2] - below[1] # k /\ above[2] - above[1] # k
        <5>1. r[1] \in 0 .. N /\ r[2] \in 0 .. N
          OBVIOUS
        <5> HIDE DEF i
        <5>2. QED
          BY <2>5, <4>1, <5>1
      <4>3. g[below] = f[below] /\ g[above] = f[above]
        <5> HIDE DEF below, above, D
        <5>1. QED
          BY <4>1, <4>2
      <4>4. r[1] \in Nat /\ r[2] \in Nat
        OBVIOUS
      <4> HIDE DEF g
      <4>5. QED
        BY <3>2, <4>3, <4>4
    <3>3. r[1] >= r[2] \/ r[1] < r[2]
      OBVIOUS
    <3> HIDE DEF Val, D
    <3>4. QED
      BY <3>1, <3>2, <3>3
  <2>6. ASSUME NEW r \in D, r[2] - r[1] <= k PROVE g[r] = Val(g, r)
    <3> HIDE DEF Val
    <3>1. CASE r[2] - r[1] = k
      <4>1. g[r] = Val(f, r)
        BY <3>1
      <4>2. QED
        BY <2>5, <2>6, <4>1
    <3>2. CASE r[2] - r[1] # k
      <4>1. r[2] - r[1] <= k - 1
        BY <2>6, <3>2
      <4>2. g[r] = f[r]
        BY <3>2
      <4>3. f[r] = Val(f, r)
        BY <2>1, <4>1
      <4>4. QED
        BY <2>5, <2>6, <4>2, <4>3
    <3>3. QED
      BY <3>1, <3>2
  <2>7. Fits(k, g)
    <3> HIDE DEF Val, g, D
    <3>1. QED
      BY <2>6
  <2>8. QED
    <3> HIDE DEF Fits, g
    <3>1. QED
      BY <2>4, <2>7
<1>3. Reaches(N)
  <2> DEFINE S == {k \in 0 .. N : Reaches(k)}
  <2> HIDE DEF Reaches
  <2>1. 0 \in S /\ \A n \in 1 .. N : n - 1 \in S => n \in S
    BY <1>0, <1>1, <1>2
  <2> HIDE DEF S
  <2> HIDE DEF N
  <2>2. \A n \in 0 .. N : n \in S
    BY <1>0, <2>1, Steps
  <2>3. N \in S
    BY <1>0, <2>2
  <2>4. QED
    BY <2>3 DEF S
<1>4. PICK f \in [D -> 0 .. N] : Fits(N, f)
  BY <1>3
<1>5. \A r \in D : r[2] - r[1] <= N
  BY <1>0
<1>6. f = [r \in D |-> Val(f, r)]
  BY <1>4, <1>5
<1>7. QED
  BY <1>6 DEF Searched

LEMMA BsearchIs ==
  ASSUME NEW cmp, Len(cmp) \in Nat
  PROVE  \E find : Searched(cmp, find) /\ Bsearch(cmp) = find[<<0, Len(cmp)>>]
<1> DEFINE find == CHOOSE f : Searched(cmp, f)
<1>1. Searched(cmp, find)
  BY BsearchExists
<1>2. Bsearch(cmp) = find[<<0, Len(cmp)>>]
  BY DEF Bsearch, Searched
<1>3. QED
  BY <1>1, <1>2

\* The keys of an array that is in order: behind an element that is greater
\* than the key, and before one that is smaller, are only such.
Sorted(cmp) ==
  \A i, j \in 1 .. Len(cmp) :
    i < j => (cmp[i] < 0 => cmp[j] < 0) /\ (cmp[j] > 0 => cmp[i] > 0)

\* bsearch returns an element that is equal to the key, if any; it finds one
\* that is there if the array is in order.
LEMMA BsearchFinds ==
  ASSUME NEW cmp, Len(cmp) \in Nat, \A i \in 1 .. Len(cmp) : cmp[i] \in Int
  PROVE  /\ Bsearch(cmp) \in 0 .. Len(cmp)
         /\ Bsearch(cmp) # 0 => cmp[Bsearch(cmp)] = 0
         /\ Sorted(cmp) /\ (\E z \in 1 .. Len(cmp) : cmp[z] = 0) => Bsearch(cmp) # 0
<1> DEFINE N == Len(cmp)
           D == (0 .. N) \X (0 .. N)
<1>0. N \in Nat
  OBVIOUS
<1>1. PICK find : Searched(cmp, find) /\ Bsearch(cmp) = find[<<0, N>>]
  BY BsearchIs
<1> DEFINE Right(a, b) ==
             /\ find[<<a, b>>] # 0 =>
                  /\ find[<<a, b>>] \in 1 .. N /\ cmp[find[<<a, b>>]] = 0
             /\ Sorted(cmp) =>
                  \A z \in 1 .. N : a < z /\ z <= b /\ cmp[z] = 0 =>
                    find[<<a, b>>] # 0
           RightUpto(k) == \A a, b \in 0 .. N : b - a <= k => Right(a, b)
<1>2. ASSUME NEW a \in 0 .. N, NEW b \in 0 .. N, a >= b
      PROVE  Right(a, b)
  <2>1. find[<<a, b>>] = 0
    BY <1>1, <1>2 DEF Searched
  <2>2. QED
    BY <1>2, <2>1
<1> HIDE DEF Right
<1>3. RightUpto(0)
  BY <1>2
<1>4. ASSUME NEW k \in 1 .. N, RightUpto(k - 1) PROVE RightUpto(k)
  <2> SUFFICES ASSUME NEW a \in 0 .. N, NEW b \in 0 .. N, b - a <= k, a < b
               PROVE  Right(a, b)
    BY <1>2
  <2> USE DEF Right
  <2> DEFINE i == (a + b) \div 2 + 1
  <2>1. i \in 1 .. N /\ i - 1 \in 0 .. N /\ i \in 0 .. N /\ a < i /\ i <= b
    <3>1. i \in Nat /\ a <= i - 1 /\ i - 1 < b
      BY Middle
    <3> HIDE DEF i
    <3>2. QED
      BY <3>1
  <2>2. find[<<a, b>>] = IF cmp[i] = 0 THEN i
                         ELSE IF cmp[i] < 0 THEN find[<<a, i - 1>>]
                         ELSE find[<<i, b>>]
    <3>1. <<a, b>> \in D /\ ~(a >= b)
      OBVIOUS
    <3>2. <<a, b>>[1] = a /\ <<a, b>>[2] = b
      OBVIOUS
    <3>3. QED
      BY <1>1, <3>1, <3>2 DEF Searched
  <2> HIDE DEF i
  <2>3. Right(a, i - 1) /\ Right(i, b)
    BY <1>4, <2>1
  <2>4. cmp[i] \in Int
    BY <2>1
  <2>5. CASE cmp[i] = 0
    BY <2>1, <2>2, <2>5
  <2>6. CASE cmp[i] < 0
    <3>1. find[<<a, b>>] = find[<<a, i - 1>>]
      <4>1. ~(cmp[i] = 0)
        BY <2>4, <2>6
      <4>2. QED
        BY <2>2, <2>6, <4>1, Zenon
    <3>2. ASSUME Sorted(cmp), NEW z \in 1 .. N, cmp[z] = 0 PROVE z <= i - 1
      BY <2>1, <2>6, <3>2 DEF Sorted
    <3> HIDE DEF N
    <3>3. QED
      BY <2>3, <3>1, <3>2
  <2>7. CASE cmp[i] > 0
    <3>1. find[<<a, b>>] = find[<<i, b>>]
      <4>1. ~(cmp[i] = 0) /\ ~(cmp[i] < 0)
        BY <2>4, <2>7
      <4>2. QED
        BY <2>2, <4>1, Zenon
    <3>2. ASSUME Sorted(cmp), NEW z \in 1 .. N, cmp[z] = 0 PROVE i < z
      BY <2>1, <2>7, <3>2 DEF Sorted
    <3> HIDE DEF N
    <3>3. QED
      BY <2>3, <3>1, <3>2
  <2>8. cmp[i] = 0 \/ cmp[i] < 0 \/ cmp[i] > 0
    BY <2>4
  <2> HIDE DEF Right
  <2>9. QED
    BY <2>5, <2>6, <2>7, <2>8
<1>5. RightUpto(N)
  <2> DEFINE S == {k \in 0 .. N : RightUpto(k)}
  <2> HIDE DEF RightUpto
  <2>1. 0 \in S /\ \A n \in 1 .. N : n - 1 \in S => n \in S
    BY <1>0, <1>3, <1>4
  <2> HIDE DEF S, N
  <2>2. \A n \in 0 .. N : n \in S
    BY <1>0, <2>1, Steps
  <2>3. N \in S
    BY <1>0, <2>2
  <2>4. QED
    BY <2>3 DEF S
<1>6. Right(0, N)
  BY <1>0, <1>5
<1>7. QED
  BY <1>0, <1>1, <1>6 DEF Right

-----------------------------------------------------------------------------
(* qsort.                                                                  *)

LEMMA LenOf ==
  ASSUME NEW n \in Nat, NEW S, NEW f \in [1 .. n -> S]
  PROVE  f \in Seq(S) /\ Len(f) = n /\ DOMAIN f = 1 .. n
OBVIOUS

\* Element i is sorted before element j.
Before(keys, i, j) == keys[i] < keys[j] \/ (keys[i] = keys[j] /\ i < j)

\* The ranks are different numbers up to that of the elements, so each of
\* these is one element's rank.
LEMMA RankOrder ==
  ASSUME NEW n \in Nat, NEW keys \in [1 .. n -> Int], NEW i \in 1 .. n
  PROVE  /\ Rank(keys, i) \in 1 .. n
         /\ \A j \in 1 .. n : Before(keys, i, j) => Rank(keys, i) < Rank(keys, j)
<1> DEFINE Upto(j) == {k \in 1 .. n : keys[k] < keys[j] \/ (keys[k] = keys[j] /\ k <= j)}
<1>1. \A j \in 1 .. n : Rank(keys, j) = Cardinality(Upto(j))
  BY DEF Rank
<1>2. IsFiniteSet(1 .. n) /\ Cardinality(1 .. n) = n
  BY FS_Interval
<1>3. \A j \in 1 .. n : /\ Upto(j) \subseteq 1 .. n /\ j \in Upto(j)
                        /\ IsFiniteSet(Upto(j)) /\ Cardinality(Upto(j)) \in Nat
                        /\ Cardinality(Upto(j)) <= n
  <2> SUFFICES ASSUME NEW j \in 1 .. n
               PROVE  /\ Upto(j) \subseteq 1 .. n /\ j \in Upto(j)
                      /\ IsFiniteSet(Upto(j)) /\ Cardinality(Upto(j)) \in Nat
                      /\ Cardinality(Upto(j)) <= n
    OBVIOUS
  <2>1. Upto(j) \subseteq 1 .. n /\ j \in Upto(j)
    OBVIOUS
  <2> HIDE DEF Upto
  <2>2. IsFiniteSet(Upto(j)) /\ Cardinality(Upto(j)) <= n
    BY <1>2, <2>1, FS_Subset
  <2>3. QED
    BY <2>1, <2>2, FS_CardinalityType
<1>4. Cardinality(Upto(i)) # 0
  <2> HIDE DEF Upto
  <2>1. QED
    BY <1>3, FS_EmptySet
<1>5. ASSUME NEW j \in 1 .. n, Before(keys, i, j)
      PROVE  Cardinality(Upto(i)) < Cardinality(Upto(j))
  <2>1. Upto(i) \subseteq Upto(j) /\ j \notin Upto(i)
    BY <1>5 DEF Before
  <2> HIDE DEF Upto
  <2>2. Cardinality(Upto(i)) <= Cardinality(Upto(j))
    BY <1>3, <2>1, FS_Subset
  <2>3. Cardinality(Upto(i)) # Cardinality(Upto(j))
    BY <1>3, <2>1, FS_Subset
  <2>4. QED
    BY <1>3, <2>2, <2>3
<1> HIDE DEF Upto
<1>6. Rank(keys, i) \in 1 .. n
  BY <1>1, <1>3, <1>4
<1>7. \A j \in 1 .. n : Before(keys, i, j) => Rank(keys, i) < Rank(keys, j)
  BY <1>1, <1>5
<1>8. QED
  BY <1>6, <1>7

\* The order in which qsort leaves the elements.
Order(keys) == [k \in DOMAIN keys |-> CHOOSE i \in DOMAIN keys : Rank(keys, i) = k]

LEMMA OrderSorts ==
  ASSUME NEW n \in Nat, NEW keys \in [1 .. n -> Int]
  PROVE  /\ Order(keys) \in [1 .. n -> 1 .. n]
         /\ \A i \in 1 .. n : \E k \in 1 .. n : Order(keys)[k] = i
         /\ \A j, k \in 1 .. n : j < k => Before(keys, Order(keys)[j], Order(keys)[k])
<1> DEFINE rank == [i \in 1 .. n |-> Rank(keys, i)]
<1>1. rank \in [1 .. n -> 1 .. n]
  BY RankOrder
<1>2. \A i, j \in 1 .. n : i # j => Before(keys, i, j) \/ Before(keys, j, i)
  <2>1. \A i \in 1 .. n : keys[i] \in Int
    OBVIOUS
  <2>2. QED
    BY <2>1 DEF Before
<1>3. \A i, j \in 1 .. n : Before(keys, i, j) => rank[i] < rank[j]
  BY RankOrder
<1> HIDE DEF rank
<1>4. ASSUME NEW i \in 1 .. n, NEW j \in 1 .. n, i # j PROVE rank[i] # rank[j]
  <2>1. rank[i] \in 1 .. n /\ rank[j] \in 1 .. n
    BY <1>1
  <2>2. rank[i] < rank[j] \/ rank[j] < rank[i]
    BY <1>2, <1>3, <1>4
  <2>3. QED
    BY <2>1, <2>2
<1>5. rank \in Injection(1 .. n, 1 .. n)
  BY <1>1, <1>4 DEF Injection, IsInjective
<1>6. rank \in Surjection(1 .. n, 1 .. n)
  BY <1>5, FS_Interval, FS_Injection
<1>7. \A k \in 1 .. n : \E i \in 1 .. n : rank[i] = k
  BY <1>6 DEF Surjection
<1>8. ASSUME NEW k \in 1 .. n
      PROVE  Order(keys)[k] \in 1 .. n /\ rank[Order(keys)[k]] = k
  <2>1. \E i \in DOMAIN keys : Rank(keys, i) = k
    BY <1>7 DEF rank
  <2>2. Order(keys)[k] = CHOOSE i \in DOMAIN keys : Rank(keys, i) = k
    BY DEF Order
  <2>3. Order(keys)[k] \in 1 .. n /\ Rank(keys, Order(keys)[k]) = k
    BY <2>1, <2>2
  <2>4. QED
    BY <2>3 DEF rank
<1>9. Order(keys) \in [1 .. n -> 1 .. n]
  <2>1. Order(keys) = [k \in 1 .. n |-> Order(keys)[k]]
    BY DEF Order
  <2>2. QED
    BY <1>8, <2>1
<1>10. ASSUME NEW i \in 1 .. n PROVE \E k \in 1 .. n : Order(keys)[k] = i
  <2>1. rank[i] \in 1 .. n
    BY <1>1
  <2>2. Order(keys)[rank[i]] = i
    BY <1>4, <1>8, <2>1
  <2>3. QED
    BY <2>1, <2>2
<1>11. ASSUME NEW j \in 1 .. n, NEW k \in 1 .. n, j < k
       PROVE  Before(keys, Order(keys)[j], Order(keys)[k])
  <2> DEFINE a == Order(keys)[j]
             b == Order(keys)[k]
  <2>1. a \in 1 .. n /\ b \in 1 .. n /\ rank[a] = j /\ rank[b] = k
    BY <1>8
  <2> HIDE DEF a, b
  <2>2. a # b
    BY <1>11, <2>1
  <2>3. ~Before(keys, b, a)
    <3>1. Before(keys, b, a) => k < j
      BY <1>3, <2>1
    <3>2. QED
      BY <1>11, <3>1
  <2>4. Before(keys, a, b)
    BY <1>2, <2>1, <2>2, <2>3
  <2>5. QED
    BY <2>4 DEF a, b
<1>12. QED
  BY <1>9, <1>10, <1>11

\* qsort leaves the elements it is given, in the order of their keys.
LEMMA QsortSorts ==
  ASSUME NEW n \in Nat, NEW s, DOMAIN s = 1 .. n, NEW keys \in [1 .. n -> Int]
  PROVE  /\ Qsort(s, keys) = [k \in 1 .. n |-> s[Order(keys)[k]]]
         /\ \A k \in 1 .. n : Qsort(s, keys)[k] = s[Order(keys)[k]]
<1>1. DOMAIN s = 1 .. n /\ DOMAIN keys = 1 .. n
  OBVIOUS
<1>2. Qsort(s, keys) = [k \in 1 .. n |-> s[Order(keys)[k]]]
  BY <1>1 DEF Qsort, Order
<1>3. QED
  BY <1>2

-----------------------------------------------------------------------------
(* Areas of memory.                                                        *)

\* An array of areas that are apart from each other and in their order.
Apart(arr) ==
  /\ Len(arr) \in Nat /\ DOMAIN arr = 1 .. Len(arr)
  /\ \A i \in DOMAIN arr :
       arr[i].start \in Int /\ arr[i].end \in Int /\ arr[i].start < arr[i].end
  /\ \A i, j \in DOMAIN arr : i < j => arr[i].end <= arr[j].start

Hits(area, addr) == area.start <= addr /\ addr < area.end

\* The area that bsearch finds is the one that the address is in.
LEMMA AreaOfHits ==
  ASSUME NEW arr, Apart(arr), NEW addr \in Int
  PROVE  /\ AreaOf(arr, addr) \in 0 .. Len(arr)
         /\ \A i \in DOMAIN arr : Hits(arr[i], addr) <=> (AreaOf(arr, addr) = i)
<1> DEFINE n == Len(arr)
           cmp == [i \in DOMAIN arr |-> AddrCmp(addr, arr[i].start, arr[i].end)]
<1>1. \A i \in 1 .. n :
        /\ arr[i].start \in Int /\ arr[i].end \in Int
        /\ arr[i].start < arr[i].end
  BY DEF Apart
<1>2. \A i \in 1 .. n : /\ cmp[i] \in Int
                        /\ (cmp[i] = 0) <=> Hits(arr[i], addr)
                        /\ (cmp[i] < 0) <=> (addr < arr[i].start)
                        /\ (cmp[i] > 0) <=> (addr >= arr[i].end)
  BY <1>1 DEF AddrCmp, Hits, Apart
<1>3. n \in Nat /\ cmp \in [1 .. n -> Int]
  BY <1>2 DEF Apart
<1>4. AreaOf(arr, addr) = Bsearch(cmp)
  BY DEF AreaOf
<1> HIDE DEF cmp
<1>5. Len(cmp) = n
  BY <1>3, LenOf
<1>6. Sorted(cmp)
  <2> SUFFICES ASSUME NEW i \in 1 .. n, NEW j \in 1 .. n, i < j
               PROVE  (cmp[i] < 0 => cmp[j] < 0) /\ (cmp[j] > 0 => cmp[i] > 0)
    BY <1>5 DEF Sorted
  <2>1. arr[i].end <= arr[j].start
    BY DEF Apart
  <2>2. QED
    BY <1>1, <1>2, <2>1
<1>7. /\ Bsearch(cmp) \in 0 .. n
      /\ Bsearch(cmp) # 0 => cmp[Bsearch(cmp)] = 0
      /\ (\E z \in 1 .. n : cmp[z] = 0) => Bsearch(cmp) # 0
  BY <1>2, <1>3, <1>5, <1>6, BsearchFinds
<1>8. ASSUME NEW i \in 1 .. n, NEW j \in 1 .. n, Hits(arr[i], addr), Hits(arr[j], addr)
      PROVE  i = j
  <2>1. i < j => arr[i].end <= arr[j].start
    BY DEF Apart
  <2>2. j < i => arr[j].end <= arr[i].start
    BY DEF Apart
  <2>3. QED
    BY <1>1, <1>8, <2>1, <2>2 DEF Hits
<1>9. \A i \in 1 .. n : Hits(arr[i], addr) <=> (Bsearch(cmp) = i)
  <2>1. ASSUME NEW i \in 1 .. n, Hits(arr[i], addr) PROVE Bsearch(cmp) = i
    <3>1. Bsearch(cmp) \in 1 .. n /\ cmp[Bsearch(cmp)] = 0
      BY <1>2, <1>3, <1>7, <2>1
    <3>2. Hits(arr[Bsearch(cmp)], addr)
      BY <1>2, <3>1
    <3>3. QED
      BY <1>8, <2>1, <3>1, <3>2
  <2>2. ASSUME NEW i \in 1 .. n, Bsearch(cmp) = i PROVE Hits(arr[i], addr)
    BY <1>2, <1>7, <2>2
  <2>3. QED
    BY <2>1, <2>2
<1>10. DOMAIN arr = 1 .. n
  BY DEF Apart
<1>11. QED
  BY <1>4, <1>7, <1>9, <1>10

\* map_entry_find finds the entry of an area, if there is one.
LEMMA EntryFound ==
  ASSUME NEW arr, Apart(arr), NEW start \in Int, NEW end
  PROVE  /\ EntryFind(arr, start, end) \in 0 .. Len(arr)
         /\ \A i \in DOMAIN arr :
              (arr[i].start = start /\ arr[i].end = end)
                <=> (EntryFind(arr, start, end) = i)
<1>1. /\ AreaOf(arr, start) \in 0 .. Len(arr)
      /\ \A i \in DOMAIN arr : Hits(arr[i], start) <=> (AreaOf(arr, start) = i)
  BY AreaOfHits
<1>2. Len(arr) \in Nat /\ DOMAIN arr = 1 .. Len(arr)
  BY DEF Apart
<1>3. \A i \in DOMAIN arr : arr[i].start = start => Hits(arr[i], start)
  BY DEF Apart, Hits
<1>4. QED
  BY <1>1, <1>2, <1>3 DEF EntryFind

-----------------------------------------------------------------------------
(* The areas of the process.                                               *)

Half == Span \div 2

LEMMA SpanFacts ==
  /\ NSlots \in Nat /\ Span \in Nat \ {0} /\ Half \in Nat \ {0} /\ Span = Half + Half
  /\ AddrLimit \in Nat \ {0} /\ (NSlots + 1) * Span \in Nat
  /\ (NSlots + 1) * Span + Span < AddrLimit
  /\ \E pages \in Nat \ {0} : Half = pages * PageSize
<1>1. PICK pages \in 1 .. Span : Span = 2 * (pages * PageSize)
  BY SymbolsAssumption
<1>2. NSlots \in Nat /\ Span \in Nat /\ PageSize \in Nat \ {0}
  BY SymbolsAssumption, AddressMapAssumption
<1> DEFINE h == pages * PageSize
<1>3. h \in Nat
  BY <1>1, <1>2
<1>4. Span = 2 * h
  BY <1>1
<1> HIDE DEF h
<1>5. h = Half /\ Span = h + h
  BY <1>3, <1>4 DEF Half
<1>6. Span # 0
  BY <1>1, <1>2
<1>7. (NSlots + 1) * Span \in Nat
  BY <1>2
<1>8. AddrLimit \in Nat /\ (NSlots + 1) * Span + Span < AddrLimit
  <2>1. (NSlots + 2) * Span = (NSlots + 1) * Span + Span
    BY <1>2
  <2>2. AddrLimit \in Nat /\ (NSlots + 2) * Span < AddrLimit
    BY SymbolsAssumption
  <2>3. QED
    BY <2>1, <2>2
<1>9. pages \in Nat \ {0}
  BY <1>1, <1>2
<1>10. Half = pages * PageSize
  BY <1>5 DEF h
<1>11. QED
  BY <1>2, <1>3, <1>5, <1>6, <1>7, <1>8, <1>9, <1>10

\* Where a slot begins.
Base(s) == s * Span

LEMMA BaseFacts ==
  /\ \A s \in Nat : Base(s) \in Nat /\ Base(s + 1) = Base(s) + Span
  /\ \A s, t \in Nat : s <= t => Base(s) <= Base(t)
  /\ Base(NSlots + 1) \in Nat /\ Base(NSlots + 1) + Span < AddrLimit
<1>1. Span \in Nat /\ NSlots \in Nat /\ (NSlots + 1) * Span + Span < AddrLimit
  BY SpanFacts
<1>2. ASSUME NEW s \in Nat PROVE Base(s) \in Nat /\ Base(s + 1) = Base(s) + Span
  BY <1>1 DEF Base
<1>3. ASSUME NEW s \in Nat, NEW t \in Nat, s <= t PROVE Base(s) <= Base(t)
  <2>1. PICK d \in Nat : t = s + d
    BY <1>3
  <2>2. (s + d) * Span = s * Span + d * Span /\ d * Span \in Nat /\ s * Span \in Nat
    BY <1>1
  <2>3. QED
    BY <2>1, <2>2 DEF Base
<1>4. QED
  BY <1>1, <1>2, <1>3 DEF Base

Spaces == [Slots -> [file : Files \union {None}, cut : BOOLEAN]]
Entries == [start : Nat, end : Nat, file : Files, off : Nat, need : BOOLEAN]

\* The areas of slots a to b, in their order.
Within(arr, a, b) == \A i \in DOMAIN arr : Base(a) <= arr[i].start /\ arr[i].end <= Base(b + 1)

Areas == [start : Nat, end : Nat, file : Files, off : Nat]

LEMMA AreasOfApart ==
  ASSUME space \in Spaces, NEW s \in Slots
  PROVE  /\ AreasOf(s) \in Seq(Areas) /\ Apart(AreasOf(s))
         /\ Within(AreasOf(s), s, s)
         /\ \A i \in DOMAIN AreasOf(s) : AreasOf(s)[i].file = space[s].file
<1> DEFINE a == Base(s)
           f == space[s].file
<1>0. s \in Nat
  BY SpanFacts DEF Slots
<1>1. a \in Nat /\ Base(s + 1) = a + Span /\ Half \in Nat \ {0} /\ Span = Half + Half
  BY <1>0, SpanFacts, BaseFacts
<1>2. f \in Files \union {None}
  BY DEF Spaces
<1>3. AreasOf(s) = IF f = None THEN <<>>
                   ELSE IF space[s].cut
                   THEN <<Area(a, a + Half, f, 0), Area(a + Half, a + Span, f, Half)>>
                   ELSE <<Area(a, a + Span, f, 0)>>
  BY DEF AreasOf, Base, Half
<1> HIDE DEF a, f
<1>4. CASE f = None
  <2>1. AreasOf(s) = <<>>
    BY <1>3, <1>4
  <2>2. QED
    BY <2>1 DEF Apart, Within
<1>5. CASE f # None /\ space[s].cut
  <2> DEFINE x == Area(a, a + Half, f, 0)
             y == Area(a + Half, a + Span, f, Half)
  <2>1. AreasOf(s) = <<x, y>>
    BY <1>3, <1>5
  <2>2. x \in Areas /\ y \in Areas
    BY <1>1, <1>2, <1>5 DEF Area, Areas
  <2>3. x.start = a /\ x.end = a + Half /\ y.start = a + Half /\ y.end = a + Span
        /\ x.file = f /\ y.file = f
    BY DEF Area
  <2> HIDE DEF x, y
  <2>4. DOMAIN AreasOf(s) = 1 .. 2 /\ Len(AreasOf(s)) = 2
        /\ AreasOf(s)[1] = x /\ AreasOf(s)[2] = y
    BY <2>1
  <2>5. AreasOf(s) \in Seq(Areas)
    BY <2>1, <2>2
  <2>6. Apart(AreasOf(s))
    BY <1>1, <2>3, <2>4 DEF Apart
  <2>7. Within(AreasOf(s), s, s)
    BY <1>1, <2>3, <2>4 DEF Within, a
  <2>8. QED
    BY <2>3, <2>4, <2>5, <2>6, <2>7 DEF f
<1>6. CASE f # None /\ ~space[s].cut
  <2> DEFINE x == Area(a, a + Span, f, 0)
  <2>1. AreasOf(s) = <<x>>
    BY <1>3, <1>6
  <2>2. x \in Areas
    BY <1>1, <1>2, <1>6 DEF Area, Areas
  <2>3. x.start = a /\ x.end = a + Span /\ x.file = f
    BY DEF Area
  <2> HIDE DEF x
  <2>4. DOMAIN AreasOf(s) = 1 .. 1 /\ Len(AreasOf(s)) = 1 /\ AreasOf(s)[1] = x
    BY <2>1
  <2>5. AreasOf(s) \in Seq(Areas)
    BY <2>1, <2>2
  <2>6. Apart(AreasOf(s))
    BY <1>1, <2>3, <2>4 DEF Apart
  <2>7. Within(AreasOf(s), s, s)
    BY <1>1, <2>3, <2>4 DEF Within, a
  <2>8. QED
    BY <2>3, <2>4, <2>5, <2>6, <2>7 DEF f
<1>7. QED
  BY <1>4, <1>5, <1>6

\* What lies behind may be added.
LEMMA ApartConcat ==
  ASSUME NEW arr \in Seq(Areas), NEW more \in Seq(Areas), Apart(arr), Apart(more),
         NEW a \in Nat, NEW b \in Nat, a <= b + 1,
         Within(arr, a, b), Within(more, b + 1, b + 1)
  PROVE  /\ arr \o more \in Seq(Areas) /\ Apart(arr \o more)
         /\ Within(arr \o more, a, b + 1)
<1> DEFINE n == Len(arr)
           all == arr \o more
<1>1. /\ all \in Seq(Areas) /\ Len(all) = n + Len(more)
      /\ n \in Nat /\ Len(more) \in Nat
      /\ \A i \in 1 .. n : all[i] = arr[i]
      /\ \A i \in n + 1 .. n + Len(more) : all[i] = more[i - n]
      /\ DOMAIN all = 1 .. n + Len(more)
      /\ DOMAIN arr = 1 .. n /\ DOMAIN more = 1 .. Len(more)
  BY ConcatProperties
<1>2. /\ Base(a) \in Nat /\ Base(b + 1) \in Nat /\ Base(b + 2) \in Nat
      /\ Base(a) <= Base(b + 1) /\ Base(b + 1) <= Base(b + 2)
  BY BaseFacts
<1>3. \A i \in 1 .. n : /\ arr[i].start \in Nat /\ arr[i].end \in Nat
                        /\ arr[i].start < arr[i].end
                        /\ Base(a) <= arr[i].start /\ arr[i].end <= Base(b + 1)
  <2>1. \A i \in 1 .. n : arr[i] \in Areas
    BY ElementOfSeq
  <2>2. \A i \in 1 .. n : arr[i].start < arr[i].end
    BY <1>1 DEF Apart
  <2>3. \A i \in 1 .. n : Base(a) <= arr[i].start /\ arr[i].end <= Base(b + 1)
    BY <1>1 DEF Within
  <2>4. QED
    BY <2>1, <2>2, <2>3 DEF Areas
<1>4. \A i \in 1 .. Len(more) :
        /\ more[i].start \in Nat /\ more[i].end \in Nat
        /\ more[i].start < more[i].end
        /\ Base(b + 1) <= more[i].start /\ more[i].end <= Base(b + 2)
  <2>1. \A i \in 1 .. Len(more) : more[i] \in Areas
    BY ElementOfSeq
  <2>2. \A i \in 1 .. Len(more) : more[i].start < more[i].end
    BY <1>1 DEF Apart
  <2>3. b + 1 + 1 = b + 2
    OBVIOUS
  <2>4. \A i \in 1 .. Len(more) :
          Base(b + 1) <= more[i].start /\ more[i].end <= Base(b + 2)
    BY <1>1, <2>3 DEF Within
  <2>5. QED
    BY <2>1, <2>2, <2>4 DEF Areas
<1> HIDE DEF n, all
<1>5. \A i \in DOMAIN all : /\ all[i].start \in Nat /\ all[i].end \in Nat
                            /\ all[i].start < all[i].end
                            /\ Base(a) <= all[i].start /\ all[i].end <= Base(b + 2)
  <2> SUFFICES ASSUME NEW i \in 1 .. n + Len(more)
               PROVE  /\ all[i].start \in Nat /\ all[i].end \in Nat
                      /\ all[i].start < all[i].end
                      /\ Base(a) <= all[i].start /\ all[i].end <= Base(b + 2)
    BY <1>1
  <2>1. CASE i <= n
    BY <1>1, <1>2, <1>3, <2>1
  <2>2. CASE i > n
    <3>1. i - n \in 1 .. Len(more) /\ all[i] = more[i - n]
      BY <1>1, <2>2
    <3>2. QED
      BY <1>2, <1>4, <3>1
  <2>3. QED
    BY <1>1, <2>1, <2>2
<1>6. ASSUME NEW i \in 1 .. n + Len(more), NEW j \in 1 .. n + Len(more), i < j
      PROVE  all[i].end <= all[j].start
  <2>1. CASE j <= n
    <3>1. i \in 1 .. n /\ j \in 1 .. n
      BY <1>1, <1>6, <2>1
    <3>2. arr[i].end <= arr[j].start
      BY <1>1, <1>6, <3>1 DEF Apart
    <3>3. QED
      BY <1>1, <3>1, <3>2
  <2>2. CASE i > n
    <3>1. i - n \in 1 .. Len(more) /\ j - n \in 1 .. Len(more) /\ i - n < j - n
      BY <1>1, <1>6, <2>2
    <3>2. more[i - n].end <= more[j - n].start
      BY <1>1, <3>1 DEF Apart
    <3>3. all[i] = more[i - n] /\ all[j] = more[j - n]
      <4>1. i \in n + 1 .. n + Len(more) /\ j \in n + 1 .. n + Len(more)
        BY <1>1, <1>6, <2>2
      <4>2. QED
        BY <1>1, <4>1
    <3>4. QED
      BY <3>2, <3>3
  <2>3. CASE i <= n /\ j > n
    <3>1. i \in 1 .. n /\ j - n \in 1 .. Len(more)
      BY <1>1, <2>3
    <3>2. all[i] = arr[i] /\ all[j] = more[j - n]
      BY <1>1, <2>3
    <3>3. arr[i].end <= Base(b + 1) /\ arr[i].end \in Nat
      BY <1>3, <3>1
    <3>4. Base(b + 1) <= more[j - n].start /\ more[j - n].start \in Nat
      BY <1>4, <3>1
    <3>5. Base(b + 1) \in Nat
      BY <1>2
    <3>6. arr[i].end <= more[j - n].start
      BY ONLY <3>3, <3>4, <3>5
    <3>7. QED
      BY ONLY <3>2, <3>6
  <2>4. j <= n \/ i > n \/ (i <= n /\ j > n)
    BY <1>1
  <2>5. QED
    BY ONLY <2>1, <2>2, <2>3, <2>4
<1>7. Apart(all)
  <2>1. Len(all) \in Nat /\ DOMAIN all = 1 .. Len(all)
    BY <1>1
  <2>2. \A i \in DOMAIN all : /\ all[i].start \in Int /\ all[i].end \in Int
                              /\ all[i].start < all[i].end
    BY <1>5
  <2>3. \A i, j \in DOMAIN all : i < j => all[i].end <= all[j].start
    BY <1>1, <1>6
  <2>4. QED
    BY ONLY <2>1, <2>2, <2>3 DEF Apart
<1>8. Within(all, a, b + 1)
  BY <1>2, <1>5 DEF Within
<1>9. QED
  BY <1>1, <1>7, <1>8 DEF all

\* Each area is in a slot, has the slot's file, and is at its beginning if it is
\* the beginning of the file.
Slotted(arr) ==
  \A i \in DOMAIN arr : \E s \in Slots :
    /\ Base(s) <= arr[i].start /\ arr[i].end <= Base(s + 1)
    /\ arr[i].off = 0 => arr[i].start = Base(s)

LEMMA AreasOfSlotted ==
  ASSUME space \in Spaces, NEW s \in Slots
  PROVE  Slotted(AreasOf(s))
<1> DEFINE arr == AreasOf(s)
<1>1. Within(arr, s, s)
  BY AreasOfApart
<1>2. \A i \in DOMAIN arr : arr[i].off = 0 => arr[i].start = Base(s)
  <2>1. Half # 0
    BY SpanFacts
  <2> HIDE DEF Base, Half
  <2>2. QED
    BY <2>1 DEF AreasOf, Area, Base, Half
<1> HIDE DEF arr
<1>3. Slotted(arr)
  BY <1>1, <1>2 DEF Slotted, Within
<1>4. QED
  BY <1>3 DEF arr

\* The areas of the first n slots.
LEMMA AreasRead ==
  ASSUME space \in Spaces
  PROVE  \E areas \in [0 .. NSlots -> Seq(Areas)] :
           /\ MapRead = [i \in DOMAIN areas[NSlots] |-> Entry(areas[NSlots][i])]
           /\ areas[0] = <<>>
           /\ \A s \in Slots : areas[s] = areas[s - 1] \o AreasOf(s)
<1> DEFINE St == Seq(Areas)
           none == <<>>
           next(a, s) == a \o AreasOf(s)
           G == [s \in 1 .. NSlots |-> [a \in St |-> next(a, s)]]
           areas == CHOOSE f : f = [s \in 0 .. NSlots |->
                      IF s = 0 THEN none ELSE next(f[s - 1], s)]
<1>1. NSlots \in Nat /\ 0 \in 0 .. NSlots /\ Slots = 1 .. NSlots
  BY SpanFacts DEF Slots
<1>2. none \in St
  OBVIOUS
<1>3. \A s \in 1 .. NSlots, a \in St : next(a, s) \in St
  BY <1>1, AreasOfApart, ConcatProperties
<1>4. MapRead = [i \in DOMAIN areas[NSlots] |-> Entry(areas[NSlots][i])]
  BY DEF MapRead
<1> HIDE DEF St, none, next
<1>5. G \in [1 .. NSlots -> [St -> St]]
  BY <1>3
<1>6. \A s \in 1 .. NSlots, a \in St : G[s][a] = next(a, s)
  OBVIOUS
<1> HIDE DEF G
<1>7. PICK f \in [0 .. NSlots -> St] : Follows(f, NSlots, none, G)
  BY <1>1, <1>2, <1>5, Recursion
<1>8. \A n \in 0 .. NSlots : f[n] = IF n = 0 THEN none ELSE next(f[n - 1], n)
  <2>1. f[0] = none /\ \A n \in 1 .. NSlots : f[n] = G[n][f[n - 1]]
    BY <1>7 DEF Follows
  <2>2. \A n \in 1 .. NSlots : f[n - 1] \in St
    BY <1>1
  <2>3. QED
    BY <1>1, <1>6, <2>1, <2>2
<1>9. f = [s \in 0 .. NSlots |-> IF s = 0 THEN none ELSE next(f[s - 1], s)]
  BY <1>8
<1>10. areas = [s \in 0 .. NSlots |-> IF s = 0 THEN none ELSE next(areas[s - 1], s)]
  BY <1>9
<1> HIDE DEF areas
<1>11. areas[0] = none /\ \A s \in 1 .. NSlots : areas[s] = next(areas[s - 1], s)
  BY <1>1, <1>10
<1>12. \A n \in 0 .. NSlots : areas[n] \in St
  BY <1>1, <1>2, <1>3, <1>11, StaysIn
<1>13. areas \in [0 .. NSlots -> St]
  BY <1>10, <1>12
<1>14. QED
  BY <1>1, <1>4, <1>11, <1>13 DEF St, none, next

LEMMA SlottedConcat ==
  ASSUME NEW arr \in Seq(Areas), NEW more \in Seq(Areas), Slotted(arr), Slotted(more)
  PROVE  Slotted(arr \o more)
<1> DEFINE n == Len(arr)
           all == arr \o more
           Fine(e) == \E s \in Slots :
                        /\ Base(s) <= e.start /\ e.end <= Base(s + 1)
                        /\ e.off = 0 => e.start = Base(s)
<1>1. /\ n \in Nat /\ Len(more) \in Nat
      /\ \A i \in 1 .. n : all[i] = arr[i]
      /\ \A i \in n + 1 .. n + Len(more) : all[i] = more[i - n]
      /\ DOMAIN all = 1 .. n + Len(more)
      /\ DOMAIN arr = 1 .. n /\ DOMAIN more = 1 .. Len(more)
  BY ConcatProperties
<1>2. (\A i \in 1 .. n : Fine(arr[i])) /\ \A i \in 1 .. Len(more) : Fine(more[i])
  BY <1>1 DEF Slotted
<1> HIDE DEF Fine, all, n
<1>3. ASSUME NEW i \in 1 .. n + Len(more) PROVE Fine(all[i])
  <2>1. CASE i <= n
    BY <1>1, <1>2, <2>1
  <2>2. CASE i > n
    <3>1. i \in n + 1 .. n + Len(more) /\ i - n \in 1 .. Len(more)
      BY <1>1, <2>2
    <3>2. QED
      BY <1>1, <1>2, <3>1
  <2>3. QED
    BY <1>1, <2>1, <2>2
<1>4. QED
  BY <1>1, <1>3 DEF Slotted, Fine, all

\* map_read: an entry of every area, apart from each other and in their order.
LEMMA MapReadApart ==
  ASSUME space \in Spaces
  PROVE  /\ MapRead \in Seq(Entries) /\ Apart(MapRead) /\ Slotted(MapRead)
         /\ \A i \in DOMAIN MapRead : MapRead[i].need = TRUE
<1>1. PICK areas \in [0 .. NSlots -> Seq(Areas)] :
        /\ MapRead = [i \in DOMAIN areas[NSlots] |-> Entry(areas[NSlots][i])]
        /\ areas[0] = <<>>
        /\ \A s \in Slots : areas[s] = areas[s - 1] \o AreasOf(s)
  BY AreasRead
<1>2. NSlots \in Nat /\ Slots = 1 .. NSlots
  BY SpanFacts DEF Slots
<1> DEFINE Good(n) == Apart(areas[n]) /\ Within(areas[n], 1, n) /\ Slotted(areas[n])
           S == {n \in 0 .. NSlots : Good(n)}
<1>3. Good(0)
  BY <1>1 DEF Apart, Within, Slotted
<1>4. ASSUME NEW n \in 1 .. NSlots, Good(n - 1) PROVE Good(n)
  <2>1. areas[n] = areas[n - 1] \o AreasOf(n) /\ areas[n - 1] \in Seq(Areas)
    <3>1. n \in Slots /\ n - 1 \in 0 .. NSlots
      BY <1>2
    <3>2. QED
      BY <1>1, <3>1, Zenon
  <2>2. /\ AreasOf(n) \in Seq(Areas) /\ Apart(AreasOf(n)) /\ Within(AreasOf(n), n, n)
        /\ Slotted(AreasOf(n))
    BY <1>2, AreasOfApart, AreasOfSlotted
  <2>3. Apart(areas[n - 1]) /\ Within(areas[n - 1], 1, n - 1) /\ Slotted(areas[n - 1])
    BY <1>4
  <2>4. n - 1 \in Nat /\ n - 1 + 1 = n
    OBVIOUS
  <2>5. Apart(areas[n]) /\ Within(areas[n], 1, n)
    BY <2>1, <2>2, <2>3, <2>4, ApartConcat
  <2>6. Slotted(areas[n])
    BY <2>1, <2>2, <2>3, SlottedConcat
  <2>7. QED
    BY <2>5, <2>6
<1>5. Good(NSlots)
  <2> HIDE DEF Good
  <2>1. 0 \in S /\ \A n \in 1 .. NSlots : n - 1 \in S => n \in S
    BY <1>2, <1>3, <1>4
  <2> HIDE DEF S
  <2>2. \A n \in 0 .. NSlots : n \in S
    BY <1>2, <2>1, Steps
  <2>3. NSlots \in S
    BY <1>2, <2>2
  <2>4. QED
    BY <2>3 DEF S
<1> DEFINE arr == areas[NSlots]
<1>6. arr \in Seq(Areas) /\ Apart(arr) /\ Slotted(arr)
  BY <1>2, <1>5
<1>7. MapRead = [i \in DOMAIN arr |-> Entry(arr[i])]
  BY <1>1
<1> HIDE DEF arr
<1>8. Len(arr) \in Nat /\ DOMAIN arr = 1 .. Len(arr) /\ \A i \in 1 .. Len(arr) : arr[i] \in Areas
  BY <1>6, ElementOfSeq
<1>9. \A i \in 1 .. Len(arr) :
        /\ Entry(arr[i]) \in Entries /\ Entry(arr[i]).need = TRUE
        /\ Entry(arr[i]).start = arr[i].start /\ Entry(arr[i]).end = arr[i].end
        /\ Entry(arr[i]).off = arr[i].off
  BY <1>8 DEF Entry, Entries, Areas
<1>10. MapRead \in [1 .. Len(arr) -> Entries]
  BY <1>7, <1>8, <1>9
<1>11. MapRead \in Seq(Entries) /\ Len(MapRead) = Len(arr) /\ DOMAIN MapRead = 1 .. Len(arr)
  BY <1>8, <1>10, LenOf
<1>12. \A i \in 1 .. Len(arr) :
         /\ MapRead[i].start = arr[i].start /\ MapRead[i].end = arr[i].end
         /\ MapRead[i].off = arr[i].off /\ MapRead[i].need = TRUE
  BY <1>7, <1>8, <1>9
<1>13. Apart(MapRead)
  BY <1>6, <1>8, <1>11, <1>12 DEF Apart
<1>14. Slotted(MapRead)
  BY <1>6, <1>8, <1>11, <1>12 DEF Slotted
<1>15. QED
  BY <1>11, <1>12, <1>13, <1>14

Maps == {m \in [loaded : BOOLEAN, arr : Seq(Entries)] : Apart(m.arr) /\ Slotted(m.arr)}

\* The areas of arr are the new ones, and one that was there already needs its
\* symbols only if it still did.
CarriedOver(arr, old, new) ==
  /\ arr \in Seq(Entries) /\ Apart(arr) /\ Slotted(arr) /\ DOMAIN arr = DOMAIN new
  /\ \A i \in DOMAIN new :
       /\ arr[i].start = new[i].start /\ arr[i].end = new[i].end
       /\ arr[i].file = new[i].file /\ arr[i].off = new[i].off
       /\ \A j \in DOMAIN old :
            old[j].start = new[i].start /\ old[j].end = new[i].end =>
              arr[i].need = old[j].need
       /\ (\A j \in DOMAIN old :
             ~(old[j].start = new[i].start /\ old[j].end = new[i].end)) =>
            arr[i].need = new[i].need

\* map_proc_load
LEMMA ReloadedKeeps ==
  ASSUME NEW old \in Seq(Entries), Apart(old),
         NEW new \in Seq(Entries), Apart(new), Slotted(new)
  PROVE  CarriedOver(Reloaded(old, new), old, new)
<1> DEFINE n == Len(new)
           at(i) == EntryFind(old, new[i].start, new[i].end)
           arr == Reloaded(old, new)
           same(e, i) == /\ e.start = new[i].start /\ e.end = new[i].end
                         /\ e.file = new[i].file /\ e.off = new[i].off
<1>1. n \in Nat /\ DOMAIN new = 1 .. n /\ \A i \in 1 .. n : new[i] \in Entries
  BY ElementOfSeq
<1>2. Len(old) \in Nat /\ DOMAIN old = 1 .. Len(old)
      /\ \A j \in 1 .. Len(old) : old[j] \in Entries
  BY ElementOfSeq
<1>3. \A i \in 1 .. n :
        arr[i] = IF at(i) = 0 THEN new[i] ELSE [new[i] EXCEPT !.need = old[at(i)].need]
  BY <1>1 DEF Reloaded
<1>4. ASSUME NEW i \in 1 .. n
      PROVE  /\ at(i) \in 0 .. Len(old)
             /\ \A j \in DOMAIN old :
                  (old[j].start = new[i].start /\ old[j].end = new[i].end) <=> (at(i) = j)
  <2>1. new[i].start \in Int
    BY <1>1 DEF Entries
  <2>2. QED
    BY <2>1, EntryFound
<1>5. arr = [i \in 1 .. n |-> arr[i]]
  BY <1>1 DEF Reloaded
<1> HIDE DEF arr, at, n
<1>6. ASSUME NEW i \in 1 .. n PROVE arr[i] \in Entries /\ same(arr[i], i)
  <2>1. new[i] \in Entries
    BY <1>1
  <2>2. CASE at(i) = 0
    BY <1>3, <2>1, <2>2
  <2>3. CASE at(i) # 0
    <3>1. at(i) \in 1 .. Len(old)
      BY <1>2, <1>4, <2>3
    <3>2. old[at(i)].need \in BOOLEAN
      BY <1>2, <3>1 DEF Entries
    <3>3. arr[i] = [new[i] EXCEPT !.need = old[at(i)].need]
      BY <1>3, <2>3
    <3>4. QED
      BY <2>1, <3>2, <3>3 DEF Entries
  <2>4. QED
    BY <2>2, <2>3
<1>7. ASSUME NEW i \in 1 .. n, NEW j \in DOMAIN old,
             old[j].start = new[i].start, old[j].end = new[i].end
      PROVE  arr[i].need = old[j].need
  <2>1. at(i) = j /\ j # 0
    BY <1>2, <1>4, <1>7
  <2>2. arr[i] = [new[i] EXCEPT !.need = old[j].need]
    BY <1>3, <2>1
  <2>3. QED
    BY <1>1, <2>2 DEF Entries
<1>8. ASSUME NEW i \in 1 .. n,
              \A j \in DOMAIN old : ~(old[j].start = new[i].start /\ old[j].end = new[i].end)
       PROVE  arr[i].need = new[i].need
  <2>1. at(i) = 0
    <3>1. at(i) \notin DOMAIN old
      BY <1>4, <1>8
    <3>2. QED
      BY <1>2, <1>4, <3>1
  <2>2. QED
    BY <1>3, <2>1
<1>9. arr \in Seq(Entries) /\ Len(arr) = n /\ DOMAIN arr = 1 .. n
  <2>1. arr \in [1 .. n -> Entries]
    BY <1>5, <1>6
  <2>2. QED
    BY <1>1, <2>1, LenOf
<1>10. Apart(arr)
  <2>1. \A i \in 1 .. n : arr[i].start = new[i].start /\ arr[i].end = new[i].end
    BY <1>6
  <2>2. QED
    BY <1>1, <1>9, <2>1 DEF Apart, n
<1>11. Slotted(arr)
  BY <1>1, <1>6, <1>9 DEF Slotted
<1>12. QED
  BY <1>1, <1>6, <1>7, <1>9, <1>10, <1>11, <1>8 DEF CarriedOver, arr

LEMMA MapLoadedIs ==
  ASSUME space \in Spaces, map \in Maps
  PROVE  /\ MapLoaded \in Maps /\ MapLoaded.loaded = TRUE
         /\ map.loaded => \A i \in DOMAIN MapLoaded.arr, j \in DOMAIN map.arr :
              /\ map.arr[j].start = MapLoaded.arr[i].start
              /\ map.arr[j].end = MapLoaded.arr[i].end
              => MapLoaded.arr[i].need = map.arr[j].need
         /\ \A i \in DOMAIN MapLoaded.arr :
              ~MapLoaded.arr[i].need => \E j \in DOMAIN map.arr :
                /\ map.arr[j].start = MapLoaded.arr[i].start
                /\ map.arr[j].end = MapLoaded.arr[i].end /\ ~map.arr[j].need
<1>1. /\ MapRead \in Seq(Entries) /\ Apart(MapRead) /\ Slotted(MapRead)
      /\ \A i \in DOMAIN MapRead : MapRead[i].need = TRUE
  BY MapReadApart
<1>2. map.loaded \in BOOLEAN /\ map.arr \in Seq(Entries) /\ Apart(map.arr)
  BY DEF Maps
<1>3. CASE map.loaded
  <2>1. MapLoaded = [loaded |-> TRUE, arr |-> Reloaded(map.arr, MapRead)]
    BY <1>3 DEF MapLoaded
  <2> DEFINE arr == Reloaded(map.arr, MapRead)
  <2>2. CarriedOver(arr, map.arr, MapRead)
    BY <1>1, <1>2, ReloadedKeeps
  <2> HIDE DEF arr
  <2>3. MapLoaded.arr = arr /\ MapLoaded.loaded = TRUE
    BY <2>1 DEF arr
  <2>4. MapLoaded \in Maps
    BY <2>1, <2>2 DEF CarriedOver, Maps, arr
  <2>5. \A i \in DOMAIN arr : ~arr[i].need => \E j \in DOMAIN map.arr :
          map.arr[j].start = arr[i].start /\ map.arr[j].end = arr[i].end /\ ~map.arr[j].need
    <3> SUFFICES ASSUME NEW i \in DOMAIN MapRead, ~arr[i].need
                 PROVE  \E j \in DOMAIN map.arr :
                          /\ map.arr[j].start = arr[i].start /\ map.arr[j].end = arr[i].end
                          /\ ~map.arr[j].need
      BY <2>2 DEF CarriedOver
    <3> DEFINE old == {j \in DOMAIN map.arr : map.arr[j].start = MapRead[i].start
                                            /\ map.arr[j].end = MapRead[i].end}
    <3>1. /\ arr[i].start = MapRead[i].start /\ arr[i].end = MapRead[i].end
          /\ \A j \in old : arr[i].need = map.arr[j].need
          /\ old = {} => arr[i].need = MapRead[i].need
      BY <2>2 DEF CarriedOver
    <3>2. MapRead[i].need = TRUE
      BY <1>1
    <3>3. PICK j \in old : TRUE
      BY <3>1, <3>2
    <3>4. QED
      BY <3>1, <3>3
  <2>6. QED
    BY <2>2, <2>3, <2>4, <2>5 DEF CarriedOver
<1>4. CASE ~map.loaded
  <2>1. MapLoaded = [loaded |-> TRUE, arr |-> MapRead]
    BY <1>4 DEF MapLoaded
  <2>2. MapLoaded \in Maps
    BY <1>1, <2>1 DEF Maps
  <2>3. QED
    BY <1>1, <1>4, <2>1, <2>2
<1>5. QED
  BY <1>2, <1>3, <1>4

-----------------------------------------------------------------------------
(* The tables of symbols.                                                  *)

Names == UNION {{y.name : y \in Range(Attr(f).syms)} : f \in Files}
ItemSet == {y \in [name : Names, under : BOOLEAN, size : Nat \ {0}, off : Nat] :
              y.off + y.size <= Span}
InOrder(items) == \A i, j \in DOMAIN items : i < j => items[i].off <= items[j].off
Tables == {items \in Seq(ItemSet) : InOrder(items)}

LEMMA ModRange ==
  ASSUME NEW a \in Int, NEW b \in Nat \ {0}
  PROVE  a % b \in 0 .. b - 1
OBVIOUS

LEMMA ItemsTyped ==
  ASSUME NEW f \in Files
  PROVE  /\ Items(f) \in Seq(ItemSet) /\ Len(Attr(f).syms) \in Nat
         /\ DOMAIN Items(f) = 1 .. Len(Attr(f).syms)
         /\ DOMAIN Attr(f).syms = 1 .. Len(Attr(f).syms)
         /\ \A i \in DOMAIN Items(f) :
              /\ Attr(f).syms[i] \in Range(Attr(f).syms)
              /\ Items(f)[i].name = Attr(f).syms[i].name
              /\ Items(f)[i].under = Attr(f).syms[i].under
              /\ Items(f)[i].size = Attr(f).syms[i].size
              /\ Items(f)[i].off = Attr(f).syms[i].at - Attr(f).vaddr
<1> DEFINE syms == Attr(f).syms
           n == Len(syms)
           item(y) == [name |-> y.name, under |-> y.under, size |-> y.size,
                       off |-> (y.at - Attr(f).vaddr) % AddrLimit]
<1>1. syms \in Seq(Range(syms)) /\ Attr(f).vaddr \in Nat
      /\ \A y \in Range(syms) :
           /\ y.under \in BOOLEAN /\ y.at \in Nat /\ y.size \in Nat \ {0}
           /\ Attr(f).vaddr <= y.at /\ y.at + y.size <= Span
  BY SymbolsAssumption
<1>2. n \in Nat /\ DOMAIN syms = 1 .. n /\ \A i \in 1 .. n : syms[i] \in Range(syms)
  <2> HIDE DEF syms
  <2>1. QED
    BY <1>1, ElementOfSeq
<1>3. Items(f) = [i \in 1 .. n |-> item(syms[i])]
  BY <1>2 DEF Items
<1>4. ASSUME NEW y \in Range(syms)
      PROVE  item(y) \in ItemSet /\ item(y).off = y.at - Attr(f).vaddr
  <2>1. y.name \in Names
    BY DEF Names
  <2>2. PICK d \in Nat : d = y.at - Attr(f).vaddr
    BY <1>1
  <2>3. d + y.size <= Span
    <3>1. /\ y.at \in Nat /\ y.size \in Nat /\ Attr(f).vaddr \in Nat /\ Span \in Nat
          /\ y.at + y.size <= Span /\ d = y.at - Attr(f).vaddr
      BY <1>1, <2>2, SpanFacts
    <3>2. QED
      BY <3>1
  <2>4. d % AddrLimit = d
    <3>1. Span < AddrLimit /\ Span \in Nat /\ AddrLimit \in Nat \ {0}
      BY SpanFacts
    <3>2. d < AddrLimit
      BY <1>1, <2>3, <3>1
    <3>3. QED
      BY <3>1, <3>2
  <2>5. item(y).off = d
    BY <2>2, <2>4
  <2>6. item(y) \in ItemSet
    BY <1>1, <2>1, <2>3, <2>5 DEF ItemSet
  <2>7. QED
    BY <2>2, <2>5, <2>6
<1>5. \A y \in Range(syms) :
        item(y).name = y.name /\ item(y).under = y.under /\ item(y).size = y.size
  OBVIOUS
<1> HIDE DEF syms, n, item
<1>6. Items(f) \in [1 .. n -> ItemSet]
  BY <1>2, <1>3, <1>4
<1>7. Items(f) \in Seq(ItemSet) /\ DOMAIN Items(f) = 1 .. n
  BY <1>2, <1>6, LenOf
<1>8. \A i \in 1 .. n : /\ Items(f)[i].name = syms[i].name /\ Items(f)[i].under = syms[i].under
                        /\ Items(f)[i].size = syms[i].size
                        /\ Items(f)[i].off = syms[i].at - Attr(f).vaddr
  BY <1>2, <1>3, <1>4, <1>5
<1>9. QED
  BY <1>2, <1>7, <1>8 DEF n, syms

\* The tables are sorted, and nothing is lost or made up.
LEMMA ItemSortSorts ==
  ASSUME NEW items \in Seq(ItemSet)
  PROVE  /\ ItemSort(items) \in Tables
         /\ \A k \in DOMAIN ItemSort(items) : \E i \in DOMAIN items : ItemSort(items)[k] = items[i]
         /\ \A i \in DOMAIN items : \E k \in DOMAIN ItemSort(items) : ItemSort(items)[k] = items[i]
<1> DEFINE n == Len(items)
           keys == [i \in DOMAIN items |-> items[i].off]
           out1 == ItemSort(items)
<1>1. n \in Nat /\ DOMAIN items = 1 .. n /\ items \in [1 .. n -> ItemSet]
  OBVIOUS
<1>2. \A i \in 1 .. n : items[i].off \in Int
  <2>1. \A i \in 1 .. n : items[i] \in ItemSet
    BY <1>1
  <2>2. QED
    BY <2>1 DEF ItemSet
<1>3. keys \in [1 .. n -> Int]
  BY <1>1, <1>2
<1>4. out1 = Qsort(items, keys)
  BY DEF ItemSort
<1>5. \A i \in 1 .. n : keys[i] = items[i].off
  BY <1>1
<1> HIDE DEF keys, n, out1
<1>6. out1 \in [1 .. n -> ItemSet] /\ \A k \in 1 .. n : out1[k] = items[Order(keys)[k]]
  <2>1. Qsort(items, keys) = [k \in 1 .. n |-> items[Order(keys)[k]]]
    BY <1>1, <1>3, QsortSorts
  <2>2. \A k \in 1 .. n : Order(keys)[k] \in 1 .. n
    BY <1>1, <1>3, OrderSorts
  <2>3. QED
    BY <1>1, <1>4, <2>1, <2>2
<1>7. /\ Order(keys) \in [1 .. n -> 1 .. n]
      /\ \A i \in 1 .. n : \E k \in 1 .. n : Order(keys)[k] = i
      /\ \A j, k \in 1 .. n : j < k => Before(keys, Order(keys)[j], Order(keys)[k])
  BY <1>1, <1>3, OrderSorts
<1>8. out1 \in Seq(ItemSet) /\ DOMAIN out1 = 1 .. n
  BY <1>1, <1>6, LenOf
<1>9. ASSUME NEW j \in 1 .. n, NEW k \in 1 .. n, j < k PROVE out1[j].off <= out1[k].off
  <2>1. Before(keys, Order(keys)[j], Order(keys)[k])
    BY <1>7, <1>9
  <2>2. Order(keys)[j] \in 1 .. n /\ Order(keys)[k] \in 1 .. n
    BY <1>7
  <2>3. keys[Order(keys)[j]] <= keys[Order(keys)[k]]
    BY <1>3, <2>1, <2>2 DEF Before
  <2>4. QED
    BY <1>5, <1>6, <2>2, <2>3
<1>10. out1 \in Tables
  BY <1>8, <1>9 DEF Tables, InOrder
<1>11. \A k \in 1 .. n : \E i \in 1 .. n : out1[k] = items[i]
  BY <1>6, <1>7
<1>12. \A i \in 1 .. n : \E k \in 1 .. n : out1[k] = items[i]
  BY <1>6, <1>7
<1>13. QED
  BY <1>1, <1>8, <1>10, <1>11, <1>12 DEF out1

-----------------------------------------------------------------------------
(* sym_load.                                                               *)

Bases == 0 .. Base(NSlots + 1)
Images == [items : Tables, base : Bases]
Refs == [file : Files, base : Bases]
States == [image : Images, images : Nat, libref : Seq(Refs),
           libs : [Paths -> Files \union {None}]]

LEMMA EntryInMemory ==
  ASSUME NEW m \in Maps, NEW i \in DOMAIN m.arr
  PROVE  m.arr[i] \in Entries /\ m.arr[i].start \in Bases
<1>1. m.arr \in Seq(Entries) /\ Apart(m.arr) /\ Slotted(m.arr)
  BY DEF Maps
<1>2. m.arr[i] \in Entries
  BY <1>1, ElementOfSeq
<1>3. PICK s \in Slots : m.arr[i].end <= Base(s + 1)
  BY <1>1 DEF Slotted
<1>4. s + 1 \in Nat /\ NSlots + 1 \in Nat /\ s + 1 <= NSlots + 1
  BY SpanFacts DEF Slots
<1>5. /\ Base(s + 1) <= Base(NSlots + 1)
      /\ Base(s + 1) \in Nat /\ Base(NSlots + 1) \in Nat
  BY <1>4, BaseFacts
<1>6. m.arr[i].start \in Nat /\ m.arr[i].end \in Nat /\ m.arr[i].start < m.arr[i].end
  BY <1>1, <1>2 DEF Apart, Entries
<1>7. QED
  BY <1>2, <1>3, <1>5, <1>6 DEF Bases

LEMMA ResolvedTyped ==
  ASSUME NEW s \in States, NEW e \in Entries, e.start \in Bases
  PROVE  Resolved(s, e) \in States
<1>1. /\ s.image \in Images /\ s.images \in Nat /\ s.libref \in Seq(Refs)
      /\ s.libs \in [Paths -> Files \union {None}] /\ e.file \in Files
  BY DEF States, Entries
<1>2. ImageSymRead(s, e) \in States
  <2>1. CASE ~Readable(e.file)
    BY <2>1 DEF ImageSymRead
  <2>2. CASE Readable(e.file)
    <3> DEFINE items == ItemSort(s.image.items \o Items(e.file))
               x == [items |-> items, base |-> e.start]
    <3>1. s.image.items \in Seq(ItemSet)
      BY <1>1 DEF Images, Tables
    <3>2. Items(e.file) \in Seq(ItemSet)
      BY <1>1, ItemsTyped
    <3>3. s.image.items \o Items(e.file) \in Seq(ItemSet)
      BY <3>1, <3>2, ConcatProperties
    <3>4. items \in Tables
      BY <3>3, ItemSortSorts
    <3> HIDE DEF items
    <3>5. x \in Images
      BY <3>4 DEF Images
    <3>6. ImageSymRead(s, e) = [s EXCEPT !.image = x, !.images = @ + 1]
      BY <2>2 DEF ImageSymRead, items
    <3> HIDE DEF x
    <3>7. s.images + 1 \in Nat
      BY <1>1
    <3>8. QED
      BY <3>5, <3>6, <3>7 DEF States
  <2>3. QED
    BY <2>1, <2>2
<1>3. LibSymRead(s, e) \in States
  <2> DEFINE f == LibOf(s.libs, e.file)
  <2>1. Attr(e.file).path \in Paths
    BY <1>1 DEF Paths
  <2>2. f \in Files \union {None}
    BY <1>1, <2>1 DEF LibOf
  <2>3. CASE f = None
    BY <2>3 DEF LibSymRead
  <2>4. CASE f # None
    <3> DEFINE l == [s.libs EXCEPT ![Attr(e.file).path] = f]
               r == [file |-> f, base |-> e.start]
    <3>1. LibSymRead(s, e) = [s EXCEPT !.libs = l, !.libref = Append(s.libref, r)]
      BY <2>4 DEF LibSymRead
    <3> HIDE DEF f
    <3>2. l \in [Paths -> Files \union {None}]
      BY <1>1, <2>2
    <3>3. r \in Refs
      BY <2>2, <2>4 DEF Refs
    <3> HIDE DEF l, r
    <3>4. Append(s.libref, r) \in Seq(Refs)
      BY <1>1, <3>3
    <3>5. QED
      BY <3>1, <3>2, <3>4 DEF States
  <2>5. QED
    BY <2>3, <2>4
<1>4. QED
  BY <1>2, <1>3 DEF Resolved

Read0 == [image |-> image, images |-> images, libref |-> libref, libs |-> libs]

\* Each entry of the map changes what the entries before it have left.
LEMMA SymLoadedIs ==
  ASSUME NEW m \in Maps, Read0 \in States
  PROVE  \E read \in [0 .. Len(m.arr) -> States] :
           /\ read[0] = Read0 /\ SymLoaded(m) = read[Len(m.arr)]
           /\ \A n \in 1 .. Len(m.arr) : read[n] = Resolved(read[n - 1], m.arr[n])
<1> DEFINE N == Len(m.arr)
           next(s, n) == Resolved(s, m.arr[n])
           G == [n \in 1 .. N |-> [s \in States |-> next(s, n)]]
           read == CHOOSE f : f = [n \in 0 .. N |->
                     IF n = 0 THEN Read0 ELSE next(f[n - 1], n)]
<1>1. N \in Nat /\ 0 \in 0 .. N /\ DOMAIN m.arr = 1 .. N
  BY DEF Maps, Apart
<1>2. SymLoaded(m) = read[N]
  BY DEF SymLoaded, Read0
<1>3. \A n \in 1 .. N, s \in States : next(s, n) \in States
  BY <1>1, EntryInMemory, ResolvedTyped
<1> HIDE DEF N, next
<1>4. G \in [1 .. N -> [States -> States]]
  BY <1>3
<1>5. \A n \in 1 .. N, s \in States : G[n][s] = next(s, n)
  OBVIOUS
<1> HIDE DEF G
<1>6. PICK f \in [0 .. N -> States] : Follows(f, N, Read0, G)
  BY <1>1, <1>4, Recursion
<1>7. \A n \in 0 .. N : f[n] = IF n = 0 THEN Read0 ELSE next(f[n - 1], n)
  <2>1. f[0] = Read0 /\ \A n \in 1 .. N : f[n] = G[n][f[n - 1]]
    BY <1>6 DEF Follows
  <2>2. \A n \in 1 .. N : f[n - 1] \in States
    BY <1>1
  <2>3. QED
    BY <1>1, <1>5, <2>1, <2>2
<1>8. f = [n \in 0 .. N |-> IF n = 0 THEN Read0 ELSE next(f[n - 1], n)]
  BY <1>7
<1>9. read = [n \in 0 .. N |-> IF n = 0 THEN Read0 ELSE next(read[n - 1], n)]
  BY <1>8
<1> HIDE DEF read
<1>10. read[0] = Read0 /\ \A n \in 1 .. N : read[n] = next(read[n - 1], n)
  <2>1. \A n \in 0 .. N : read[n] = IF n = 0 THEN Read0 ELSE next(read[n - 1], n)
    BY <1>9, Zenon
  <2>2. QED
    BY ONLY <1>1, <2>1
<1>11. \A n \in 0 .. N : read[n] \in States
  BY <1>1, <1>3, <1>10, StaysIn
<1>12. read \in [0 .. N -> States]
  BY <1>9, <1>11
<1>13. QED
  BY <1>2, <1>10, <1>12 DEF N, next

-----------------------------------------------------------------------------
(* Types: the map and the tables are in the order that bsearch needs.      *)

Typed ==
  /\ space \in Spaces /\ replaced \in BOOLEAN /\ map \in Maps
  /\ image \in Images /\ images \in Nat /\ libref \in Seq(Refs)
  /\ libs \in [Paths -> Files \union {None}]
  /\ loaded \in BOOLEAN /\ (loaded => map.loaded)
  /\ parts \in BOOLEAN /\ changes \in 0 .. MaxChanges

LEMMA AskedKeeps ==
  ASSUME NEW m \in Maps
  PROVE  /\ Asked(m) \in Maps /\ Asked(m).loaded = m.loaded
         /\ DOMAIN Asked(m).arr = DOMAIN m.arr
         /\ \A i \in DOMAIN m.arr :
              /\ Asked(m).arr[i].start = m.arr[i].start /\ Asked(m).arr[i].end = m.arr[i].end
              /\ Asked(m).arr[i].file = m.arr[i].file /\ Asked(m).arr[i].off = m.arr[i].off
              /\ Asked(m).arr[i].need = (m.arr[i].need /\ ~Attr(m.arr[i].file).exec)
<1> DEFINE n == Len(m.arr)
           arr == [i \in DOMAIN m.arr |->
                    [m.arr[i] EXCEPT !.need = @ /\ ~Attr(m.arr[i].file).exec]]
<1>1. /\ m.arr \in Seq(Entries) /\ Apart(m.arr) /\ Slotted(m.arr) /\ m.loaded \in BOOLEAN
      /\ m = [loaded |-> m.loaded, arr |-> m.arr]
  BY DEF Maps
<1>2. n \in Nat /\ DOMAIN m.arr = 1 .. n /\ \A i \in 1 .. n : m.arr[i] \in Entries
  BY <1>1, ElementOfSeq DEF Apart
<1>3. Asked(m) = [loaded |-> m.loaded, arr |-> arr]
  BY <1>1 DEF Asked
<1>4. ASSUME NEW i \in 1 .. n
      PROVE  /\ arr[i] \in Entries
             /\ arr[i].start = m.arr[i].start /\ arr[i].end = m.arr[i].end
             /\ arr[i].file = m.arr[i].file /\ arr[i].off = m.arr[i].off
             /\ arr[i].need = (m.arr[i].need /\ ~Attr(m.arr[i].file).exec)
  <2> DEFINE b == m.arr[i].need /\ ~Attr(m.arr[i].file).exec
  <2>1. arr[i] = [m.arr[i] EXCEPT !.need = b]
    BY <1>2
  <2>2. b \in BOOLEAN /\ m.arr[i] \in Entries
    BY <1>2
  <2> HIDE DEF arr, b
  <2>3. /\ arr[i] \in Entries /\ arr[i].need = b
        /\ arr[i].start = m.arr[i].start /\ arr[i].end = m.arr[i].end
        /\ arr[i].file = m.arr[i].file /\ arr[i].off = m.arr[i].off
    BY <2>1, <2>2 DEF Entries
  <2>4. QED
    BY <2>3 DEF b
<1>5. arr = [i \in 1 .. n |-> arr[i]]
  BY <1>2
<1> HIDE DEF arr
<1>6. arr \in [1 .. n -> Entries]
  BY <1>4, <1>5
<1> HIDE DEF n
<1>7. arr \in Seq(Entries) /\ Len(arr) = n /\ DOMAIN arr = 1 .. n
  BY <1>2, <1>6, LenOf
<1>8. Apart(arr)
  BY <1>1, <1>2, <1>4, <1>7 DEF Apart, n
<1>9. Slotted(arr)
  BY <1>1, <1>2, <1>4, <1>7 DEF Slotted
<1>10. Asked(m) \in Maps
  BY <1>1, <1>3, <1>7, <1>8, <1>9 DEF Maps
<1>11. QED
  BY <1>2, <1>3, <1>4, <1>7, <1>10

LEMMA TypedInit == Init => Typed
<1> SUFFICES ASSUME Init PROVE Typed
  OBVIOUS
<1>1. space \in Spaces
  BY SymbolsAssumption DEF Init, Spaces
<1>2. NoMap \in Maps
  BY DEF NoMap, Maps, Apart, Slotted
<1>3. NoImage \in Images
  BY BaseFacts DEF NoImage, Images, Bases, Tables, InOrder
<1>4. MaxChanges \in Nat
  BY SymbolsAssumption
<1>5. libref \in Seq(Refs) /\ libs \in [Paths -> Files \union {None}]
  BY DEF Init
<1>6. /\ map = NoMap /\ image = NoImage /\ loaded = FALSE /\ replaced = FALSE
      /\ parts = FALSE /\ images = 0 /\ changes = 0
  BY DEF Init
<1>7. images \in Nat /\ changes \in 0 .. MaxChanges
  BY <1>4, <1>6
<1> HIDE DEF Init
<1>8. QED
  BY <1>1, <1>2, <1>3, <1>5, <1>6, <1>7 DEF Typed

\* What sym_load leaves is typed.
LEMMA SymLoadedTyped ==
  ASSUME Typed, NEW m \in Maps
  PROVE  SymLoaded(m) \in States
<1>1. Read0 \in States
  BY DEF Typed, Read0, States
<1>2. PICK read \in [0 .. Len(m.arr) -> States] : SymLoaded(m) = read[Len(m.arr)]
  BY <1>1, SymLoadedIs
<1>3. Len(m.arr) \in 0 .. Len(m.arr)
  BY DEF Maps, Apart
<1>4. QED
  BY <1>2, <1>3

LEMMA TypedNext == Typed /\ [Next]_vars => Typed'
<1> SUFFICES ASSUME Typed, [Next]_vars PROVE Typed'
  OBVIOUS
<1>1. MaxChanges \in Nat
  BY SymbolsAssumption
<1>2. ASSUME Change PROVE changes' \in 0 .. MaxChanges
  BY <1>1, <1>2 DEF Change, Typed
<1>3. ASSUME NEW s \in Slots, NEW f \in Files \union {None}, Mmap(s, f) PROVE Typed'
  <2>1. space' \in Spaces
    BY <1>3 DEF Mmap, Typed, Spaces
  <2>2. changes' \in 0 .. MaxChanges
    BY <1>2, <1>3 DEF Mmap
  <2>3. QED
    BY <1>3, <2>1, <2>2 DEF Mmap, Known, Typed
<1>4. ASSUME NEW s \in Slots, Cut(s) PROVE Typed'
  <2>1. space' \in Spaces
    BY <1>4 DEF Cut, Typed, Spaces
  <2>2. changes' \in 0 .. MaxChanges
    BY <1>2, <1>4 DEF Cut
  <2>3. QED
    BY <1>4, <2>1, <2>2 DEF Cut, Known, Typed
<1>5. CASE Replace
  <2>1. changes' \in 0 .. MaxChanges
    BY <1>2, <1>5 DEF Replace
  <2>2. QED
    BY <1>5, <2>1 DEF Replace, Known, Typed
<1>6. CASE Retrack
  <2>1. changes' \in 0 .. MaxChanges
    BY <1>2, <1>6 DEF Retrack
  <2>2. NoMap \in Maps
    BY DEF NoMap, Maps, Apart, Slotted
  <2>3. NoImage \in Images
    BY BaseFacts DEF NoImage, Images, Bases, Tables, InOrder
  <2>4. libref' \in Seq(Refs)
    BY <1>6 DEF Retrack, Untracked
  <2>5. QED
    BY <1>6, <2>1, <2>2, <2>3, <2>4 DEF Retrack, Untracked, Typed
<1>7. CASE Erase
  BY <1>7 DEF Erase, Known, Typed
<1>8. ASSUME NEW recs \in Recs, LatDraw(recs) PROVE Typed'
  <2>1. map' \in Maps /\ map'.loaded = TRUE
    BY <1>8, MapLoadedIs DEF LatDraw, Typed
  <2>2. parts' \in BOOLEAN
    BY <1>8 DEF LatDraw, Typed
  <2>3. QED
    BY <1>8, <2>1, <2>2 DEF LatDraw, Typed
<1>9. ASSUME NEW area, NEW nids, NEW recs, LatnodeDraw(area, nids, recs) PROVE Typed'
  BY <1>9 DEF LatnodeDraw, Known, Typed
<1>10. ASSUME NEW samples \in Samples, ChainDraw(samples) PROVE Typed'
  <2>1. MapLoaded \in Maps /\ MapLoaded.loaded = TRUE
    BY MapLoadedIs DEF Typed
  <2>2. map' \in Maps /\ map'.loaded = TRUE
    BY <1>10, <2>1, AskedKeeps DEF ChainDraw
  <2>3. SymLoaded(MapLoaded) \in States
    BY <2>1, SymLoadedTyped
  <2>4. /\ image' \in Images /\ images' \in Nat /\ libref' \in Seq(Refs)
        /\ libs' \in [Paths -> Files \union {None}]
    BY <1>10, <2>3 DEF ChainDraw, States
  <2>5. parts' \in BOOLEAN /\ loaded' = TRUE
    BY <1>10 DEF ChainDraw, Typed
  <2>6. UNCHANGED <<space, replaced, changes>>
    BY <1>10 DEF ChainDraw
  <2>7. QED
    BY <2>2, <2>4, <2>5, <2>6 DEF Typed
<1>11. CASE UNCHANGED vars
  BY <1>11 DEF vars, Typed
<1>12. QED
  BY <1>3, <1>4, <1>5, <1>6, <1>7, <1>8, <1>9, <1>10, <1>11
     DEF Next, ProcessStep, DrawStep

\* The map and the tables of symbols are always in the order that bsearch needs,
\* whatever is mapped, cut, replaced and loaded again.
THEOREM TypeCorrect == Spec => []TypeOK
<1>1. Typed => TypeOK
  <2> SUFFICES ASSUME Typed PROVE TypeOK
    OBVIOUS
  <2>1. /\ map.loaded \in BOOLEAN /\ map.arr \in Seq(Entries) /\ Apart(map.arr)
        /\ DOMAIN map.arr = 1 .. Len(map.arr) /\ Len(map.arr) \in Nat
    BY DEF Typed, Maps, Apart
  <2>2. \A i \in DOMAIN map.arr : map.arr[i] \in Entries
    BY <2>1, ElementOfSeq
  <2>3. \A i \in DOMAIN map.arr :
          /\ map.arr[i].file \in Files /\ map.arr[i].need \in BOOLEAN
          /\ map.arr[i].start < map.arr[i].end
    BY <2>1, <2>2 DEF Entries, Apart
  <2>4. \A i \in DOMAIN map.arr : i > 1 => map.arr[i - 1].end <= map.arr[i].start
    <3> SUFFICES ASSUME NEW i \in DOMAIN map.arr, i > 1
                 PROVE  map.arr[i - 1].end <= map.arr[i].start
      OBVIOUS
    <3>1. i - 1 \in DOMAIN map.arr /\ i - 1 < i
      BY <2>1
    <3>2. QED
      BY <2>1, <3>1 DEF Apart
  <2>5. /\ image.base \in Bases /\ image.items \in Seq(ItemSet)
        /\ InOrder(image.items)
    BY DEF Typed, Images, Tables
  <2>6. \A i \in DOMAIN image.items : image.items[i].off \in 0 .. AddrLimit - 1
    <3> SUFFICES ASSUME NEW i \in DOMAIN image.items
                 PROVE  image.items[i].off \in 0 .. AddrLimit - 1
      OBVIOUS
    <3>1. image.items[i] \in ItemSet
      BY <2>5, ElementOfSeq
    <3>2. PICK o \in Nat : o = image.items[i].off
      BY <3>1 DEF ItemSet
    <3>3. PICK z \in Nat : z = image.items[i].size
      BY <3>1 DEF ItemSet
    <3>4. o + z <= Span
      BY <3>1, <3>2, <3>3 DEF ItemSet
    <3>5. Span \in Nat /\ AddrLimit \in Nat /\ Span < AddrLimit
      BY SpanFacts
    <3>6. QED
      BY <3>2, <3>4, <3>5
  <2>7. libref \in Seq([file : Files, base : Nat])
    <3>1. Refs \subseteq [file : Files, base : Nat]
      BY BaseFacts DEF Refs, Bases
    <3>2. QED
      BY <3>1, SeqMonotonic DEF Typed
  <2>8. image.base \in 0 .. AddrLimit - 1
    <3>1. /\ Base(NSlots + 1) \in Nat /\ Span \in Nat /\ AddrLimit \in Nat
          /\ Base(NSlots + 1) + Span < AddrLimit
      BY SpanFacts, BaseFacts
    <3>2. QED
      BY <2>5, <3>1 DEF Bases
  <2>9. QED
    BY <2>1, <2>3, <2>4, <2>5, <2>6, <2>7, <2>8 DEF Typed, TypeOK, InOrder
<1>2. QED
  BY <1>1, TypedInit, TypedNext, PTL DEF Spec

-----------------------------------------------------------------------------
(* Symbols are read once.                                                  *)

\* A draw that finds the areas that were there, all of them asked before, reads
\* nothing.
LEMMA NothingRead ==
  ASSUME Typed, loaded, NEW samples, ChainDraw(samples),
         AreasAndFiles(map') = AreasAndFiles(map),
         \A i \in DOMAIN map.arr : Attr(map.arr[i].file).exec => ~map.arr[i].need
  PROVE  image' = image /\ libref' = libref
<1> DEFINE m == MapLoaded
           N == Len(m.arr)
<1>1. /\ m \in Maps /\ m.loaded = TRUE
      /\ \A i \in DOMAIN m.arr, j \in DOMAIN map.arr :
           /\ map.arr[j].start = m.arr[i].start
           /\ map.arr[j].end = m.arr[i].end
           => m.arr[i].need = map.arr[j].need
  BY MapLoadedIs DEF Typed
<1>2. map' = Asked(m) /\ image' = SymLoaded(m).image /\ libref' = SymLoaded(m).libref
  BY DEF ChainDraw
<1> HIDE DEF m
<1>3. /\ DOMAIN map'.arr = DOMAIN m.arr
      /\ \A i \in DOMAIN m.arr :
           /\ map'.arr[i].start = m.arr[i].start /\ map'.arr[i].end = m.arr[i].end
           /\ map'.arr[i].file = m.arr[i].file
  BY <1>1, <1>2, AskedKeeps
<1>4. /\ DOMAIN map.arr = DOMAIN m.arr
      /\ \A i \in DOMAIN m.arr :
           /\ map.arr[i].start = m.arr[i].start /\ map.arr[i].end = m.arr[i].end
           /\ map.arr[i].file = m.arr[i].file
  <2>1. DOMAIN AreasAndFiles(map) = DOMAIN map.arr
        /\ DOMAIN AreasAndFiles(map') = DOMAIN map'.arr
    BY DEF AreasAndFiles
  <2>2. DOMAIN map.arr = DOMAIN m.arr
    BY <1>3, <2>1
  <2>3. \A i \in DOMAIN m.arr :
          <<map'.arr[i].start, map'.arr[i].end, map'.arr[i].file>>
            = <<map.arr[i].start, map.arr[i].end, map.arr[i].file>>
    <3>1. \A i \in DOMAIN m.arr :
            AreasAndFiles(map)[i] = <<map.arr[i].start, map.arr[i].end, map.arr[i].file>>
      BY <2>2 DEF AreasAndFiles
    <3>2. \A i \in DOMAIN m.arr :
            AreasAndFiles(map')[i] = <<map'.arr[i].start, map'.arr[i].end, map'.arr[i].file>>
      BY <1>3 DEF AreasAndFiles
    <3>3. QED
      BY <3>1, <3>2
  <2>4. QED
    BY <1>3, <2>2, <2>3
<1>5. \A i \in DOMAIN m.arr : ~(m.arr[i].need /\ Attr(m.arr[i].file).exec)
  <2> SUFFICES ASSUME NEW i \in DOMAIN m.arr, Attr(m.arr[i].file).exec
               PROVE  ~m.arr[i].need
    OBVIOUS
  <2>1. i \in DOMAIN map.arr /\ Attr(map.arr[i].file).exec
    BY <1>4
  <2>2. m.arr[i].need = map.arr[i].need
    BY <1>1, <1>4, <2>1
  <2>3. QED
    BY <2>1, <2>2
<1>6. Read0 \in States
  BY DEF Typed, Read0, States
<1>7. PICK read \in [0 .. N -> States] :
        /\ read[0] = Read0 /\ SymLoaded(m) = read[N]
        /\ \A n \in 1 .. N : read[n] = Resolved(read[n - 1], m.arr[n])
  BY <1>1, <1>6, SymLoadedIs
<1>8. N \in Nat /\ DOMAIN m.arr = 1 .. N
  BY <1>1 DEF Maps, Apart
<1> HIDE DEF N
<1>9. \A n \in 1 .. N : read[n] = read[n - 1]
  BY <1>5, <1>7, <1>8 DEF Resolved
<1>10. \A n \in 0 .. N : read[n] = Read0
  <2> DEFINE same == {Read0}
  <2>1. read[0] \in same
    BY <1>7
  <2>2. \A n \in 1 .. N : read[n - 1] \in same => read[n] \in same
    BY <1>9
  <2> HIDE DEF same
  <2>3. \A n \in 0 .. N : read[n] \in same
    BY <1>8, <2>1, <2>2, StaysIn
  <2>4. QED
    BY <2>3 DEF same
<1>11. SymLoaded(m) = Read0
  BY <1>7, <1>8, <1>10
<1>12. QED
  BY <1>2, <1>11 DEF Read0

\* As long as the areas are the same and were asked for their symbols, these are
\* not read again: need_resolve is found in the old map for every entry of the
\* new one.
THEOREM SymbolsReadOnce == Spec => ReadOnce
<1> DEFINE Same == /\ loaded /\ loaded' /\ AreasAndFiles(map') = AreasAndFiles(map)
                   /\ \A i \in DOMAIN map.arr :
                        Attr(map.arr[i].file).exec => ~map.arr[i].need
<1>1. Typed /\ [Next]_vars => [Same => image' = image /\ libref' = libref]_vars
  <2> SUFFICES ASSUME Typed, Next, Same PROVE image' = image /\ libref' = libref
    OBVIOUS
  <2>1. ASSUME NEW s, NEW f, Mmap(s, f) PROVE image' = image /\ libref' = libref
    BY <2>1 DEF Mmap, Known
  <2>2. ASSUME NEW s, Cut(s) PROVE image' = image /\ libref' = libref
    BY <2>2 DEF Cut, Known
  <2>3. CASE Replace
    BY <2>3 DEF Replace, Known
  <2>4. CASE Retrack
    BY <2>4 DEF Retrack, Untracked
  <2>5. CASE Erase
    BY <2>5 DEF Erase, Known
  <2>6. ASSUME NEW recs, LatDraw(recs) PROVE image' = image /\ libref' = libref
    BY <2>6 DEF LatDraw
  <2>7. ASSUME NEW area, NEW nids, NEW recs, LatnodeDraw(area, nids, recs)
        PROVE  image' = image /\ libref' = libref
    BY <2>7 DEF LatnodeDraw, Known
  <2>8. ASSUME NEW samples, ChainDraw(samples) PROVE image' = image /\ libref' = libref
    BY <2>8, NothingRead
  <2>9. QED
    BY <2>1, <2>2, <2>3, <2>4, <2>5, <2>6, <2>7, <2>8 DEF Next, ProcessStep, DrawStep
<1>2. QED
  BY <1>1, TypedInit, TypedNext, PTL DEF Spec, ReadOnce

-----------------------------------------------------------------------------
(* Accesses are counted for the area they hit.                             *)

\* How many of the first n numbers are in T.
Num(T, n) == Cardinality(T \cap (1 .. n))

LEMMA NumStep ==
  ASSUME NEW T, NEW n \in Nat
  PROVE  /\ Num(T, n) \in Nat /\ Num(T, 0) = 0
         /\ Num(T, n + 1) = IF n + 1 \in T THEN Num(T, n) + 1 ELSE Num(T, n)
<1>1. IsFiniteSet(T \cap (1 .. n))
  <2>1. IsFiniteSet(1 .. n) /\ T \cap (1 .. n) \in SUBSET (1 .. n)
    BY FS_Interval
  <2>2. QED
    BY <2>1, FS_Subset
<1>2. Num(T, n) \in Nat
  BY <1>1, FS_CardinalityType DEF Num
<1>3. Num(T, 0) = 0
  <2>1. T \cap (1 .. 0) = {}
    OBVIOUS
  <2>2. QED
    BY <2>1, FS_EmptySet DEF Num
<1>4. CASE n + 1 \in T
  <2>1. T \cap (1 .. n + 1) = (T \cap (1 .. n)) \union {n + 1}
    BY <1>4
  <2>2. n + 1 \notin T \cap (1 .. n)
    OBVIOUS
  <2>3. QED
    BY <1>1, <1>2, <1>3, <1>4, <2>1, <2>2, FS_AddElement DEF Num
<1>5. CASE n + 1 \notin T
  <2>1. T \cap (1 .. n + 1) = T \cap (1 .. n)
    BY <1>5
  <2>2. QED
    BY <1>2, <1>3, <1>5, <2>1 DEF Num
<1>6. QED
  BY <1>4, <1>5

\* The records that bsearch finds in area i, and those it finds in any.
HitSet(arr, recs, i) == {k \in DOMAIN recs : AreaOf(arr, recs[k]) = i}
AnySet(arr, recs) == {k \in DOMAIN recs : AreaOf(arr, recs[k]) # 0}

\* What is counted after the first n records.
Filled(arr, recs, n) ==
  [naccess |-> [i \in DOMAIN arr |-> Num(HitSet(arr, recs, i), n)],
   samples |-> Num(AnySet(arr, recs), n)]

LEMMA FilledStep ==
  ASSUME NEW arr, Apart(arr), NEW recs \in Seq(Int), NEW n \in Nat, n + 1 \in DOMAIN recs
  PROVE  LET i == AreaOf(arr, recs[n + 1])
             s == Filled(arr, recs, n)
         IN Filled(arr, recs, n + 1) =
              IF i = 0 THEN s
              ELSE [naccess |-> [s.naccess EXCEPT ![i] = @ + 1],
                    samples |-> s.samples + 1]
<1> DEFINE a == AreaOf(arr, recs[n + 1])
           s == Filled(arr, recs, n)
<1>1. recs[n + 1] \in Int
  BY ElementOfSeq
<1>2. DOMAIN arr = 1 .. Len(arr) /\ Len(arr) \in Nat /\ a \in 0 .. Len(arr)
  BY <1>1, AreaOfHits DEF Apart
<1>3. \A i : n + 1 \in HitSet(arr, recs, i) <=> i = a
  BY DEF HitSet
<1>4. n + 1 \in AnySet(arr, recs) <=> a # 0
  BY DEF AnySet
<1> HIDE DEF a
<1>5. \A i : Num(HitSet(arr, recs, i), n + 1) =
              IF i = a THEN Num(HitSet(arr, recs, i), n) + 1 ELSE Num(HitSet(arr, recs, i), n)
  BY <1>3, NumStep
<1>6. Num(AnySet(arr, recs), n + 1) =
        IF a # 0 THEN Num(AnySet(arr, recs), n) + 1 ELSE Num(AnySet(arr, recs), n)
  BY <1>4, NumStep
<1>7. s.samples = Num(AnySet(arr, recs), n)
      /\ s.naccess = [i \in DOMAIN arr |-> Num(HitSet(arr, recs, i), n)]
      /\ s = [naccess |-> s.naccess, samples |-> s.samples]
  BY DEF Filled
<1>8. Filled(arr, recs, n + 1) =
        [naccess |-> [i \in DOMAIN arr |-> Num(HitSet(arr, recs, i), n + 1)],
         samples |-> Num(AnySet(arr, recs), n + 1)]
  BY DEF Filled
<1> HIDE DEF s
<1>9. CASE a = 0
  <2>1. \A i \in DOMAIN arr : i # a
    BY <1>2, <1>9
  <2>2. [i \in DOMAIN arr |-> Num(HitSet(arr, recs, i), n + 1)] = s.naccess
    BY <1>5, <1>7, <2>1
  <2>3. QED
    BY <1>6, <1>7, <1>8, <1>9, <2>2 DEF a, s
<1>10. CASE a # 0
  <2>1. a \in DOMAIN arr
    BY <1>2, <1>10
  <2>2. [i \in DOMAIN arr |-> Num(HitSet(arr, recs, i), n + 1)]
          = [s.naccess EXCEPT ![a] = @ + 1]
    BY <1>5, <1>7, <2>1
  <2>3. QED
    BY <1>6, <1>7, <1>8, <1>10, <2>2 DEF a, s
<1>11. QED
  BY <1>9, <1>10

LEMMA LatFillIs ==
  ASSUME NEW arr, Apart(arr), NEW recs \in Seq(Int)
  PROVE  LatFill(arr, recs) = Filled(arr, recs, Len(recs))
<1> DEFINE N == Len(recs)
           first == [naccess |-> [i \in DOMAIN arr |-> 0], samples |-> 0]
           next(s, n) == LET i == AreaOf(arr, recs[n]) IN
                         IF i = 0 THEN s
                         ELSE [naccess |-> [s.naccess EXCEPT ![i] = @ + 1],
                               samples |-> s.samples + 1]
           hit == CHOOSE f : f = [n \in 0 .. N |-> IF n = 0 THEN first ELSE next(f[n - 1], n)]
           sum(n) == Filled(arr, recs, n)
           same(n) == hit[n] = sum(n)
<1>1. N \in Nat /\ DOMAIN recs = 1 .. N
  OBVIOUS
<1>2. LatFill(arr, recs) = hit[N]
  BY DEF LatFill
<1>3. sum(0) = first
  BY NumStep DEF Filled
<1>4. \A n \in 1 .. N : sum(n) = next(sum(n - 1), n)
  <2> SUFFICES ASSUME NEW n \in 1 .. N PROVE sum(n) = next(sum(n - 1), n)
    OBVIOUS
  <2>1. n - 1 \in Nat /\ n - 1 + 1 = n /\ n \in DOMAIN recs
    BY <1>1
  <2>2. QED
    BY <2>1, FilledStep
<1> HIDE DEF N, first, next, sum
<1>5. [n \in 0 .. N |-> sum(n)]
        = [n \in 0 .. N |-> IF n = 0 THEN first ELSE next([k \in 0 .. N |-> sum(k)][n - 1], n)]
  <2>1. \A n \in 1 .. N : [k \in 0 .. N |-> sum(k)][n - 1] = sum(n - 1)
    BY <1>1
  <2>2. \A n \in 0 .. N : sum(n) = IF n = 0 THEN first ELSE next([k \in 0 .. N |-> sum(k)][n - 1], n)
    BY <1>1, <1>3, <1>4, <2>1
  <2>3. QED
    BY <2>2
<1>6. hit = [n \in 0 .. N |-> IF n = 0 THEN first ELSE next(hit[n - 1], n)]
  <2> DEFINE h == [n \in 0 .. N |-> sum(n)]
  <2>1. h = [n \in 0 .. N |-> IF n = 0 THEN first ELSE next(h[n - 1], n)]
    BY <1>5
  <2> HIDE DEF h
  <2>2. QED
    BY <2>1
<1> HIDE DEF hit
<1>7. hit[0] = first /\ \A n \in 1 .. N : hit[n] = next(hit[n - 1], n)
  BY <1>1, <1>6
<1>8. same(0) /\ \A n \in 1 .. N : same(n - 1) => same(n)
  BY <1>3, <1>4, <1>7
<1> DEFINE S == {n \in 0 .. N : same(n)}
<1> HIDE DEF same
<1>9. 0 \in S /\ \A n \in 1 .. N : n - 1 \in S => n \in S
  BY <1>1, <1>8
<1> HIDE DEF S
<1>10. \A n \in 0 .. N : n \in S
  BY <1>1, <1>9, Steps
<1>11. same(N)
  BY <1>1, <1>10 DEF S
<1>12. QED
  BY <1>2, <1>11 DEF same, sum, N

\* The lines of a window are the areas with the numbers of records that are in
\* them, the most accessed first.
LEMMA LatDataExact ==
  ASSUME NEW arr, Apart(arr), NEW recs \in Seq(Int)
  PROVE  HitsExact(LatData(arr, recs), arr, recs)
<1> DEFINE n == Len(arr)
           N == Len(recs)
           filled == LatFill(arr, recs)
           line(i) == [start |-> arr[i].start, end |-> arr[i].end,
                       naccess |-> filled.naccess[i]]
           made == [i \in DOMAIN arr |-> line(i)]
           keys == [i \in DOMAIN arr |-> -filled.naccess[i]]
           data == LatData(arr, recs)
           hits(a) == Cardinality({i \in DOMAIN recs : a.start <= recs[i] /\ recs[i] < a.end})
<1>1. n \in Nat /\ DOMAIN arr = 1 .. n /\ N \in Nat /\ DOMAIN recs = 1 .. N
  BY DEF Apart
<1>2. filled = Filled(arr, recs, N)
  BY LatFillIs
<1>3. \A i \in DOMAIN arr, k \in DOMAIN recs :
        Hits(arr[i], recs[k]) <=> (AreaOf(arr, recs[k]) = i)
  <2>1. \A k \in DOMAIN recs : recs[k] \in Int
    BY <1>1, ElementOfSeq
  <2>2. QED
    BY <2>1, AreaOfHits
<1>4. ASSUME NEW i \in 1 .. n PROVE filled.naccess[i] = hits(arr[i]) /\ filled.naccess[i] \in Nat
  <2>1. filled.naccess[i] = Num(HitSet(arr, recs, i), N)
    BY <1>1, <1>2 DEF Filled
  <2>2. HitSet(arr, recs, i) \cap (1 .. N)
          = {k \in DOMAIN recs : arr[i].start <= recs[k] /\ recs[k] < arr[i].end}
    BY <1>1, <1>3 DEF HitSet, Hits
  <2>3. Num(HitSet(arr, recs, i), N) \in Nat
    BY <1>1, NumStep
  <2>4. QED
    BY <2>1, <2>2, <2>3 DEF Num
<1>5. filled.samples = Cardinality({k \in DOMAIN recs : \E j \in DOMAIN arr :
        arr[j].start <= recs[k] /\ recs[k] < arr[j].end})
  <2>1. filled.samples = Num(AnySet(arr, recs), N)
    BY <1>2 DEF Filled
  <2>2. \A k \in DOMAIN recs :
          AreaOf(arr, recs[k]) # 0 <=> \E j \in DOMAIN arr : Hits(arr[j], recs[k])
    <3> SUFFICES ASSUME NEW k \in DOMAIN recs
                 PROVE  AreaOf(arr, recs[k]) # 0 <=> \E j \in DOMAIN arr : Hits(arr[j], recs[k])
      OBVIOUS
    <3>1. AreaOf(arr, recs[k]) \in 0 .. n
      BY AreaOfHits, ElementOfSeq
    <3>2. QED
      BY <1>1, <1>3, <3>1
  <2>3. AnySet(arr, recs) \cap (1 .. N)
          = {k \in DOMAIN recs : \E j \in DOMAIN arr :
               arr[j].start <= recs[k] /\ recs[k] < arr[j].end}
    BY <1>1, <2>2 DEF AnySet, Hits
  <2>4. QED
    BY <2>1, <2>3 DEF Num
<1>6. data = [samples |-> filled.samples, lines |-> Qsort(made, keys)]
  BY DEF LatData
<1>7. keys \in [1 .. n -> Int] /\ DOMAIN made = 1 .. n
  <2> HIDE DEF filled, hits, n
  <2>1. \A i \in 1 .. n : filled.naccess[i] \in Int
    BY <1>4
  <2>2. \A i \in 1 .. n : -filled.naccess[i] \in Int
    BY <2>1
  <2>3. QED
    BY <1>1, <2>2
<1>8. \A i \in 1 .. n : made[i] = line(i)
  BY <1>1
<1>9. \A i \in 1 .. n : /\ made[i].start = arr[i].start /\ made[i].end = arr[i].end
                        /\ made[i].naccess = hits(arr[i])
  BY <1>4, <1>8
<1> HIDE DEF made, keys, filled, hits, data, n
<1>10. Qsort(made, keys) = [k \in 1 .. n |-> made[Order(keys)[k]]]
  BY <1>1, <1>7, QsortSorts
<1>11. \A i \in 1 .. n : \E k \in 1 .. n : Order(keys)[k] = i
  BY <1>1, <1>7, OrderSorts
<1> DEFINE lines == Qsort(made, keys)
<1>12. DOMAIN lines = 1 .. n /\ Len(lines) = n
  <2>1. lines \in [1 .. n -> {lines[k] : k \in 1 .. n}]
    BY <1>10
  <2>2. QED
    BY <1>1, <2>1, LenOf
<1>13. ASSUME NEW i \in 1 .. n
       PROVE  \E j \in 1 .. n : /\ lines[j].start = arr[i].start /\ lines[j].end = arr[i].end
                                /\ lines[j].naccess = hits(arr[i])
  <2>1. PICK k \in 1 .. n : Order(keys)[k] = i
    BY <1>11
  <2>2. lines[k] = made[i]
    BY <1>10, <2>1
  <2>3. QED
    BY <1>9, <2>2
<1> HIDE DEF lines
<1>14. data.lines = lines /\ data.samples = filled.samples
  BY <1>6 DEF lines
<1>15. Len(data.lines) = Len(arr)
  BY <1>12, <1>14 DEF n
<1>16. \A i \in DOMAIN arr : \E j \in DOMAIN data.lines :
         /\ data.lines[j].start = arr[i].start /\ data.lines[j].end = arr[i].end
         /\ data.lines[j].naccess = hits(arr[i])
  <2>1. DOMAIN arr = 1 .. n /\ DOMAIN data.lines = 1 .. n
    BY <1>1, <1>12, <1>14
  <2>2. QED
    BY <1>13, <1>14, <2>1, Zenon
<1>17. data.samples = Cardinality({i \in DOMAIN recs : \E j \in DOMAIN arr :
          arr[j].start <= recs[i] /\ recs[i] < arr[j].end})
  BY <1>5, <1>14, Zenon
<1>18. HitsExact(data, arr, recs)
  BY <1>15, <1>16, <1>17, Zenon DEF HitsExact, hits
<1>19. QED
  BY <1>18, Zenon DEF data

-----------------------------------------------------------------------------
(* The nodes of the pages of an area.                                      *)

Parts == [start : Int, end : Int, nid : Int]

\* Where page k + 1 begins.
Pos(a, k) == a + k * PageSize

LEMMA PosFacts ==
  ASSUME NEW a \in Int
  PROVE  /\ \A k \in Nat : Pos(a, k) \in Int /\ Pos(a, k + 1) = Pos(a, k) + PageSize
         /\ Pos(a, 0) = a
         /\ \A k, l \in Nat : k < l => Pos(a, k) < Pos(a, l)
         /\ \A k, l \in Nat : Pos(Pos(a, k), l) = Pos(a, k + l)
<1>1. PageSize \in Nat \ {0}
  BY AddressMapAssumption
<1>2. \A k \in Nat : k * PageSize \in Nat /\ (k + 1) * PageSize = k * PageSize + PageSize
  BY <1>1
<1>3. \A k, l \in Nat : (k + l) * PageSize = k * PageSize + l * PageSize
  BY <1>1
<1>4. \A k \in Nat : Pos(a, k) \in Int /\ Pos(a, k + 1) = Pos(a, k) + PageSize
  BY <1>1, <1>2 DEF Pos
<1>5. Pos(a, 0) = a
  BY <1>1 DEF Pos
<1>6. ASSUME NEW k \in Nat, NEW l \in Nat, k < l PROVE Pos(a, k) < Pos(a, l)
  <2>1. PICK d \in Nat : l = k + 1 + d
    <3>1. l - k - 1 \in Nat /\ l = k + 1 + (l - k - 1)
      BY <1>6
    <3>2. QED
      BY <3>1
  <2>2. l * PageSize = k * PageSize + PageSize + d * PageSize /\ d * PageSize \in Nat
        /\ k * PageSize \in Nat /\ l * PageSize \in Nat
    BY <1>1, <1>2, <1>3, <2>1
  <2>3. QED
    BY <1>1, <2>2 DEF Pos
<1>7. ASSUME NEW k \in Nat, NEW l \in Nat PROVE Pos(Pos(a, k), l) = Pos(a, k + l)
  BY <1>2, <1>3 DEF Pos
<1>8. QED
  BY <1>4, <1>5, <1>6, <1>7

\* The first p pages from a on are laid out: the parts are those between the
\* cuts, one behind the other, each on the node of its pages, and neighbours on
\* different ones.
LaidBy(numa, a, nids, p, cut) ==
  /\ cut \in [0 .. Len(numa) -> 0 .. p]
  /\ cut[0] = 0 /\ cut[Len(numa)] = p
  /\ \A i \in 1 .. Len(numa) :
       /\ cut[i - 1] < cut[i]
       /\ numa[i].start = Pos(a, cut[i - 1]) /\ numa[i].end = Pos(a, cut[i])
       /\ \A k \in cut[i - 1] + 1 .. cut[i] : nids[k] = numa[i].nid
       /\ i > 1 => numa[i].nid # numa[i - 1].nid
Laid(numa, a, nids, p) == numa \in Seq(Parts) /\ \E cut : LaidBy(numa, a, nids, p, cut)

\* numa_entry_add lays out one page more.
LEMMA AddPageLays ==
  ASSUME NEW a \in Int, NEW nids \in Seq(Int), NEW p \in Nat, p + 1 \in 1 .. Len(nids),
         NEW numa, Laid(numa, a, nids, p), NEW fresh, fresh = (p = 0)
  PROVE  Laid(AddPage(numa, Pos(a, p), nids[p + 1], fresh), a, nids, p + 1)
<1> DEFINE n == Len(numa)
           nid == nids[p + 1]
           new == AddPage(numa, Pos(a, p), nid, fresh)
<1>1. numa \in Seq(Parts) /\ n \in Nat /\ DOMAIN numa = 1 .. n
      /\ \A i \in 1 .. n : numa[i] \in Parts
  BY ElementOfSeq DEF Laid
<1>2. PICK cut : LaidBy(numa, a, nids, p, cut)
  BY DEF Laid
<1>3. /\ cut \in [0 .. n -> 0 .. p] /\ cut[0] = 0 /\ cut[n] = p
      /\ \A i \in 1 .. n :
           /\ cut[i - 1] < cut[i]
           /\ numa[i].start = Pos(a, cut[i - 1]) /\ numa[i].end = Pos(a, cut[i])
           /\ \A k \in cut[i - 1] + 1 .. cut[i] : nids[k] = numa[i].nid
           /\ i > 1 => numa[i].nid # numa[i - 1].nid
  BY <1>2 DEF LaidBy
<1>4. nid \in Int /\ Pos(a, p) \in Int /\ Pos(a, p + 1) = Pos(a, p) + PageSize
      /\ Pos(a, p + 1) \in Int /\ PageSize \in Int
  BY PosFacts, ElementOfSeq, AddressMapAssumption
<1>5. fresh => n = 0
  <2> SUFFICES ASSUME p = 0, n # 0 PROVE FALSE
    BY <1>1
  <2>1. 1 \in 1 .. n /\ 0 \in 0 .. n /\ 1 \in 0 .. n
    BY <1>1
  <2>2. cut[0] < cut[1] /\ cut[0] \in 0 .. p /\ cut[1] \in 0 .. p
    BY <1>3, <2>1
  <2>3. QED
    BY <2>2
<1>6. ~fresh => n \in 1 .. n
  <2>1. p # 0 => n # 0
    BY <1>1, <1>3
  <2>2. n \in Nat
    BY <1>1
  <2> HIDE DEF n
  <2>3. p # 0 => n \in 1 .. n
    BY <2>1, <2>2
  <2>4. QED
    BY <2>3, Zenon
<1> HIDE DEF n, nid
<1>7. CASE ~fresh /\ numa[n].nid = nid
  <2> DEFINE c == [cut EXCEPT ![n] = p + 1]
  <2>1. n \in 1 .. n /\ numa[n].end = Pos(a, p)
    BY <1>3, <1>6, <1>7
  <2>2. new = [numa EXCEPT ![n].end = @ + PageSize]
    BY <1>7, <2>1 DEF AddPage, n
  <2> HIDE DEF new
  <2>3. /\ new \in Seq(Parts)
        /\ Len(new) = n
        /\ \A i \in 1 .. n : new[i].nid = numa[i].nid /\ new[i].start = numa[i].start
        /\ \A i \in 1 .. n : i # n => new[i].end = numa[i].end
        /\ new[n].end = Pos(a, p + 1)
    <3> DEFINE e == [numa[n] EXCEPT !.end = @ + PageSize]
    <3>1. numa[n] \in Parts
      BY <1>1, <2>1
    <3>2. /\ e \in Parts /\ e.end = Pos(a, p + 1)
          /\ e.nid = numa[n].nid /\ e.start = numa[n].start
      BY <1>4, <2>1, <3>1 DEF Parts
    <3>3. new = [numa EXCEPT ![n] = e]
      BY <2>2
    <3> HIDE DEF e
    <3>4. new \in Seq(Parts) /\ Len(new) = n
          /\ \A i \in 1 .. n : new[i] = IF i = n THEN e ELSE numa[i]
      BY <1>1, <2>1, <3>2, <3>3, ExceptSeq DEF n
    <3>5. \A i \in 1 .. n : i # n => new[i] = numa[i]
      BY <3>4
    <3>6. new[n] = e /\ n \in 1 .. n
      BY <2>1, <3>4
    <3>7. \A i \in 1 .. n : new[i].nid = numa[i].nid /\ new[i].start = numa[i].start
      BY <3>2, <3>5, <3>6
    <3>8. QED
      BY <3>2, <3>4, <3>5, <3>6, <3>7
  <2>4. c \in [0 .. n -> 0 .. p + 1] /\ c[n] = p + 1
        /\ \A i \in 0 .. n : i # n => c[i] = cut[i]
    BY <1>1, <1>3, <2>1
  <2>5. c[0] = 0
    BY <1>1, <1>3, <2>1, <2>4
  <2> HIDE DEF c
  <2>6. ASSUME NEW i \in 1 .. n
        PROVE  /\ c[i - 1] < c[i]
               /\ new[i].start = Pos(a, c[i - 1]) /\ new[i].end = Pos(a, c[i])
               /\ \A k \in c[i - 1] + 1 .. c[i] : nids[k] = new[i].nid
               /\ i > 1 => new[i].nid # new[i - 1].nid
    <3>1. i - 1 \in 0 .. n /\ i - 1 # n /\ i \in 0 .. n /\ c[i - 1] = cut[i - 1]
      BY <1>1, <2>4
    <3>2. cut[i - 1] \in 0 .. p /\ cut[i] \in 0 .. p
      BY <1>3, <3>1
    <3>3. i > 1 => i - 1 \in 1 .. n
      BY <1>1
    <3>4. i > 1 => new[i].nid # new[i - 1].nid
      BY <1>3, <2>3, <3>3
    <3>5. new[i].start = Pos(a, c[i - 1])
      BY <1>3, <2>3, <3>1
    <3>6. CASE i # n
      <4>1. c[i] = cut[i] /\ new[i].end = numa[i].end /\ new[i].nid = numa[i].nid
        BY <2>3, <2>4, <3>1, <3>6
      <4>2. /\ cut[i - 1] < cut[i] /\ numa[i].end = Pos(a, cut[i])
            /\ \A k \in cut[i - 1] + 1 .. cut[i] : nids[k] = numa[i].nid
        BY <1>3
      <4>3. QED
        BY <3>1, <3>4, <3>5, <4>1, <4>2
    <3>7. CASE i = n
      <4>1. c[i - 1] < c[i]
        BY <2>4, <3>1, <3>2, <3>7
      <4>2. new[i].end = Pos(a, c[i])
        BY <2>3, <2>4, <3>7
      <4>3. ASSUME NEW k \in c[i - 1] + 1 .. c[i] PROVE nids[k] = new[i].nid
        <5>1. k = p + 1 \/ k \in cut[i - 1] + 1 .. cut[i]
          BY <1>3, <2>4, <3>1, <3>2, <3>7
        <5>2. QED
          BY <1>3, <1>7, <2>3, <3>7, <5>1 DEF nid
      <4>4. QED
        BY <3>4, <3>5, <4>1, <4>2, <4>3
    <3>8. QED
      BY <3>6, <3>7
  <2>7. LaidBy(new, a, nids, p + 1, c)
    BY <2>3, <2>4, <2>5, <2>6 DEF LaidBy
  <2>8. QED
    BY <2>3, <2>7 DEF Laid, new, nid
<1>8. CASE fresh \/ numa[n].nid # nid
  <2> DEFINE e == [start |-> Pos(a, p), end |-> Pos(a, p) + PageSize, nid |-> nid]
             c == [x \in 0 .. n + 1 |-> IF x = n + 1 THEN p + 1 ELSE cut[x]]
  <2>1. new = Append(numa, e)
    BY <1>8 DEF AddPage, n
  <2>2. /\ e \in Parts /\ e.start = Pos(a, p) /\ e.end = Pos(a, p + 1) /\ e.nid = nid
    BY <1>4 DEF Parts
  <2> HIDE DEF new, e
  <2>3. new \in Seq(Parts) /\ Len(new) = n + 1
        /\ new[n + 1] = e /\ \A i \in 1 .. n : new[i] = numa[i]
    BY <1>1, <2>1, <2>2 DEF n
  <2>4. c \in [0 .. n + 1 -> 0 .. p + 1] /\ c[n + 1] = p + 1
        /\ \A i \in 0 .. n : c[i] = cut[i]
    BY <1>1, <1>3
  <2>5. c[0] = 0
    BY <1>1, <1>3, <2>4
  <2> HIDE DEF c
  <2>6. ASSUME NEW i \in 1 .. n + 1
        PROVE  /\ c[i - 1] < c[i]
               /\ new[i].start = Pos(a, c[i - 1]) /\ new[i].end = Pos(a, c[i])
               /\ \A k \in c[i - 1] + 1 .. c[i] : nids[k] = new[i].nid
               /\ i > 1 => new[i].nid # new[i - 1].nid
    <3>1. i - 1 \in 0 .. n /\ c[i - 1] = cut[i - 1] /\ cut[i - 1] \in 0 .. p
      <4>1. i - 1 \in 0 .. n
        BY <1>1
      <4>2. QED
        BY <1>3, <2>4, <4>1
    <3>2. CASE i # n + 1
      <4>1. i \in 1 .. n /\ c[i] = cut[i] /\ new[i] = numa[i]
        BY <1>1, <2>3, <2>4, <3>2
      <4>2. i > 1 => i - 1 \in 1 .. n /\ new[i - 1] = numa[i - 1]
        BY <1>1, <2>3, <4>1
      <4>3. QED
        BY <1>3, <3>1, <4>1, <4>2
    <3>3. CASE i = n + 1
      <4>1. i - 1 = n /\ c[i - 1] = p /\ c[i] = p + 1 /\ new[i] = e
        BY <1>1, <1>3, <2>3, <2>4, <3>1, <3>3
      <4>2. \A k \in c[i - 1] + 1 .. c[i] : nids[k] = new[i].nid
        BY <2>2, <4>1 DEF nid
      <4>3. ASSUME i > 1 PROVE new[i].nid # new[i - 1].nid
        <5>1. n \in 1 .. n /\ ~fresh
          BY <1>1, <1>5, <4>1, <4>3
        <5>2. new[n] = numa[n]
          BY <2>3, <5>1
        <5>3. QED
          BY <1>8, <2>2, <4>1, <5>1, <5>2
      <4>4. QED
        BY <2>2, <4>1, <4>2, <4>3
    <3>4. QED
      BY <3>2, <3>3
  <2>7. LaidBy(new, a, nids, p + 1, c)
    BY <2>3, <2>4, <2>5, <2>6 DEF LaidBy
  <2>8. QED
    BY <2>3, <2>7 DEF Laid, new, nid
<1>9. QED
  BY <1>7, <1>8

\* numa_map_update lays out a batch of pages behind those that are.
LEMMA NumaUpdateLays ==
  ASSUME NEW a \in Int, NEW nids \in Seq(Int), NEW p \in Nat,
         NEW batch, Len(batch) \in Nat, p + Len(batch) <= Len(nids),
         \A n \in 1 .. Len(batch) : batch[n] = nids[p + n],
         NEW numa, Laid(numa, a, nids, p), NEW fresh, fresh = (p = 0)
  PROVE  Laid(NumaUpdate(numa, Pos(a, p), batch, fresh), a, nids, p + Len(batch))
<1> DEFINE N == Len(batch)
           lay(s, n) == Laid(s, a, nids, p + n)
           next(s, n) == AddPage(s, Pos(a, p) + (n - 1) * PageSize, batch[n], fresh /\ n = 1)
           keep(s, n) == IF lay(s, n - 1) THEN next(s, n) ELSE s
           G == [n \in 1 .. N |-> [s \in Seq(Parts) |-> keep(s, n)]]
           add == CHOOSE f : f = [n \in 0 .. N |-> IF n = 0 THEN numa ELSE next(f[n - 1], n)]
<1>1. N \in Nat /\ N \in 0 .. N /\ Len(nids) \in Nat /\ p + N <= Len(nids)
  OBVIOUS
<1>2. NumaUpdate(numa, Pos(a, p), batch, fresh) = add[N]
  BY DEF NumaUpdate
<1>3. ASSUME NEW n \in 1 .. N, NEW s, lay(s, n - 1) PROVE lay(next(s, n), n)
  <2> DEFINE q == p + (n - 1)
  <2>1. q \in Nat /\ q + 1 = p + n /\ q + 1 \in 1 .. Len(nids) /\ n - 1 \in Nat
    BY <1>1
  <2>2. batch[n] = nids[q + 1]
    BY <2>1
  <2>3. Pos(a, p) + (n - 1) * PageSize = Pos(a, q)
    <3>1. Pos(Pos(a, p), n - 1) = Pos(a, q)
      BY <2>1, PosFacts
    <3>2. QED
      BY <3>1 DEF Pos
  <2>4. (fresh /\ n = 1) = (q = 0)
    <3>1. (p = 0 /\ n = 1) <=> (q = 0)
      BY <1>1
    <3> HIDE DEF q
    <3>2. QED
      BY <3>1, Zenon
  <2>5. Laid(s, a, nids, q)
    BY <1>3
  <2> HIDE DEF q
  <2>6. Laid(AddPage(s, Pos(a, q), nids[q + 1], fresh /\ n = 1), a, nids, q + 1)
    BY <2>1, <2>4, <2>5, AddPageLays
  <2>7. QED
    BY <2>1, <2>2, <2>3, <2>6
<1>4. \A s : \A n \in 0 .. N : lay(s, n) => s \in Seq(Parts)
  BY DEF Laid
<1>5. lay(numa, 0) /\ numa \in Seq(Parts)
  BY DEF Laid
<1> HIDE DEF lay, next, N
<1>6. \A n \in 1 .. N, s \in Seq(Parts) : keep(s, n) \in Seq(Parts)
  BY <1>1, <1>3, <1>4
<1>7. \A s : \A n \in 1 .. N : lay(s, n - 1) => keep(s, n) = next(s, n)
  OBVIOUS
<1> HIDE DEF keep
<1>8. G \in [1 .. N -> [Seq(Parts) -> Seq(Parts)]]
  BY <1>6
<1>9. \A n \in 1 .. N, s \in Seq(Parts) : G[n][s] = keep(s, n)
  OBVIOUS
<1> HIDE DEF G
<1>10. PICK f \in [0 .. N -> Seq(Parts)] : Follows(f, N, numa, G)
  BY <1>1, <1>5, <1>8, Recursion
<1>11. f[0] = numa /\ \A n \in 1 .. N : f[n] = keep(f[n - 1], n)
  <2>1. f[0] = numa /\ \A n \in 1 .. N : f[n] = G[n][f[n - 1]]
    BY <1>10 DEF Follows
  <2>2. ASSUME NEW n \in 1 .. N PROVE f[n - 1] \in Seq(Parts)
    <3>1. N \in Nat /\ n - 1 \in 0 .. N
      BY <1>1
    <3>2. QED
      BY <3>1
  <2>3. QED
    BY <1>9, <2>1, <2>2
<1>12. \A n \in 0 .. N : lay(f[n], n)
  <2> DEFINE S == {n \in 0 .. N : lay(f[n], n)}
  <2>1. 0 \in S
    BY <1>1, <1>5, <1>11
  <2>2. \A n \in 1 .. N : n - 1 \in S => n \in S
    BY <1>3, <1>7, <1>11
  <2> HIDE DEF S
  <2>3. \A n \in 0 .. N : n \in S
    BY <1>1, <2>1, <2>2, Steps
  <2>4. QED
    BY <2>3 DEF S
<1>13. \A n \in 0 .. N : f[n] = IF n = 0 THEN numa ELSE next(f[n - 1], n)
  <2>1. \A n \in 1 .. N : n - 1 \in 0 .. N
    BY <1>1
  <2>2. \A n \in 1 .. N : f[n] = next(f[n - 1], n)
    BY <1>7, <1>11, <1>12, <2>1
  <2>3. \A n \in 0 .. N : n # 0 => n \in 1 .. N
    BY <1>1
  <2>4. QED
    BY <1>11, <2>2, <2>3
<1>14. f = [n \in 0 .. N |-> IF n = 0 THEN numa ELSE next(f[n - 1], n)]
  BY <1>13
<1>15. add = [n \in 0 .. N |-> IF n = 0 THEN numa ELSE next(add[n - 1], n)]
  BY <1>14
<1> HIDE DEF add
<1>16. add[0] = numa /\ \A n \in 1 .. N : add[n] = next(add[n - 1], n)
  <2>1. 0 \in 0 .. N /\ \A n \in 1 .. N : n \in 0 .. N /\ n # 0
    BY <1>1
  <2>2. \A n \in 0 .. N : add[n] = IF n = 0 THEN numa ELSE next(add[n - 1], n)
    BY <1>15, Zenon
  <2>3. QED
    BY <2>1, <2>2, Zenon
<1> DEFINE T == {n \in 0 .. N : lay(add[n], n)}
<1>17. 0 \in T /\ \A n \in 1 .. N : n - 1 \in T => n \in T
  BY <1>1, <1>3, <1>5, <1>16
<1> HIDE DEF T
<1>18. \A n \in 0 .. N : n \in T
  BY <1>1, <1>17, Steps
<1>19. lay(add[N], N)
  BY <1>1, <1>18 DEF T
<1>20. QED
  BY <1>2, <1>19 DEF lay, N

-----------------------------------------------------------------------------
(* Batches of pages.                                                       *)

LEMMA DivMod ==
  ASSUME NEW x \in Int, NEW h \in Nat \ {0}
  PROVE  /\ x \div h \in Int /\ x % h \in Int
         /\ x = h * (x \div h) + (x % h)
         /\ 0 <= x % h /\ x % h < h
OBVIOUS

LEMMA Multiples ==
  ASSUME NEW h \in Nat
  PROVE  /\ \A k \in Nat : k * h \in Nat /\ (k + 1) * h = k * h + h
         /\ \A k, l \in Nat : k <= l => k * h <= l * h
<1>1. \A k \in Nat : k * h \in Nat /\ (k + 1) * h = k * h + h
  OBVIOUS
<1>2. ASSUME NEW k \in Nat, NEW l \in Nat, k <= l PROVE k * h <= l * h
  <2>1. PICK d \in Nat : l = k + d
    <3>1. l - k \in Nat /\ l = k + (l - k)
      BY <1>2
    <3>2. QED
      BY <3>1
  <2>2. (k + d) * h = k * h + d * h /\ d * h \in Nat /\ k * h \in Nat
    OBVIOUS
  <2>3. QED
    BY <2>1, <2>2
<1>3. QED
  BY <1>1, <1>2

\* Which multiple of h is just below x.
LEMMA DivIs ==
  ASSUME NEW x \in Nat, NEW h \in Nat \ {0}, NEW k \in Nat, k * h <= x, x < (k + 1) * h
  PROVE  x \div h = k
<1>1. PICK q \in Int : q = x \div h
  BY DivMod
<1>2. PICK r \in Int : r = x % h
  BY DivMod
<1>3. x = h * q + r /\ 0 <= r /\ r < h
  BY <1>1, <1>2, DivMod
<1>4. q >= 0
  <2> SUFFICES ASSUME q <= -1 PROVE FALSE
    OBVIOUS
  <2>1. h * q <= -h
    OBVIOUS
  <2>2. QED
    BY <1>3, <2>1
<1>5. q \in Nat /\ q * h = h * q /\ q * h \in Nat
  BY <1>4
<1>6. (k + 1) * h \in Nat /\ k * h \in Nat /\ (q + 1) * h = q * h + h
  BY <1>5
<1>7. ~(q + 1 <= k)
  <2>1. q + 1 <= k => (q + 1) * h <= k * h
    BY <1>5, Multiples
  <2>2. QED
    BY <1>3, <1>5, <1>6, <2>1
<1>8. ~(k + 1 <= q)
  <2>1. k + 1 <= q => (k + 1) * h <= q * h
    BY <1>5, Multiples
  <2>2. QED
    BY <1>3, <1>5, <1>6, <2>1
<1>9. QED
  BY <1>1, <1>5, <1>7, <1>8

\* How many pages the first b batches have.
Done(nids, b) == IF b = Batches(nids) THEN Len(nids) ELSE b * MovePages

\* Every batch but the last is full, and together they are all the pages.
LEMMA BatchFacts ==
  ASSUME NEW nids \in Seq(Int)
  PROVE  /\ Batches(nids) \in Nat /\ Done(nids, 0) = 0
         /\ \A b \in 1 .. Batches(nids) :
              LET p == (b - 1) * MovePages
                  batch == Batch(nids, b)
              IN /\ p \in Nat /\ Done(nids, b - 1) = p
                 /\ Done(nids, b) = p + Len(batch)
                 /\ Len(batch) \in Nat /\ p + Len(batch) <= Len(nids)
                 /\ \A n \in 1 .. Len(batch) : batch[n] = nids[p + n]
                 /\ (b = 1) = (p = 0)
<1> DEFINE L == Len(nids)
           B == Batches(nids)
<1>1. L \in Nat /\ MovePages \in Nat \ {0}
  BY AddressMapAssumption
<1>2. PICK r \in Int : L + MovePages - 1 = MovePages * B + r /\ 0 <= r /\ r < MovePages
                      /\ B \in Int
  <2>1. L + MovePages - 1 \in Int
    BY <1>1
  <2>2. QED
    BY <1>1, <2>1, DivMod DEF Batches
<1> HIDE DEF L, B
<1>3. B \in Nat
  <2> SUFFICES ASSUME B <= -1 PROVE FALSE
    BY <1>2
  <2>1. MovePages * B <= -MovePages
    BY <1>1, <1>2
  <2>2. QED
    BY <1>1, <1>2, <2>1
<1>4. /\ \A k \in Nat : k * MovePages \in Nat /\ (k + 1) * MovePages = k * MovePages + MovePages
      /\ \A k, l \in Nat : k <= l => k * MovePages <= l * MovePages
  BY <1>1, Multiples
<1>5. B * MovePages \in Nat /\ B * MovePages < L + MovePages /\ L <= B * MovePages
  <2>1. B * MovePages = MovePages * B /\ B * MovePages \in Nat
    BY <1>1, <1>3
  <2>2. QED
    BY <1>1, <1>2, <2>1
<1>6. Done(nids, 0) = 0
  <2>1. 0 * MovePages = 0
    BY <1>1
  <2>2. B = 0 => L = 0
    BY <1>1, <1>5, <2>1
  <2>3. QED
    BY <2>1, <2>2 DEF Done, B, L
<1>7. ASSUME NEW b \in 1 .. B
      PROVE  LET p == (b - 1) * MovePages
                 batch == Batch(nids, b)
             IN /\ p \in Nat /\ Done(nids, b - 1) = p
                /\ Done(nids, b) = p + Len(batch)
                /\ Len(batch) \in Nat /\ p + Len(batch) <= Len(nids)
                /\ \A n \in 1 .. Len(batch) : batch[n] = nids[p + n]
                /\ (b = 1) = (p = 0)
  <2> DEFINE p == (b - 1) * MovePages
             d == Done(nids, b)
             batch == Batch(nids, b)
  <2>1. b - 1 \in Nat /\ b - 1 + 1 = b /\ b \in Nat /\ b - 1 # B
    BY <1>3
  <2>2. p \in Nat /\ b * MovePages = p + MovePages
    BY <1>4, <2>1
  <2>3. Done(nids, b - 1) = p
    BY <2>1 DEF Done, B
  <2>4. p < L
    <3>1. b * MovePages <= B * MovePages
      BY <1>3, <1>4, <2>1
    <3>2. p + MovePages <= B * MovePages /\ B * MovePages \in Nat
      BY <1>5, <2>2, <3>1, Zenon
    <3>3. QED
      BY <1>1, <1>5, <2>2, <3>2
  <2>5. d = IF b = B THEN L ELSE p + MovePages
    BY <2>2 DEF Done, B, L
  <2>6. d \in Nat /\ p < d /\ d <= L
    <3>1. CASE b = B
      BY <1>1, <2>4, <2>5, <3>1
    <3>2. CASE b # B
      <4>1. b + 1 <= B /\ b + 1 \in Nat
        BY <1>3, <3>2
      <4>2. b * MovePages + MovePages <= B * MovePages
        <5>1. PICK c \in Nat : c = b + 1
          BY <4>1
        <5>2. c * MovePages <= B * MovePages
          BY <1>3, <1>4, <4>1, <5>1
        <5>3. c * MovePages = b * MovePages + MovePages
          BY <1>1, <2>1, <5>1
        <5>4. QED
          BY <5>2, <5>3
      <4>3. QED
        BY <1>1, <1>5, <2>2, <2>5, <3>2, <4>2
    <3>3. QED
      BY <3>1, <3>2
  <2>7. batch = SubSeq(nids, p + 1, d)
    BY DEF Batch, Done
  <2>8. (b = 1) = (p = 0)
    <3>1. b = 1 => p = 0
      BY <1>1
    <3>2. b # 1 => 1 * MovePages <= p
      BY <1>4, <2>1
    <3>3. QED
      BY <1>1, <2>2, <3>1, <3>2
  <2> HIDE DEF p, d, batch
  <2>9. Len(batch) = d - p /\ \A n \in 1 .. d - p : batch[n] = nids[p + n]
    <3>1. p + 1 \in 1 .. L + 1 /\ d \in p .. L
      BY <1>1, <2>2, <2>6
    <3>2. /\ Len(batch) = d - (p + 1) + 1
          /\ \A n \in 1 .. d - (p + 1) + 1 : batch[n] = nids[p + 1 + n - 1]
      BY <1>1, <2>2, <2>6, <2>7, <3>1, SubSeqProperties DEF L
    <3>3. d - (p + 1) + 1 = d - p
      BY <2>2, <2>6
    <3>4. ASSUME NEW n \in 1 .. d - p PROVE batch[n] = nids[p + n]
      <4>1. p + 1 + n - 1 = p + n
        BY <2>2
      <4>2. QED
        BY <3>2, <3>3, <4>1
    <3>5. QED
      BY <3>2, <3>3, <3>4
  <2>10. d = p + Len(batch) /\ d - p = Len(batch) /\ Len(batch) \in Nat
    BY <2>2, <2>6, <2>9
  <2>11. p + Len(batch) <= Len(nids)
    BY <2>6, <2>10 DEF L
  <2>12. \A n \in 1 .. Len(batch) : batch[n] = nids[p + n]
    BY <2>9, <2>10
  <2> SUFFICES /\ p \in Nat /\ Done(nids, b - 1) = p /\ d = p + Len(batch)
               /\ Len(batch) \in Nat /\ p + Len(batch) <= Len(nids)
               /\ \A n \in 1 .. Len(batch) : batch[n] = nids[p + n]
               /\ (b = 1) = (p = 0)
    BY Zenon DEF p, d, batch
  <2>13. QED
    BY <2>2, <2>3, <2>8, <2>10, <2>11, <2>12
<1>8. QED
  BY <1>3, <1>6, <1>7 DEF B

\* map_map2numa lays out all pages of an area.
LEMMA Map2NumaLays ==
  ASSUME NEW a \in Int, NEW nids \in Seq(Int)
  PROVE  Laid(Map2Numa(a, nids), a, nids, Len(nids))
<1> DEFINE B == Batches(nids)
           lay(s, b) == Laid(s, a, nids, Done(nids, b))
           next(s, b) == NumaUpdate(s, a + (b - 1) * MovePages * PageSize,
                                    Batch(nids, b), b = 1)
           keep(s, b) == IF lay(s, b - 1) THEN next(s, b) ELSE s
           G == [b \in 1 .. B |-> [s \in Seq(Parts) |-> keep(s, b)]]
           batch == CHOOSE f : f = [b \in 0 .. B |-> IF b = 0 THEN <<>> ELSE next(f[b - 1], b)]
<1>1. B \in Nat /\ B \in 0 .. B /\ Done(nids, 0) = 0
  BY BatchFacts
<1>2. Map2Numa(a, nids) = batch[B]
  BY DEF Map2Numa
<1>3. ASSUME NEW b \in 1 .. B, NEW s, lay(s, b - 1) PROVE lay(next(s, b), b)
  <2> DEFINE p == (b - 1) * MovePages
             bt == Batch(nids, b)
  <2>1. /\ p \in Nat /\ Done(nids, b - 1) = p
        /\ Done(nids, b) = p + Len(bt)
        /\ Len(bt) \in Nat /\ p + Len(bt) <= Len(nids)
        /\ \A n \in 1 .. Len(bt) : bt[n] = nids[p + n]
        /\ (b = 1) = (p = 0)
    BY BatchFacts
  <2>2. a + (b - 1) * MovePages * PageSize = Pos(a, p)
    BY DEF Pos
  <2>3. next(s, b) = NumaUpdate(s, Pos(a, p), bt, b = 1)
    BY <2>2
  <2>4. Laid(s, a, nids, p)
    BY <1>3, <2>1
  <2> HIDE DEF p, bt, next
  <2>5. Laid(NumaUpdate(s, Pos(a, p), bt, b = 1), a, nids, p + Len(bt))
    BY <2>1, <2>4, NumaUpdateLays
  <2>6. QED
    BY <2>1, <2>3, <2>5
<1>4. \A s : \A b \in 0 .. B : lay(s, b) => s \in Seq(Parts)
  BY DEF Laid
<1>5. lay(<<>>, 0) /\ <<>> \in Seq(Parts)
  <2> DEFINE c == [x \in 0 .. 0 |-> 0]
  <2>1. LaidBy(<<>>, a, nids, 0, c)
    BY DEF LaidBy
  <2>2. Laid(<<>>, a, nids, 0)
    BY <2>1 DEF Laid
  <2>3. QED
    BY <1>1, <2>2
<1> HIDE DEF lay, next, B
<1>6. \A b \in 1 .. B, s \in Seq(Parts) : keep(s, b) \in Seq(Parts)
  BY <1>1, <1>3, <1>4
<1>7. \A s : \A b \in 1 .. B : lay(s, b - 1) => keep(s, b) = next(s, b)
  OBVIOUS
<1> HIDE DEF keep
<1>8. G \in [1 .. B -> [Seq(Parts) -> Seq(Parts)]]
  BY <1>6
<1>9. \A b \in 1 .. B, s \in Seq(Parts) : G[b][s] = keep(s, b)
  OBVIOUS
<1> HIDE DEF G
<1>10. PICK f \in [0 .. B -> Seq(Parts)] : Follows(f, B, <<>>, G)
  BY <1>1, <1>5, <1>8, Recursion
<1>11. f[0] = <<>> /\ \A b \in 1 .. B : f[b] = keep(f[b - 1], b)
  <2>1. f[0] = <<>> /\ \A b \in 1 .. B : f[b] = G[b][f[b - 1]]
    BY <1>10 DEF Follows
  <2>2. ASSUME NEW b \in 1 .. B PROVE f[b - 1] \in Seq(Parts)
    <3>1. B \in Nat /\ b - 1 \in 0 .. B
      BY <1>1
    <3>2. QED
      BY <3>1
  <2>3. QED
    BY <1>9, <2>1, <2>2
<1>12. \A b \in 0 .. B : lay(f[b], b)
  <2> DEFINE S == {b \in 0 .. B : lay(f[b], b)}
  <2>1. 0 \in S
    BY <1>1, <1>5, <1>11
  <2>2. \A b \in 1 .. B : b - 1 \in S => b \in S
    BY <1>3, <1>7, <1>11
  <2> HIDE DEF S
  <2>3. \A b \in 0 .. B : b \in S
    BY <1>1, <2>1, <2>2, Steps
  <2>4. QED
    BY <2>3 DEF S
<1>13. \A b \in 0 .. B : f[b] = IF b = 0 THEN <<>> ELSE next(f[b - 1], b)
  <2>1. \A b \in 1 .. B : b - 1 \in 0 .. B
    BY <1>1
  <2>2. QED
    BY <1>1, <1>7, <1>11, <1>12, <2>1
<1>14. f = [b \in 0 .. B |-> IF b = 0 THEN <<>> ELSE next(f[b - 1], b)]
  BY <1>13
<1>15. batch = [b \in 0 .. B |-> IF b = 0 THEN <<>> ELSE next(batch[b - 1], b)]
  BY <1>14
<1> HIDE DEF batch
<1>16. batch[0] = <<>> /\ \A b \in 1 .. B : batch[b] = next(batch[b - 1], b)
  <2>1. 0 \in 0 .. B /\ \A b \in 1 .. B : b \in 0 .. B /\ b # 0
    BY <1>1
  <2>2. \A b \in 0 .. B : batch[b] = IF b = 0 THEN <<>> ELSE next(batch[b - 1], b)
    BY <1>15, Zenon
  <2>3. QED
    BY <2>1, <2>2, Zenon
<1> DEFINE T == {b \in 0 .. B : lay(batch[b], b)}
<1>17. 0 \in T /\ \A b \in 1 .. B : b - 1 \in T => b \in T
  BY <1>1, <1>3, <1>5, <1>16
<1> HIDE DEF T
<1>18. \A b \in 0 .. B : b \in T
  BY <1>1, <1>17, Steps
<1>19. lay(batch[B], B)
  BY <1>1, <1>18 DEF T
<1>20. Done(nids, B) = Len(nids)
  BY DEF Done, B
<1>21. QED
  BY <1>2, <1>19, <1>20 DEF lay, B

\* The multiples of h between which x is.
LEMMA DivWithin ==
  ASSUME NEW x \in Nat, NEW h \in Nat \ {0}, NEW lo \in Nat, NEW hi \in Nat,
         lo * h <= x, x < hi * h
  PROVE  x \div h \in lo .. hi - 1
<1>1. PICK q \in Int : q = x \div h
  BY DivMod
<1>2. PICK r \in Int : r = x % h
  BY DivMod
<1>3. x = h * q + r /\ 0 <= r /\ r < h
  BY <1>1, <1>2, DivMod
<1>4. q >= 0
  <2> SUFFICES ASSUME q <= -1 PROVE FALSE
    OBVIOUS
  <2>1. h * q <= -h
    OBVIOUS
  <2>2. QED
    BY <1>3, <2>1
<1>5. q \in Nat /\ q * h = h * q /\ q * h \in Nat
  BY <1>4
<1>6. PICK k \in Nat : k = q + 1
  BY <1>5
<1>7. k * h = q * h + h /\ lo * h \in Nat /\ hi * h \in Nat
  BY <1>5, <1>6
<1>8. k <= lo => k * h <= lo * h
  BY Multiples
<1>9. hi <= q => hi * h <= q * h
  BY <1>5, Multiples
<1>10. ~(k <= lo) /\ ~(hi <= q)
  BY <1>3, <1>5, <1>7, <1>8, <1>9
<1>11. QED
  BY <1>1, <1>5, <1>6, <1>10

\* What is laid out covers the pages, each part those of its node, and is
\* apart, as the search for accesses needs it.
LEMMA LaidCovers ==
  ASSUME NEW a \in Int, NEW nids \in Seq(Int), NEW L \in Nat \ {0},
         NEW numa, Laid(numa, a, nids, L)
  PROVE  /\ Apart(numa) /\ numa # <<>>
         /\ Head(numa).start = a /\ Last(numa).end = Pos(a, L)
         /\ \A i \in DOMAIN numa : \A x \in numa[i].start .. numa[i].end - 1 :
              nids[(x - a) \div PageSize + 1] = numa[i].nid
         /\ \A i \in 2 .. Len(numa) :
              numa[i].start = numa[i - 1].end /\ numa[i].nid # numa[i - 1].nid
<1> DEFINE n == Len(numa)
<1>1. /\ numa \in Seq(Parts) /\ n \in Nat /\ DOMAIN numa = 1 .. n
      /\ \A i \in 1 .. n : numa[i] \in Parts
  BY ElementOfSeq DEF Laid
<1>2. PICK cut : LaidBy(numa, a, nids, L, cut)
  BY DEF Laid
<1>3. /\ cut \in [0 .. n -> 0 .. L] /\ cut[0] = 0 /\ cut[n] = L
      /\ \A i \in 1 .. n :
           /\ cut[i - 1] < cut[i]
           /\ numa[i].start = Pos(a, cut[i - 1]) /\ numa[i].end = Pos(a, cut[i])
           /\ \A k \in cut[i - 1] + 1 .. cut[i] : nids[k] = numa[i].nid
           /\ i > 1 => numa[i].nid # numa[i - 1].nid
  BY <1>2 DEF LaidBy
<1>4. n # 0
  BY <1>3
<1>5. numa # <<>> /\ Head(numa) = numa[1] /\ Last(numa) = numa[n]
  BY <1>1, <1>4 DEF Last
<1> HIDE DEF n
<1>6. 1 \in 1 .. n /\ n \in 1 .. n
  BY <1>1, <1>4
<1>7. Head(numa).start = a /\ Last(numa).end = Pos(a, L)
  <2>1. numa[1].start = Pos(a, cut[0]) /\ numa[n].end = Pos(a, cut[n])
    BY <1>3, <1>6
  <2>2. QED
    BY <1>3, <1>5, <2>1, PosFacts
<1>8. ASSUME NEW i \in 1 .. n
      PROVE  /\ i - 1 \in 0 .. n /\ i \in 0 .. n
             /\ cut[i - 1] \in 0 .. L /\ cut[i] \in 0 .. L
             /\ cut[i - 1] \in Nat /\ cut[i] \in Nat
  <2>1. i - 1 \in 0 .. n /\ i \in 0 .. n
    BY <1>1
  <2>2. cut[i - 1] \in 0 .. L /\ cut[i] \in 0 .. L
    BY <1>3, <2>1
  <2>3. QED
    BY <2>1, <2>2
<1>9. ASSUME NEW i \in 1 .. n, NEW x \in numa[i].start .. numa[i].end - 1
      PROVE  nids[(x - a) \div PageSize + 1] = numa[i].nid
  <2>1. PICK lo \in Nat : lo = cut[i - 1]
    BY <1>8
  <2>2. PICK hi \in Nat : hi = cut[i]
    BY <1>8
  <2>3. x \in Int /\ Pos(a, lo) <= x /\ x < Pos(a, hi)
    <3>1. numa[i].start = Pos(a, lo) /\ numa[i].end = Pos(a, hi)
      BY <1>3, <2>1, <2>2
    <3>2. Pos(a, lo) \in Int /\ Pos(a, hi) \in Int
      BY PosFacts
    <3>3. QED
      BY <3>1, <3>2
  <2>4. PageSize \in Nat \ {0} /\ lo * PageSize \in Nat /\ hi * PageSize \in Nat
    BY AddressMapAssumption
  <2>5. x - a \in Nat /\ lo * PageSize <= x - a /\ x - a < hi * PageSize
    <3>1. Pos(a, lo) = a + lo * PageSize /\ Pos(a, hi) = a + hi * PageSize
      BY Zenon DEF Pos
    <3>2. QED
      BY <2>3, <2>4, <3>1
  <2>6. (x - a) \div PageSize \in lo .. hi - 1
    BY <2>4, <2>5, DivWithin
  <2>7. (x - a) \div PageSize + 1 \in cut[i - 1] + 1 .. cut[i]
    <3>1. PICK k : k = (x - a) \div PageSize
      OBVIOUS
    <3>2. k \in lo .. hi - 1
      BY <2>6, <3>1
    <3>3. k + 1 \in lo + 1 .. hi
      BY <3>2
    <3>4. QED
      BY <2>1, <2>2, <3>1, <3>3, Zenon
  <2>8. QED
    BY <1>3, <2>7
<1>10. ASSUME NEW i \in 2 .. n
       PROVE  numa[i].start = numa[i - 1].end /\ numa[i].nid # numa[i - 1].nid
  <2>1. i \in 1 .. n /\ i - 1 \in 1 .. n /\ i > 1
    BY <1>1
  <2>2. QED
    BY <1>3, <2>1
<1>11. \A j \in 0 .. n : \A i \in 0 .. j : cut[i] <= cut[j]
  <2> DEFINE up(j) == \A i \in 0 .. j : cut[i] <= cut[j]
             S == {j \in 0 .. n : up(j)}
  <2>1. up(0)
    BY <1>3
  <2>2. ASSUME NEW j \in 1 .. n, up(j - 1) PROVE up(j)
    <3> SUFFICES ASSUME NEW i \in 0 .. j PROVE cut[i] <= cut[j]
      OBVIOUS
    <3>1. cut[j - 1] < cut[j] /\ cut[j - 1] \in Nat /\ cut[j] \in Nat
      BY <1>3, <1>8
    <3>2. i = j \/ i \in 0 .. j - 1
      BY <1>1
    <3>3. i # j => cut[i] <= cut[j - 1]
      BY <2>2, <3>2
    <3>4. i \in 0 .. n
      BY <1>1
    <3>5. cut[i] \in 0 .. L
      BY <1>3, <3>4
    <3>6. QED
      BY <3>1, <3>3, <3>5
  <2>3. 0 \in S /\ \A j \in 1 .. n : j - 1 \in S => j \in S
    <3> HIDE DEF up
    <3>1. QED
      BY <1>1, <2>1, <2>2
  <2> HIDE DEF S
  <2>4. \A j \in 0 .. n : j \in S
    BY <1>1, <2>3, Steps
  <2>5. QED
    BY <2>4 DEF S
<1>12. \A k, l \in Nat : k < l => Pos(a, k) < Pos(a, l)
  BY PosFacts
<1>13. ASSUME NEW i \in 1 .. n, NEW j \in 1 .. n, i < j PROVE numa[i].end <= numa[j].start
  <2>1. numa[i].end = Pos(a, cut[i]) /\ numa[j].start = Pos(a, cut[j - 1])
    BY <1>3
  <2>2. j - 1 \in 0 .. n /\ i \in 0 .. j - 1
    BY <1>1, <1>13
  <2>3. cut[i] <= cut[j - 1] /\ cut[i] \in Nat /\ cut[j - 1] \in Nat
    BY <1>8, <1>11, <2>2
  <2>4. numa[i].end \in Int /\ numa[j].start \in Int
    BY <1>1 DEF Parts
  <2>5. CASE cut[i] = cut[j - 1]
    BY <2>1, <2>4, <2>5
  <2>6. CASE cut[i] # cut[j - 1]
    <3>1. cut[i] < cut[j - 1]
      BY <2>3, <2>6
    <3>2. Pos(a, cut[i]) < Pos(a, cut[j - 1])
      BY <1>12, <2>3, <3>1
    <3>3. QED
      BY <2>1, <2>4, <3>2
  <2>7. QED
    BY <2>5, <2>6
<1>14. \A i \in 1 .. n :
         numa[i].start \in Int /\ numa[i].end \in Int /\ numa[i].start < numa[i].end
  <2> SUFFICES ASSUME NEW i \in 1 .. n
               PROVE  numa[i].start \in Int /\ numa[i].end \in Int /\ numa[i].start < numa[i].end
    OBVIOUS
  <2>1. numa[i].start \in Int /\ numa[i].end \in Int
    BY <1>1 DEF Parts
  <2>2. Pos(a, cut[i - 1]) < Pos(a, cut[i])
    BY <1>3, <1>8, <1>12
  <2>3. QED
    BY <1>3, <2>1, <2>2
<1>15. Apart(numa)
  BY <1>1, <1>13, <1>14 DEF Apart, n
<1>16. QED
  BY <1>1, <1>5, <1>7, <1>9, <1>10, <1>15 DEF n

-----------------------------------------------------------------------------
(* What is drawn is exact.                                                 *)

\* An area that a LATENCY window may have shown is a number of pages.
LEMMA SlotAreaPages ==
  ASSUME NEW area \in SlotAreas
  PROVE  /\ area.start \in Int
         /\ \E k \in Nat \ {0} : /\ area.end = Pos(area.start, k)
                               /\ (area.end - area.start) \div PageSize = k
<1>1. PICK h \in Nat \ {0} : Half = h * PageSize
  BY SpanFacts
<1>2. PICK s \in Slots : \/ area = [start |-> s * Span, end |-> (s + 1) * Span]
                         \/ area = [start |-> s * Span, end |-> s * Span + Half]
  BY DEF SlotAreas, Half
<1>3. s \in Nat /\ Span \in Nat /\ PageSize \in Nat \ {0} /\ Half \in Nat
  BY SpanFacts, AddressMapAssumption DEF Slots
<1>4. s * Span \in Nat /\ (s + 1) * Span = s * Span + Span
  BY <1>3
<1>5. area.start = s * Span /\ area.start \in Nat
  BY <1>2, <1>4
<1>6. area.end = area.start + Half \/ area.end = area.start + Half + Half
  BY <1>2, <1>3, <1>4, SpanFacts
<1>7. PICK k \in Nat \ {0} : area.end = area.start + k * PageSize
  <2>1. CASE area.end = area.start + Half
    BY <1>1, <2>1
  <2>2. CASE area.end = area.start + Half + Half
    <3>1. (h + h) * PageSize = h * PageSize + h * PageSize
      BY <1>3
    <3>2. h + h \in Nat \ {0} /\ area.end = area.start + (h + h) * PageSize
      BY <1>1, <1>3, <1>5, <2>2, <3>1
    <3>3. QED
      BY <3>2
  <2>3. QED
    BY <1>6, <2>1, <2>2
<1>8. k * PageSize \in Nat /\ (k + 1) * PageSize = k * PageSize + PageSize
  BY <1>3
<1>9. (k * PageSize) \div PageSize = k
  BY <1>3, <1>8, DivIs
<1>10. area.end - area.start = k * PageSize
  BY <1>5, <1>7, <1>8
<1>11. QED
  BY <1>5, <1>7, <1>9, <1>10 DEF Pos

\* The data of a LATENCY and of a LATNODE window are counted from the records,
\* and the nodes of an area put together from its pages.
Exact == LatExact /\ NumaExact

LEMMA LatDrawExact ==
  ASSUME Typed, NEW recs \in Recs, LatDraw(recs)
  PROVE  Exact'
<1> DEFINE arr == MapLoaded.arr
<1>1. Apart(arr)
  BY MapLoadedIs DEF Typed, Maps
<1>2. recs \in Seq(Int)
  <2>1. recs \in Seq(0 .. AddrLimit - 1) /\ 0 .. AddrLimit - 1 \subseteq Int
    BY SymbolsAssumption
  <2>2. QED
    BY <2>1, SeqMonotonic
<1> HIDE DEF arr
<1>3. HitsExact(LatData(arr, recs), arr, recs)
  BY <1>1, <1>2, LatDataExact
<1>4. out' = [kind |-> "lat", recs |-> recs, arr |-> arr, data |-> LatData(arr, recs)]
  BY DEF LatDraw, arr
<1>5. out'.kind = "lat" /\ HitsExact(out'.data, out'.arr, out'.recs)
  BY <1>3, <1>4
<1>6. QED
  BY <1>5 DEF Exact, LatExact, NumaExact

LEMMA LatnodeDrawExact ==
  ASSUME NEW area \in SlotAreas, NEW nids \in Placements, NEW recs \in Recs,
         LatnodeDraw(area, nids, recs)
  PROVE  Exact'
<1> DEFINE L == Len(nids)
           a == area.start
           numa == Map2Numa(a, nids)
<1>1. recs \in Seq(Int)
  <2>1. recs \in Seq(0 .. AddrLimit - 1) /\ 0 .. AddrLimit - 1 \subseteq Int
    BY SymbolsAssumption
  <2>2. QED
    BY <2>1, SeqMonotonic
<1>2. nids \in Seq(Int)
  BY SymbolsAssumption
<1>3. a \in Int /\ L \in Nat \ {0} /\ area.end = Pos(a, L)
  BY SlotAreaPages DEF LatnodeDraw
<1>4. out' = [kind |-> "latnode", area |-> area, nids |-> nids,
              numa |-> numa, recs |-> recs, data |-> LatData(numa, recs)]
  BY DEF LatnodeDraw
<1> HIDE DEF numa
<1>5. Laid(numa, a, nids, L)
  BY <1>2, <1>3, Map2NumaLays DEF numa
<1> HIDE DEF a, L
<1>6. /\ Apart(numa) /\ numa # <<>>
      /\ Head(numa).start = a /\ Last(numa).end = Pos(a, L)
      /\ \A i \in DOMAIN numa : \A x \in numa[i].start .. numa[i].end - 1 :
           nids[(x - a) \div PageSize + 1] = numa[i].nid
      /\ \A i \in 2 .. Len(numa) :
           numa[i].start = numa[i - 1].end /\ numa[i].nid # numa[i - 1].nid
  BY <1>2, <1>3, <1>5, LaidCovers
<1>7. HitsExact(LatData(numa, recs), numa, recs)
  BY <1>1, <1>6, LatDataExact
<1>8. /\ out'.kind = "latnode" /\ out'.area = area /\ out'.nids = nids
      /\ out'.numa = numa /\ out'.recs = recs /\ out'.data = LatData(numa, recs)
  BY <1>4
<1>9. LatExact'
  BY <1>7, <1>8 DEF LatExact
<1>10. NumaExact'
  BY <1>3, <1>6, <1>8 DEF NumaExact, a
<1>11. QED
  BY <1>9, <1>10 DEF Exact

LEMMA ExactNext == Typed /\ Exact /\ [Next]_vars => Exact'
<1> SUFFICES ASSUME Typed, Exact, [Next]_vars PROVE Exact'
  OBVIOUS
<1>1. ASSUME UNCHANGED out PROVE Exact'
  BY <1>1 DEF Exact, LatExact, NumaExact
<1>2. ASSUME NEW s, NEW f, Mmap(s, f) PROVE Exact'
  BY <1>1, <1>2 DEF Mmap, Change
<1>3. ASSUME NEW s, Cut(s) PROVE Exact'
  BY <1>1, <1>3 DEF Cut, Change
<1>4. CASE Replace
  BY <1>1, <1>4 DEF Replace, Change
<1>5. CASE Retrack
  BY <1>1, <1>5 DEF Retrack, Change
<1>6. CASE Erase
  <2>1. out'.kind = "none"
    BY <1>6 DEF Erase, NoOut, None
  <2>2. QED
    BY <2>1 DEF Exact, LatExact, NumaExact
<1>7. ASSUME NEW recs \in Recs, LatDraw(recs) PROVE Exact'
  BY <1>7, LatDrawExact
<1>8. ASSUME NEW area \in SlotAreas, NEW nids \in Placements, NEW recs \in Recs,
             LatnodeDraw(area, nids, recs)
      PROVE  Exact'
  BY <1>8, LatnodeDrawExact
<1>9. ASSUME NEW samples, ChainDraw(samples) PROVE Exact'
  <2>1. out'.kind = "chains"
    BY <1>9 DEF ChainDraw
  <2>2. QED
    BY <2>1 DEF Exact, LatExact, NumaExact
<1>10. CASE UNCHANGED vars
  BY <1>1, <1>10 DEF vars
<1>11. QED
  BY <1>2, <1>3, <1>4, <1>5, <1>6, <1>7, <1>8, <1>9, <1>10
     DEF Next, ProcessStep, DrawStep

LEMMA ExactAlways == Spec => []Exact
<1>1. Init => Exact
  <2> SUFFICES ASSUME Init PROVE Exact
    OBVIOUS
  <2>1. out.kind = "none"
    BY DEF Init, NoOut, None
  <2>2. QED
    BY <2>1 DEF Exact, LatExact, NumaExact
<1>2. QED
  BY <1>1, TypedInit, TypedNext, ExactNext, PTL DEF Spec

\* Every access is counted for the area that it hits, and for no other: bsearch
\* finds it in every map that was loaded and in the nodes of every area.
THEOREM AccessesCounted == Spec => []LatExact
<1>1. Exact => LatExact
  BY DEF Exact
<1>2. QED
  BY <1>1, ExactAlways, PTL

\* The parts of an area on each node are all of it, whichever batch of pages
\* their beginnings and their ends were in, for every number of pages and of
\* pages in a batch.
THEOREM NodesOfArea == Spec => []NumaExact
<1>1. Exact => NumaExact
  BY DEF Exact
<1>2. QED
  BY <1>1, ExactAlways, PTL

-----------------------------------------------------------------------------
(* A recursion whose n-th value is in the n-th of some sets.               *)

\* G[n] leads from Good[n - 1] to Good[n].
Leads(N, G, Good) == \A n \in 1 .. N : \A s \in Good[n - 1] : G[n][s] \in Good[n]

LEMMA RecursionIn ==
  ASSUME NEW N \in Nat, NEW All, NEW Good \in [0 .. N -> SUBSET All],
         NEW a, a \in Good[0], NEW G \in [1 .. N -> [All -> All]], Leads(N, G, Good)
  PROVE  \E f \in [0 .. N -> All] :
           Follows(f, N, a, G) /\ \A n \in 0 .. N : f[n] \in Good[n]
<1> DEFINE keep(n, s) == IF s \in Good[n - 1] THEN G[n][s] ELSE s
           H == [n \in 1 .. N |-> [s \in All |-> keep(n, s)]]
<1>1. \A n \in 0 .. N : Good[n] \subseteq All
  OBVIOUS
<1>2. \A n \in 1 .. N : n \in 0 .. N /\ n - 1 \in 0 .. N
  OBVIOUS
<1>3. \A n \in 1 .. N, s \in All : keep(n, s) \in All
  BY <1>1, <1>2
<1>4. \A n \in 1 .. N : \A s \in Good[n - 1] : keep(n, s) = G[n][s]
  OBVIOUS
<1>5. \A n \in 1 .. N : \A s \in Good[n - 1] : G[n][s] \in Good[n]
  BY DEF Leads
<1> HIDE DEF keep
<1>6. H \in [1 .. N -> [All -> All]] /\ \A n \in 1 .. N, s \in All : H[n][s] = keep(n, s)
  BY <1>3
<1> HIDE DEF H
<1>7. a \in All
  BY <1>1
<1>8. PICK f \in [0 .. N -> All] : Follows(f, N, a, H)
  BY <1>6, <1>7, Recursion
<1>9. f[0] = a /\ \A n \in 1 .. N : f[n] = keep(n, f[n - 1])
  <2>1. \A n \in 1 .. N : f[n - 1] \in All
    BY <1>2
  <2>2. QED
    BY <1>6, <1>8, <2>1 DEF Follows
<1> DEFINE S == {n \in 0 .. N : f[n] \in Good[n]}
<1>10. 0 \in S /\ \A n \in 1 .. N : n - 1 \in S => n \in S
  <2>1. 0 \in S
    BY <1>9
  <2>2. ASSUME NEW n \in 1 .. N, f[n - 1] \in Good[n - 1] PROVE f[n] \in Good[n]
    BY <1>4, <1>5, <1>9, <2>2
  <2>3. QED
    BY <1>2, <2>1, <2>2
<1> HIDE DEF S
<1>11. \A n \in 0 .. N : n \in S
  BY <1>10, Steps
<1>12. \A n \in 0 .. N : f[n] \in Good[n]
  BY <1>11 DEF S
<1>13. \A n \in 1 .. N : f[n] = G[n][f[n - 1]]
  BY <1>2, <1>4, <1>9, <1>12
<1>14. QED
  BY <1>9, <1>12, <1>13 DEF Follows

-----------------------------------------------------------------------------
(* Lists of chains.                                                        *)

Callers == [addr : Nat, size : Nat \ {0}, name : Names \union {None}]
Heaps == Seq([entries : Seq(Callers), naccess : Nat, prev : Nat, next : Nat])

OnceEach(q) == \A i, j \in DOMAIN q : q[i] = q[j] => i = j

\* Following the links from c on gives q.
LEMMA LinksFollow ==
  ASSUME NEW H \in Nat, NEW q \in Seq(1 .. H), OnceEach(q),
         NEW link, Len(link) = H,
         NEW c, c = IF Len(q) = 0 THEN Null ELSE q[1],
         \A i \in 1 .. Len(q) : link[q[i]] = IF i = Len(q) THEN Null ELSE q[i + 1]
  PROVE  Links(c, link) = q
<1> DEFINE m == Len(q)
           next(p) == IF p = Null THEN Null ELSE link[p]
           at == CHOOSE f : f = [n \in 0 .. H |-> IF n = 0 THEN c ELSE next(f[n - 1])]
           h == [n \in 0 .. H |-> IF n < m THEN q[n + 1] ELSE Null]
<1>1. m \in Nat /\ DOMAIN q = 1 .. m /\ q \in [1 .. m -> 1 .. H]
      /\ \A i \in 1 .. m : q[i] \in 1 .. H
  OBVIOUS
<1>2. Links(c, link) =
        [k \in 1 .. Cardinality({n \in 0 .. H - 1 : at[n] # Null}) |-> at[k - 1]]
  BY DEF Links
<1>3. \A i \in 1 .. m : link[q[i]] = IF i = m THEN Null ELSE q[i + 1]
  OBVIOUS
<1>4. c = IF m = 0 THEN Null ELSE q[1]
  OBVIOUS
<1> HIDE DEF m
<1>5. m <= H
  <2>1. q \in Injection(1 .. m, 1 .. H)
    BY <1>1 DEF OnceEach, Injection, IsInjective
  <2>2. IsFiniteSet(1 .. H) /\ Cardinality(1 .. H) = H
    BY FS_Interval
  <2>3. Cardinality(1 .. m) = m
    BY <1>1, FS_Interval
  <2>4. QED
    BY <2>1, <2>2, <2>3, FS_Injection
<1>6. \A n \in 0 .. H : h[n] = IF n = 0 THEN c ELSE next(h[n - 1])
  <2> SUFFICES ASSUME NEW n \in 0 .. H PROVE h[n] = IF n = 0 THEN c ELSE next(h[n - 1])
    OBVIOUS
  <2>1. CASE n = 0
    BY <1>1, <1>4, <2>1
  <2>2. CASE n # 0 /\ n - 1 < m
    <3>1. n \in 1 .. m /\ n - 1 \in 0 .. H /\ n - 1 + 1 = n
      BY <1>1, <2>2
    <3>2. h[n - 1] = q[n]
      BY <2>2, <3>1
    <3>3. q[n] # Null
      BY <1>1, <3>1 DEF Null
    <3>4. h[n] = IF n = m THEN Null ELSE q[n + 1]
      BY <1>1, <3>1
    <3>5. QED
      BY <1>3, <2>2, <3>1, <3>2, <3>3, <3>4
  <2>3. CASE n # 0 /\ ~(n - 1 < m)
    <3>1. n - 1 \in 0 .. H /\ ~(n < m)
      BY <1>1, <2>3
    <3>2. h[n - 1] = Null /\ h[n] = Null
      BY <2>3, <3>1
    <3>3. QED
      BY <2>3, <3>2
  <2>4. QED
    BY <2>1, <2>2, <2>3
<1>7. h = [n \in 0 .. H |-> h[n]]
  OBVIOUS
<1> HIDE DEF h, next
<1>8. at = [n \in 0 .. H |-> IF n = 0 THEN c ELSE next(at[n - 1])]
  <2>1. h = [n \in 0 .. H |-> IF n = 0 THEN c ELSE next(h[n - 1])]
    BY <1>6, <1>7
  <2>2. QED
    BY <2>1
<1> HIDE DEF at
<1>9. \A n \in 0 .. H : at[n] = IF n = 0 THEN c ELSE next(at[n - 1])
  BY <1>8, Zenon
<1>10. \A n \in 0 .. H : at[n] = h[n]
  <2> DEFINE S == {n \in 0 .. H : at[n] = h[n]}
  <2>1. 0 \in S
    BY <1>6, <1>9
  <2>2. ASSUME NEW n \in 1 .. H, at[n - 1] = h[n - 1] PROVE at[n] = h[n]
    <3>1. n \in 0 .. H /\ n # 0
      OBVIOUS
    <3>2. QED
      BY <1>6, <1>9, <2>2, <3>1
  <2>3. \A n \in 1 .. H : n - 1 \in S => n \in S
    BY <2>2
  <2> HIDE DEF S
  <2>4. \A n \in 0 .. H : n \in S
    BY <2>1, <2>3, Steps
  <2>5. QED
    BY <2>4 DEF S
<1>11. {n \in 0 .. H - 1 : at[n] # Null} = 0 .. m - 1
  <2>1. ASSUME NEW n \in 0 .. H - 1 PROVE at[n] # Null <=> n < m
    <3>1. n \in 0 .. H
      OBVIOUS
    <3>2. at[n] = IF n < m THEN q[n + 1] ELSE Null
      BY <1>10, <3>1 DEF h
    <3>3. n < m => n + 1 \in 1 .. m /\ q[n + 1] # Null
      BY <1>1 DEF Null
    <3>4. QED
      BY <3>2, <3>3
  <2>2. QED
    BY <1>1, <1>5, <2>1
<1>12. Cardinality(0 .. m - 1) = m
  BY <1>1, FS_Interval
<1>13. Links(c, link) = [k \in 1 .. m |-> at[k - 1]]
  BY <1>2, <1>11, <1>12
<1>14. \A k \in 1 .. m : at[k - 1] = q[k]
  <2> SUFFICES ASSUME NEW k \in 1 .. m PROVE at[k - 1] = q[k]
    OBVIOUS
  <2>1. k - 1 \in 0 .. H /\ k - 1 < m /\ k - 1 + 1 = k
    BY <1>1, <1>5
  <2>2. QED
    BY <1>10, <2>1 DEF h
<1>15. QED
  BY <1>1, <1>13, <1>14

Lists == [head : Nat, tail : Nat, num : Nat]

\* The list is linked in the order q, in both directions.
Linked(heap, list, q) ==
  /\ q \in Seq(DOMAIN heap) /\ OnceEach(q)
  /\ list \in Lists /\ list.num = Len(q)
  /\ list.head = IF Len(q) = 0 THEN Null ELSE q[1]
  /\ list.tail = IF Len(q) = 0 THEN Null ELSE q[Len(q)]
  /\ \A i \in 1 .. Len(q) :
       /\ heap[q[i]].next = IF i = Len(q) THEN Null ELSE q[i + 1]
       /\ heap[q[i]].prev = IF i = 1 THEN Null ELSE q[i - 1]

LEMMA HeapFacts ==
  ASSUME NEW heap \in Heaps
  PROVE  /\ Len(heap) \in Nat /\ DOMAIN heap = 1 .. Len(heap)
         /\ \A x \in DOMAIN heap :
              /\ heap[x] \in [entries : Seq(Callers), naccess : Nat, prev : Nat, next : Nat]
              /\ heap[x].naccess \in Nat /\ heap[x].prev \in Nat /\ heap[x].next \in Nat
              /\ x \in Nat /\ x # Null
<1>1. Len(heap) \in Nat /\ DOMAIN heap = 1 .. Len(heap)
  BY DEF Heaps
<1>2. \A x \in DOMAIN heap :
        heap[x] \in [entries : Seq(Callers), naccess : Nat, prev : Nat, next : Nat]
  <2> SUFFICES ASSUME NEW x \in DOMAIN heap
               PROVE  heap[x] \in [entries : Seq(Callers), naccess : Nat, prev : Nat, next : Nat]
    OBVIOUS
  <2>1. x \in 1 .. Len(heap)
    BY <1>1
  <2>2. QED
    BY <2>1, ElementOfSeq DEF Heaps
<1>3. QED
  BY <1>1, <1>2 DEF Null

LEMMA LinkedFacts ==
  ASSUME NEW heap \in Heaps, NEW list, NEW q, Linked(heap, list, q)
  PROVE  /\ Len(q) \in Nat /\ DOMAIN q = 1 .. Len(q)
         /\ \A i \in 1 .. Len(q) : q[i] \in DOMAIN heap /\ q[i] \in Nat /\ q[i] # Null
         /\ \A i, j \in 1 .. Len(q) : q[i] = q[j] => i = j
         /\ list.num = Len(q)
         /\ list.head = IF Len(q) = 0 THEN Null ELSE q[1]
         /\ list.tail = IF Len(q) = 0 THEN Null ELSE q[Len(q)]
<1>1. Len(q) \in Nat /\ DOMAIN q = 1 .. Len(q) /\ \A i \in 1 .. Len(q) : q[i] \in DOMAIN heap
  BY ElementOfSeq DEF Linked
<1>2. QED
  BY <1>1, HeapFacts DEF Linked, OnceEach

\* What Chains reads, and the same from the tail back to the head.
LEMMA ChainsAre ==
  ASSUME NEW heap \in Heaps, NEW list, NEW q, Linked(heap, list, q)
  PROVE  Chains(heap, list) = q /\ Links(list.tail, Prevs(heap)) = Reverse(q)
<1> DEFINE H == Len(heap)
           m == Len(q)
           back == Reverse(q)
<1>1. H \in Nat /\ DOMAIN heap = 1 .. H
  BY HeapFacts
<1>2. /\ m \in Nat /\ DOMAIN q = 1 .. m /\ q \in Seq(1 .. H)
      /\ \A i \in 1 .. m : q[i] \in 1 .. H
      /\ \A i, j \in 1 .. m : q[i] = q[j] => i = j
      /\ list.head = IF m = 0 THEN Null ELSE q[1]
      /\ list.tail = IF m = 0 THEN Null ELSE q[m]
  <2>1. q \in Seq(1 .. H)
    BY <1>1 DEF Linked
  <2>2. QED
    BY <1>1, <2>1, LinkedFacts
<1>3. \A i \in 1 .. m : /\ heap[q[i]].next = IF i = m THEN Null ELSE q[i + 1]
                        /\ heap[q[i]].prev = IF i = 1 THEN Null ELSE q[i - 1]
  BY DEF Linked
<1>4. Len(Nexts(heap)) = H /\ Len(Prevs(heap)) = H
      /\ \A x \in 1 .. H : Nexts(heap)[x] = heap[x].next /\ Prevs(heap)[x] = heap[x].prev
  <2>1. /\ Nexts(heap) \in [1 .. H -> {heap[x].next : x \in 1 .. H}]
        /\ Prevs(heap) \in [1 .. H -> {heap[x].prev : x \in 1 .. H}]
    BY <1>1 DEF Nexts, Prevs
  <2>2. Len(Nexts(heap)) = H /\ Len(Prevs(heap)) = H
    <3> HIDE DEF H
    <3>1. QED
      BY <1>1, <2>1, LenOf
  <2>3. QED
    BY <1>1, <2>2 DEF Nexts, Prevs
<1> HIDE DEF H, m
<1>5. Chains(heap, list) = q
  <2>1. OnceEach(q)
    BY DEF Linked
  <2>2. \A i \in 1 .. Len(q) : Nexts(heap)[q[i]] = IF i = Len(q) THEN Null ELSE q[i + 1]
    BY <1>2, <1>3, <1>4 DEF m
  <2>3. list.head = IF Len(q) = 0 THEN Null ELSE q[1]
    BY <1>2 DEF m
  <2>4. QED
    BY <1>1, <1>2, <1>4, <2>1, <2>2, <2>3, LinksFollow DEF Chains
<1>6. /\ back \in Seq(1 .. H) /\ Len(back) = m /\ DOMAIN back = 1 .. m
      /\ \A i \in 1 .. m : m - i + 1 \in 1 .. m /\ back[i] = q[m - i + 1]
  <2>1. back = [i \in 1 .. m |-> q[m - i + 1]]
    BY DEF Reverse, m
  <2>2. \A i \in 1 .. m : m - i + 1 \in 1 .. m
    BY <1>2
  <2> HIDE DEF back
  <2>3. back \in [1 .. m -> 1 .. H]
    BY <1>2, <2>1, <2>2
  <2>4. back \in Seq(1 .. H) /\ Len(back) = m /\ DOMAIN back = 1 .. m
    BY <1>2, <2>3, LenOf
  <2>5. QED
    BY <2>1, <2>2, <2>4
<1> HIDE DEF back
<1>7. Links(list.tail, Prevs(heap)) = back
  <2>1. OnceEach(back)
    <3> SUFFICES ASSUME NEW i \in 1 .. m, NEW j \in 1 .. m, back[i] = back[j] PROVE i = j
      BY <1>6 DEF OnceEach
    <3>1. m - i + 1 = m - j + 1
      BY <1>2, <1>6
    <3>2. QED
      BY <1>2, <3>1
  <2>2. ASSUME NEW i \in 1 .. m
        PROVE  Prevs(heap)[back[i]] = IF i = m THEN Null ELSE back[i + 1]
    <3> DEFINE k == m - i + 1
    <3>1. k \in 1 .. m /\ back[i] = q[k] /\ (k = 1 <=> i = m)
      BY <1>2, <1>6
    <3>2. i # m => i + 1 \in 1 .. m /\ m - (i + 1) + 1 = k - 1
      BY <1>2
    <3>3. i # m => back[i + 1] = q[k - 1]
      BY <1>6, <3>2
    <3> HIDE DEF k
    <3>4. Prevs(heap)[q[k]] = IF k = 1 THEN Null ELSE q[k - 1]
      BY <1>2, <1>3, <1>4, <3>1
    <3>5. QED
      BY <3>1, <3>3, <3>4
  <2>3. list.tail = IF m = 0 THEN Null ELSE back[1]
    <3>1. m # 0 => 1 \in 1 .. m /\ m - 1 + 1 = m
      BY <1>2
    <3>2. m # 0 => back[1] = q[m]
      BY <1>6, <3>1
    <3>3. QED
      BY <1>2, <3>2
  <2>4. QED
    <3>1. list.tail = IF Len(back) = 0 THEN Null ELSE back[1]
      BY <1>6, <2>3
    <3>2. \A i \in 1 .. Len(back) :
            Prevs(heap)[back[i]] = IF i = Len(back) THEN Null ELSE back[i + 1]
      BY <1>6, <2>2
    <3>3. back \in Seq(1 .. H) /\ Len(Prevs(heap)) = H
      BY <1>4, <1>6
    <3>4. QED
      BY <1>1, <2>1, <3>1, <3>2, <3>3, LinksFollow
<1>8. QED
  BY <1>5, <1>7 DEF back

\* The heap h has the chains of the other, with their accesses, and only those
\* of S are linked anew.
Relinked(heap, h, S) ==
  /\ h \in Heaps /\ DOMAIN h = DOMAIN heap
  /\ \A x \in DOMAIN heap :
       /\ h[x].entries = heap[x].entries /\ h[x].naccess = heap[x].naccess
       /\ x \notin S => h[x] = heap[x]

\* Only one link has changed.
NextSet(heap, h, c, v) ==
  Relinked(heap, h, {c}) /\ h[c].next = v /\ h[c].prev = heap[c].prev
PrevSet(heap, h, c, v) ==
  Relinked(heap, h, {c}) /\ h[c].prev = v /\ h[c].next = heap[c].next

LEMMA SetNext ==
  ASSUME NEW heap \in Heaps, NEW c \in DOMAIN heap, NEW v \in Nat,
         NEW h, h = [heap EXCEPT ![c].next = v]
  PROVE  NextSet(heap, h, c, v)
<1> DEFINE Nodes == [entries : Seq(Callers), naccess : Nat, prev : Nat, next : Nat]
           e == [heap[c] EXCEPT !.next = v]
<1>1. heap[c] \in Nodes
  BY HeapFacts
<1>2. /\ e \in Nodes /\ e.entries = heap[c].entries /\ e.naccess = heap[c].naccess
      /\ e.prev = heap[c].prev /\ e.next = v
  BY <1>1
<1>3. h = [heap EXCEPT ![c] = e]
  OBVIOUS
<1> HIDE DEF e
<1>4. heap \in Seq(Nodes) /\ c \in 1 .. Len(heap)
  BY HeapFacts DEF Heaps
<1>5. h \in Seq(Nodes) /\ DOMAIN h = DOMAIN heap
  <2>1. DOMAIN h = DOMAIN heap
    BY <1>3
  <2>2. e \in Nodes
    BY <1>2
  <2> HIDE DEF Nodes
  <2>3. QED
    BY <1>3, <1>4, <2>1, <2>2, ExceptSeq
<1>6. h[c] = e /\ \A x \in DOMAIN heap : x # c => h[x] = heap[x]
  BY <1>3
<1>7. h \in Heaps
  BY <1>5 DEF Heaps
<1>8. QED
  BY <1>2, <1>5, <1>6, <1>7 DEF Relinked, NextSet

LEMMA SetPrev ==
  ASSUME NEW heap \in Heaps, NEW c \in DOMAIN heap, NEW v \in Nat,
         NEW h, h = [heap EXCEPT ![c].prev = v]
  PROVE  PrevSet(heap, h, c, v)
<1> DEFINE Nodes == [entries : Seq(Callers), naccess : Nat, prev : Nat, next : Nat]
           e == [heap[c] EXCEPT !.prev = v]
<1>1. heap[c] \in Nodes
  BY HeapFacts
<1>2. /\ e \in Nodes /\ e.entries = heap[c].entries /\ e.naccess = heap[c].naccess
      /\ e.next = heap[c].next /\ e.prev = v
  BY <1>1
<1>3. h = [heap EXCEPT ![c] = e]
  OBVIOUS
<1> HIDE DEF e
<1>4. heap \in Seq(Nodes) /\ c \in 1 .. Len(heap)
  BY HeapFacts DEF Heaps
<1>5. h \in Seq(Nodes) /\ DOMAIN h = DOMAIN heap
  <2>1. DOMAIN h = DOMAIN heap
    BY <1>3
  <2>2. e \in Nodes
    BY <1>2
  <2> HIDE DEF Nodes
  <2>3. QED
    BY <1>3, <1>4, <2>1, <2>2, ExceptSeq
<1>6. h[c] = e /\ \A x \in DOMAIN heap : x # c => h[x] = heap[x]
  BY <1>3
<1>7. h \in Heaps
  BY <1>5 DEF Heaps
<1>8. QED
  BY <1>2, <1>5, <1>6, <1>7 DEF Relinked, PrevSet

LEMMA RelinkedTwice ==
  ASSUME NEW heap, NEW h, NEW g, NEW S, NEW T, NEW U,
         Relinked(heap, h, S), Relinked(h, g, T), S \subseteq U, T \subseteq U
  PROVE  Relinked(heap, g, U)
BY DEF Relinked

\* The chains of a list.
Elements(q) == {q[i] : i \in 1 .. Len(q)}

\* A list stays as it is when the links of others change.
LEMMA LinkedStays ==
  ASSUME NEW heap \in Heaps, NEW h, NEW S, Relinked(heap, h, S),
         NEW list, NEW q, Linked(heap, list, q), \A i \in 1 .. Len(q) : q[i] \notin S
  PROVE  Linked(h, list, q)
<1>1. \A i \in 1 .. Len(q) : q[i] \in DOMAIN heap
  BY LinkedFacts
<1>2. DOMAIN h = DOMAIN heap /\ \A i \in 1 .. Len(q) : h[q[i]] = heap[q[i]]
  BY <1>1 DEF Relinked
<1>3. QED
  BY <1>2 DEF Linked

LEMMA AttachTailAppends ==
  ASSUME NEW heap \in Heaps, NEW list, NEW q, Linked(heap, list, q),
         NEW c \in DOMAIN heap, \A i \in 1 .. Len(q) : q[i] # c
  PROVE  LET a == AttachTail(heap, list, c) IN
         /\ Linked(a[1], a[2], Append(q, c))
         /\ Relinked(heap, a[1], {c} \union Elements(q))
<1> DEFINE m == Len(q)
           t == list.tail
           U == {c} \union Elements(q)
           w == Append(q, c)
           h1 == [heap EXCEPT ![c].next = Null]
           h2 == [h1 EXCEPT ![c].prev = t]
           h3 == IF t # Null THEN [h2 EXCEPT ![t].next = c] ELSE h2
           l == IF t # Null THEN [list EXCEPT !.tail = c, !.num = @ + 1]
                ELSE [list EXCEPT !.head = c, !.tail = c, !.num = @ + 1]
<1>1. /\ m \in Nat /\ DOMAIN q = 1 .. m
      /\ \A i \in 1 .. m : q[i] \in DOMAIN heap /\ q[i] \in Nat /\ q[i] # Null
      /\ \A i, j \in 1 .. m : q[i] = q[j] => i = j
      /\ list.num = m
      /\ list.head = IF m = 0 THEN Null ELSE q[1]
      /\ list.tail = IF m = 0 THEN Null ELSE q[m]
  BY LinkedFacts
<1>2. /\ q \in Seq(DOMAIN heap)
      /\ list \in Lists
      /\ \A i \in 1 .. m :
           /\ heap[q[i]].next = IF i = m THEN Null ELSE q[i + 1]
           /\ heap[q[i]].prev = IF i = 1 THEN Null ELSE q[i - 1]
  BY DEF Linked
<1>3. c \in Nat /\ c # Null /\ Null \in Nat
  BY HeapFacts DEF Null
<1>4. t = (IF m = 0 THEN Null ELSE q[m]) /\ t \in Nat
  <2>1. m # 0 => m \in 1 .. m
    BY <1>1
  <2>2. QED
    BY <1>1, <1>3, <2>1
<1>5. AttachTail(heap, list, c) = <<h3, l>>
  <2>1. [heap EXCEPT ![c].next = Null, ![c].prev = list.tail] = h2
    OBVIOUS
  <2>2. AttachTail(heap, list, c)
          = IF t # Null THEN <<[h2 EXCEPT ![t].next = c], [list EXCEPT !.tail = c, !.num = @ + 1]>>
            ELSE <<h2, [list EXCEPT !.head = c, !.tail = c, !.num = @ + 1]>>
    BY <2>1 DEF AttachTail
  <2> HIDE DEF t, h2
  <2>3. QED
    BY <2>2
<1>6. l \in Lists /\ l.tail = c /\ l.num = m + 1 /\ l.head = IF m = 0 THEN c ELSE q[1]
  <2>1. m # 0 => m \in 1 .. m
    BY <1>1
  <2>2. t # Null <=> m # 0
    BY <1>1, <2>1
  <2>3. c \in Nat /\ list.num \in Nat /\ list.num = m /\ list.num + 1 \in Nat
    BY <1>1, <1>3
  <2>4. list.head = IF m = 0 THEN Null ELSE q[1]
    BY <1>1
  <2> HIDE DEF t, m
  <2>5. QED
    BY <1>2, <2>2, <2>3, <2>4 DEF Lists
<1> HIDE DEF t, l, m, U
<1>7. Relinked(heap, h1, {c}) /\ h1[c].next = Null
  <2>1. NextSet(heap, h1, c, Null)
    <3>1. h1 = [heap EXCEPT ![c].next = Null]
      OBVIOUS
    <3> HIDE DEF h1
    <3>2. QED
      BY <1>3, <3>1, SetNext
  <2>2. QED
    BY <2>1 DEF NextSet
<1>8. h1 \in Heaps /\ c \in DOMAIN h1
  BY <1>7 DEF Relinked
<1> HIDE DEF h1
<1>9. Relinked(h1, h2, {c}) /\ h2[c].prev = t /\ h2[c].next = Null
  BY <1>4, <1>7, <1>8, SetPrev DEF PrevSet
<1> HIDE DEF h2
<1>10. Relinked(heap, h2, {c}) /\ h2 \in Heaps /\ DOMAIN h2 = DOMAIN heap
  BY <1>7, <1>9, RelinkedTwice DEF Relinked
<1>11. /\ Relinked(heap, h3, U)
       /\ h3[c].prev = t /\ h3[c].next = Null
       /\ \A i \in 1 .. m : /\ h3[q[i]].prev = heap[q[i]].prev
                            /\ h3[q[i]].next = IF i = m THEN c ELSE heap[q[i]].next
  <2>1. {c} \subseteq U /\ \A i \in 1 .. m : q[i] \in U /\ q[i] # c
    BY DEF U, Elements, m
  <2>2. \A i \in 1 .. m : h2[q[i]] = heap[q[i]]
    BY <1>1, <1>10, <2>1 DEF Relinked
  <2>3. CASE m = 0
    <3>1. h3 = h2
      BY <1>4, <2>3
    <3> HIDE DEF h3
    <3>2. Relinked(heap, h2, U)
      BY <1>10, <2>1 DEF Relinked
    <3>3. \A i \in 1 .. m : FALSE
      BY <2>3
    <3>4. QED
      BY <1>9, <3>1, <3>2, <3>3
  <2>4. CASE m # 0
    <3>1. m \in 1 .. m /\ t = q[m]
      BY <1>1, <1>4, <2>4
    <3>2. t \in DOMAIN h2 /\ t # c /\ {t} \subseteq U /\ t # Null
      BY <1>1, <1>10, <2>1, <3>1
    <3>3. h3 = [h2 EXCEPT ![t].next = c]
      BY <3>2
    <3> HIDE DEF h3
    <3>4. Relinked(h2, h3, {t}) /\ h3[t].next = c /\ h3[t].prev = h2[t].prev
      <4>1. h2 \in Heaps /\ t \in DOMAIN h2 /\ c \in Nat
        BY <1>3, <1>10, <3>2
      <4>2. NextSet(h2, h3, t, c)
        BY <3>3, <4>1, SetNext
      <4>3. QED
        BY <4>2 DEF NextSet
    <3>5. Relinked(heap, h3, U)
      BY <1>10, <2>1, <3>2, <3>4, RelinkedTwice
    <3>6. h3[c] = h2[c]
      BY <1>10, <3>2, <3>4 DEF Relinked
    <3>7. ASSUME NEW i \in 1 .. m, i # m PROVE h3[q[i]] = h2[q[i]]
      <4>1. q[i] # t /\ q[i] \in DOMAIN h2
        BY <1>1, <1>10, <3>1, <3>7
      <4>2. QED
        BY <3>4, <4>1 DEF Relinked
    <3>8. QED
      BY <1>9, <2>2, <3>1, <3>4, <3>5, <3>6, <3>7
  <2>5. QED
    BY <2>3, <2>4
<1>12. DOMAIN h3 = DOMAIN heap
  BY <1>11 DEF Relinked
<1> HIDE DEF h3
<1>13. /\ w \in Seq(DOMAIN h3) /\ Len(w) = m + 1 /\ w[m + 1] = c
       /\ \A i \in 1 .. m : w[i] = q[i]
  <2>1. q \in Seq(DOMAIN heap) /\ c \in DOMAIN heap
    BY <1>2
  <2>2. /\ w \in Seq(DOMAIN heap) /\ Len(w) = Len(q) + 1 /\ w[Len(q) + 1] = c
        /\ \A i \in 1 .. Len(q) : w[i] = q[i]
    BY <2>1, AppendProperties
  <2>3. QED
    BY <1>12, <2>2 DEF m
<1> HIDE DEF w
<1>14. OnceEach(w)
  <2> SUFFICES ASSUME NEW i \in 1 .. m + 1, NEW j \in 1 .. m + 1, w[i] = w[j] PROVE i = j
    <3>1. DOMAIN w = 1 .. m + 1
      BY <1>13
    <3>2. QED
      BY <3>1 DEF OnceEach
  <2>1. \A k \in 1 .. m : w[k] # c
    BY <1>13 DEF m
  <2>2. i \in 1 .. m \/ i = m + 1
    BY <1>1
  <2>3. j \in 1 .. m \/ j = m + 1
    BY <1>1
  <2>4. QED
    BY <1>1, <1>13, <2>1, <2>2, <2>3
<1>15. /\ l.head = IF Len(w) = 0 THEN Null ELSE w[1]
       /\ l.tail = IF Len(w) = 0 THEN Null ELSE w[Len(w)]
       /\ l.num = Len(w)
  <2>1. m # 0 => 1 \in 1 .. m
    BY <1>1
  <2>2. w[1] = IF m = 0 THEN c ELSE q[1]
    BY <1>1, <1>13, <2>1
  <2>3. m + 1 # 0
    BY <1>1
  <2>4. QED
    BY <1>13, <1>6, <2>2, <2>3
<1>16. ASSUME NEW i \in 1 .. m + 1
       PROVE  /\ h3[w[i]].next = IF i = m + 1 THEN Null ELSE w[i + 1]
              /\ h3[w[i]].prev = IF i = 1 THEN Null ELSE w[i - 1]
  <2>1. CASE i = m + 1
    <3>1. m # 0 => m \in 1 .. m /\ i # 1 /\ i - 1 = m
      BY <1>1, <2>1
    <3>2. m = 0 => i = 1
      BY <2>1
    <3>3. QED
      BY <1>4, <1>11, <1>13, <2>1, <3>1, <3>2
  <2>2. CASE i # m + 1
    <3>1. i \in 1 .. m
      BY <1>1, <2>2
    <3>2. i # m => i + 1 \in 1 .. m
      BY <1>1, <3>1
    <3>3. i # 1 => i - 1 \in 1 .. m
      BY <1>1, <3>1
    <3>4. h3[w[i]].next = w[i + 1]
      BY <1>2, <1>11, <1>13, <3>1, <3>2
    <3>5. QED
      BY <1>2, <1>11, <1>13, <2>2, <3>1, <3>3, <3>4
  <2>3. QED
    BY <2>1, <2>2
<1>17. Linked(h3, l, w)
  BY <1>13, <1>14, <1>15, <1>16, <1>6 DEF Linked
<1>18. QED
  BY <1>5, <1>11, <1>17 DEF w, U, Elements

\* A sequence without its k-th element.
Without(q, k) == [i \in 1 .. Len(q) - 1 |-> IF i < k THEN q[i] ELSE q[i + 1]]

LEMMA WithoutFacts ==
  ASSUME NEW A, NEW q \in Seq(A), OnceEach(q), NEW k \in 1 .. Len(q)
  PROVE  /\ Without(q, k) \in Seq(A) /\ Len(Without(q, k)) = Len(q) - 1
         /\ \A i \in 1 .. Len(q) - 1 :
              /\ Without(q, k)[i] = IF i < k THEN q[i] ELSE q[i + 1]
              /\ Without(q, k)[i] # q[k]
         /\ OnceEach(Without(q, k))
         /\ Elements(Without(q, k)) = Elements(q) \ {q[k]}
<1> DEFINE m == Len(q)
           w == Without(q, k)
           up(i) == IF i < k THEN i ELSE i + 1
           down(j) == IF j < k THEN j ELSE j - 1
<1>1. /\ m \in Nat /\ DOMAIN q = 1 .. m /\ m - 1 \in Nat
      /\ \A i \in 1 .. m : q[i] \in A
      /\ \A i, j \in 1 .. m : q[i] = q[j] => i = j
  BY ElementOfSeq DEF OnceEach
<1>2. /\ DOMAIN w = 1 .. m - 1
      /\ \A i \in 1 .. m - 1 : w[i] = IF i < k THEN q[i] ELSE q[i + 1]
  BY DEF Without
<1>3. \A i \in 1 .. m - 1 : up(i) \in 1 .. m /\ up(i) # k
  BY <1>1
<1>4. \A i, j \in 1 .. m - 1 : up(i) = up(j) => i = j
  OBVIOUS
<1>5. \A i \in 1 .. m - 1 : w[i] = q[up(i)]
  BY <1>2
<1>6. \A j \in 1 .. m : j # k => down(j) \in 1 .. m - 1 /\ up(down(j)) = j
  BY <1>1
<1>7. w = [i \in 1 .. m - 1 |-> w[i]]
  BY DEF Without
<1> HIDE DEF w, m, up, down
<1>8. \A i \in 1 .. m - 1 : w[i] \in A /\ w[i] # q[k]
  BY <1>1, <1>3, <1>5 DEF m
<1>9. w \in Seq(A) /\ Len(w) = m - 1
  <2>1. w \in [1 .. m - 1 -> A]
    BY <1>7, <1>8
  <2>2. QED
    BY <1>1, <2>1, LenOf
<1>10. OnceEach(w)
  BY <1>1, <1>2, <1>3, <1>4, <1>5 DEF OnceEach
<1>11. {w[i] : i \in 1 .. m - 1} = {q[i] : i \in 1 .. m} \ {q[k]}
  <2>1. \A i \in 1 .. m - 1 : w[i] \in {q[j] : j \in 1 .. m} \ {q[k]}
    BY <1>3, <1>5, <1>8
  <2>2. ASSUME NEW j \in 1 .. m, q[j] # q[k] PROVE \E i \in 1 .. m - 1 : w[i] = q[j]
    <3>1. down(j) \in 1 .. m - 1 /\ up(down(j)) = j
      BY <1>6, <2>2
    <3>2. QED
      BY <1>5, <3>1
  <2>3. QED
    BY <2>1, <2>2
<1>12. QED
  BY <1>2, <1>8, <1>9, <1>10, <1>11 DEF w, m, Elements

LEMMA DetachTakesOut ==
  ASSUME NEW heap \in Heaps, NEW list, NEW q, Linked(heap, list, q),
         NEW k \in 1 .. Len(q)
  PROVE  LET d == Detach(heap, list, q[k]) IN
         /\ Linked(d[1], d[2], Without(q, k))
         /\ Relinked(heap, d[1], Elements(q))
<1> DEFINE m == Len(q)
           c == q[k]
           p == heap[c].prev
           n == heap[c].next
           U == Elements(q)
           w == Without(q, k)
           h1 == IF p = Null THEN heap ELSE [heap EXCEPT ![p].next = n]
           h2 == IF n = Null THEN h1 ELSE [h1 EXCEPT ![n].prev = p]
           h3 == [h2 EXCEPT ![c].prev = Null]
           h4 == [h3 EXCEPT ![c].next = Null]
           l == [head |-> IF p = Null THEN n ELSE list.head,
                 tail |-> IF n = Null THEN p ELSE list.tail,
                 num |-> list.num - 1]
<1>1. /\ m \in Nat /\ DOMAIN q = 1 .. m
      /\ \A i \in 1 .. m : q[i] \in DOMAIN heap /\ q[i] \in Nat /\ q[i] # Null
      /\ \A i, j \in 1 .. m : q[i] = q[j] => i = j
      /\ list.num = m
      /\ list.head = IF m = 0 THEN Null ELSE q[1]
      /\ list.tail = IF m = 0 THEN Null ELSE q[m]
  BY LinkedFacts
<1>2. /\ q \in Seq(DOMAIN heap) /\ OnceEach(q) /\ list \in Lists
      /\ \A i \in 1 .. m :
           /\ heap[q[i]].next = IF i = m THEN Null ELSE q[i + 1]
           /\ heap[q[i]].prev = IF i = 1 THEN Null ELSE q[i - 1]
  BY DEF Linked
<1>3. Detach(heap, list, c) = <<h4, l>>
  <2>1. [h2 EXCEPT ![c].prev = Null, ![c].next = Null] = h4
    OBVIOUS
  <2>2. Detach(heap, list, c) = <<[h2 EXCEPT ![c].prev = Null, ![c].next = Null], l>>
    BY Zenon DEF Detach
  <2>3. QED
    BY <2>1, <2>2, Zenon
<1>4. /\ p = IF k = 1 THEN Null ELSE q[k - 1]
      /\ n = IF k = m THEN Null ELSE q[k + 1]
  BY <1>2
<1>5. k \in 1 .. m
  BY DEF m
<1> HIDE DEF m, c, p, n
<1>6. p = heap[c].prev /\ n = heap[c].next /\ c = q[k]
  BY DEF p, n, c
<1>7. k # 1 => k - 1 \in 1 .. m
  BY <1>1
<1>8. k # m => k + 1 \in 1 .. m
  BY <1>1
<1>9. /\ p \in Nat /\ n \in Nat /\ Null \in Nat /\ c \in DOMAIN heap /\ c \in U
      /\ p # Null => p \in DOMAIN heap /\ p \in U
      /\ n # Null => n \in DOMAIN heap /\ n \in U
  <2>1. c \in DOMAIN heap /\ c \in U
    BY <1>1, <1>5, <1>6 DEF U, Elements
  <2>2. k # 1 => q[k - 1] \in DOMAIN heap /\ q[k - 1] \in U /\ q[k - 1] \in Nat
    BY <1>1, <1>7 DEF U, Elements
  <2>3. k # m => q[k + 1] \in DOMAIN heap /\ q[k + 1] \in U /\ q[k + 1] \in Nat
    BY <1>1, <1>8 DEF U, Elements
  <2> HIDE DEF U, Elements
  <2>4. QED
    BY <1>4, <2>1, <2>2, <2>3 DEF Null
<1>10. l \in Lists /\ l.num = m - 1
      /\ l.head = (IF p = Null THEN n ELSE list.head) /\ l.tail = IF n = Null THEN p ELSE list.tail
  <2>1. list.num - 1 \in Nat /\ list.head \in Nat /\ list.tail \in Nat
    BY <1>1, <1>2 DEF Lists
  <2>2. QED
    BY <1>1, <1>9, <2>1 DEF Lists
<1> HIDE DEF l, U, p, n, m, c
<1>11. /\ Relinked(heap, h1, U)
      /\ \A x \in DOMAIN heap : /\ h1[x].next = IF x = p THEN n ELSE heap[x].next
                                /\ h1[x].prev = heap[x].prev
  <2>1. CASE p = Null
    <3>1. h1 = heap
      BY <2>1
    <3>2. \A x \in DOMAIN heap : x # p
      BY <2>1, HeapFacts
    <3>3. QED
      BY <3>1, <3>2 DEF Relinked
  <2>2. CASE p # Null
    <3>1. h1 = [heap EXCEPT ![p].next = n]
      BY <2>2
    <3> HIDE DEF h1
    <3>2. NextSet(heap, h1, p, n)
      BY <1>9, <2>2, <3>1, SetNext
    <3>3. QED
      BY <1>9, <2>2, <3>2 DEF NextSet, Relinked
  <2>3. QED
    BY <2>1, <2>2
<1>12. h1 \in Heaps /\ DOMAIN h1 = DOMAIN heap
  BY <1>11 DEF Relinked
<1> HIDE DEF h1
<1>13. /\ Relinked(h1, h2, U)
       /\ \A x \in DOMAIN heap : /\ h2[x].prev = IF x = n THEN p ELSE h1[x].prev
                                 /\ h2[x].next = h1[x].next
  <2>1. CASE n = Null
    <3>1. h2 = h1
      BY <2>1
    <3>2. \A x \in DOMAIN heap : x # n
      BY <2>1, HeapFacts
    <3>3. QED
      BY <1>12, <3>1, <3>2 DEF Relinked
  <2>2. CASE n # Null
    <3>1. h2 = [h1 EXCEPT ![n].prev = p]
      BY <2>2
    <3> HIDE DEF h2
    <3>2. PrevSet(h1, h2, n, p)
      BY <1>9, <1>12, <2>2, <3>1, SetPrev
    <3>3. QED
      BY <1>9, <1>12, <2>2, <3>2 DEF PrevSet, Relinked
  <2>3. QED
    BY <2>1, <2>2
<1>14. h2 \in Heaps /\ DOMAIN h2 = DOMAIN heap
  BY <1>12, <1>13 DEF Relinked
<1> HIDE DEF h2
<1>15. PrevSet(h2, h3, c, Null)
  <2>1. h3 = [h2 EXCEPT ![c].prev = Null]
    OBVIOUS
  <2> HIDE DEF h3
  <2>2. QED
    BY <1>9, <1>14, <2>1, SetPrev
<1>16. h3 \in Heaps /\ DOMAIN h3 = DOMAIN heap /\ Relinked(h2, h3, {c})
  BY <1>14, <1>15 DEF PrevSet, Relinked
<1> HIDE DEF h3
<1>17. NextSet(h3, h4, c, Null)
  <2>1. h4 = [h3 EXCEPT ![c].next = Null]
    OBVIOUS
  <2> HIDE DEF h4
  <2>2. QED
    BY <1>9, <1>16, <2>1, SetNext
<1>18. Relinked(h3, h4, {c}) /\ DOMAIN h4 = DOMAIN heap
  BY <1>16, <1>17 DEF NextSet, Relinked
<1> HIDE DEF h4
<1>19. Relinked(heap, h4, U)
  <2>1. {c} \subseteq U
    BY <1>9
  <2>2. Relinked(heap, h2, U)
    BY <1>11, <1>13, RelinkedTwice
  <2>3. Relinked(heap, h3, U)
    BY <1>16, <2>1, <2>2, RelinkedTwice
  <2>4. QED
    BY <1>18, <2>1, <2>3, RelinkedTwice
<1>20. ASSUME NEW x \in DOMAIN heap, x # c
       PROVE  /\ h4[x].next = IF x = p THEN n ELSE heap[x].next
              /\ h4[x].prev = IF x = n THEN p ELSE heap[x].prev
  <2>1. h4[x] = h3[x]
    BY <1>16, <1>18, <1>20 DEF Relinked
  <2>2. h3[x] = h2[x]
    BY <1>14, <1>16, <1>20 DEF Relinked
  <2>3. QED
    BY <1>11, <1>13, <2>1, <2>2
<1>21. /\ w \in Seq(DOMAIN heap) /\ Len(w) = m - 1 /\ OnceEach(w)
       /\ \A i \in 1 .. m - 1 : w[i] = (IF i < k THEN q[i] ELSE q[i + 1]) /\ w[i] # c
  BY <1>2, WithoutFacts DEF m, c
<1> HIDE DEF w
<1>22. ASSUME NEW i \in 1 .. m - 1
       PROVE  /\ h4[w[i]].next = IF i = m - 1 THEN Null ELSE w[i + 1]
              /\ h4[w[i]].prev = IF i = 1 THEN Null ELSE w[i - 1]
  <2>1. PICK j \in 1 .. m : j = IF i < k THEN i ELSE i + 1
    BY <1>1
  <2>2. w[i] = q[j] /\ q[j] # c /\ q[j] \in DOMAIN heap
    BY <1>1, <1>21, <2>1
  <2>3. q[j] = p <=> j = k - 1
    <3>1. k = 1 => p = Null /\ j # k - 1
      BY <1>4
    <3>2. k # 1 => (q[j] = q[k - 1] <=> j = k - 1)
      BY <1>1, <1>7
    <3>3. QED
      BY <1>1, <1>4, <3>1, <3>2
  <2>4. q[j] = n <=> j = k + 1
    <3>1. k = m => n = Null /\ j # k + 1
      BY <1>1, <1>4
    <3>2. k # m => (q[j] = q[k + 1] <=> j = k + 1)
      BY <1>1, <1>8
    <3>3. QED
      BY <1>1, <1>4, <3>1, <3>2
  <2>5. h4[q[j]].next = IF j = k - 1 THEN n ELSE IF j = m THEN Null ELSE q[j + 1]
    BY <1>2, <1>20, <2>2, <2>3
  <2>6. h4[q[j]].prev = IF j = k + 1 THEN p ELSE IF j = 1 THEN Null ELSE q[j - 1]
    BY <1>2, <1>20, <2>2, <2>4
  <2>7. h4[w[i]].next = IF i = m - 1 THEN Null ELSE w[i + 1]
    <3>1. i # m - 1 => w[i + 1] = IF i + 1 < k THEN q[i + 1] ELSE q[i + 2]
      <4>1. i # m - 1 => i + 1 \in 1 .. m - 1 /\ i + 1 + 1 = i + 2
        BY <1>1
      <4>2. QED
        BY <1>21, <4>1
    <3>2. CASE i < k - 1
      <4>1. j = i /\ j # k - 1 /\ j # m /\ i # m - 1 /\ i + 1 < k
        BY <1>1, <1>5, <2>1, <3>2
      <4>2. QED
        BY <2>2, <2>5, <3>1, <4>1
    <3>3. CASE i = k - 1
      <4>1. j = i /\ j = k - 1 /\ (i = m - 1 <=> k = m) /\ ~(i + 1 < k) /\ i + 2 = k + 1
        BY <1>1, <1>5, <2>1, <3>3
      <4>2. QED
        BY <1>4, <2>2, <2>5, <3>1, <4>1
    <3>4. CASE i > k - 1
      <4>1. j = i + 1 /\ j # k - 1 /\ (i = m - 1 <=> j = m) /\ ~(i + 1 < k) /\ i + 2 = j + 1
        BY <1>1, <1>5, <2>1, <3>4
      <4>2. QED
        BY <2>2, <2>5, <3>1, <4>1
    <3>5. QED
      BY <3>2, <3>3, <3>4
  <2>8. h4[w[i]].prev = IF i = 1 THEN Null ELSE w[i - 1]
    <3>1. i # 1 => w[i - 1] = IF i - 1 < k THEN q[i - 1] ELSE q[i]
      <4>1. i # 1 => i - 1 \in 1 .. m - 1 /\ i - 1 + 1 = i
        BY <1>1
      <4>2. QED
        BY <1>21, <4>1
    <3>2. CASE i < k
      <4>1. j = i /\ j # k + 1 /\ i - 1 < k
        BY <2>1, <3>2
      <4>2. QED
        BY <2>2, <2>6, <3>1, <4>1
    <3>3. CASE i = k
      <4>1. j = k + 1 /\ i - 1 < k
        BY <2>1, <3>3
      <4>2. QED
        BY <1>4, <2>2, <2>6, <3>1, <3>3, <4>1
    <3>4. CASE i > k
      <4>1. j = i + 1 /\ j # k + 1 /\ j # 1 /\ i # 1 /\ ~(i - 1 < k) /\ j - 1 = i
        BY <2>1, <3>4
      <4>2. QED
        BY <2>2, <2>6, <3>1, <4>1
    <3>5. QED
      BY <3>2, <3>3, <3>4
  <2>9. QED
    BY <2>7, <2>8
<1>23. /\ l.head = IF m - 1 = 0 THEN Null ELSE w[1]
       /\ l.tail = IF m - 1 = 0 THEN Null ELSE w[m - 1]
  <2>1. m # 1 => 1 \in 1 .. m - 1 /\ m - 1 \in 1 .. m - 1 /\ 1 + 1 = 2 /\ m - 1 + 1 = m
    BY <1>1, <1>5
  <2>2. m # 1 => /\ w[1] = IF 1 < k THEN q[1] ELSE q[2]
                 /\ w[m - 1] = IF m - 1 < k THEN q[m - 1] ELSE q[m]
    BY <1>21, <2>1
  <2>3. CASE m = 1
    <3>1. k = 1 /\ k = m /\ p = Null /\ n = Null
      BY <1>4, <1>5, <2>3
    <3>2. QED
      BY <1>10, <2>3, <3>1
  <2>4. CASE m # 1
    <3>1. p = Null <=> k = 1
      BY <1>1, <1>4, <1>7
    <3>2. n = Null <=> k = m
      BY <1>1, <1>4, <1>8
    <3>3. l.head = w[1]
      <4>1. k = 1 => n = q[2]
        BY <1>4, <2>4
      <4>2. k # 1 => 1 < k /\ list.head = q[1]
        BY <1>1, <1>5
      <4>3. QED
        BY <1>10, <2>2, <2>4, <3>1, <4>1, <4>2
    <3>4. l.tail = w[m - 1]
      <4>1. k = m => p = q[m - 1] /\ m - 1 < k
        BY <1>1, <1>4, <2>4
      <4>2. k # m => ~(m - 1 < k) /\ list.tail = q[m]
        BY <1>1, <1>5
      <4>3. QED
        BY <1>10, <2>2, <2>4, <3>2, <4>1, <4>2
    <3>5. QED
      BY <1>1, <2>4, <3>3, <3>4
  <2>5. QED
    BY <2>3, <2>4
<1>24. Linked(h4, l, w)
  BY <1>10, <1>18, <1>21, <1>22, <1>23 DEF Linked
<1>25. QED
  BY <1>3, <1>19, <1>24 DEF U, Elements, w, c, m

-----------------------------------------------------------------------------
(* Sorting a list of chains.                                               *)

LEMMA FirstLargest ==
  ASSUME NEW m \in Nat \ {0}, NEW v \in [1 .. m -> Int]
  PROVE  \E i \in 1 .. m : \A j \in 1 .. m : v[j] <= v[i] /\ (j < i => v[j] < v[i])
<1> DEFINE best(n, i) == \A j \in 1 .. n : v[j] <= v[i] /\ (j < i => v[j] < v[i])
           S == {n \in 0 .. m : n = 0 \/ \E i \in 1 .. n : best(n, i)}
<1>1. 0 \in S
  OBVIOUS
<1>2. ASSUME NEW n \in 1 .. m, n - 1 \in S PROVE n \in S
  <2>1. CASE n = 1
    <3>1. best(1, 1)
      BY <2>1
    <3>2. QED
      BY <2>1, <3>1
  <2>2. CASE n # 1
    <3>1. PICK i \in 1 .. n - 1 : best(n - 1, i)
      BY <1>2, <2>2
    <3>2. CASE v[n] <= v[i]
      <4>1. best(n, i)
        BY <3>1, <3>2
      <4>2. QED
        BY <4>1
    <3>3. CASE v[n] > v[i]
      <4>1. best(n, n)
        BY <3>1, <3>3
      <4>2. QED
        BY <4>1
    <3>4. QED
      BY <3>2, <3>3
  <2>3. QED
    BY <2>1, <2>2
<1> HIDE DEF S
<1>3. \A n \in 0 .. m : n \in S
  BY <1>1, <1>2, Steps
<1>4. m \in S
  BY <1>3
<1>5. QED
  BY <1>4 DEF S

LEMMA MaxAccessIs ==
  ASSUME NEW heap \in Heaps, NEW list, NEW q, Linked(heap, list, q), Len(q) # 0
  PROVE  \E k \in 1 .. Len(q) :
           /\ MaxAccess(heap, list) = q[k]
           /\ \A j \in 1 .. Len(q) : heap[q[j]].naccess <= heap[q[k]].naccess
<1> DEFINE m == Len(q)
           v == [i \in 1 .. m |-> heap[q[i]].naccess]
           best(i) == \A j \in 1 .. m : v[j] <= v[i] /\ (j < i => v[j] < v[i])
<1>1. m \in Nat \ {0} /\ DOMAIN q = 1 .. m /\ \A i \in 1 .. m : q[i] \in DOMAIN heap
  BY LinkedFacts
<1>2. v \in [1 .. m -> Int]
  BY <1>1, HeapFacts
<1>3. \E i \in 1 .. m : best(i)
  <2> HIDE DEF v, m
  <2>1. QED
    BY <1>1, <1>2, FirstLargest
<1>4. PICK k \in 1 .. m : k = (CHOOSE i \in 1 .. m : best(i)) /\ best(k)
  <2> HIDE DEF best
  <2>1. QED
    BY <1>3
<1>5. MaxAccess(heap, list)
        = q[CHOOSE i \in DOMAIN q : \A j \in DOMAIN q :
              /\ heap[q[j]].naccess <= heap[q[i]].naccess
              /\ j < i => heap[q[j]].naccess < heap[q[i]].naccess]
  BY ChainsAre, Zenon DEF MaxAccess
<1>6. (CHOOSE i \in 1 .. m : best(i))
        = CHOOSE i \in DOMAIN q : \A j \in DOMAIN q :
              /\ heap[q[j]].naccess <= heap[q[i]].naccess
              /\ j < i => heap[q[j]].naccess < heap[q[i]].naccess
  <2>1. \A i \in 1 .. m : v[i] = heap[q[i]].naccess
    OBVIOUS
  <2>2. \A i \in 1 .. m : best(i) <=> \A j \in 1 .. m :
              /\ heap[q[j]].naccess <= heap[q[i]].naccess
              /\ j < i => heap[q[j]].naccess < heap[q[i]].naccess
    <3> HIDE DEF v, m
    <3>1. QED
      BY <2>1
  <2> HIDE DEF best, m
  <2>3. QED
    BY <1>1, <2>2
<1>7. MaxAccess(heap, list) = q[k]
  BY <1>4, <1>5, <1>6, Zenon
<1>8. QED
  BY <1>4, <1>7

\* The chains of q are in two lists: those left, a, and those moved, b, which
\* are in the order of their accesses and have no fewer than those left.
Halves(heap, q, h, l, t, a, b) ==
  /\ Relinked(heap, h, Elements(q))
  /\ Linked(h, l, a) /\ Linked(h, t, b)
  /\ Elements(a) \union Elements(b) = Elements(q)
  /\ \A i \in 1 .. Len(a), j \in 1 .. Len(b) :
       a[i] # b[j] /\ heap[b[j]].naccess >= heap[a[i]].naccess
  /\ \A i, j \in 1 .. Len(b) : i < j => heap[b[i]].naccess >= heap[b[j]].naccess

LEMMA MovesOne ==
  ASSUME NEW heap \in Heaps, NEW q, NEW h, NEW l, NEW t, NEW a, NEW b,
         Halves(heap, q, h, l, t, a, b), Len(a) # 0
  PROVE  LET c == MaxAccess(h, l)
             d == Detach(h, l, c)
             r == AttachTail(d[1], t, c)
         IN \E x, y : /\ Halves(heap, q, r[1], d[2], r[2], x, y)
                      /\ Len(x) = Len(a) - 1 /\ Len(y) = Len(b) + 1
<1> DEFINE c == MaxAccess(h, l)
           d == Detach(h, l, c)
           r == AttachTail(d[1], t, c)
           m == Len(a)
           n == Len(b)
           A == Elements(a)
           B == Elements(b)
           Q == Elements(q)
           y == Append(b, c)
<1>1. /\ Relinked(heap, h, Q) /\ Linked(h, l, a) /\ Linked(h, t, b)
      /\ A \union B = Q
      /\ \A i \in 1 .. m, j \in 1 .. n :
           a[i] # b[j] /\ heap[b[j]].naccess >= heap[a[i]].naccess
      /\ \A i, j \in 1 .. n : i < j => heap[b[i]].naccess >= heap[b[j]].naccess
  BY DEF Halves
<1>2. /\ h \in Heaps /\ DOMAIN h = DOMAIN heap
      /\ \A x \in DOMAIN heap : h[x].naccess = heap[x].naccess /\ heap[x].naccess \in Nat
  BY <1>1, HeapFacts DEF Relinked
<1>3. /\ m \in Nat /\ n \in Nat /\ DOMAIN a = 1 .. m /\ DOMAIN b = 1 .. n
      /\ \A i \in 1 .. m : a[i] \in DOMAIN heap
      /\ \A i \in 1 .. n : b[i] \in DOMAIN heap
  BY <1>1, <1>2, LinkedFacts
<1>4. a \in Seq(DOMAIN h) /\ OnceEach(a) /\ b \in Seq(DOMAIN h)
  BY <1>1 DEF Linked
<1>5. PICK k \in 1 .. m : c = a[k] /\ \A j \in 1 .. m : h[a[j]].naccess <= h[a[k]].naccess
  BY <1>1, <1>2, MaxAccessIs
<1> DEFINE x == Without(a, k)
<1>6. Linked(d[1], d[2], x) /\ Relinked(h, d[1], A)
  <2> HIDE DEF c
  <2>1. k \in 1 .. Len(a)
    OBVIOUS
  <2>2. QED
    BY <1>1, <1>2, <1>5, <2>1, DetachTakesOut
<1>7. /\ Len(x) = m - 1 /\ \A i \in 1 .. m - 1 : x[i] # c
      /\ Elements(x) = A \ {c}
  <2> HIDE DEF c
  <2>1. /\ Len(x) = m - 1 /\ \A i \in 1 .. m - 1 : x[i] # a[k]
        /\ Elements(x) = A \ {a[k]}
    BY <1>4, WithoutFacts
  <2>2. QED
    BY <1>5, <2>1
<1> HIDE DEF c, d, x
<1>8. c \in A /\ c \in DOMAIN h /\ c \notin B
  BY <1>1, <1>2, <1>3, <1>5 DEF Elements
<1>9. /\ d[1] \in Heaps /\ DOMAIN d[1] = DOMAIN h
  BY <1>6 DEF Relinked
<1>10. Linked(d[1], t, b)
  <2>1. \A i \in 1 .. Len(b) : b[i] \notin A
    BY <1>1 DEF Elements
  <2> HIDE DEF A
  <2>2. QED
    BY <1>1, <1>2, <1>6, <2>1, LinkedStays
<1>11. Linked(r[1], r[2], y) /\ Relinked(d[1], r[1], {c} \union B)
  <2>1. \A i \in 1 .. Len(b) : b[i] # c
    BY <1>8 DEF Elements
  <2>2. QED
    BY <1>8, <1>9, <1>10, <2>1, AttachTailAppends
<1> HIDE DEF r
<1>12. Linked(r[1], d[2], x)
  <2>1. \A i \in 1 .. Len(x) : x[i] \notin {c} \union B
    <3> SUFFICES ASSUME NEW i \in 1 .. Len(x) PROVE x[i] # c /\ x[i] \notin B
      OBVIOUS
    <3>1. i \in 1 .. m - 1
      BY <1>7
    <3>2. x[i] \in A /\ x[i] # c
      BY <1>7, <3>1 DEF Elements
    <3>3. QED
      BY <1>1, <3>2 DEF Elements
  <2> HIDE DEF B
  <2>2. QED
    BY <1>6, <1>9, <1>11, <2>1, LinkedStays
<1>13. /\ Len(y) = n + 1 /\ y[n + 1] = c /\ \A i \in 1 .. n : y[i] = b[i]
  BY <1>4, <1>8, AppendProperties
<1> HIDE DEF y
<1>14. Relinked(heap, r[1], Q)
  <2>1. A \subseteq Q /\ B \subseteq Q /\ {c} \union B \subseteq Q
    BY <1>1, <1>8
  <2> HIDE DEF A, B, Q
  <2>2. Relinked(heap, d[1], Q)
    BY <1>1, <1>6, <2>1, RelinkedTwice
  <2>3. QED
    BY <1>11, <2>1, <2>2, RelinkedTwice
<1>15. \A j \in 1 .. m : heap[a[j]].naccess <= heap[c].naccess
  BY <1>2, <1>3, <1>5
<1> DEFINE X == Elements(x)
           Y == Elements(y)
<1>16. X = A \ {c}
  BY <1>7
<1>17. Y = B \union {c}
  <2>1. \A i \in 1 .. n + 1 : i \in 1 .. n \/ i = n + 1
    BY <1>3
  <2>2. \A i \in 1 .. n : i \in 1 .. n + 1
    BY <1>3
  <2>3. n + 1 \in 1 .. n + 1
    BY <1>3
  <2>4. \A i \in 1 .. n + 1 : y[i] \in B \union {c}
    BY <1>13, <2>1 DEF Elements
  <2>5. \A i \in 1 .. n : b[i] \in Y
    BY <1>13, <2>2 DEF Elements
  <2>6. c \in Y
    BY <1>13, <2>3 DEF Elements
  <2>7. QED
    BY <1>13, <2>4, <2>5, <2>6 DEF Elements
<1>18. \A u \in A, v \in B : heap[v].naccess >= heap[u].naccess
  BY <1>1 DEF Elements
<1>19. \A u \in A : heap[c].naccess >= heap[u].naccess /\ heap[c].naccess \in Nat /\ heap[u].naccess \in Nat
  BY <1>2, <1>3, <1>8, <1>15 DEF Elements
<1>20. ASSUME NEW i \in 1 .. Len(x), NEW j \in 1 .. Len(y)
       PROVE  x[i] # y[j] /\ heap[y[j]].naccess >= heap[x[i]].naccess
  <2>1. x[i] \in A /\ x[i] # c /\ x[i] \notin B
    <3>1. x[i] \in X
      BY DEF Elements
    <3>2. A \intersect B = {}
      BY <1>1 DEF Elements
    <3>3. QED
      BY <1>16, <3>1, <3>2
  <2>2. y[j] = c \/ y[j] \in B
    <3>1. y[j] \in Y
      BY DEF Elements
    <3>2. QED
      BY <1>17, <3>1
  <2>3. QED
    BY <1>18, <1>19, <2>1, <2>2
<1>21. ASSUME NEW i \in 1 .. Len(y), NEW j \in 1 .. Len(y), i < j
       PROVE  heap[y[i]].naccess >= heap[y[j]].naccess
  <2>1. i \in 1 .. n /\ (j \in 1 .. n \/ j = n + 1) /\ y[i] = b[i]
    BY <1>3, <1>13, <1>21
  <2>2. CASE j = n + 1
    <3>1. y[j] = c /\ b[i] \in B
      BY <1>13, <2>1, <2>2 DEF Elements
    <3>2. QED
      BY <1>8, <1>18, <2>1, <3>1
  <2>3. CASE j \in 1 .. n
    BY <1>1, <1>13, <1>21, <2>1, <2>3
  <2>4. QED
    BY <2>1, <2>2, <2>3
<1>22. X \union Y = Q
  BY <1>1, <1>8, <1>16, <1>17
<1>23. Halves(heap, q, r[1], d[2], r[2], x, y)
  BY <1>11, <1>12, <1>14, <1>20, <1>21, <1>22 DEF Halves
<1>24. QED
  BY <1>7, <1>13, <1>23 DEF r, d, c

\* The list is sorted, and has the chains that it had.
LEMMA ResortSorts ==
  ASSUME NEW heap \in Heaps, NEW list, NEW q, Linked(heap, list, q)
  PROVE  LET r == Resort(heap, list) IN
         \E w : /\ Relinked(heap, r[1], Elements(q)) /\ Linked(r[1], r[2], w)
                /\ Elements(w) = Elements(q) /\ Len(w) = Len(q)
                /\ \A i, j \in 1 .. Len(w) : i < j => heap[w[i]].naccess >= heap[w[j]].naccess
<1> DEFINE N == list.num
           All == Heaps \X Lists \X Lists
           ok(n, h, l, t) == \E a, b : /\ Halves(heap, q, h, l, t, a, b)
                                       /\ Len(a) = N - n /\ Len(b) = n
           Good == [n \in 0 .. N |-> {s \in All : ok(n, s[1], s[2], s[3])}]
           first == <<heap, list, NoList>>
           next(s) == LET c == MaxAccess(s[1], s[2])
                          d == Detach(s[1], s[2], c)
                          r == AttachTail(d[1], s[3], c)
                      IN <<r[1], d[2], r[2]>>
           G == [n \in 1 .. N |-> [s \in All |-> IF next(s) \in All THEN next(s) ELSE s]]
           move == CHOOSE f : f = [n \in 0 .. N |-> IF n = 0 THEN first ELSE next(f[n - 1])]
<1>1. /\ N \in Nat /\ N = Len(q) /\ 0 \in 0 .. N /\ N \in 0 .. N
      /\ \A n \in 1 .. N : n - 1 \in 0 .. N /\ n \in 0 .. N
  BY LinkedFacts
<1>2. Resort(heap, list) = <<move[N][1], move[N][3]>>
  BY Zenon DEF Resort
<1>3. \A n \in 0 .. N : \A s : s \in Good[n] <=> s \in All /\ ok(n, s[1], s[2], s[3])
  OBVIOUS
<1>4. NoList \in Lists /\ Linked(heap, NoList, <<>>)
  BY DEF NoList, Lists, Linked, OnceEach, Null
<1>5. first \in Good[0]
  <2>1. Relinked(heap, heap, Elements(q))
    BY DEF Relinked
  <2>2. Elements(q) \union Elements(<<>>) = Elements(q)
    BY DEF Elements
  <2>3. Halves(heap, q, heap, list, NoList, q, <<>>)
    BY <1>4, <2>1, <2>2 DEF Halves
  <2>4. Len(q) = N - 0 /\ Len(<<>>) = 0
    BY <1>1
  <2>5. ok(0, heap, list, NoList)
    BY <2>3, <2>4
  <2>6. first \in All
    BY <1>4 DEF Linked
  <2> HIDE DEF Good, ok
  <2>7. QED
    BY <1>1, <1>3, <2>5, <2>6
<1>6. ASSUME NEW n \in 1 .. N, NEW s \in Good[n - 1] PROVE next(s) \in Good[n]
  <2> DEFINE c == MaxAccess(s[1], s[2])
             d == Detach(s[1], s[2], c)
             r == AttachTail(d[1], s[3], c)
  <2>1. s \in All /\ ok(n - 1, s[1], s[2], s[3])
    <3> HIDE DEF Good, ok, All
    <3>1. QED
      BY <1>1, <1>3
  <2>2. PICK a, b : Halves(heap, q, s[1], s[2], s[3], a, b) /\ Len(a) = N - (n - 1) /\ Len(b) = n - 1
    BY <2>1
  <2>3. Len(a) # 0 /\ Len(a) - 1 = N - n /\ Len(b) + 1 = n
    BY <1>1, <2>2
  <2>4. PICK x, y : Halves(heap, q, r[1], d[2], r[2], x, y) /\ Len(x) = N - n /\ Len(y) = n
    BY <2>2, <2>3, MovesOne
  <2>5. next(s) = <<r[1], d[2], r[2]>>
    OBVIOUS
  <2> HIDE DEF c, d, r, next
  <2>6. next(s) \in All
    <3>1. r[1] \in Heaps /\ d[2] \in Lists /\ r[2] \in Lists
      <4>1. Relinked(heap, r[1], Elements(q)) /\ Linked(r[1], d[2], x) /\ Linked(r[1], r[2], y)
        BY <2>4 DEF Halves
      <4>2. r[1] \in Heaps
        BY <4>1 DEF Relinked
      <4>3. QED
        BY <4>1, <4>2 DEF Linked
    <3>2. QED
      BY <2>5, <3>1
  <2>7. ok(n, r[1], d[2], r[2])
    BY <2>4
  <2> HIDE DEF ok, Good, All
  <2>8. QED
    BY <1>1, <1>3, <2>5, <2>6, <2>7
<1> HIDE DEF Good, next, first, ok
<1>7. \A n \in 1 .. N : \A s \in Good[n - 1] : G[n][s] = next(s) /\ G[n][s] \in Good[n]
  <2> SUFFICES ASSUME NEW n \in 1 .. N, NEW s \in Good[n - 1]
               PROVE  G[n][s] = next(s) /\ G[n][s] \in Good[n]
    OBVIOUS
  <2>1. s \in All /\ next(s) \in Good[n] /\ next(s) \in All
    BY <1>1, <1>3, <1>6
  <2> HIDE DEF All
  <2>2. QED
    BY <2>1
<1> HIDE DEF All, N
<1>8. G \in [1 .. N -> [All -> All]]
  OBVIOUS
<1> HIDE DEF G
<1>9. Good \in [0 .. N -> SUBSET All]
  BY DEF Good
<1>10. PICK f \in [0 .. N -> All] :
         Follows(f, N, first, G) /\ \A n \in 0 .. N : f[n] \in Good[n]
  <2>1. Leads(N, G, Good)
    BY <1>7 DEF Leads
  <2>2. QED
    BY <1>1, <1>5, <1>8, <1>9, <2>1, RecursionIn
<1>11. \A n \in 0 .. N : f[n] = IF n = 0 THEN first ELSE next(f[n - 1])
  <2> SUFFICES ASSUME NEW n \in 0 .. N, n # 0 PROVE f[n] = next(f[n - 1])
    BY <1>10 DEF Follows
  <2>1. n \in 1 .. N /\ n - 1 \in 0 .. N
    BY <1>1
  <2>2. QED
    BY <1>7, <1>10, <2>1 DEF Follows
<1>12. f = [n \in 0 .. N |-> IF n = 0 THEN first ELSE next(f[n - 1])]
  BY <1>10, <1>11
<1>13. move = [n \in 0 .. N |-> IF n = 0 THEN first ELSE next(move[n - 1])]
  BY <1>12
<1> HIDE DEF move
<1>14. \A n \in 0 .. N : move[n] = IF n = 0 THEN first ELSE next(move[n - 1])
  BY <1>13, Zenon
<1> DEFINE S == {n \in 0 .. N : move[n] \in Good[n]}
<1>15. 0 \in S /\ \A n \in 1 .. N : n - 1 \in S => n \in S
  <2>1. 0 \in S
    BY <1>1, <1>5, <1>14
  <2>2. ASSUME NEW n \in 1 .. N, move[n - 1] \in Good[n - 1] PROVE move[n] \in Good[n]
    <3>1. n # 0 /\ n \in 0 .. N
      BY <1>1
    <3>2. QED
      BY <1>6, <1>14, <2>2, <3>1
  <2>3. QED
    BY <1>1, <2>1, <2>2
<1> HIDE DEF S
<1>16. \A n \in 0 .. N : n \in S
  BY <1>1, <1>15, Steps
<1>17. move[N] \in Good[N]
  BY <1>1, <1>16 DEF S
<1>18. PICK a, b : Halves(heap, q, move[N][1], move[N][2], move[N][3], a, b) /\ Len(a) = N - N /\ Len(b) = N
  <2>1. ok(N, move[N][1], move[N][2], move[N][3])
    BY <1>1, <1>3, <1>17
  <2>2. QED
    BY <2>1, Zenon DEF ok
<1>19. Elements(b) = Elements(q)
  <2>1. Len(a) = 0
    BY <1>1, <1>18
  <2>2. Elements(a) = {}
    BY <2>1 DEF Elements
  <2>3. QED
    BY <1>18, <2>2 DEF Halves
<1>20. /\ Relinked(heap, move[N][1], Elements(q)) /\ Linked(move[N][1], move[N][3], b)
       /\ \A i, j \in 1 .. Len(b) : i < j => heap[b[i]].naccess >= heap[b[j]].naccess
  BY <1>18 DEF Halves
<1>21. QED
  BY <1>1, <1>2, <1>18, <1>19, <1>20

-----------------------------------------------------------------------------
(* The function of an address.                                             *)

Covers(y, off) == y.off <= off /\ off < y.off + y.size

OffCmps(items, off) == [j \in DOMAIN items |-> OffCmp(off, items[j])]

LEMMA OffCmpIs ==
  ASSUME NEW y \in ItemSet, NEW off \in Nat
  PROVE  /\ y.off \in Nat /\ y.size \in Nat \ {0}
         /\ OffCmp(off, y) \in Int
         /\ OffCmp(off, y) = 0 <=> Covers(y, off)
         /\ OffCmp(off, y) > 0 <=> y.off + y.size <= off
         /\ OffCmp(off, y) < 0 <=> off < y.off
<1>1. /\ y.off \in Nat /\ y.size \in Nat \ {0} /\ y.off + y.size <= Span
  BY DEF ItemSet
<1>2. (y.off + y.size) % AddrLimit = y.off + y.size
  <2>1. PICK e \in Nat : e = y.off + y.size
    BY <1>1
  <2>2. AddrLimit \in Nat \ {0} /\ Span < AddrLimit /\ Span \in Nat
    BY SpanFacts
  <2>3. e < AddrLimit
    BY <1>1, <2>1, <2>2
  <2>4. e % AddrLimit = e
    BY <2>2, <2>3
  <2>5. QED
    BY <2>1, <2>4
<1>3. OffCmp(off, y) = IF off >= y.off + y.size THEN 1 ELSE IF off < y.off THEN -1 ELSE 0
  BY <1>2 DEF OffCmp
<1>4. QED
  BY <1>1, <1>3 DEF Covers

LEMMA OffCmpsAre ==
  ASSUME NEW items \in Seq(ItemSet), NEW off \in Nat
  PROVE  /\ Len(items) \in Nat /\ DOMAIN items = 1 .. Len(items)
         /\ \A j \in 1 .. Len(items) : items[j] \in ItemSet
         /\ Len(OffCmps(items, off)) = Len(items)
         /\ \A j \in 1 .. Len(items) : /\ OffCmps(items, off)[j] = OffCmp(off, items[j])
                                       /\ OffCmps(items, off)[j] \in Int
<1> DEFINE cmp == OffCmps(items, off)
           n == Len(items)
<1>1. n \in Nat /\ DOMAIN items = 1 .. n /\ \A j \in 1 .. n : items[j] \in ItemSet
  BY ElementOfSeq
<1>2. \A j \in 1 .. n : cmp[j] = OffCmp(off, items[j])
  BY <1>1 DEF OffCmps
<1>3. \A j \in 1 .. n : cmp[j] \in Int
  BY <1>1, <1>2, OffCmpIs
<1>4. cmp = [j \in 1 .. n |-> cmp[j]]
  BY <1>1 DEF OffCmps
<1> HIDE DEF cmp, n
<1>5. cmp \in [1 .. n -> Int]
  BY <1>3, <1>4
<1>6. Len(cmp) = n
  BY <1>1, <1>5, LenOf
<1>7. QED
  BY <1>1, <1>2, <1>3, <1>6 DEF cmp, n

\* What resolve finds are functions that the address is in.
LEMMA ResolveCovers ==
  ASSUME NEW items \in Seq(ItemSet), NEW off \in Nat
  PROVE  /\ Resolve(items, off) \in Seq(ItemSet)
         /\ \A k \in 1 .. Len(Resolve(items, off)) :
              /\ Covers(Resolve(items, off)[k], off)
              /\ \E j \in DOMAIN items : Resolve(items, off)[k] = items[j]
         /\ Resolve(items, off) = <<>> <=> Bsearch(OffCmps(items, off)) = 0
<1> DEFINE n == Len(items)
           i == Bsearch(OffCmps(items, off))
           same(a, b) == \A j \in a .. b : items[j].off = off
           isFirst(a) == same(a, i - 1) /\ (a > 1 => ~same(a - 1, a - 1))
           isLast(b) == same(i + 1, b) /\ (b < Len(items) => ~same(b + 1, b + 1))
           first == CHOOSE a \in 1 .. i : isFirst(a)
           last == CHOOSE b \in i .. Len(items) : isLast(b)
           r == Resolve(items, off)
<1>1. /\ n \in Nat /\ DOMAIN items = 1 .. n
      /\ \A j \in 1 .. n : items[j] \in ItemSet
      /\ \A j \in 1 .. n : items[j].off \in Nat /\ items[j].size \in Nat \ {0}
  BY OffCmpsAre, OffCmpIs
<1>2. i \in 0 .. n /\ (i # 0 => Covers(items[i], off))
  <2> DEFINE cmp == OffCmps(items, off)
  <2>1. Len(cmp) = n /\ \A j \in 1 .. n : cmp[j] = OffCmp(off, items[j]) /\ cmp[j] \in Int
    BY OffCmpsAre
  <2>2. i \in 0 .. n /\ (i # 0 => cmp[i] = 0)
    <3> HIDE DEF cmp, n
    <3>1. Bsearch(cmp) \in 0 .. n /\ (Bsearch(cmp) # 0 => cmp[Bsearch(cmp)] = 0)
      BY <1>1, <2>1, BsearchFinds
    <3>2. QED
      BY <3>1 DEF cmp
  <2> HIDE DEF cmp, i, n
  <2>3. i # 0 => i \in 1 .. n
    BY <1>1, <2>2
  <2>4. i # 0 => OffCmp(off, items[i]) = 0 /\ items[i] \in ItemSet
    BY <1>1, <2>1, <2>2, <2>3
  <2>5. QED
    BY <2>2, <2>4, OffCmpIs
<1>3. r = IF i = 0 THEN <<>> ELSE SubSeq(items, first, last)
  BY Zenon DEF Resolve, OffCmps
<1> HIDE DEF i, n, r, same
<1>4. CASE i = 0
  BY <1>3, <1>4 DEF r, i
<1>5. CASE i # 0
  <2>1. i \in 1 .. n /\ i \in Nat /\ i + 1 \in Nat /\ i - 1 \in Nat
    BY <1>1, <1>2, <1>5
  <2>2. first \in 1 .. i /\ same(first, i - 1)
    <3>1. \E a \in 1 .. i : isFirst(a)
      <4> DEFINE S == {a \in 1 .. i : same(a, i - 1)}
      <4>1. i \in S
        BY <2>1 DEF same
      <4>2. S \in SUBSET Nat
        OBVIOUS
      <4> HIDE DEF S
      <4>3. PICK a \in S : \A x \in S : a <= x
        BY <4>1, <4>2, Smallest
      <4>4. a \in 1 .. i /\ same(a, i - 1)
        BY <4>3 DEF S
      <4>5. a > 1 /\ same(a - 1, a - 1) => same(a - 1, i - 1)
        <5> SUFFICES ASSUME a > 1, same(a - 1, a - 1), NEW j \in a - 1 .. i - 1
                     PROVE  items[j].off = off
          BY DEF same
        <5>1. j \in a .. i - 1 \/ j \in a - 1 .. a - 1
          BY <2>1, <4>4
        <5>2. QED
          BY <4>4, <5>1 DEF same
      <4>6. a > 1 => ~same(a - 1, a - 1)
        <5> SUFFICES ASSUME a > 1, same(a - 1, a - 1) PROVE FALSE
          OBVIOUS
        <5>1. a - 1 \in S
          BY <2>1, <4>4, <4>5 DEF S
        <5>2. QED
          BY <2>1, <4>3, <4>4, <5>1
      <4>7. QED
        BY <4>4, <4>6
    <3> HIDE DEF isFirst
    <3>2. first \in 1 .. i /\ isFirst(first)
      BY <3>1
    <3>3. QED
      BY <3>2 DEF isFirst
  <2>3. last \in i .. n /\ same(i + 1, last)
    <3>1. \E b \in i .. Len(items) : isLast(b)
      <4> DEFINE S == {b \in i .. n : b = n \/ ~same(b + 1, b + 1)}
      <4>1. n \in S
        BY <1>1, <2>1
      <4>2. S \in SUBSET Nat
        BY <2>1
      <4> HIDE DEF S
      <4>3. PICK b \in S : \A x \in S : b <= x
        BY <4>1, <4>2, Smallest
      <4>4. b \in i .. n /\ (b = n \/ ~same(b + 1, b + 1))
        BY <4>3 DEF S
      <4>5. same(i + 1, b)
        <5> SUFFICES ASSUME NEW j \in i + 1 .. b PROVE items[j].off = off
          BY DEF same
        <5>1. j - 1 \in i .. n /\ j - 1 # n /\ j - 1 + 1 = j /\ ~(b <= j - 1)
          BY <1>1, <2>1, <4>4
        <5>2. j - 1 \notin S
          BY <4>3, <5>1
        <5>3. same(j, j)
          BY <5>1, <5>2 DEF S
        <5>4. j \in j .. j
          BY <4>4, <2>1
        <5>5. QED
          BY <5>3, <5>4 DEF same
      <4>6. QED
        BY <4>4, <4>5 DEF n
    <3> HIDE DEF isLast
    <3>2. last \in i .. Len(items) /\ isLast(last)
      BY <3>1
    <3>3. QED
      BY <3>2 DEF isLast, n
  <2> HIDE DEF first, last
  <2>4. first \in 1 .. n /\ last \in 1 .. n /\ first <= i /\ i <= last
    BY <1>1, <2>1, <2>2, <2>3
  <2>5. /\ r \in Seq(ItemSet) /\ Len(r) = last - first + 1
        /\ \A k \in 1 .. last - first + 1 : r[k] = items[first + k - 1]
    <3>1. first \in 1 .. n + 1 /\ last \in first - 1 .. n
      BY <1>1, <2>1, <2>4
    <3>2. r = SubSeq(items, first, last)
      BY <1>3, <1>5
    <3>3. QED
      BY <3>1, <3>2, SubSeqProperties DEF n
  <2>6. Len(r) # 0 /\ r # <<>>
    BY <2>1, <2>4, <2>5
  <2>7. \A k \in 1 .. Len(r) : Covers(r[k], off) /\ \E j \in DOMAIN items : r[k] = items[j]
    <3> SUFFICES ASSUME NEW k \in 1 .. Len(r)
                 PROVE  Covers(r[k], off) /\ \E j \in DOMAIN items : r[k] = items[j]
      OBVIOUS
    <3>1. PICK j \in 1 .. n : j = first + k - 1 /\ r[k] = items[j] /\ first <= j /\ j <= last
      <4>1. k \in 1 .. last - first + 1 /\ first \in 1 .. n /\ last \in 1 .. n
        BY <2>4, <2>5
      <4>2. r[k] = items[first + k - 1]
        BY <2>5, <4>1
      <4>3. first + k - 1 \in 1 .. n /\ first <= first + k - 1 /\ first + k - 1 <= last
        BY <1>1, <4>1
      <4>4. QED
        BY <4>2, <4>3
    <3>2. j = i \/ j \in first .. i - 1 \/ j \in i + 1 .. last
      BY <2>1, <2>4, <3>1
    <3>3. j = i \/ items[j].off = off
      BY <2>2, <2>3, <3>2 DEF same
    <3>4. Covers(items[j], off)
      BY <1>1, <1>2, <1>5, <3>3 DEF Covers
    <3>5. QED
      BY <1>1, <3>1, <3>4
  <2>8. QED
    BY <1>5, <2>5, <2>6, <2>7 DEF r, i
<1>6. QED
  BY <1>4, <1>5

\* resolve_unique takes one of what it is given.
LEMMA UniqueIn ==
  ASSUME NEW items \in Seq(ItemSet), items # <<>>
  PROVE  \E k \in 1 .. Len(items) : Unique(items) = items[k]
<1> DEFINE n == Len(items)
           isFirst(i) == ~items[i].under /\ \A j \in DOMAIN items : j < i => items[j].under
<1>1. n \in Nat /\ n # 0 /\ DOMAIN items = 1 .. n
  OBVIOUS
<1>2. CASE \A i \in DOMAIN items : items[i].under
  <2>1. Unique(items) = items[n]
    BY <1>2 DEF Unique, Last
  <2>2. QED
    BY <1>1, <2>1
<1>3. CASE ~\A i \in DOMAIN items : items[i].under
  <2> DEFINE S == {i \in DOMAIN items : ~items[i].under}
  <2>1. S # {} /\ S \in SUBSET Nat
    BY <1>1, <1>3
  <2> HIDE DEF S
  <2>2. PICK i \in S : \A j \in S : i <= j
    BY <2>1, Smallest
  <2>3. i \in DOMAIN items /\ isFirst(i)
    BY <1>1, <2>2 DEF S
  <2> HIDE DEF isFirst
  <2>4. PICK k \in DOMAIN items : k = CHOOSE x \in DOMAIN items : isFirst(x)
    BY <2>3
  <2>5. Unique(items) = items[k]
    BY <1>3, <2>4, Zenon DEF Unique, isFirst
  <2>6. QED
    BY <1>1, <2>5
<1>4. QED
  BY <1>2, <1>3

LEMMA ModUp ==
  ASSUME NEW a \in Int, NEW b \in Nat \ {0}, a < 0, 0 <= a + b
  PROVE  a % b = a + b
OBVIOUS

LEMMA ModSmall ==
  ASSUME NEW a \in Nat, NEW b \in Nat \ {0}, a < b
  PROVE  a % b = a
OBVIOUS

\* What the functions items, which begin at base, have for the address ip.
Table(items, base, ip) ==
  [items |-> Resolve(items, (ip - base) % AddrLimit), base |-> base]

\* What the image and the libraries have.
Tried(s, ip) ==
  {Table(s.image.items, s.image.base, ip)} \union
  {Table(Binary[s.libref[k].file], s.libref[k].base, ip) : k \in DOMAIN s.libref}

\* sym_resolve finds what one of them has, if any.
LEMMA SymResolveIs ==
  ASSUME NEW s, s.libref \in Seq(Refs), NEW ip
  PROVE  /\ SymResolve(s, ip).items # <<>> => SymResolve(s, ip) \in Tried(s, ip)
         /\ (\E x \in Tried(s, ip) : x.items # <<>>) => SymResolve(s, ip).items # <<>>
<1> DEFINE one == <<Table(s.image.items, s.image.base, ip)>>
           refs == [i \in DOMAIN s.libref |->
                     Table(Binary[s.libref[i].file], s.libref[i].base, ip)]
           all == one \o refs
           n == Len(s.libref)
           T == Tried(s, ip)
           r == SymResolve(s, ip)
           first(i) == all[i].items # <<>> /\ \A j \in DOMAIN all : j < i => ~(all[j].items # <<>>)
<1>1. n \in Nat /\ DOMAIN s.libref = 1 .. n
  OBVIOUS
<1>2. r = IF \A i \in DOMAIN all : ~(all[i].items # <<>>)
          THEN [items |-> <<>>, base |-> 0]
          ELSE all[CHOOSE i \in DOMAIN all : first(i)]
  BY Zenon DEF SymResolve, Table
<1>3. /\ Table(s.image.items, s.image.base, ip) \in T
      /\ \A k \in 1 .. n : Table(Binary[s.libref[k].file], s.libref[k].base, ip) \in T
      /\ \A x \in T : \/ x = Table(s.image.items, s.image.base, ip)
                      \/ \E k \in 1 .. n :
                           x = Table(Binary[s.libref[k].file], s.libref[k].base, ip)
  BY <1>1 DEF Tried
<1> HIDE DEF T
<1>4. one \in Seq(T) /\ Len(one) = 1 /\ one[1] = Table(s.image.items, s.image.base, ip)
  BY <1>3
<1>5. /\ refs \in Seq(T) /\ Len(refs) = n
      /\ \A k \in 1 .. n : refs[k] = Table(Binary[s.libref[k].file], s.libref[k].base, ip)
  <2>1. refs \in [1 .. n -> T]
    BY <1>1, <1>3
  <2>2. QED
    BY <1>1, <2>1, LenOf
<1> HIDE DEF one, refs, n, r
<1>6. /\ all \in Seq(T) /\ Len(all) = 1 + n /\ all[1] = one[1]
      /\ \A i \in 2 .. 1 + n : all[i] = refs[i - 1]
  <2>1. /\ all \in Seq(T) /\ Len(all) = Len(one) + Len(refs)
        /\ \A i \in 1 .. Len(one) : all[i] = one[i]
        /\ \A i \in Len(one) + 1 .. Len(one) + Len(refs) : all[i] = refs[i - Len(one)]
    <3>1. one \in Seq(T) /\ refs \in Seq(T)
      BY <1>4, <1>5
    <3> HIDE DEF n
    <3>2. QED
      BY ONLY <3>1, ConcatProperties
  <2>2. QED
    BY <1>1, <1>4, <1>5, <2>1
<1> HIDE DEF all
<1>7. DOMAIN all = 1 .. 1 + n /\ \A i \in 1 .. 1 + n : all[i] \in T
  BY <1>1, <1>6, ElementOfSeq
<1>8. \A x \in T : \E i \in 1 .. 1 + n : all[i] = x
  <2> SUFFICES ASSUME NEW x \in T PROVE \E i \in 1 .. 1 + n : all[i] = x
    OBVIOUS
  <2>1. CASE x = Table(s.image.items, s.image.base, ip)
    <3>1. 1 \in 1 .. 1 + n /\ all[1] = x
      BY <1>1, <1>4, <1>6, <2>1
    <3>2. QED
      BY <3>1
  <2>2. ASSUME NEW k \in 1 .. n, x = Table(Binary[s.libref[k].file], s.libref[k].base, ip)
        PROVE  \E i \in 1 .. 1 + n : all[i] = x
    <3>1. k + 1 \in 2 .. 1 + n /\ k + 1 \in 1 .. 1 + n /\ k + 1 - 1 = k
      BY <1>1
    <3>2. all[k + 1] = refs[k] /\ refs[k] = x
      BY <1>5, <1>6, <2>2, <3>1
    <3>3. QED
      BY <3>1, <3>2
  <2>3. QED
    BY <1>3, <2>1, <2>2
<1>9. CASE \A i \in DOMAIN all : ~(all[i].items # <<>>)
  <2>1. r = [items |-> <<>>, base |-> 0]
    BY <1>2, <1>9, Zenon
  <2>2. r.items = <<>>
    BY <2>1
  <2>3. \A x \in T : x.items = <<>>
    BY <1>7, <1>8, <1>9
  <2>4. QED
    BY <2>2, <2>3 DEF r, T
<1>10. CASE ~\A i \in DOMAIN all : ~(all[i].items # <<>>)
  <2> DEFINE S == {i \in DOMAIN all : all[i].items # <<>>}
  <2>1. S # {} /\ S \in SUBSET Nat
    BY <1>1, <1>7, <1>10
  <2> HIDE DEF S
  <2>2. PICK i \in S : \A j \in S : i <= j
    BY <2>1, Smallest
  <2>3. i \in DOMAIN all /\ first(i)
    BY <1>1, <1>7, <2>2 DEF S
  <2>4. PICK c \in DOMAIN all : c = (CHOOSE x \in DOMAIN all : first(x)) /\ first(c)
    <3> HIDE DEF first
    <3>1. QED
      BY <2>3
  <2>5. r = all[c]
    BY <1>2, <1>10, <2>4, Zenon
  <2>6. r \in T /\ r.items # <<>>
    BY <1>7, <2>4, <2>5
  <2>7. QED
    BY <2>6 DEF r, T
<1>11. QED
  BY <1>9, <1>10

\* A function that is found in a table is one of the table that ip is in.
LEMMA HitIn ==
  ASSUME NEW items \in Tables, NEW base \in Bases, NEW ip \in 0 .. AddrLimit - 1,
         Table(items, base, ip).items # <<>>
  PROVE  LET y == Unique(Table(items, base, ip).items) IN
         /\ y \in ItemSet /\ \E j \in DOMAIN items : y = items[j]
         /\ base + y.off \in Nat /\ base + y.off <= ip /\ ip < base + y.off + y.size
         /\ (base + y.off) % AddrLimit = base + y.off
<1> DEFINE off == (ip - base) % AddrLimit
           hits == Resolve(items, off)
           y == Unique(hits)
<1>1. /\ AddrLimit \in Nat \ {0} /\ ip \in Nat /\ ip < AddrLimit
      /\ base \in Nat /\ base + Span < AddrLimit /\ Span \in Nat
  <2>1. AddrLimit \in Nat \ {0} /\ Span \in Nat
    BY SpanFacts
  <2>2. Base(NSlots + 1) \in Nat /\ Base(NSlots + 1) + Span < AddrLimit
    BY BaseFacts
  <2>3. base \in Nat /\ base <= Base(NSlots + 1)
    BY <2>2 DEF Bases
  <2>4. QED
    BY <2>1, <2>2, <2>3
<1>2. off \in Nat
  BY <1>1, ModRange
<1>3. Table(items, base, ip).items = hits /\ items \in Seq(ItemSet)
  BY DEF Table, Tables
<1> HIDE DEF off
<1>4. /\ hits \in Seq(ItemSet) /\ hits # <<>>
      /\ \A k \in 1 .. Len(hits) : Covers(hits[k], off) /\ \E j \in DOMAIN items : hits[k] = items[j]
  BY <1>2, <1>3, ResolveCovers
<1> HIDE DEF hits
<1>5. PICK k \in 1 .. Len(hits) : y = hits[k]
  BY <1>4, UniqueIn
<1>6. y \in ItemSet /\ Covers(y, off) /\ \E j \in DOMAIN items : y = items[j]
  BY <1>4, <1>5, ElementOfSeq
<1> HIDE DEF y
<1>7. /\ y.size \in Nat \ {0} /\ y.off \in Nat /\ y.off + y.size <= Span
      /\ y.off <= off /\ off < y.off + y.size
  BY <1>6 DEF ItemSet, Covers
<1>8. off = ip - base /\ base <= ip
  <2>1. CASE base <= ip
    <3>1. ip - base \in Nat /\ ip - base < AddrLimit
      BY <1>1, <2>1
    <3>2. QED
      BY <1>1, <2>1, <3>1, ModSmall DEF off
  <2>2. CASE ip < base
    <3>1. ip - base \in Int /\ ip - base < 0 /\ 0 <= ip - base + AddrLimit
      BY <1>1, <2>2
    <3>2. off = ip - base + AddrLimit
      BY <1>1, <3>1, ModUp DEF off
    <3>3. off > Span
      BY <1>1, <3>2
    <3>4. QED
      BY <1>1, <1>2, <1>7, <3>3
  <2>3. QED
    BY <1>1, <2>1, <2>2
<1>9. (base + y.off) % AddrLimit = base + y.off
  <2>1. base + y.off \in Nat /\ base + y.off < AddrLimit
    BY <1>1, <1>7, <1>8
  <2>2. QED
    BY <1>1, <2>1, ModSmall
<1>10. base + y.off \in Nat /\ base + y.off <= ip /\ ip < base + y.off + y.size
  BY <1>1, <1>7, <1>8
<1>11. QED
  BY <1>3, <1>6, <1>9, <1>10 DEF y

LEMMA BinaryTables == \A f \in Files : Binary[f] \in Tables
<1> SUFFICES ASSUME NEW f \in Files PROVE ItemSort(Items(f)) \in Tables
  BY DEF Binary
<1>1. Items(f) \in Seq(ItemSet)
  BY ItemsTyped
<1>2. QED
  BY <1>1, ItemSortSorts

\* The tables of a process are such.
LEMMA TriedTables ==
  ASSUME NEW s, s.image \in Images, s.libref \in Seq(Refs), NEW ip, NEW x \in Tried(s, ip)
  PROVE  \E items \in Tables, base \in Bases : x = Table(items, base, ip)
<1>1. \A k \in DOMAIN s.libref : s.libref[k] \in Refs
  BY ElementOfSeq
<1>2. \A k \in DOMAIN s.libref : Binary[s.libref[k].file] \in Tables /\ s.libref[k].base \in Bases
  BY <1>1, BinaryTables DEF Refs
<1>3. s.image.items \in Tables /\ s.image.base \in Bases
  BY DEF Images
<1>4. QED
  BY <1>2, <1>3 DEF Tried

\* The entry of a chain is the range of the function that the address is in.
LEMMA CallEntryHit ==
  ASSUME NEW s \in States, NEW ip \in 0 .. AddrLimit - 1
  PROVE  CallEntry(s, ip) \in Callers /\ IpHit(ip, CallEntry(s, ip))
<1> DEFINE r == SymResolve(s, ip)
           item == Unique(r.items)
<1>1. PointerSize \in Nat \ {0} /\ ip \in Nat
  BY SymbolsAssumption, SpanFacts
<1>2. CallEntry(s, ip) = IF r.items = <<>>
                         THEN [addr |-> ip, size |-> PointerSize, name |-> None]
                         ELSE [addr |-> (r.base + item.off) % AddrLimit,
                               size |-> item.size, name |-> item.name]
  BY Zenon DEF CallEntry
<1>3. CASE r.items = <<>>
  <2>1. CallEntry(s, ip) = [addr |-> ip, size |-> PointerSize, name |-> None]
    BY <1>2, <1>3, Zenon
  <2>2. QED
    BY <1>1, <2>1 DEF Callers, IpHit
<1>4. CASE r.items # <<>>
  <2>1. s.image \in Images /\ s.libref \in Seq(Refs)
    BY DEF States
  <2>2. PICK items \in Tables, base \in Bases : r = Table(items, base, ip)
    BY <1>4, <2>1, SymResolveIs, TriedTables
  <2>3. r.base = base
    BY <2>2 DEF Table
  <2> HIDE DEF r
  <2>4. /\ item \in ItemSet /\ base + item.off \in Nat
        /\ base + item.off <= ip /\ ip < base + item.off + item.size
        /\ (base + item.off) % AddrLimit = base + item.off
    BY <1>4, <2>2, HitIn
  <2> HIDE DEF item
  <2>5. item.name \in Names /\ item.size \in Nat \ {0}
    BY <2>4 DEF ItemSet
  <2>6. CallEntry(s, ip) = [addr |-> (r.base + item.off) % AddrLimit,
                            size |-> item.size, name |-> item.name]
    BY <1>2, <1>4, Zenon
  <2>7. CallEntry(s, ip) = [addr |-> base + item.off, size |-> item.size, name |-> item.name]
    BY <2>3, <2>4, <2>6
  <2>8. QED
    BY <2>4, <2>5, <2>7 DEF Callers, IpHit
<1>5. QED
  BY <1>3, <1>4

\* The chain that is made of a sample is one that the sample belongs to.
LEMMA ChainOfHit ==
  ASSUME NEW s \in States, NEW ips \in Seq(0 .. AddrLimit - 1), NEW chain,
         chain.entries = ChainOf(s, ips)
  PROVE  ChainOf(s, ips) \in Seq(Callers) /\ IpsExist(chain, ips)
<1> DEFINE n == Len(ips)
<1>1. n \in Nat /\ DOMAIN ips = 1 .. n /\ \A i \in 1 .. n : ips[i] \in 0 .. AddrLimit - 1
  <2> DEFINE A == 0 .. AddrLimit - 1
  <2>1. ips \in Seq(A)
    OBVIOUS
  <2> HIDE DEF A
  <2>2. n \in Nat /\ DOMAIN ips = 1 .. n /\ \A i \in 1 .. n : ips[i] \in A
    BY <2>1, ElementOfSeq
  <2>3. QED
    BY <2>2 DEF A
<1>2. \A i \in 1 .. n : /\ CallEntry(s, ips[i]) \in Callers
                        /\ IpHit(ips[i], CallEntry(s, ips[i]))
  BY <1>1, CallEntryHit
<1> HIDE DEF n
<1>3. ChainOf(s, ips) = [i \in 1 .. n |-> CallEntry(s, ips[i])]
  BY <1>1 DEF ChainOf
<1>4. ChainOf(s, ips) \in [1 .. n -> Callers]
  BY <1>2, <1>3
<1>5. ChainOf(s, ips) \in Seq(Callers) /\ Len(ChainOf(s, ips)) = n
  BY <1>1, <1>4, LenOf
<1>6. \A i \in 1 .. n : chain.entries[i] = CallEntry(s, ips[i])
  BY <1>3
<1>7. Len(ips) <= Len(chain.entries)
  BY <1>1, <1>5 DEF n
<1>8. QED
  BY <1>1, <1>2, <1>5, <1>6, <1>7 DEF IpsExist

\* chain_find returns a chain of the list that the sample belongs to, or else
\* there is none.
LEMMA ChainFindIs ==
  ASSUME NEW heap \in Heaps, NEW list, NEW q, Linked(heap, list, q), NEW ips
  PROVE  LET c == ChainFind(heap, list, ips) IN
         /\ c = Null => \A i \in 1 .. Len(q) : ~IpsExist(heap[q[i]], ips)
         /\ c # Null => c \in Elements(q)
<1> DEFINE c == ChainFind(heap, list, ips)
           hit(i) == IpsExist(heap[q[i]], ips)
           first(i) == hit(i) /\ \A j \in DOMAIN q : j < i => ~hit(j)
           m == Len(q)
<1>1. m \in Nat /\ DOMAIN q = 1 .. m /\ \A i \in 1 .. m : q[i] # Null
  BY LinkedFacts
<1>2. c = IF \A i \in DOMAIN q : ~hit(i) THEN Null ELSE q[CHOOSE i \in DOMAIN q : first(i)]
  <2> DEFINE find(o) == IF \A i \in DOMAIN o : ~IpsExist(heap[o[i]], ips) THEN Null
                        ELSE o[CHOOSE i \in DOMAIN o :
                                 IpsExist(heap[o[i]], ips)
                                 /\ \A j \in DOMAIN o : j < i => ~IpsExist(heap[o[j]], ips)]
  <2>1. Chains(heap, list) = q
    BY ChainsAre
  <2>2. c = find(Chains(heap, list))
    BY Zenon DEF ChainFind
  <2>3. find(q) = IF \A i \in DOMAIN q : ~hit(i) THEN Null ELSE q[CHOOSE i \in DOMAIN q : first(i)]
    OBVIOUS
  <2> HIDE DEF find, c, first, hit
  <2>4. c = find(q)
    BY <2>1, <2>2
  <2>5. QED
    BY <2>3, <2>4, Zenon
<1> HIDE DEF c, m
<1>3. CASE \A i \in DOMAIN q : ~hit(i)
  <2>1. c = Null
    BY <1>2, <1>3, Zenon
  <2>2. QED
    BY <1>1, <1>3, <2>1 DEF m, c
<1>4. CASE ~\A i \in DOMAIN q : ~hit(i)
  <2> DEFINE S == {i \in DOMAIN q : hit(i)}
  <2> HIDE DEF hit
  <2>1. S # {} /\ S \in SUBSET Nat
    BY <1>1, <1>4
  <2> HIDE DEF S
  <2>2. PICK i \in S : \A j \in S : i <= j
    BY <2>1, Smallest
  <2>3. i \in DOMAIN q /\ first(i)
    BY <1>1, <2>2 DEF S
  <2> HIDE DEF first
  <2>4. PICK k \in DOMAIN q : k = CHOOSE x \in DOMAIN q : first(x)
    BY <2>3
  <2>5. c = q[k]
    BY <1>2, <1>4, <2>4, Zenon
  <2>6. k \in 1 .. m
    BY <1>1
  <2>7. c # Null /\ c \in Elements(q)
    BY <1>1, <2>5, <2>6 DEF Elements, m
  <2>8. QED
    BY <2>7 DEF c
<1>5. QED
  BY <1>3, <1>4

\* The samples that the chains of S have counted: one more than naccess.
Counted(heap, S) == UNION {{c} \X (0 .. heap[c].naccess) : c \in S}

LEMMA InCounted ==
  ASSUME NEW heap, NEW S, NEW p
  PROVE  p \in Counted(heap, S) <=> \E c \in S : \E k \in 0 .. heap[c].naccess : p = <<c, k>>
BY DEF Counted

\* No two chains of S are of the same callers.
Distinct(heap, S) == \A c, d \in S : c # d => heap[c].entries # heap[d].entries

\* The list q has counted n samples.
Listed(heap, list, q, n) ==
  /\ heap \in Heaps /\ Linked(heap, list, q) /\ Distinct(heap, Elements(q))
  /\ IsFiniteSet(Counted(heap, Elements(q)))
  /\ Cardinality(Counted(heap, Elements(q))) = n

\* One more sample of a chain of the list.
LEMMA CountsOne ==
  ASSUME NEW heap, NEW list, NEW q, NEW n \in Nat, Listed(heap, list, q, n),
         NEW c \in Elements(q), NEW h, h = [heap EXCEPT ![c].naccess = @ + 1]
  PROVE  Listed(h, list, q, n + 1)
<1> DEFINE Nodes == [entries : Seq(Callers), naccess : Nat, prev : Nat, next : Nat]
           v == heap[c].naccess + 1
           e == [heap[c] EXCEPT !.naccess = v]
           E == Elements(q)
<1>1. heap \in Heaps /\ Linked(heap, list, q) /\ Distinct(heap, E)
  BY DEF Listed
<1>2. \A x \in E : x \in DOMAIN heap
  BY <1>1, LinkedFacts DEF Elements
<1>3. heap[c] \in Nodes /\ v \in Nat /\ c \in DOMAIN heap
  BY <1>1, <1>2, HeapFacts
<1>4. h = [heap EXCEPT ![c] = e]
  OBVIOUS
<1> HIDE DEF v
<1>5. /\ e \in Nodes /\ e.entries = heap[c].entries /\ e.naccess = v
      /\ e.prev = heap[c].prev /\ e.next = heap[c].next
  BY <1>3
<1> HIDE DEF e, E
<1>6. heap \in Seq(Nodes) /\ c \in 1 .. Len(heap)
  BY <1>1, <1>3, HeapFacts DEF Heaps
<1>7. h \in Seq(Nodes) /\ DOMAIN h = DOMAIN heap
  <2>1. DOMAIN h = DOMAIN heap
    BY <1>4
  <2>2. e \in Nodes
    BY <1>5
  <2> HIDE DEF Nodes
  <2>3. QED
    BY <1>4, <1>6, <2>1, <2>2, ExceptSeq
<1>8. h[c] = e /\ \A x \in DOMAIN heap : x # c => h[x] = heap[x]
  BY <1>3, <1>4
<1>9. /\ h \in Heaps
      /\ \A x \in DOMAIN heap :
           /\ h[x].entries = heap[x].entries
           /\ h[x].prev = heap[x].prev /\ h[x].next = heap[x].next
           /\ h[x].naccess = IF x = c THEN v ELSE heap[x].naccess
  <2>1. h \in Heaps
    BY <1>7 DEF Heaps
  <2>2. ASSUME NEW x \in DOMAIN heap
        PROVE  /\ h[x].entries = heap[x].entries
               /\ h[x].prev = heap[x].prev /\ h[x].next = heap[x].next
               /\ h[x].naccess = IF x = c THEN v ELSE heap[x].naccess
    BY <1>5, <1>8
  <2>3. QED
    BY <2>1, <2>2
<1>10. Linked(h, list, q)
  <2>1. \A i \in 1 .. Len(q) : q[i] \in DOMAIN heap
    BY <1>1, LinkedFacts
  <2>2. \A i \in 1 .. Len(q) : h[q[i]].next = heap[q[i]].next /\ h[q[i]].prev = heap[q[i]].prev
    BY <1>9, <2>1
  <2>3. QED
    BY <1>1, <1>7, <2>2 DEF Linked
<1>11. Distinct(h, E)
  BY <1>1, <1>2, <1>9 DEF Distinct
<1> DEFINE C == Counted(heap, E)
<1>12. \A x \in E : heap[x].naccess \in Nat
  BY <1>1, <1>2, HeapFacts
<1>13. Counted(h, E) = C \union {<<c, v>>} /\ <<c, v>> \notin C
  <2>1. v = heap[c].naccess + 1 /\ c \in E
    BY DEF v, E
  <2>2. ASSUME NEW x \in E, NEW k \in 0 .. h[x].naccess, <<x, k>> # <<c, v>>
        PROVE  k \in 0 .. heap[x].naccess
    <3>1. h[x].naccess = IF x = c THEN v ELSE heap[x].naccess
      BY <1>2, <1>9
    <3>2. CASE x = c
      <4>1. k # v /\ k \in 0 .. v
        BY <2>2, <3>1, <3>2
      <4>2. QED
        BY <1>12, <2>1, <3>2, <4>1
    <3>3. QED
      BY <3>1, <3>2
  <2>3. ASSUME NEW x \in E, NEW k \in 0 .. heap[x].naccess
        PROVE  k \in 0 .. h[x].naccess /\ <<x, k>> # <<c, v>>
    <3>1. h[x].naccess = IF x = c THEN v ELSE heap[x].naccess
      BY <1>2, <1>9
    <3>2. CASE x = c
      <4>1. k \in 0 .. v /\ k # v
        BY <1>12, <2>1, <3>2
      <4>2. QED
        BY <3>1, <3>2, <4>1
    <3>3. QED
      BY <3>1, <3>2
  <2>4. v \in 0 .. h[c].naccess
    BY <1>3, <1>9
  <2>5. \A p : p \in C <=> \E x \in E : \E k \in 0 .. heap[x].naccess : p = <<x, k>>
    BY InCounted
  <2>6. \A p : p \in Counted(h, E) <=> \E x \in E : \E k \in 0 .. h[x].naccess : p = <<x, k>>
    BY ONLY InCounted
  <2> HIDE DEF C
  <2>7. <<c, v>> \notin C
    BY <2>3, <2>5
  <2>8. ASSUME NEW p PROVE p \in Counted(h, E) => p \in C \/ p = <<c, v>>
    BY <2>2, <2>5, <2>6
  <2>9. ASSUME NEW p, p \in C \/ p = <<c, v>> PROVE p \in Counted(h, E)
    <3>1. CASE p \in C
      <4>1. PICK x \in E : \E k \in 0 .. heap[x].naccess : p = <<x, k>>
        BY <2>5, <3>1
      <4>2. \E k \in 0 .. h[x].naccess : p = <<x, k>>
        BY <2>3, <4>1
      <4>3. QED
        BY <2>6, <4>2
    <3>2. CASE p = <<c, v>>
      <4>1. \E k \in 0 .. h[c].naccess : p = <<c, k>>
        BY <2>4, <3>2
      <4>2. QED
        BY <2>1, <2>6, <4>1
    <3>3. QED
      BY <2>9, <3>1, <3>2
  <2>10. QED
    BY <2>7, <2>8, <2>9
<1>14. IsFiniteSet(C) /\ Cardinality(C) = n
  BY DEF Listed, E
<1> DEFINE one == <<c, v>>
<1> HIDE DEF C, one
<1>15. IsFiniteSet(Counted(h, E)) /\ Cardinality(Counted(h, E)) = n + 1
  <2>1. Counted(h, E) = C \union {one} /\ one \notin C
    BY <1>13 DEF one
  <2>2. /\ IsFiniteSet(C \union {one})
        /\ Cardinality(C \union {one}) = Cardinality(C) + 1
    BY <1>14, <2>1, FS_AddElement
  <2>3. QED
    BY <1>14, <2>1, <2>2
<1>16. QED
  BY <1>9, <1>10, <1>11, <1>15 DEF Listed, E

\* The first sample of a new chain.
LEMMA CountsFirst ==
  ASSUME NEW heap, NEW list, NEW q, NEW n \in Nat, Listed(heap, list, q, n),
         NEW entries \in Seq(Callers),
         \A i \in 1 .. Len(q) : heap[q[i]].entries # entries
  PROVE  LET a == AttachTail(Append(heap, Chain(entries)), list, Len(heap) + 1)
         IN  Listed(a[1], a[2], Append(q, Len(heap) + 1), n + 1)
<1> DEFINE H == Len(heap)
           c == H + 1
           g == Append(heap, Chain(entries))
           a == AttachTail(g, list, c)
           h == a[1]
           w == Append(q, c)
           E == Elements(q)
           Nodes == [entries : Seq(Callers), naccess : Nat, prev : Nat, next : Nat]
<1>1. heap \in Heaps /\ Linked(heap, list, q) /\ Distinct(heap, E)
  BY DEF Listed
<1>2. H \in Nat /\ DOMAIN heap = 1 .. H /\ heap \in Seq(Nodes)
  BY <1>1, HeapFacts DEF Heaps
<1>3. Chain(entries) \in Nodes /\ Chain(entries).naccess = 0 /\ Chain(entries).entries = entries
  BY DEF Chain, Null
<1> HIDE DEF Nodes
<1>4. /\ g \in Seq(Nodes) /\ Len(g) = H + 1 /\ g[H + 1] = Chain(entries)
      /\ \A x \in 1 .. H : g[x] = heap[x]
  BY <1>2, <1>3, AppendProperties
<1>5. g \in Heaps
  BY <1>4 DEF Heaps, Nodes
<1>6. DOMAIN g = 1 .. H + 1
  BY <1>4, <1>5, HeapFacts
<1> HIDE DEF g, H
<1>7. /\ Len(q) \in Nat /\ DOMAIN q = 1 .. Len(q)
      /\ \A i \in 1 .. Len(q) : q[i] \in 1 .. H /\ q[i] # c
  <2>1. Len(q) \in Nat /\ DOMAIN q = 1 .. Len(q) /\ \A i \in 1 .. Len(q) : q[i] \in 1 .. H
    BY <1>1, <1>2, LinkedFacts
  <2>2. QED
    BY <1>2, <2>1
<1>8. c \in DOMAIN g /\ c = H + 1
  BY <1>2, <1>6
<1> HIDE DEF c
<1>9. Linked(g, list, q)
  <2>1. q \in Seq(DOMAIN g)
    <3>1. q \in Seq(1 .. H)
      BY <1>1, <1>2 DEF Linked
    <3>2. 1 .. H \subseteq 1 .. H + 1
      BY <1>2
    <3>3. QED
      BY <1>6, <3>1, <3>2, SeqMonotonic
  <2>2. \A i \in 1 .. Len(q) : g[q[i]] = heap[q[i]]
    BY <1>4, <1>7
  <2>3. QED
    BY <1>1, <2>1, <2>2 DEF Linked
<1>10. Linked(h, a[2], w) /\ Relinked(g, h, {c} \union E)
  BY <1>5, <1>7, <1>8, <1>9, AttachTailAppends
<1> HIDE DEF a
<1>11. /\ h \in Heaps
       /\ \A x \in 1 .. H + 1 : h[x].entries = g[x].entries /\ h[x].naccess = g[x].naccess
  BY <1>6, <1>10 DEF Relinked
<1> HIDE DEF h
<1>12. Elements(w) = E \union {c}
  <2>1. Len(w) = Len(q) + 1 /\ w[Len(q) + 1] = c /\ \A i \in 1 .. Len(q) : w[i] = q[i]
    <3>1. q \in Seq(1 .. H + 1) /\ c \in 1 .. H + 1
      BY <1>6, <1>8, <1>9 DEF Linked
    <3>2. QED
      BY <3>1, AppendProperties
  <2> HIDE DEF w
  <2> DEFINE m == Len(q)
  <2>2. m \in Nat
    BY <1>7
  <2> HIDE DEF m
  <2>3. /\ \A i \in 1 .. m + 1 : i \in 1 .. m \/ i = m + 1
        /\ \A i \in 1 .. m : i \in 1 .. m + 1
        /\ m + 1 \in 1 .. m + 1
    BY <2>2
  <2>4. QED
    BY <2>1, <2>3 DEF Elements, m
<1>13. /\ h[c].entries = entries /\ h[c].naccess = 0
       /\ \A x \in E : /\ h[x].entries = heap[x].entries /\ heap[x].entries # entries
                       /\ h[x].naccess = heap[x].naccess
                       /\ x # c
  <2>1. \A x \in E : x \in 1 .. H /\ x \in 1 .. H + 1 /\ x # c /\ heap[x].entries # entries
    BY <1>2, <1>7 DEF Elements
  <2>2. H + 1 \in 1 .. H + 1
    BY <1>2
  <2>3. QED
    BY <1>3, <1>4, <1>8, <1>11, <2>1, <2>2
<1> HIDE DEF E
<1>14. Distinct(h, E \union {c})
  BY <1>1, <1>13 DEF Distinct
<1> DEFINE C == Counted(heap, E)
           D == E \union {c}
<1>15. Counted(h, D) = C \union {<<c, 0>>} /\ <<c, 0>> \notin C
  <2>1. \A p : p \in C <=> \E x \in E : \E k \in 0 .. heap[x].naccess : p = <<x, k>>
    BY InCounted
  <2>2. \A p : p \in Counted(h, D) <=> \E x \in D : \E k \in 0 .. h[x].naccess : p = <<x, k>>
    BY InCounted
  <2>3. \A k \in 0 .. h[c].naccess : k = 0
    BY <1>13
  <2>4. 0 \in 0 .. h[c].naccess
    BY <1>13
  <2> HIDE DEF C
  <2>5. ASSUME NEW p PROVE p \in Counted(h, D) => p \in C \/ p = <<c, 0>>
    BY <1>13, <2>1, <2>2, <2>3
  <2>6. ASSUME NEW p, p \in C \/ p = <<c, 0>> PROVE p \in Counted(h, D)
    <3>1. CASE p \in C
      <4>1. PICK x \in E : \E k \in 0 .. heap[x].naccess : p = <<x, k>>
        BY <2>1, <3>1
      <4>2. x \in D /\ \E k \in 0 .. h[x].naccess : p = <<x, k>>
        BY <1>13, <4>1
      <4>3. QED
        BY <2>2, <4>2
    <3>2. CASE p = <<c, 0>>
      <4>1. c \in D /\ \E k \in 0 .. h[c].naccess : p = <<c, k>>
        BY <2>4, <3>2
      <4>2. QED
        BY <2>2, <4>1
    <3>3. QED
      BY <2>6, <3>1, <3>2
  <2>7. <<c, 0>> \notin C
    BY <1>13, <2>1
  <2> HIDE DEF D
  <2>8. QED
    BY <2>5, <2>6, <2>7
<1>16. IsFiniteSet(C) /\ Cardinality(C) = n
  BY DEF Listed, E
<1> DEFINE one == <<c, 0>>
<1> HIDE DEF C, one
<1>17. IsFiniteSet(Counted(h, D)) /\ Cardinality(Counted(h, D)) = n + 1
  <2> HIDE DEF D
  <2>1. Counted(h, D) = C \union {one} /\ one \notin C
    BY <1>15 DEF one
  <2>2. /\ IsFiniteSet(C \union {one})
        /\ Cardinality(C \union {one}) = Cardinality(C) + 1
    BY <1>16, <2>1, FS_AddElement
  <2>3. QED
    BY <1>16, <2>1, <2>2
<1> HIDE DEF w
<1>18. Listed(h, a[2], w, n + 1)
  BY <1>10, <1>11, <1>12, <1>14, <1>17 DEF Listed
<1>19. QED
  BY <1>18 DEF w, h, a, g, c, H

\* One sample more is counted, in a chain that is there or in a new one.
LEMMA ChainAddCounts ==
  ASSUME NEW heap, NEW list, NEW q, NEW n \in Nat, Listed(heap, list, q, n),
         NEW ips, NEW entries \in Seq(Callers),
         \A chain : chain.entries = entries => IpsExist(chain, ips)
  PROVE  LET a == ChainAdd(heap, list, ips, entries) IN
         /\ a = <<a[1], a[2]>>
         /\ \E x : Listed(a[1], a[2], x, n + 1)
<1> DEFINE c == ChainFind(heap, list, ips)
           h == [heap EXCEPT ![c].naccess = @ + 1]
           b == AttachTail(Append(heap, Chain(entries)), list, Len(heap) + 1)
           a == ChainAdd(heap, list, ips, entries)
<1>1. heap \in Heaps /\ Linked(heap, list, q)
  BY DEF Listed
<1>2. /\ c = Null => \A i \in 1 .. Len(q) : ~IpsExist(heap[q[i]], ips)
      /\ c # Null => c \in Elements(q)
  BY <1>1, ChainFindIs
<1>3. a = IF c # Null THEN <<h, list>> ELSE b
  BY Zenon DEF ChainAdd
<1>4. CASE c # Null
  <2>1. a = <<h, list>>
    BY <1>3, <1>4, Zenon
  <2>2. Listed(h, list, q, n + 1)
    <3> HIDE DEF c
    <3>1. c \in Elements(q)
      BY <1>2, <1>4
    <3>2. QED
      BY <3>1, CountsOne
  <2> HIDE DEF h, a
  <2>3. QED
    BY <2>1, <2>2 DEF a
<1>5. CASE c = Null
  <2>1. a = b
    BY <1>3, <1>5, Zenon
  <2>2. \A i \in 1 .. Len(q) : heap[q[i]].entries # entries
    BY <1>2, <1>5
  <2>3. Listed(b[1], b[2], Append(q, Len(heap) + 1), n + 1)
    BY <2>2, CountsFirst
  <2>4. b = <<b[1], b[2]>>
    BY DEF AttachTail
  <2> HIDE DEF a, b
  <2>5. QED
    BY <2>1, <2>3, <2>4 DEF a
<1>6. QED
  BY <1>4, <1>5

-----------------------------------------------------------------------------
(* The windows of the call-chains.                                         *)

\* Every sample is added, and the list is then sorted.
LEMMA ChainListCounts ==
  ASSUME NEW s \in States, NEW samples \in Seq(Seq(0 .. AddrLimit - 1))
  PROVE  LET r == ChainList(s, samples) IN
         \E w : /\ Listed(r[1], r[2], w, Len(samples))
                /\ \A i, j \in 1 .. Len(w) : i < j => r[1][w[i]].naccess >= r[1][w[j]].naccess
<1> DEFINE N == Len(samples)
           All == Heaps \X Lists
           ok(n, h, l) == \E q : Listed(h, l, q, n)
           Good == [n \in 0 .. N |-> {x \in All : ok(n, x[1], x[2])}]
           first == <<<<>>, NoList>>
           next(x, n) == ChainAdd(x[1], x[2], samples[n], ChainOf(s, samples[n]))
           G == [n \in 1 .. N |-> [x \in All |-> IF next(x, n) \in All THEN next(x, n) ELSE x]]
           add == CHOOSE f : f = [n \in 0 .. N |-> IF n = 0 THEN first ELSE next(f[n - 1], n)]
<1>1. /\ N \in Nat /\ 0 \in 0 .. N /\ N \in 0 .. N
      /\ \A n \in 1 .. N : n - 1 \in 0 .. N /\ n \in 0 .. N /\ n - 1 \in Nat /\ n - 1 + 1 = n
      /\ \A n \in 1 .. N : samples[n] \in Seq(0 .. AddrLimit - 1)
  <2> DEFINE A == Seq(0 .. AddrLimit - 1)
  <2> HIDE DEF A
  <2>1. samples \in Seq(A)
    BY DEF A
  <2>2. N \in Nat /\ \A n \in 1 .. N : samples[n] \in A
    BY <2>1, ElementOfSeq
  <2> HIDE DEF N
  <2>3. QED
    BY <2>2 DEF A
<1>2. ChainList(s, samples) = Resort(add[N][1], add[N][2])
  BY Zenon DEF ChainList
<1>3. \A n \in 0 .. N : \A x : x \in Good[n] <=> x \in All /\ ok(n, x[1], x[2])
  OBVIOUS
<1>4. Linked(<<>>, NoList, <<>>) /\ <<>> \in Heaps /\ NoList \in Lists
  BY DEF NoList, Lists, Linked, OnceEach, Null, Heaps
<1>5. first \in Good[0]
  <2>1. Elements(<<>>) = {} /\ Counted(<<>>, {}) = {}
    BY DEF Elements, Counted
  <2>2. IsFiniteSet({}) /\ Cardinality({}) = 0
    BY FS_EmptySet
  <2>3. Listed(<<>>, NoList, <<>>, 0)
    BY <1>4, <2>1, <2>2 DEF Listed, Distinct
  <2>4. ok(0, <<>>, NoList) /\ first \in All
    BY <1>4, <2>3
  <2> HIDE DEF Good, ok
  <2>5. QED
    BY <1>1, <1>3, <2>4
<1>6. ASSUME NEW n \in 1 .. N, NEW x \in Good[n - 1] PROVE next(x, n) \in Good[n]
  <2> DEFINE a == next(x, n)
             entries == ChainOf(s, samples[n])
  <2>1. x \in All /\ ok(n - 1, x[1], x[2])
    <3> HIDE DEF Good, ok, All
    <3>1. QED
      BY <1>1, <1>3
  <2>2. PICK q : Listed(x[1], x[2], q, n - 1)
    BY <2>1
  <2>3. entries \in Seq(Callers) /\ \A chain : chain.entries = entries => IpsExist(chain, samples[n])
    <3> DEFINE ips == samples[n]
    <3>1. ips \in Seq(0 .. AddrLimit - 1)
      BY <1>1
    <3> HIDE DEF ips
    <3>2. ASSUME NEW chain, chain.entries = ChainOf(s, ips)
          PROVE  ChainOf(s, ips) \in Seq(Callers) /\ IpsExist(chain, ips)
      BY <3>1, <3>2, ChainOfHit
    <3>3. Chain(ChainOf(s, ips)).entries = ChainOf(s, ips)
      BY DEF Chain
    <3>4. QED
      BY <3>2, <3>3 DEF ips
  <2>4. a = <<a[1], a[2]>> /\ \E y : Listed(a[1], a[2], y, n - 1 + 1)
    <3> HIDE DEF entries
    <3>1. n - 1 \in Nat
      BY <1>1
    <3>2. LET b == ChainAdd(x[1], x[2], samples[n], entries) IN
          b = <<b[1], b[2]>> /\ \E y : Listed(b[1], b[2], y, n - 1 + 1)
      BY <2>2, <2>3, <3>1, ChainAddCounts
    <3>3. QED
      BY <3>2, Zenon DEF entries
  <2>5. PICK y : Listed(a[1], a[2], y, n)
    BY <1>1, <2>4
  <2> HIDE DEF next, a
  <2>6. a[1] \in Heaps /\ a[2] \in Lists
    BY <2>5 DEF Listed, Linked
  <2>7. a \in All /\ ok(n, a[1], a[2])
    BY <2>4, <2>5, <2>6
  <2> HIDE DEF ok, Good, All
  <2>8. QED
    BY <1>1, <1>3, <2>7 DEF a
<1> HIDE DEF Good, next, first, ok
<1>7. \A n \in 1 .. N : \A x \in Good[n - 1] : G[n][x] = next(x, n) /\ G[n][x] \in Good[n]
  <2> SUFFICES ASSUME NEW n \in 1 .. N, NEW x \in Good[n - 1]
               PROVE  G[n][x] = next(x, n) /\ G[n][x] \in Good[n]
    OBVIOUS
  <2>1. x \in All /\ next(x, n) \in Good[n] /\ next(x, n) \in All
    BY <1>1, <1>3, <1>6
  <2> HIDE DEF All
  <2>2. QED
    BY <2>1
<1> HIDE DEF All, N
<1>8. G \in [1 .. N -> [All -> All]]
  OBVIOUS
<1> HIDE DEF G
<1>9. Good \in [0 .. N -> SUBSET All]
  BY DEF Good
<1>10. PICK f \in [0 .. N -> All] :
         Follows(f, N, first, G) /\ \A n \in 0 .. N : f[n] \in Good[n]
  <2>1. Leads(N, G, Good)
    BY <1>7 DEF Leads
  <2>2. QED
    BY <1>1, <1>5, <1>8, <1>9, <2>1, RecursionIn
<1>11. \A n \in 0 .. N : f[n] = IF n = 0 THEN first ELSE next(f[n - 1], n)
  <2> SUFFICES ASSUME NEW n \in 0 .. N, n # 0 PROVE f[n] = next(f[n - 1], n)
    BY <1>10 DEF Follows
  <2>1. n \in 1 .. N /\ n - 1 \in 0 .. N
    BY <1>1
  <2>2. QED
    BY <1>7, <1>10, <2>1 DEF Follows
<1>12. f = [n \in 0 .. N |-> IF n = 0 THEN first ELSE next(f[n - 1], n)]
  BY <1>10, <1>11
<1>13. add = [n \in 0 .. N |-> IF n = 0 THEN first ELSE next(add[n - 1], n)]
  BY <1>12
<1> HIDE DEF add
<1>14. \A n \in 0 .. N : add[n] = IF n = 0 THEN first ELSE next(add[n - 1], n)
  BY <1>13, Zenon
<1> DEFINE S == {n \in 0 .. N : add[n] \in Good[n]}
<1>15. 0 \in S /\ \A n \in 1 .. N : n - 1 \in S => n \in S
  <2>1. 0 \in S
    BY <1>1, <1>5, <1>14
  <2>2. ASSUME NEW n \in 1 .. N, add[n - 1] \in Good[n - 1] PROVE add[n] \in Good[n]
    <3>1. n # 0 /\ n \in 0 .. N
      BY <1>1
    <3>2. QED
      BY <1>6, <1>14, <2>2, <3>1
  <2>3. QED
    BY <1>1, <2>1, <2>2
<1> HIDE DEF S
<1>16. \A n \in 0 .. N : n \in S
  BY <1>1, <1>15, Steps
<1>17. add[N] \in Good[N]
  BY <1>1, <1>16 DEF S
<1> DEFINE heap == add[N][1]
           list == add[N][2]
           r == Resort(heap, list)
<1>18. PICK q : Listed(heap, list, q, N)
  <2>1. ok(N, heap, list)
    BY <1>1, <1>3, <1>17
  <2>2. QED
    BY <2>1, Zenon DEF ok
<1> HIDE DEF heap, list
<1>19. /\ heap \in Heaps /\ Linked(heap, list, q) /\ Distinct(heap, Elements(q))
       /\ IsFiniteSet(Counted(heap, Elements(q)))
       /\ Cardinality(Counted(heap, Elements(q))) = N
  BY <1>18 DEF Listed
<1> DEFINE E == Elements(q)
<1>20. PICK w : /\ Relinked(heap, r[1], E) /\ Linked(r[1], r[2], w)
                /\ Elements(w) = E
                /\ \A i, j \in 1 .. Len(w) : i < j => heap[w[i]].naccess >= heap[w[j]].naccess
  BY <1>19, ResortSorts
<1> HIDE DEF r
<1>21. \A x \in E : x \in DOMAIN heap
  BY <1>19, LinkedFacts DEF Elements
<1>22. /\ r[1] \in Heaps
       /\ \A x \in E : r[1][x].entries = heap[x].entries /\ r[1][x].naccess = heap[x].naccess
  BY <1>20, <1>21 DEF Relinked
<1>23. \A i \in 1 .. Len(w) : w[i] \in E
  BY <1>20 DEF Elements
<1> HIDE DEF E
<1>24. Distinct(r[1], E)
  BY <1>19, <1>22 DEF Distinct, E
<1>25. Counted(r[1], E) = Counted(heap, E)
  BY <1>22 DEF Counted
<1>26. Listed(r[1], r[2], w, N)
  BY <1>19, <1>20, <1>22, <1>24, <1>25 DEF Listed, E
<1>27. \A i, j \in 1 .. Len(w) : i < j => r[1][w[i]].naccess >= r[1][w[j]].naccess
  BY <1>20, <1>22, <1>23
<1>28. QED
  BY <1>2, <1>26, <1>27 DEF r, heap, list, N

ListRight == ListWhole /\ OneChain

LEMMA ChainDrawRight ==
  ASSUME Typed, NEW samples \in Samples, ChainDraw(samples)
  PROVE  ListRight'
<1> DEFINE s == SymLoaded(MapLoaded)
           r == ChainList(s, samples)
<1>1. s \in States
  <2>1. MapLoaded \in Maps
    BY MapLoadedIs DEF Typed
  <2>2. QED
    BY <2>1, SymLoadedTyped
<1>2. samples \in Seq(Seq(0 .. AddrLimit - 1))
  BY SymbolsAssumption
<1>3. out' = [kind |-> "chains", samples |-> samples, list |-> r]
  BY DEF ChainDraw
<1> HIDE DEF s
<1>4. PICK w : /\ Listed(r[1], r[2], w, Len(samples))
               /\ \A i, j \in 1 .. Len(w) : i < j => r[1][w[i]].naccess >= r[1][w[j]].naccess
  BY <1>1, <1>2, ChainListCounts
<1> HIDE DEF r
<1>5. out'.kind = "chains" /\ out'.samples = samples /\ out'.list = r
  BY <1>3
<1>6. /\ r[1] \in Heaps /\ Linked(r[1], r[2], w) /\ Distinct(r[1], Elements(w))
      /\ Cardinality(Counted(r[1], Elements(w))) = Len(samples)
  BY <1>4 DEF Listed
<1>7. Chains(r[1], r[2]) = w /\ Links(r[2].tail, Prevs(r[1])) = Reverse(w)
  BY <1>6, ChainsAre
<1>8. /\ Len(w) \in Nat /\ DOMAIN w = 1 .. Len(w) /\ r[2].num = Len(w)
      /\ \A i, j \in 1 .. Len(w) : w[i] = w[j] => i = j
  BY <1>6, LinkedFacts
<1>9. Range(w) = Elements(w)
  BY <1>8 DEF Range, Elements
<1>10. Shown' = w
  BY <1>5, <1>7 DEF Shown
<1>11. UNION {{c} \X (0 .. r[1][c].naccess) : c \in Range(w)} = Counted(r[1], Elements(w))
  BY <1>9 DEF Counted
<1>12. ListWhole'
  <2> DEFINE counted == UNION {{c} \X (0 .. r[1][c].naccess) : c \in Range(w)}
  <2>1. Cardinality(counted) = Len(samples)
    BY <1>6, <1>11
  <2>2. \A i, j \in DOMAIN w : i < j => r[1][w[i]].naccess >= r[1][w[j]].naccess
    BY <1>4, <1>8
  <2>3. QED
    BY <1>5, <1>7, <1>8, <1>10, <2>1, <2>2 DEF ListWhole
<1>13. OneChain'
  <2>1. ASSUME NEW i \in DOMAIN w, NEW j \in DOMAIN w, i # j
        PROVE  r[1][w[i]].entries # r[1][w[j]].entries
    <3>1. w[i] \in Elements(w) /\ w[j] \in Elements(w) /\ w[i] # w[j]
      BY <1>8, <2>1 DEF Elements
    <3>2. QED
      BY <1>6, <3>1 DEF Distinct
  <2>2. QED
    BY <1>5, <1>10, <2>1 DEF OneChain
<1>14. QED
  BY <1>12, <1>13 DEF ListRight

LEMMA ListRightNext == Typed /\ ListRight /\ [Next]_vars => ListRight'
<1> SUFFICES ASSUME Typed, ListRight, [Next]_vars PROVE ListRight'
  OBVIOUS
<1>1. ASSUME UNCHANGED out PROVE ListRight'
  <2>1. Shown' = Shown
    BY <1>1 DEF Shown
  <2>2. ListWhole'
    BY <1>1, <2>1 DEF ListRight, ListWhole
  <2>3. OneChain'
    BY <1>1, <2>1 DEF ListRight, OneChain
  <2>4. QED
    BY <2>2, <2>3 DEF ListRight
<1>2. ASSUME out'.kind # "chains" PROVE ListRight'
  BY <1>2 DEF ListRight, ListWhole, OneChain
<1>3. ASSUME NEW t, NEW f, Mmap(t, f) PROVE ListRight'
  BY <1>1, <1>3 DEF Mmap, Change
<1>4. ASSUME NEW t, Cut(t) PROVE ListRight'
  BY <1>1, <1>4 DEF Cut, Change
<1>5. CASE Replace
  BY <1>1, <1>5 DEF Replace, Change
<1>6. CASE Retrack
  BY <1>1, <1>6 DEF Retrack, Change
<1>7. CASE Erase
  <2>1. out'.kind = "none"
    BY <1>7 DEF Erase, NoOut, None
  <2>2. QED
    BY <1>2, <2>1
<1>8. ASSUME NEW recs, LatDraw(recs) PROVE ListRight'
  <2>1. out'.kind = "lat"
    BY <1>8 DEF LatDraw
  <2>2. QED
    BY <1>2, <2>1
<1>9. ASSUME NEW area, NEW nids, NEW recs, LatnodeDraw(area, nids, recs) PROVE ListRight'
  <2>1. out'.kind = "latnode"
    BY <1>9 DEF LatnodeDraw
  <2>2. QED
    BY <1>2, <2>1
<1>10. ASSUME NEW samples \in Samples, ChainDraw(samples) PROVE ListRight'
  BY <1>10, ChainDrawRight
<1>11. CASE UNCHANGED vars
  BY <1>1, <1>11 DEF vars
<1>12. CASE ProcessStep
  BY <1>3, <1>4, <1>5, <1>6, <1>12 DEF ProcessStep
<1>13. CASE DrawStep
  BY <1>7, <1>8, <1>9, <1>10, <1>13 DEF DrawStep
<1>14. QED
  BY <1>11, <1>12, <1>13 DEF Next

LEMMA ListRightAlways == Spec => []ListRight
<1>1. Init => ListRight
  <2> SUFFICES ASSUME Init PROVE ListRight
    OBVIOUS
  <2>1. out.kind = "none"
    BY DEF Init, NoOut, None
  <2>2. QED
    BY <2>1 DEF ListRight, ListWhole, OneChain
<1>2. QED
  BY <1>1, TypedInit, TypedNext, ListRightNext, PTL DEF Spec

\* The list of call-chains is whole in both directions and in the order of the
\* accesses, and each sample is counted in one chain, for any number of samples
\* of any callers: what chainlist_detach and chainlist_attach_tail do to the
\* links leaves no chain out, whichever one is moved.
THEOREM ListsWhole == Spec => []ListWhole
<1>1. ListRight => ListWhole
  BY DEF ListRight
<1>2. QED
  BY <1>1, ListRightAlways, PTL

\* There are no two chains of the same callers: each address of a sample is in
\* the range that sym_resolve gave to it when the chain was made, whatever
\* images and libraries were read, so that ips_exist finds the chain again.
THEOREM ChainsDiffer == Spec => []OneChain
<1>1. ListRight => OneChain
  BY DEF ListRight
<1>2. QED
  BY <1>1, ListRightAlways, PTL

-----------------------------------------------------------------------------
(* Names.                                                                  *)

\* Two functions are apart, or of the same range.
NoOverlap(y, z) ==
  \/ y.off + y.size <= z.off \/ z.off + z.size <= y.off
  \/ y.off = z.off /\ y.size = z.size

\* bsearch finds a function of the address if there is one.
LEMMA ResolveFinds ==
  ASSUME NEW items \in Tables, NEW off \in Nat,
         \A i, j \in DOMAIN items : NoOverlap(items[i], items[j]),
         NEW k \in DOMAIN items, Covers(items[k], off)
  PROVE  Resolve(items, off) # <<>>
<1> DEFINE cmp == OffCmps(items, off)
           n == Len(items)
<1>1. items \in Seq(ItemSet) /\ InOrder(items)
  BY DEF Tables
<1>2. /\ n \in Nat /\ DOMAIN items = 1 .. n /\ Len(cmp) = n
      /\ \A j \in 1 .. n : /\ items[j] \in ItemSet /\ cmp[j] \in Int
                           /\ cmp[j] = OffCmp(off, items[j])
  BY <1>1, OffCmpsAre
<1> HIDE DEF cmp, n
<1>3. \A j \in 1 .. n : /\ items[j].off \in Nat /\ items[j].size \in Nat \ {0}
                        /\ cmp[j] = 0 <=> Covers(items[j], off)
                        /\ cmp[j] > 0 <=> items[j].off + items[j].size <= off
                        /\ cmp[j] < 0 <=> off < items[j].off
  BY <1>2, OffCmpIs
<1>4. Sorted(cmp)
  <2> SUFFICES ASSUME NEW i \in 1 .. n, NEW j \in 1 .. n, i < j
               PROVE  (cmp[i] < 0 => cmp[j] < 0) /\ (cmp[j] > 0 => cmp[i] > 0)
    BY <1>2 DEF Sorted
  <2>1. items[i].off <= items[j].off
    BY <1>1, <1>2 DEF InOrder
  <2>2. NoOverlap(items[i], items[j])
    BY <1>2
  <2>3. cmp[i] < 0 => cmp[j] < 0
    BY <1>3, <2>1
  <2>4. ASSUME cmp[j] > 0 PROVE cmp[i] > 0
    <3>1. items[j].off + items[j].size <= off
      BY <1>3, <2>4
    <3>2. items[i].off + items[i].size <= off
      BY <1>3, <2>1, <2>2, <3>1 DEF NoOverlap
    <3>3. QED
      BY <1>3, <3>2
  <2>5. QED
    BY <2>3, <2>4
<1>5. \E z \in 1 .. Len(cmp) : cmp[z] = 0
  BY <1>2, <1>3
<1>6. Bsearch(cmp) # 0
  BY <1>2, <1>4, <1>5, BsearchFinds
<1>7. QED
  BY <1>1, <1>6, ResolveCovers DEF cmp

\* The table of a file that claims to begin at 0 is its functions.
LEMMA BinaryIs ==
  ASSUME NEW f \in Files, Attr(f).vaddr = 0
  PROVE  /\ Binary[f] \in Tables
         /\ \A k \in DOMAIN Binary[f] : \E j \in DOMAIN Attr(f).syms :
              /\ Attr(f).syms[j] \in Range(Attr(f).syms)
              /\ Binary[f][k].name = Attr(f).syms[j].name
              /\ Binary[f][k].off = Attr(f).syms[j].at
              /\ Binary[f][k].size = Attr(f).syms[j].size
         /\ \A j \in DOMAIN Attr(f).syms : \E k \in DOMAIN Binary[f] :
              /\ Binary[f][k].off = Attr(f).syms[j].at
              /\ Binary[f][k].size = Attr(f).syms[j].size
<1> DEFINE items == Items(f)
           syms == Attr(f).syms
           same(y, z) == y.name = z.name /\ y.off = z.at /\ y.size = z.size
<1>1. /\ items \in Seq(ItemSet) /\ DOMAIN items = DOMAIN syms
      /\ \A i \in DOMAIN items : syms[i] \in Range(syms) /\ same(items[i], syms[i])
  <2>1. /\ items \in Seq(ItemSet) /\ DOMAIN items = DOMAIN syms
        /\ \A i \in DOMAIN items :
             /\ syms[i] \in Range(syms) /\ items[i].name = syms[i].name
             /\ items[i].size = syms[i].size /\ items[i].off = syms[i].at - 0
    BY ItemsTyped
  <2>2. \A y \in Range(syms) : y.at \in Nat
    BY SymbolsAssumption
  <2> HIDE DEF items, syms
  <2>3. QED
    BY <2>1, <2>2
<1>2. Binary[f] = ItemSort(items)
  BY DEF Binary
<1> HIDE DEF items, syms, same
<1>3. /\ Binary[f] \in Tables
      /\ \A k \in DOMAIN Binary[f] : \E i \in DOMAIN items : Binary[f][k] = items[i]
      /\ \A i \in DOMAIN items : \E k \in DOMAIN Binary[f] : Binary[f][k] = items[i]
  BY <1>1, <1>2, ItemSortSorts
<1>4. \A k \in DOMAIN Binary[f] : \E j \in DOMAIN syms :
        syms[j] \in Range(syms) /\ same(Binary[f][k], syms[j])
  BY <1>1, <1>3
<1>5. \A j \in DOMAIN syms : \E k \in DOMAIN Binary[f] : same(Binary[f][k], syms[j])
  BY <1>1, <1>3
<1>6. QED
  BY <1>3, <1>4, <1>5 DEF same, syms

\* The slot of an area.
SlotOf(e) == e.start \div Span

LEMMA SlotIs ==
  ASSUME NEW x \in Nat, NEW t \in Slots, Base(t) <= x, x < Base(t) + Span
  PROVE  x \div Span = t
<1>1. t \in Nat /\ Span \in Nat \ {0}
  BY SpanFacts DEF Slots
<1>2. Base(t + 1) = Base(t) + Span
  BY <1>1, BaseFacts
<1>3. t * Span <= x /\ x < (t + 1) * Span
  BY <1>2 DEF Base
<1>4. QED
  BY <1>1, <1>3, DivIs

LEMMA EntrySlot ==
  ASSUME NEW m \in Maps, NEW i \in DOMAIN m.arr
  PROVE  /\ SlotOf(m.arr[i]) \in Slots /\ m.arr[i] \in Entries /\ m.arr[i].start \in Bases
         /\ Base(SlotOf(m.arr[i])) \in Nat
         /\ Base(SlotOf(m.arr[i])) <= m.arr[i].start
         /\ m.arr[i].end <= Base(SlotOf(m.arr[i])) + Span
         /\ m.arr[i].off = 0 => m.arr[i].start = Base(SlotOf(m.arr[i]))
<1> DEFINE e == m.arr[i]
<1>1. e \in Entries /\ e.start \in Bases
  BY EntryInMemory
<1>2. PICK t \in Slots : /\ Base(t) <= e.start /\ e.end <= Base(t + 1)
                         /\ e.off = 0 => e.start = Base(t)
  BY DEF Maps, Slotted
<1>3. e.start < e.end
  BY DEF Maps, Apart
<1> HIDE DEF e
<1>4. e.start \in Nat /\ e.end \in Nat
  BY <1>1 DEF Entries
<1>5. t \in Nat
  BY SpanFacts DEF Slots
<1>6. Base(t) \in Nat /\ Base(t + 1) = Base(t) + Span /\ Span \in Nat
  BY <1>5, BaseFacts, SpanFacts
<1>7. e.start < Base(t) + Span
  BY <1>2, <1>3, <1>4, <1>6
<1>8. SlotOf(e) = t
  BY <1>2, <1>4, <1>7, SlotIs DEF SlotOf
<1>9. QED
  BY <1>1, <1>2, <1>6, <1>8 DEF e

\* The files that were seen, w, are where the symbols are from, as long as no
\* part of a file was seen that is not its beginning.
From(s, w, whole) ==
  /\ s.images = 0 => s.image.items = <<>>
  /\ whole /\ s.images <= 1 /\ s.image.items # <<>> =>
       \E t \in Slots : \E f \in w[t] : s.image = [items |-> Binary[f], base |-> Base(t)]
  /\ whole => \A k \in DOMAIN s.libref : \E t \in Slots : \E f \in w[t] :
       s.libref[k] = [file |-> s.libs[Attr(f).path], base |-> Base(t)]

\* The symbols of f are there, if they could be read, and f was at base.
Has(s, f, base) ==
  Attr(f).readable /\ f # Replaced.old =>
    /\ Attr(f).lib => \E k \in DOMAIN s.libref :
         s.libref[k] = [file |-> s.libs[Attr(f).path], base |-> base]
    /\ ~Attr(f).lib => /\ s.images >= 1
                       /\ s.images = 1 => s.image = [items |-> Binary[f], base |-> base]

Seens == [Slots -> SUBSET Files]

LEMMA ImageRead ==
  ASSUME NEW s \in States, NEW e \in Entries, NEW w \in Seens, NEW t \in Slots,
         NEW whole \in BOOLEAN, From(s, w, whole),
         e.file \in w[t], whole => e.start = Base(t), ~Attr(e.file).lib
  PROVE  LET r == ImageSymRead(s, e) IN
         /\ From(r, w, whole) /\ Has(r, e.file, e.start)
         /\ \A f \in Files, b \in Nat : Has(s, f, b) => Has(r, f, b)
<1> DEFINE r == ImageSymRead(s, e)
           x == [items |-> ItemSort(s.image.items \o Items(e.file)), base |-> e.start]
<1>1. e.file \in Files /\ s.images \in Nat
  BY DEF Entries, States
<1>2. CASE ~Readable(e.file)
  <2>1. r = s
    BY <1>2 DEF ImageSymRead
  <2>2. ~(Attr(e.file).readable /\ e.file # Replaced.old)
    BY <1>2 DEF Readable, OnDisk
  <2> HIDE DEF r
  <2>3. Has(r, e.file, e.start)
    BY <2>2 DEF Has
  <2>4. QED
    BY <2>1, <2>3 DEF r
<1>3. CASE Readable(e.file)
  <2>1. r = [s EXCEPT !.image = x, !.images = @ + 1]
    BY <1>3 DEF ImageSymRead
  <2>2. /\ r.image = x /\ r.images = s.images + 1 /\ r.libref = s.libref /\ r.libs = s.libs
    <3> HIDE DEF x, r
    <3>1. QED
      BY <2>1 DEF States
  <2>3. s.images = 0 => x = [items |-> Binary[e.file], base |-> e.start]
    <3> SUFFICES ASSUME s.images = 0 PROVE x = [items |-> Binary[e.file], base |-> e.start]
      OBVIOUS
    <3>1. s.image.items = <<>>
      BY DEF From
    <3>2. Items(e.file) \in Seq(ItemSet)
      BY <1>1, ItemsTyped
    <3>3. <<>> \o Items(e.file) = Items(e.file)
      BY <3>2
    <3>4. Binary[e.file] = ItemSort(Items(e.file))
      BY <1>1 DEF Binary
    <3>5. QED
      BY <3>1, <3>3, <3>4
  <2> HIDE DEF r, x
  <2>4. r.images # 0 /\ r.images >= 1 /\ (r.images <= 1 => s.images = 0) /\ (r.images = 1 => s.images = 0)
    BY <1>1, <2>2
  <2>5. From(r, w, whole)
    <3>1. whole /\ r.images <= 1 => r.image = [items |-> Binary[e.file], base |-> Base(t)]
      BY <2>2, <2>3, <2>4
    <3>2. whole /\ r.images <= 1 => \E u \in Slots : \E f \in w[u] :
            r.image = [items |-> Binary[f], base |-> Base(u)]
      BY <3>1
    <3>3. whole => \A k \in DOMAIN r.libref : \E u \in Slots : \E f \in w[u] :
            r.libref[k] = [file |-> r.libs[Attr(f).path], base |-> Base(u)]
      BY <2>2 DEF From
    <3>4. QED
      BY <2>4, <3>2, <3>3 DEF From
  <2>6. Has(r, e.file, e.start)
    BY <2>2, <2>3, <2>4 DEF Has
  <2>7. ASSUME NEW f \in Files, NEW b \in Nat, Has(s, f, b) PROVE Has(r, f, b)
    <3>1. s.images >= 1 => r.images # 1
      BY <2>4
    <3>2. QED
      BY <2>2, <2>4, <2>7, <3>1 DEF Has
  <2>8. QED
    BY <2>5, <2>6, <2>7 DEF r
<1>4. QED
  BY <1>2, <1>3

LEMMA LibRead ==
  ASSUME NEW s \in States, NEW e \in Entries, NEW w \in Seens, NEW t \in Slots,
         NEW whole \in BOOLEAN, From(s, w, whole),
         e.file \in w[t], whole => e.start = Base(t), Attr(e.file).lib
  PROVE  LET r == LibSymRead(s, e) IN
         /\ From(r, w, whole) /\ Has(r, e.file, e.start)
         /\ \A f \in Files, b \in Nat : Has(s, f, b) => Has(r, f, b)
<1> DEFINE r == LibSymRead(s, e)
           f == LibOf(s.libs, e.file)
           p == Attr(e.file).path
           ref == [file |-> f, base |-> e.start]
           l == [s.libs EXCEPT ![p] = f]
           n == Len(s.libref)
<1>1. /\ e.file \in Files /\ s.libref \in Seq(Refs) /\ s.libs \in [Paths -> Files \union {None}]
      /\ p \in Paths
  BY DEF Entries, States, Paths
<1>2. /\ f \in Files \union {None}
      /\ f # None /\ s.libs[p] # None => f = s.libs[p]
      /\ Attr(e.file).readable /\ e.file # Replaced.old => f # None
  <2>1. s.libs[p] \in Files \union {None} /\ e.file # None
    BY <1>1, SymbolsAssumption
  <2>2. f = IF ~OnDisk(e.file) THEN None ELSE IF s.libs[p] # None THEN s.libs[p]
            ELSE IF Readable(e.file) THEN e.file ELSE None
    BY DEF LibOf
  <2> HIDE DEF f, p
  <2>3. e.file # Replaced.old => OnDisk(e.file)
    BY DEF OnDisk
  <2>4. OnDisk(e.file) /\ Attr(e.file).readable => Readable(e.file)
    BY DEF Readable
  <2>5. QED
    BY <1>1, <2>1, <2>2, <2>3, <2>4
<1>3. r = IF f = None THEN s ELSE [s EXCEPT !.libs = l, !.libref = Append(s.libref, ref)]
  BY DEF LibSymRead
<1> HIDE DEF r, f, p
<1>4. CASE f = None
  <2>1. r = s
    BY <1>3, <1>4
  <2>2. Has(r, e.file, e.start)
    BY <1>2, <1>4 DEF Has
  <2>3. QED
    BY <2>1, <2>2 DEF r
<1>5. CASE f # None
  <2>1. r.libs = l /\ r.libref = Append(s.libref, ref) /\ r.image = s.image /\ r.images = s.images
    <3>1. r = [s EXCEPT !.libs = l, !.libref = Append(s.libref, ref)]
      BY <1>3, <1>5
    <3> HIDE DEF l, ref
    <3>2. QED
      BY <3>1 DEF States
  <2>2. l[p] = f /\ \A q \in Paths : s.libs[q] # None => l[q] = s.libs[q]
    BY <1>1, <1>2, <1>5
  <2>3. ref \in [file : Files \union {None}, base : Nat] /\ ref.file = f /\ ref.base = e.start
    BY <1>2 DEF Entries
  <2>4. /\ n \in Nat /\ DOMAIN s.libref = 1 .. n /\ \A k \in 1 .. n : s.libref[k] \in Refs
    BY <1>1, ElementOfSeq
  <2>5. \A k \in 1 .. n : s.libref[k].file # None
    BY <2>4, SymbolsAssumption DEF Refs
  <2>6. /\ DOMAIN r.libref = 1 .. n + 1 /\ r.libref[n + 1] = ref
        /\ \A k \in 1 .. n : r.libref[k] = s.libref[k]
    <3>1. s.libref \in Seq(Refs \union {ref}) /\ ref \in Refs \union {ref}
      <4>1. Refs \subseteq Refs \union {ref}
        OBVIOUS
      <4> HIDE DEF ref
      <4>2. QED
        BY <1>1, <4>1, SeqMonotonic
    <3> HIDE DEF ref
    <3>2. QED
      BY <2>1, <2>4, <3>1, AppendProperties
  <2> HIDE DEF n, l
  <2>7. \A g \in Files : Attr(g).path \in Paths
    BY DEF Paths
  <2>8. ASSUME NEW k \in 1 .. n, NEW g \in Files, NEW b,
               s.libref[k] = [file |-> s.libs[Attr(g).path], base |-> b]
        PROVE  r.libref[k] = [file |-> r.libs[Attr(g).path], base |-> b]
    <3>1. s.libs[Attr(g).path] # None
      BY <2>5, <2>8
    <3>2. r.libs[Attr(g).path] = s.libs[Attr(g).path]
      BY <2>1, <2>2, <2>7, <3>1
    <3>3. QED
      BY <2>6, <2>8, <3>2
  <2>9. r.libref[n + 1] = [file |-> r.libs[Attr(e.file).path], base |-> e.start]
    BY <2>1, <2>2, <2>6 DEF p
  <2>10. From(r, w, whole)
    <3>1. ASSUME whole, NEW k \in DOMAIN r.libref
          PROVE  \E u \in Slots : \E g \in w[u] :
                   r.libref[k] = [file |-> r.libs[Attr(g).path], base |-> Base(u)]
      <4>1. CASE k = n + 1
        BY <2>9, <3>1, <4>1
      <4>2. CASE k # n + 1
        <5>1. k \in 1 .. n
          BY <2>4, <2>6, <4>2
        <5>2. PICK u \in Slots : \E g \in w[u] :
                s.libref[k] = [file |-> s.libs[Attr(g).path], base |-> Base(u)]
          BY <2>4, <3>1, <5>1 DEF From
        <5>3. PICK g \in w[u] : s.libref[k] = [file |-> s.libs[Attr(g).path], base |-> Base(u)]
          BY <5>2
        <5>4. g \in Files
          BY DEF Seens
        <5>5. r.libref[k] = [file |-> r.libs[Attr(g).path], base |-> Base(u)]
          BY <2>8, <5>1, <5>3, <5>4
        <5>6. QED
          BY <5>5
      <4>3. QED
        BY <4>1, <4>2
    <3>2. QED
      BY <2>1, <3>1 DEF From
  <2>11. Has(r, e.file, e.start)
    <3>1. n + 1 \in DOMAIN r.libref
      BY <2>4, <2>6
    <3>2. QED
      BY <2>9, <3>1 DEF Has
  <2>12. ASSUME NEW g \in Files, NEW b \in Nat, Has(s, g, b) PROVE Has(r, g, b)
    <3> SUFFICES ASSUME Attr(g).readable, g # Replaced.old,
                        Attr(g).lib, NEW k \in DOMAIN s.libref,
                        s.libref[k] = [file |-> s.libs[Attr(g).path], base |-> b]
                 PROVE  \E i \in DOMAIN r.libref :
                          r.libref[i] = [file |-> r.libs[Attr(g).path], base |-> b]
      BY <2>1, <2>12 DEF Has
    <3>1. k \in 1 .. n /\ k \in DOMAIN r.libref
      BY <2>4, <2>6
    <3>2. QED
      BY <2>8, <3>1
  <2>13. QED
    BY <2>10, <2>11, <2>12 DEF r
<1>6. QED
  BY <1>4, <1>5

\* What sym_load does for an area of a slot.
LEMMA ResolvedHas ==
  ASSUME NEW s \in States, NEW e \in Entries, NEW w \in Seens, NEW t \in Slots,
         NEW whole \in BOOLEAN, From(s, w, whole),
         e.need /\ Attr(e.file).exec => e.file \in w[t], whole => e.start = Base(t)
  PROVE  LET r == Resolved(s, e) IN
         /\ From(r, w, whole)
         /\ e.need /\ Attr(e.file).exec => Has(r, e.file, e.start)
         /\ \A f \in Files, b \in Nat : Has(s, f, b) => Has(r, f, b)
<1>1. CASE ~(e.need /\ Attr(e.file).exec)
  BY <1>1 DEF Resolved
<1>2. CASE e.need /\ Attr(e.file).exec /\ Attr(e.file).lib
  <2>1. Resolved(s, e) = LibSymRead(s, e)
    BY <1>2 DEF Resolved
  <2>2. QED
    BY <1>2, <2>1, LibRead
<1>3. CASE e.need /\ Attr(e.file).exec /\ ~Attr(e.file).lib
  <2>1. Resolved(s, e) = ImageSymRead(s, e)
    BY <1>3 DEF Resolved
  <2>2. QED
    BY <1>3, <2>1, ImageRead
<1>4. QED
  BY <1>1, <1>2, <1>3

\* The areas that were asked have the symbols of a file that was seen there.
HasAll(s, arr, w) ==
  \A i \in DOMAIN arr :
    ~arr[i].need => \E f \in w[SlotOf(arr[i])] : Has(s, f, arr[i].start)

Whole(arr) == \A i \in DOMAIN arr : arr[i].off = 0

Traced ==
  /\ was \in Seens
  /\ ~parts => Whole(map.arr)
  /\ From(Read0, was, ~parts)
  /\ HasAll(Read0, map.arr, was)

More(w, v) == \A t \in Slots : w[t] \subseteq v[t]

LEMMA FromMore ==
  ASSUME NEW s, NEW w, NEW v, More(w, v), NEW whole \in BOOLEAN, NEW still \in BOOLEAN,
         From(s, w, whole), still => whole
  PROVE  From(s, v, still)
BY DEF From, More

LEMMA SeenIs ==
  ASSUME was \in Seens, NEW m \in Maps
  PROVE  /\ Seen(m) \in Seens /\ More(was, Seen(m))
         /\ \A i \in DOMAIN m.arr :
              Attr(m.arr[i].file).exec => m.arr[i].file \in Seen(m)[SlotOf(m.arr[i])]
<1> DEFINE new(t) == {m.arr[i].file : i \in {j \in DOMAIN m.arr :
                       m.arr[j].start \div Span = t /\ Attr(m.arr[j].file).exec}}
<1>1. \A i \in DOMAIN m.arr : m.arr[i].file \in Files /\ SlotOf(m.arr[i]) \in Slots
  BY EntrySlot DEF Entries
<1>2. \A t \in Slots : new(t) \subseteq Files
  BY <1>1
<1>3. \A i \in DOMAIN m.arr :
        Attr(m.arr[i].file).exec => m.arr[i].file \in new(SlotOf(m.arr[i]))
  BY DEF SlotOf
<1>4. Seen(m) = [t \in Slots |-> was[t] \union new(t)]
  BY DEF Seen
<1> HIDE DEF new
<1>5. QED
  BY <1>1, <1>2, <1>3, <1>4 DEF Seens, More

\* An area of a map that was just loaded has been asked only if one of the same
\* range was.
LEMMA LoadedHas ==
  ASSUME Typed, Traced
  PROVE  HasAll(Read0, MapLoaded.arr, was)
<1> DEFINE m == MapLoaded
<1>1. \A i \in DOMAIN m.arr : ~m.arr[i].need => \E j \in DOMAIN map.arr :
        map.arr[j].start = m.arr[i].start /\ ~map.arr[j].need
  BY MapLoadedIs DEF Typed
<1> HIDE DEF m
<1>2. SUFFICES ASSUME NEW i \in DOMAIN m.arr, ~m.arr[i].need
               PROVE  \E f \in was[SlotOf(m.arr[i])] : Has(Read0, f, m.arr[i].start)
  BY DEF HasAll, m
<1>3. PICK j \in DOMAIN map.arr : map.arr[j].start = m.arr[i].start /\ ~map.arr[j].need
  BY <1>1, <1>2
<1>4. SlotOf(map.arr[j]) = SlotOf(m.arr[i])
  BY <1>3 DEF SlotOf
<1>5. QED
  BY <1>3, <1>4 DEF Traced, HasAll

LEMMA LatDrawTraced ==
  ASSUME Typed, Traced, NEW recs, LatDraw(recs)
  PROVE  Traced'
<1> DEFINE m == MapLoaded
<1>1. m \in Maps
  BY MapLoadedIs DEF Typed
<1>2. HasAll(Read0, m.arr, was)
  BY LoadedHas
<1>3. /\ map' = m /\ was' = Seen(m)
      /\ parts' = (parts \/ \E i \in DOMAIN m.arr : m.arr[i].off # 0)
  BY DEF LatDraw
<1>4. Read0' = Read0
  BY DEF LatDraw, Read0
<1> HIDE DEF m
<1>5. was' \in Seens /\ More(was, was')
  BY <1>1, <1>3, SeenIs DEF Traced
<1>6. parts \in BOOLEAN /\ parts' \in BOOLEAN
  BY <1>3 DEF Typed
<1>7. ~parts' => ~parts /\ Whole(m.arr)
  BY <1>3, <1>6 DEF Whole
<1>8. From(Read0, was', ~parts')
  <2>1. From(Read0, was, ~parts)
    BY DEF Traced
  <2>2. QED
    BY <1>5, <1>6, <1>7, <2>1, FromMore
<1>9. HasAll(Read0, m.arr, was')
  <2>1. \A i \in DOMAIN m.arr : SlotOf(m.arr[i]) \in Slots
    BY <1>1, EntrySlot
  <2>2. QED
    BY <1>2, <1>5, <2>1 DEF HasAll, More
<1>10. QED
  BY <1>3, <1>4, <1>5, <1>7, <1>8, <1>9 DEF Traced

LEMMA ChainDrawTraced ==
  ASSUME Typed, Traced, NEW samples, ChainDraw(samples)
  PROVE  Traced'
<1> DEFINE m == MapLoaded
           N == Len(m.arr)
           w == Seen(m)
           whole == ~parts'
           exec(i) == Attr(m.arr[i].file).exec
<1>1. m \in Maps
  BY MapLoadedIs DEF Typed
<1>2. HasAll(Read0, m.arr, was)
  BY LoadedHas
<1>3. /\ map' = Asked(m) /\ was' = w
      /\ parts' = (parts \/ \E i \in DOMAIN m.arr : m.arr[i].off # 0)
      /\ image' = SymLoaded(m).image /\ images' = SymLoaded(m).images
      /\ libref' = SymLoaded(m).libref /\ libs' = SymLoaded(m).libs
  BY DEF ChainDraw
<1> HIDE DEF m
<1>4. /\ w \in Seens /\ More(was, w)
      /\ \A i \in DOMAIN m.arr : exec(i) => m.arr[i].file \in w[SlotOf(m.arr[i])]
  BY <1>1, SeenIs DEF Traced
<1>5. parts \in BOOLEAN /\ parts' \in BOOLEAN /\ whole \in BOOLEAN
  BY <1>3 DEF Typed
<1>6. whole => ~parts /\ Whole(m.arr)
  BY <1>3, <1>5 DEF Whole
<1> HIDE DEF whole, w
<1>7. From(Read0, w, whole)
  <2>1. From(Read0, was, ~parts)
    BY DEF Traced
  <2>2. QED
    BY <1>4, <1>5, <1>6, <2>1, FromMore
<1>8. \A i \in DOMAIN m.arr :
        /\ SlotOf(m.arr[i]) \in Slots /\ m.arr[i] \in Entries /\ m.arr[i].start \in Nat
        /\ m.arr[i].need \in BOOLEAN
        /\ whole => m.arr[i].start = Base(SlotOf(m.arr[i]))
  BY <1>1, <1>6, EntrySlot DEF Whole, Entries
<1>9. HasAll(Read0, m.arr, w)
  BY <1>2, <1>4, <1>8 DEF HasAll, More
<1>10. Read0 \in States
  BY DEF Typed, Read0, States
<1>11. PICK read \in [0 .. N -> States] :
        /\ read[0] = Read0 /\ SymLoaded(m) = read[N]
        /\ \A n \in 1 .. N : read[n] = Resolved(read[n - 1], m.arr[n])
  BY <1>1, <1>10, SymLoadedIs
<1>12. N \in Nat /\ DOMAIN m.arr = 1 .. N
  BY <1>1 DEF Maps, Apart
<1> DEFINE kept(x) == \A f \in Files, b \in Nat : Has(Read0, f, b) => Has(x, f, b)
           asked(x, k) == \A i \in 1 .. k :
             m.arr[i].need /\ exec(i) => Has(x, m.arr[i].file, m.arr[i].start)
           good(k) == From(read[k], w, whole) /\ kept(read[k]) /\ asked(read[k], k)
           S == {k \in 0 .. N : good(k)}
<1> HIDE DEF N, exec
<1>13. good(0)
  BY <1>7, <1>11
<1>14. ASSUME NEW k \in 1 .. N, good(k - 1) PROVE good(k)
  <2> DEFINE s == read[k - 1]
             r == read[k]
             e == m.arr[k]
  <2>1. k - 1 \in 0 .. N /\ k \in DOMAIN m.arr /\ k \in 0 .. N
    BY <1>12
  <2>2. s \in States /\ r = Resolved(s, e)
    BY <1>11, <2>1
  <2>3. /\ SlotOf(e) \in Slots /\ e \in Entries
        /\ whole => e.start = Base(SlotOf(e))
        /\ e.need /\ Attr(e.file).exec => e.file \in w[SlotOf(e)]
    BY <1>4, <1>8, <2>1 DEF exec
  <2>4. From(s, w, whole)
    BY <1>14
  <2> HIDE DEF s, r, e
  <2>5. /\ From(r, w, whole)
        /\ e.need /\ Attr(e.file).exec => Has(r, e.file, e.start)
        /\ \A f \in Files, b \in Nat : Has(s, f, b) => Has(r, f, b)
    BY <1>4, <1>5, <2>2, <2>3, <2>4, ResolvedHas
  <2>6. kept(r)
    BY <1>14, <2>5 DEF s
  <2>7. asked(r, k)
    <3> SUFFICES ASSUME NEW i \in 1 .. k, m.arr[i].need, exec(i)
                 PROVE  Has(r, m.arr[i].file, m.arr[i].start)
      OBVIOUS
    <3>1. CASE i = k
      BY <2>5, <3>1 DEF e, exec
    <3>2. CASE i # k
      <4>1. i \in 1 .. k - 1 /\ i \in DOMAIN m.arr
        BY <1>12, <3>2
      <4>2. Has(s, m.arr[i].file, m.arr[i].start)
        BY <1>14, <4>1 DEF s
      <4>3. m.arr[i].file \in Files /\ m.arr[i].start \in Nat
        BY <1>8, <4>1 DEF Entries
      <4>4. QED
        BY <2>5, <4>2, <4>3
    <3>3. QED
      BY <3>1, <3>2
  <2> HIDE DEF kept, asked
  <2>8. QED
    BY <2>5, <2>6, <2>7 DEF r
<1> HIDE DEF good
<1>15. good(N)
  <2>1. 0 \in S /\ \A k \in 1 .. N : k - 1 \in S => k \in S
    BY <1>12, <1>13, <1>14
  <2> HIDE DEF S
  <2>2. \A k \in 0 .. N : k \in S
    BY <1>12, <2>1, Steps
  <2>3. N \in S
    BY <1>12, <2>2
  <2>4. QED
    BY <2>3 DEF S
<1> DEFINE x == read[N]
<1>16. From(x, w, whole) /\ kept(x) /\ asked(x, N)
  BY <1>15 DEF good
<1>17. /\ Read0'.image = x.image /\ Read0'.images = x.images
       /\ Read0'.libref = x.libref /\ Read0'.libs = x.libs
  BY <1>3, <1>11 DEF Read0
<1> HIDE DEF x
<1>18. From(Read0', w, whole)
  BY <1>16, <1>17 DEF From
<1>19. \A f, b : Has(x, f, b) => Has(Read0', f, b)
  BY <1>17 DEF Has
<1>20. /\ DOMAIN Asked(m).arr = DOMAIN m.arr
       /\ \A i \in DOMAIN m.arr :
            /\ Asked(m).arr[i].start = m.arr[i].start /\ Asked(m).arr[i].off = m.arr[i].off
            /\ Asked(m).arr[i].need = (m.arr[i].need /\ ~exec(i))
  BY <1>1, AskedKeeps DEF exec
<1>21. HasAll(Read0', map'.arr, w)
  <2> SUFFICES ASSUME NEW i \in DOMAIN m.arr, ~Asked(m).arr[i].need
               PROVE  \E f \in w[SlotOf(Asked(m).arr[i])] : Has(Read0', f, Asked(m).arr[i].start)
    BY <1>3, <1>20 DEF HasAll
  <2>1. SlotOf(Asked(m).arr[i]) = SlotOf(m.arr[i]) /\ Asked(m).arr[i].start = m.arr[i].start
    BY <1>20 DEF SlotOf
  <2>2. \E f \in w[SlotOf(m.arr[i])] : Has(x, f, m.arr[i].start)
    <3>1. CASE ~m.arr[i].need
      <4>1. PICK f \in w[SlotOf(m.arr[i])] : Has(Read0, f, m.arr[i].start)
        BY <1>9, <3>1 DEF HasAll
      <4>2. f \in Files /\ m.arr[i].start \in Nat
        BY <1>4, <1>8 DEF Seens
      <4>3. QED
        BY <1>16, <4>1, <4>2
    <3>2. CASE m.arr[i].need
      <4>1. exec(i)
        BY <1>20, <3>2
      <4>2. Has(x, m.arr[i].file, m.arr[i].start)
        BY <1>12, <1>16, <3>2, <4>1
      <4>3. QED
        BY <1>4, <4>1, <4>2
    <3>3. QED
      BY <1>8, <3>1, <3>2
  <2>3. QED
    BY <1>19, <2>1, <2>2
<1>22. whole => Whole(map'.arr)
  BY <1>3, <1>6, <1>20 DEF Whole
<1>23. QED
  BY <1>3, <1>4, <1>18, <1>21, <1>22 DEF Traced, whole

LEMMA TracedInit == Init => Traced
<1> SUFFICES ASSUME Init PROVE Traced
  OBVIOUS
<1>1. /\ map = NoMap /\ image = NoImage /\ libref = <<>> /\ images = 0
      /\ was = [s \in Slots |-> {}]
  BY DEF Init
<1>2. /\ was \in Seens /\ Whole(map.arr) /\ HasAll(Read0, map.arr, was)
  BY <1>1 DEF Seens, Whole, HasAll, NoMap
<1>3. Read0.image.items = <<>> /\ Read0.libref = <<>>
  BY <1>1 DEF Read0, NoImage
<1>4. From(Read0, was, ~parts)
  BY <1>3 DEF From
<1>5. QED
  BY <1>2, <1>4 DEF Traced

LEMMA TracedNext == Typed /\ Traced /\ [Next]_vars => Traced'
<1> SUFFICES ASSUME Typed, Traced, [Next]_vars PROVE Traced'
  OBVIOUS
<1>1. ASSUME UNCHANGED Known PROVE Traced'
  BY <1>1 DEF Known, Traced, Read0, Whole, From, HasAll, Has, SlotOf
<1>2. ASSUME NEW t, NEW f, Mmap(t, f) PROVE Traced'
  BY <1>1, <1>2 DEF Mmap
<1>3. ASSUME NEW t, Cut(t) PROVE Traced'
  BY <1>1, <1>3 DEF Cut
<1>4. CASE Replace
  BY <1>1, <1>4 DEF Replace
<1>5. CASE Retrack
  <2>1. /\ map' = NoMap /\ image' = NoImage /\ libref' = <<>> /\ images' = 0
        /\ was' = [s \in Slots |-> {}]
    BY <1>5 DEF Retrack, Untracked
  <2>2. was' \in Seens /\ Whole(map'.arr) /\ HasAll(Read0', map'.arr, was')
    BY <2>1 DEF Seens, Whole, HasAll, NoMap
  <2>3. Read0'.image.items = <<>> /\ Read0'.libref = <<>>
    BY <2>1 DEF Read0, NoImage
  <2>4. From(Read0', was', ~parts')
    BY <2>3 DEF From
  <2>5. QED
    BY <2>2, <2>4 DEF Traced
<1>6. CASE Erase
  BY <1>1, <1>6 DEF Erase
<1>7. ASSUME NEW recs, LatDraw(recs) PROVE Traced'
  BY <1>7, LatDrawTraced
<1>8. ASSUME NEW area, NEW nids, NEW recs, LatnodeDraw(area, nids, recs) PROVE Traced'
  BY <1>1, <1>8 DEF LatnodeDraw
<1>9. ASSUME NEW samples, ChainDraw(samples) PROVE Traced'
  BY <1>9, ChainDrawTraced
<1>10. CASE UNCHANGED vars
  BY <1>1, <1>10 DEF vars, Known
<1>11. CASE ProcessStep
  BY <1>2, <1>3, <1>4, <1>5, <1>11 DEF ProcessStep
<1>12. CASE DrawStep
  BY <1>6, <1>7, <1>8, <1>9, <1>12 DEF DrawStep
<1>13. QED
  BY <1>10, <1>11, <1>12 DEF Next

LEMMA SlotBases == \A t \in Slots : Base(t) \in Bases /\ Base(t) \in Nat
<1> SUFFICES ASSUME NEW t \in Slots PROVE Base(t) \in Bases /\ Base(t) \in Nat
  OBVIOUS
<1>1. t \in Nat /\ NSlots + 1 \in Nat /\ t <= NSlots + 1
  BY SpanFacts DEF Slots
<1>2. /\ Base(t) \in Nat /\ Base(NSlots + 1) \in Nat
      /\ Base(t) <= Base(NSlots + 1)
  BY <1>1, BaseFacts
<1>3. QED
  BY <1>2 DEF Bases

\* What is found for an address in a slot in which only f was seen is found in
\* the table of f.
LEMMA FoundOfFile ==
  ASSUME Typed, Traced, ~parts, images <= 1,
         NEW s \in Slots, NEW f \in Files, was[s] = {f},
         libs[Attr(f).path] \in {None, f},
         NEW a \in 0 .. AddrLimit - 1, Base(s) <= a, a < Base(s) + Span,
         NEW x \in Tried(Current, a), x.items # <<>>
  PROVE  x = Table(Binary[f], Base(s), a)
<1>1. /\ Current.image = image /\ Current.libref = libref
      /\ Read0.image = image /\ Read0.libref = libref
      /\ Read0.images = images /\ Read0.libs = libs
  BY DEF Current, Read0
<1>2. image \in Images /\ libref \in Seq(Refs) /\ a \in Nat
  BY SpanFacts DEF Typed
<1>3. From(Read0, was, ~parts) /\ was \in Seens
  BY DEF Traced
<1>4. ASSUME NEW t \in Slots, NEW items \in Tables, x = Table(items, Base(t), a)
      PROVE  t = s /\ items # <<>>
  <2>1. Base(t) \in Bases /\ Base(t) \in Nat
    BY SlotBases
  <2> DEFINE y == Unique(x.items)
  <2>2. /\ y \in ItemSet /\ \E j \in DOMAIN items : y = items[j]
        /\ Base(t) + y.off <= a /\ a < Base(t) + y.off + y.size
    BY <1>4, <2>1, HitIn
  <2> HIDE DEF y
  <2>3. y.off \in Nat /\ y.size \in Nat /\ y.off + y.size <= Span
    BY <2>2 DEF ItemSet
  <2>4. Span \in Nat
    BY SpanFacts
  <2>5. Base(t) <= a /\ a < Base(t) + Span
    BY <1>2, <2>1, <2>2, <2>3, <2>4
  <2>6. a \div Span = t /\ a \div Span = s
    BY <1>2, <2>5, SlotIs
  <2>7. QED
    BY <2>2, <2>6
<1>5. CASE x = Table(image.items, image.base, a)
  <2>1. image.items \in Tables /\ image.base \in Bases
    BY <1>2 DEF Images
  <2>2. image.items # <<>>
    BY <1>5, <2>1, HitIn
  <2>3. PICK t \in Slots : \E g \in was[t] : image = [items |-> Binary[g], base |-> Base(t)]
    BY <1>1, <1>3, <2>2 DEF From
  <2>4. PICK g \in was[t] : image = [items |-> Binary[g], base |-> Base(t)]
    BY <2>3
  <2>5. image.items = Binary[g] /\ image.base = Base(t)
    BY <2>4
  <2>6. x = Table(Binary[g], Base(t), a) /\ Binary[g] \in Tables
    BY <1>5, <2>1, <2>5
  <2>7. t = s
    BY <1>4, <2>6
  <2>8. QED
    BY <2>4, <2>6, <2>7
<1>6. ASSUME NEW k \in DOMAIN libref, x = Table(Binary[libref[k].file], libref[k].base, a)
      PROVE  x = Table(Binary[f], Base(s), a)
  <2>1. libref[k] \in Refs
    BY <1>2, ElementOfSeq
  <2>2. PICK t \in Slots : \E g \in was[t] :
          libref[k] = [file |-> libs[Attr(g).path], base |-> Base(t)]
    BY <1>1, <1>3 DEF From
  <2>3. PICK g \in was[t] : libref[k] = [file |-> libs[Attr(g).path], base |-> Base(t)]
    BY <2>2
  <2>4. /\ libref[k].file = libs[Attr(g).path] /\ libref[k].base = Base(t)
        /\ libref[k].file \in Files
    BY <2>1, <2>3 DEF Refs
  <2>5. x = Table(Binary[libref[k].file], Base(t), a) /\ Binary[libref[k].file] \in Tables
    BY <1>6, <2>4, BinaryTables
  <2>6. t = s
    BY <1>4, <2>5
  <2>7. g = f
    BY <2>6
  <2>8. libref[k].file = f
    BY <2>4, <2>7, SymbolsAssumption
  <2>9. QED
    BY <2>5, <2>6, <2>8
<1>7. QED
  BY <1>1, <1>5, <1>6 DEF Tried

\* The table of f is tried if the symbols of f were read there.
LEMMA FileTried ==
  ASSUME images <= 1, NEW f \in Files, NEW base \in Nat, NEW a, Has(Read0, f, base),
         Attr(f).readable, f # Replaced.old, libs[Attr(f).path] \in {None, f},
         images \in Nat, libref \in Seq(Refs)
  PROVE  Table(Binary[f], base, a) \in Tried(Current, a)
<1>1. /\ Current.image = image /\ Current.libref = libref
      /\ Read0.image = image /\ Read0.libref = libref
      /\ Read0.images = images /\ Read0.libs = libs
  BY DEF Current, Read0
<1>2. CASE Attr(f).lib
  <2>1. PICK k \in DOMAIN libref : libref[k] = [file |-> libs[Attr(f).path], base |-> base]
    BY <1>1, <1>2 DEF Has
  <2>2. libref[k] \in Refs
    BY ElementOfSeq
  <2>3. libref[k].file \in Files /\ None \notin Files
    BY <2>2, SymbolsAssumption DEF Refs
  <2>4. libref[k].file = libs[Attr(f).path] /\ libref[k].base = base
    BY <2>1
  <2>5. libref[k].file = f
    BY <2>3, <2>4
  <2>6. QED
    BY <1>1, <2>4, <2>5 DEF Tried
<1>3. CASE ~Attr(f).lib
  <2>1. images >= 1 /\ (images = 1 => image = [items |-> Binary[f], base |-> base])
    BY <1>1, <1>3 DEF Has
  <2>2. image = [items |-> Binary[f], base |-> base]
    BY <2>1
  <2>3. QED
    BY <1>1, <2>2 DEF Tried
<1>4. QED
  BY <1>2, <1>3

\* The function at the place off of the file.
At(y, off) == y.at <= off /\ off < y.at + y.size

LEMMA NameOfFile ==
  ASSUME Typed, Traced, ~parts, images <= 1,
         NEW s \in Slots, NEW f \in Files, was[s] = {f},
         libs[Attr(f).path] \in {None, f}, Attr(f).vaddr = 0,
         NEW a \in 0 .. AddrLimit - 1, Base(s) <= a, a < Base(s) + Span,
         NEW r, r = SymResolve(Current, a), r.items # <<>>
  PROVE  /\ r.base = Base(s)
         /\ \E j \in DOMAIN Attr(f).syms :
              At(Attr(f).syms[j], a - Base(s)) /\ Unique(r.items).name = Attr(f).syms[j].name
<1> DEFINE syms == Attr(f).syms
           y == Unique(r.items)
<1>1. libref \in Seq(Refs) /\ Current.libref = libref
  BY DEF Typed, Current
<1>2. r \in Tried(Current, a)
  BY <1>1, SymResolveIs
<1>3. r = Table(Binary[f], Base(s), a)
  BY <1>2, FoundOfFile
<1>4. Binary[f] \in Tables /\ Base(s) \in Bases /\ Base(s) \in Nat
  BY BinaryTables, SlotBases
<1>5. /\ \E k \in DOMAIN Binary[f] : y = Binary[f][k]
      /\ Base(s) + y.off <= a /\ a < Base(s) + y.off + y.size
  BY <1>3, <1>4, HitIn
<1> HIDE DEF y
<1>6. PICK k \in DOMAIN Binary[f] : y = Binary[f][k]
  BY <1>5
<1>7. PICK j \in DOMAIN syms :
        /\ syms[j] \in Range(syms) /\ Binary[f][k].name = syms[j].name
        /\ Binary[f][k].off = syms[j].at /\ Binary[f][k].size = syms[j].size
  BY BinaryIs
<1>8. syms[j].at \in Nat /\ syms[j].size \in Nat
  BY <1>7, SymbolsAssumption
<1>9. y.name = syms[j].name /\ y.off = syms[j].at /\ y.size = syms[j].size
  BY <1>6, <1>7
<1> HIDE DEF syms
<1>10. At(syms[j], a - Base(s))
  <2>1. a \in Nat
    BY SpanFacts
  <2>2. QED
    BY <1>4, <1>5, <1>8, <1>9, <2>1 DEF At
<1>11. r.base = Base(s)
  BY <1>3 DEF Table
<1>12. QED
  BY <1>9, <1>10, <1>11 DEF y, syms

LEMMA FileNamed ==
  ASSUME Typed, images <= 1, NEW s \in Slots, NEW f \in Files,
         Has(Read0, f, Base(s)), Attr(f).readable, f # Replaced.old,
         libs[Attr(f).path] \in {None, f}, Attr(f).vaddr = 0,
         \A y, z \in Range(Attr(f).syms) :
           \/ y.at + y.size <= z.at \/ z.at + z.size <= y.at
           \/ y.at = z.at /\ y.size = z.size,
         NEW a \in 0 .. AddrLimit - 1, Base(s) <= a,
         NEW j \in DOMAIN Attr(f).syms, At(Attr(f).syms[j], a - Base(s))
  PROVE  SymResolve(Current, a).items # <<>>
<1> DEFINE syms == Attr(f).syms
           off == a - Base(s)
           x == Table(Binary[f], Base(s), a)
<1>1. images \in Nat /\ libref \in Seq(Refs) /\ Current.libref = libref
  BY DEF Typed, Current
<1>2. Base(s) \in Nat
  BY SlotBases
<1>3. x \in Tried(Current, a)
  BY <1>1, <1>2, FileTried
<1>4. off \in Nat /\ (a - Base(s)) % AddrLimit = off
  <2>1. AddrLimit \in Nat \ {0} /\ a \in Nat /\ a < AddrLimit
    BY SpanFacts
  <2>2. off \in Nat /\ off < AddrLimit
    BY <1>2, <2>1
  <2> HIDE DEF off
  <2>3. off % AddrLimit = off
    BY <2>1, <2>2, ModSmall
  <2>4. QED
    BY <2>2, <2>3 DEF off
<1>5. \A i, k \in DOMAIN Binary[f] : NoOverlap(Binary[f][i], Binary[f][k])
  <2> SUFFICES ASSUME NEW i \in DOMAIN Binary[f], NEW k \in DOMAIN Binary[f]
               PROVE  NoOverlap(Binary[f][i], Binary[f][k])
    OBVIOUS
  <2>1. \A h \in DOMAIN Binary[f] : \E y \in Range(syms) :
          Binary[f][h].off = y.at /\ Binary[f][h].size = y.size
    BY BinaryIs
  <2>2. PICK y \in Range(syms) : Binary[f][i].off = y.at /\ Binary[f][i].size = y.size
    BY <2>1
  <2>3. PICK z \in Range(syms) : Binary[f][k].off = z.at /\ Binary[f][k].size = z.size
    BY <2>1
  <2>4. \/ y.at + y.size <= z.at \/ z.at + z.size <= y.at
        \/ y.at = z.at /\ y.size = z.size
    OBVIOUS
  <2>5. QED
    BY <2>2, <2>3, <2>4 DEF NoOverlap
<1>6. PICK k \in DOMAIN Binary[f] :
        Binary[f][k].off = syms[j].at /\ Binary[f][k].size = syms[j].size
  BY BinaryIs
<1>7. Covers(Binary[f][k], off)
  BY <1>6 DEF At, Covers
<1>8. Binary[f] \in Tables
  BY BinaryTables
<1> HIDE DEF off
<1>9. Resolve(Binary[f], off) # <<>>
  BY <1>4, <1>5, <1>7, <1>8, ResolveFinds
<1>10. x.items # <<>>
  BY <1>4, <1>9 DEF Table
<1> HIDE DEF x
<1>11. QED
  BY <1>1, <1>3, <1>10, SymResolveIs

LEMMA TracedNames == Typed /\ Traced => NamesRight
<1> SUFFICES ASSUME Typed, Traced, NEW i \in DOMAIN map.arr, ~map.arr[i].need,
                    Plain(map.arr[i]),
                    NEW a \in map.arr[i].start .. map.arr[i].end - 1
             PROVE  LET e == map.arr[i]
                        r == SymResolve(Current, a)
                        in == {j \in DOMAIN Attr(e.file).syms :
                                LET y == Attr(e.file).syms[j] IN
                                y.at <= a - e.start /\ a - e.start < y.at + y.size}
                    IN /\ r.items # <<>> =>
                            /\ r.base = e.start
                            /\ Unique(r.items).name \in {Attr(e.file).syms[j].name : j \in in}
                       /\ in # {} /\ Attr(e.file).readable /\ e.file # Replaced.old =>
                            r.items # <<>>
  BY Zenon DEF NamesRight
<1> DEFINE e == map.arr[i]
           f == e.file
           s == SlotOf(e)
           r == SymResolve(Current, a)
           in == {j \in DOMAIN Attr(f).syms : At(Attr(f).syms[j], a - e.start)}
<1>1. map \in Maps
  BY DEF Typed
<1>2. /\ s \in Slots /\ e \in Entries /\ e.start \in Nat /\ e.end \in Nat /\ f \in Files
      /\ Base(s) \in Nat /\ Base(s) <= e.start /\ e.end <= Base(s) + Span
      /\ e.off = 0 => e.start = Base(s)
  <2>1. /\ s \in Slots /\ e \in Entries /\ Base(s) \in Nat
        /\ Base(s) <= e.start /\ e.end <= Base(s) + Span
        /\ e.off = 0 => e.start = Base(s)
    BY <1>1, EntrySlot
  <2> HIDE DEF s
  <2>2. QED
    BY <2>1 DEF Entries
<1>3. /\ was[s] = {f} /\ ~parts /\ images <= 1 /\ Attr(f).vaddr = 0
      /\ libs[Attr(f).path] \in {None, f}
      /\ \A y, z \in Range(Attr(f).syms) :
           \/ y.at + y.size <= z.at \/ z.at + z.size <= y.at
           \/ y.at = z.at /\ y.size = z.size
  BY DEF Plain, SlotOf
<1>4. Has(Read0, f, e.start)
  BY <1>3 DEF Traced, HasAll
<1>5. e.start = Base(s)
  BY <1>2, <1>3 DEF Traced, Whole
<1>6. a \in e.start .. e.end - 1
  OBVIOUS
<1> HIDE DEF s, f, e
<1>7. a \in 0 .. AddrLimit - 1 /\ Base(s) <= a /\ a < Base(s) + Span
  <2>1. AddrLimit \in Nat /\ Span \in Nat
    BY SpanFacts
  <2>2. s \in Nat /\ NSlots \in Nat /\ s <= NSlots
    BY <1>2, SpanFacts DEF Slots
  <2>3. /\ Base(s) <= Base(NSlots + 1) /\ Base(NSlots + 1) \in Nat
        /\ Base(NSlots + 1) + Span < AddrLimit
    BY <2>2, BaseFacts
  <2>4. QED
    BY <1>2, <1>5, <1>6, <2>1, <2>3
<1>8. ASSUME r.items # <<>>
      PROVE  r.base = e.start /\ Unique(r.items).name \in {Attr(f).syms[j].name : j \in in}
  <2> HIDE DEF r
  <2>1. r = SymResolve(Current, a)
    BY DEF r
  <2>2. /\ r.base = Base(s)
        /\ \E j \in DOMAIN Attr(f).syms :
             At(Attr(f).syms[j], a - Base(s)) /\ Unique(r.items).name = Attr(f).syms[j].name
    BY <1>2, <1>3, <1>7, <1>8, <2>1, NameOfFile
  <2>3. QED
    BY <1>5, <2>2
<1>9. ASSUME in # {}, Attr(f).readable, f # Replaced.old PROVE r.items # <<>>
  <2>1. PICK j \in DOMAIN Attr(f).syms : At(Attr(f).syms[j], a - Base(s))
    BY <1>5, <1>9
  <2> HIDE DEF r, in
  <2>2. Has(Read0, f, Base(s))
    BY <1>4, <1>5
  <2>3. SymResolve(Current, a).items # <<>>
    BY <1>2, <1>3, <1>7, <1>9, <2>1, <2>2, FileNamed
  <2>4. QED
    BY <2>3 DEF r
<1> HIDE DEF r
<1>10. QED
  BY <1>8, <1>9, Zenon DEF r, in, e, f, At

\* Over every sequence of loads and of changes of the memory: an address in an
\* area that is Plain and whose symbols were read is given the name of a
\* function of the area's file that it is in, and has one if there is such a
\* function, whatever else sym_resolve has in the image and the libraries.
THEOREM NamesOfAreas == Spec => []NamesRight
<1>1. Init => Typed /\ Traced
  BY TypedInit, TracedInit
<1>2. Typed /\ Traced /\ [Next]_vars => (Typed /\ Traced)'
  BY TypedNext, TracedNext
<1>3. Typed /\ Traced => NamesRight
  BY TracedNames
<1>4. QED
  BY <1>1, <1>2, <1>3, PTL DEF Spec
=============================================================================

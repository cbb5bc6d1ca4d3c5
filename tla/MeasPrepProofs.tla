--------------------------- MODULE MeasPrepProofs ---------------------------
(* What holds of the measurement steps for every table, plan and               *)
(* configuration (MeasPrep): the rows that reach the solver are live, suspect  *)
(* readings are never trusted more, final variances are kept, and every active *)
(* node is anchored.                                                           *)
EXTENDS MeasPrep, WellFoundedInduction, NaturalsInduction, FiniteSetTheorems, SequenceTheorems, TLAPS

(* The order of the library's well-foundedness theorems is that of the        *)
(* numbers.                                                                   *)
LEMMA LessIsLess == \A y, z \in Nat : <<y, z>> \in OpToRel(<, Nat) <=> y < z
BY DEF OpToRel

\* A nonempty set of naturals has a least member.
LEMMA LeastNumber ==
    ASSUME NEW T, T \subseteq Nat, T # {}
    PROVE  \E x \in T : \A y \in T : x <= y
<1> DEFINE R == OpToRel(<, Nat)
<1>1. IsWellFoundedOn(R, Nat)
  BY NatLessThanWellFounded
<1>2. \A y, z \in Nat : <<y, z>> \in R <=> y < z
  BY LessIsLess
<1> HIDE DEF R
<1>3. T \subseteq Nat /\ T # {}
  OBVIOUS
<1>4. \E x \in T : \A y \in T : ~(<<y, x>> \in R)
  BY <1>1, <1>3, WFMin
<1>5. PICK x \in T : \A y \in T : ~(<<y, x>> \in R)
  BY <1>4
<1>6. ASSUME NEW y \in T PROVE x <= y
  <2>1. x \in Nat /\ y \in Nat /\ ~(<<y, x>> \in R)
    BY <1>5
  <2>2. QED
    BY <1>2, <2>1
<1>7. QED
  BY <1>6

(* A set of numbers with 0 and every successor of its members has them all.   *)
LEMMA InductiveSet ==
    ASSUME NEW T, 0 \in T, \A n \in Nat : n \in T => n + 1 \in T
    PROVE  Nat \subseteq T
<1> DEFINE U == {n \in Nat : n \notin T}
<1> SUFFICES ASSUME U # {} PROVE FALSE
  OBVIOUS
<1>1. U \subseteq Nat
  OBVIOUS
<1>2. PICK x \in U : \A y \in U : x <= y
  <2> HIDE DEF U
  <2>1. QED
    BY <1>1, LeastNumber
<1>3. x \in Nat /\ x # 0 /\ x - 1 \in Nat /\ x - 1 \notin U
  BY <1>2
<1>4. QED
  BY <1>2, <1>3

\* f comes from a by N of the steps F.
Iterates(f, T, a, F, N) ==
    f \in [0 .. N -> T] /\ f[0] = a /\ \A k \in 1 .. N : f[k] = F[k][f[k - 1]]

(* Recursion over a bounded range, with the step as a function.               *)
LEMMA BoundedRecursion ==
    ASSUME NEW T, NEW a \in T, NEW F \in [Nat -> [T -> T]], NEW N \in Nat
    PROVE  \E f : Iterates(f, T, a, F, N)
<1> DEFINE Runs(n, f) == f \in [0 .. n -> T] /\ f[0] = a /\ \A k \in 1 .. n : f[k] = F[k][f[k - 1]]
           U == {n \in Nat : \E f : Runs(n, f)}
<1>1. 0 \in U
  <2>1. Runs(0, [k \in 0 .. 0 |-> a])
    OBVIOUS
  <2>2. QED
    BY <2>1
<1>2. ASSUME NEW n \in Nat, n \in U PROVE n + 1 \in U
  <2>1. PICK f : f \in [0 .. n -> T] /\ f[0] = a /\ \A k \in 1 .. n : f[k] = F[k][f[k - 1]]
    BY <1>2
  <2> DEFINE g == [k \in 0 .. (n + 1) |-> IF k = n + 1 THEN F[n + 1][f[n]] ELSE f[k]]
  <2>2. F[n + 1] \in [T -> T] /\ f[n] \in T
    BY <2>1
  <2>3. F[n + 1][f[n]] \in T
    BY <2>2
  <2>4. g \in [0 .. (n + 1) -> T] /\ g[0] = a
    BY <2>1, <2>3
  <2>5. ASSUME NEW k \in 1 .. (n + 1) PROVE g[k] = F[k][g[k - 1]]
    <3>1. g[k - 1] = f[k - 1]
      OBVIOUS
    <3>2. CASE k = n + 1
      BY <3>1, <3>2
    <3>3. CASE k # n + 1
      <4>1. k \in 1 .. n /\ g[k] = f[k]
        BY <3>3
      <4>2. QED
        BY <2>1, <3>1, <4>1
    <3>4. QED
      BY <3>2, <3>3
  <2>6. n + 1 \in Nat
    OBVIOUS
  <2> HIDE DEF g
  <2>7. QED
    BY <2>4, <2>5, <2>6
<1>3. Nat \subseteq U
  <2> HIDE DEF U
  <2>1. QED
    BY <1>1, <1>2, InductiveSet
<1>4. QED
  BY <1>3 DEF Iterates

-----------------------------------------------------------------------------
(* A finite set of integers has a largest member, and Max finds it. *)
LEMMA LargestNumber ==
    ASSUME NEW S, IsFiniteSet(S), S # {}, S \subseteq Int
    PROVE  Max(S) \in S /\ \A y \in S : Max(S) >= y
<1> DEFINE Higher(j) == {i \in S : i > j}
           U == {Cardinality(Higher(j)) : j \in S}
<1>1. \A j \in S : IsFiniteSet(Higher(j)) /\ Cardinality(Higher(j)) \in Nat
  BY FS_Subset, FS_CardinalityType
<1>2. U \subseteq Nat /\ U # {}
  BY <1>1
<1>3. PICK u \in U : \A x \in U : u <= x
  <2> HIDE DEF U
  <2>1. QED
    BY <1>2, LeastNumber
<1>4. PICK j \in S : u = Cardinality(Higher(j))
  BY <1>3
<1>5. ASSUME NEW i \in S, i > j PROVE FALSE
  <2> i \in Int /\ j \in Int /\ \A x \in S : x \in Int
    OBVIOUS
  <2>0. \A x \in S : x > i => x > j
    BY <1>5
  <2>1. Higher(i) \subseteq Higher(j) /\ i \in Higher(j) /\ i \notin Higher(i)
    <3>1. Higher(i) \subseteq Higher(j)
      BY <2>0
    <3>2. i \in Higher(j)
      BY <1>5
    <3>3. i \notin Higher(i)
      OBVIOUS
    <3>4. QED
      BY <3>1, <3>2, <3>3
  <2>2. Cardinality(Higher(i)) < Cardinality(Higher(j))
    <3> HIDE DEF Higher
    <3>1. Higher(i) # Higher(j)
      BY <2>1
    <3>2. QED
      BY <1>1, <2>1, <3>1, FS_Subset, FS_CardinalityType
  <2>3. Cardinality(Higher(i)) \in U
    OBVIOUS
  <2>4. u <= Cardinality(Higher(i))
    BY <1>3, <2>3
  <2>5. u \in Nat /\ Cardinality(Higher(i)) \in Nat /\ Cardinality(Higher(i)) < u
    BY <1>1, <1>4, <2>2
  <2>6. QED
    BY <2>4, <2>5
<1>6. \A y \in S : j >= y
  BY <1>5
<1>7. QED
  BY <1>6 DEF Max

(* The least member of a set of integers with a lower bound. *)
LEMMA LeastMember ==
    ASSUME NEW S, S \subseteq Int, S # {}, NEW low \in Int, \A y \in S : low <= y
    PROVE  Min(S) \in S /\ \A y \in S : Min(S) <= y
<1> DEFINE U == {y - low : y \in S}
<1>1. U \subseteq Nat /\ U # {}
  <2>1. \A y \in S : y - low \in Nat
    OBVIOUS
  <2>2. QED
    BY <2>1
<1>2. PICK u \in U : \A x \in U : u <= x
  <2> HIDE DEF U
  <2>1. QED
    BY <1>1, LeastNumber
<1>3. PICK j \in S : u = j - low
  BY <1>2
<1>4. ASSUME NEW y \in S PROVE j <= y
  <2>1. y - low \in U
    OBVIOUS
  <2>2. u <= y - low
    BY <1>2, <2>1
  <2>3. QED
    BY <1>3, <2>2
<1>5. QED
  BY <1>4 DEF Min

-----------------------------------------------------------------------------
(* Sums *)

Some(s) == CHOOSE x \in s : TRUE

\* g sums f over every subset of D.
Sums(f, D, g) ==
    g = [s \in SUBSET D |-> IF s = {} THEN 0 ELSE f[Some(s)] + g[s \ {Some(s)}]]

\* The sum the fold computes is one that follows the recursion.
LEMMA SumIsSums ==
    ASSUME NEW f
    PROVE  SumFunction(f) = (CHOOSE g : Sums(f, DOMAIN f, g))[DOMAIN f]
BY DEF SumFunction, SumFunctionOnSet, FoldFunctionOnSet, MapThenFoldSet, Sums, Some

(* Over a finite set the sums exist, in any set closed under addition.        *)
LEMMA SumsExist ==
    ASSUME NEW T, 0 \in T, \A a, b \in T : a + b \in T,
           NEW D, IsFiniteSet(D), NEW f \in [D -> T]
    PROVE  \E g \in [SUBSET D -> T] : Sums(f, D, g)
<1> DEFINE Small(n) == {s \in SUBSET D : Cardinality(s) <= n}
           SumsUpTo(n, g) == /\ g \in [SUBSET D -> T]
                             /\ \A s \in Small(n) : g[s] = IF s = {} THEN 0 ELSE f[Some(s)] + g[s \ {Some(s)}]
           U == {n \in Nat : \E g : SumsUpTo(n, g)}
<1>0. \A s \in SUBSET D : IsFiniteSet(s) /\ Cardinality(s) \in Nat /\ Cardinality(s) <= Cardinality(D)
  BY FS_Subset, FS_CardinalityType
<1>1. 0 \in U
  <2> DEFINE g == [s \in SUBSET D |-> 0]
  <2>1. \A s \in Small(0) : s = {}
    <3>1. ASSUME NEW s \in Small(0) PROVE s = {}
      <4>1. Cardinality(s) <= 0 /\ s \in SUBSET D
        OBVIOUS
      <4>2. Cardinality(s) = 0
        BY <1>0, <4>1
      <4>3. QED
        BY <1>0, <4>1, <4>2, FS_EmptySet
    <3>2. QED
      BY <3>1
  <2>2. g \in [SUBSET D -> T]
    OBVIOUS
  <2>3. \A s \in Small(0) : g[s] = 0
    OBVIOUS
  <2> HIDE DEF Small, g
  <2>4. SumsUpTo(0, g)
    BY <2>1, <2>2, <2>3
  <2>5. QED
    BY <2>4
<1>2. ASSUME NEW n \in Nat, n \in U PROVE n + 1 \in U
  <2>1. PICK h : SumsUpTo(n, h)
    BY <1>2
  <2> DEFINE g == [s \in SUBSET D |->
                      IF Cardinality(s) = n + 1 THEN f[Some(s)] + h[s \ {Some(s)}] ELSE h[s]]
  <2>2. ASSUME NEW s \in SUBSET D, s # {}
        PROVE  /\ Some(s) \in D /\ s \ {Some(s)} \in SUBSET D
               /\ Cardinality(s \ {Some(s)}) = Cardinality(s) - 1
    <3>1. Some(s) \in s
      BY <2>2 DEF Some
    <3>2. Cardinality(s \ {Some(s)}) = Cardinality(s) - 1
      BY <1>0, <3>1, FS_RemoveElement
    <3>3. QED
      BY <3>1, <3>2
  <2>3. ASSUME NEW s \in SUBSET D, Cardinality(s) = n + 1 PROVE s # {}
    <3>1. Cardinality({}) = 0
      BY FS_EmptySet
    <3>2. QED
      BY <2>3, <3>1
  <2>4. g \in [SUBSET D -> T]
    <3>1. h \in [SUBSET D -> T]
      BY <2>1
    <3>2. ASSUME NEW s \in SUBSET D, Cardinality(s) = n + 1
          PROVE  f[Some(s)] + h[s \ {Some(s)}] \in T
      <4>1. Some(s) \in D /\ s \ {Some(s)} \in SUBSET D
        BY <2>2, <2>3, <3>2
      <4>2. f[Some(s)] \in T /\ h[s \ {Some(s)}] \in T
        BY <3>1, <4>1
      <4>3. QED
        BY <4>2
    <3>3. QED
      BY <3>1, <3>2
  <2>5. ASSUME NEW s \in Small(n + 1)
        PROVE  g[s] = IF s = {} THEN 0 ELSE f[Some(s)] + g[s \ {Some(s)}]
    <3>0. s \in SUBSET D /\ Cardinality(s) <= n + 1 /\ Cardinality(s) \in Nat
      BY <1>0
    <3>1. CASE Cardinality(s) = n + 1
      <4>1. s # {}
        BY <2>3, <3>0, <3>1
      <4>2. s \ {Some(s)} \in SUBSET D /\ Cardinality(s \ {Some(s)}) = n
        BY <2>2, <3>0, <3>1, <4>1
      <4>3. g[s \ {Some(s)}] = h[s \ {Some(s)}]
        BY <4>2
      <4>4. g[s] = f[Some(s)] + h[s \ {Some(s)}]
        BY <3>0, <3>1
      <4>5. QED
        BY <4>1, <4>3, <4>4
    <3>2. CASE Cardinality(s) # n + 1
      <4>1. s \in Small(n)
        BY <3>0, <3>2
      <4>2. h[s] = IF s = {} THEN 0 ELSE f[Some(s)] + h[s \ {Some(s)}]
        BY <2>1, <4>1
      <4>3. g[s] = h[s]
        BY <3>0, <3>2
      <4>4. ASSUME s # {} PROVE g[s \ {Some(s)}] = h[s \ {Some(s)}]
        <5>1. s \ {Some(s)} \in SUBSET D /\ Cardinality(s \ {Some(s)}) = Cardinality(s) - 1
          BY <2>2, <3>0, <4>4
        <5>2. Cardinality(s \ {Some(s)}) # n + 1
          BY <3>0, <3>2, <5>1
        <5>3. QED
          BY <5>1, <5>2
      <4>5. QED
        BY <4>2, <4>3, <4>4
    <3>3. QED
      BY <3>1, <3>2
  <2>6. SumsUpTo(n + 1, g)
    <3> HIDE DEF g, Small
    <3>1. QED
      BY <2>4, <2>5
  <2>7. n + 1 \in Nat
    OBVIOUS
  <2>8. QED
    <3> HIDE DEF g, SumsUpTo
    <3>1. QED
      BY <2>6, <2>7
<1>3. Cardinality(D) \in U
  <2>1. Nat \subseteq U
    <3> HIDE DEF U
    <3>1. QED
      BY <1>1, <1>2, InductiveSet
  <2>2. D \in SUBSET D
    OBVIOUS
  <2>3. Cardinality(D) \in Nat
    BY <1>0, <2>2
  <2>4. QED
    BY <2>1, <2>3
<1>4. PICK g : SumsUpTo(Cardinality(D), g)
  BY <1>3
<1>5. g \in [SUBSET D -> T]
  BY <1>4
<1>6. \A s \in SUBSET D : g[s] = IF s = {} THEN 0 ELSE f[Some(s)] + g[s \ {Some(s)}]
  <2>1. ASSUME NEW s \in SUBSET D PROVE s \in Small(Cardinality(D))
    BY <1>0
  <2> HIDE DEF Small
  <2>2. QED
    BY <1>4, <2>1
<1>7. g = [s \in SUBSET D |-> IF s = {} THEN 0 ELSE f[Some(s)] + g[s \ {Some(s)}]]
  BY <1>5, <1>6
<1>8. QED
  BY <1>5, <1>7 DEF Sums

(* A sum of finitely many numbers is one; over one number it is the number.   *)
LEMMA SumFunctionType ==
    ASSUME NEW T, 0 \in T, \A a, b \in T : a + b \in T,
           NEW D, IsFiniteSet(D), NEW f \in [D -> T]
    PROVE  SumFunction(f) \in T
<1>1. DOMAIN f = D
  OBVIOUS
<1> DEFINE G == CHOOSE g : Sums(f, D, g)
<1>2. Sums(f, D, G)
  <2>1. \E g : Sums(f, D, g)
    BY SumsExist
  <2>2. QED
    BY <2>1
<1> HIDE DEF G
<1> DEFINE U == {n \in Nat : \A s \in SUBSET D : Cardinality(s) = n => G[s] \in T}
<1>5. \A s \in SUBSET D : G[s] = IF s = {} THEN 0 ELSE f[Some(s)] + G[s \ {Some(s)}]
  BY <1>2 DEF Sums
<1>0. \A s \in SUBSET D : IsFiniteSet(s) /\ Cardinality(s) \in Nat
  BY FS_Subset, FS_CardinalityType
<1>6. 0 \in U
  <2>1. ASSUME NEW s \in SUBSET D, Cardinality(s) = 0 PROVE G[s] \in T
    <3>1. s = {}
      BY <1>0, <2>1, FS_EmptySet
    <3>2. QED
      BY <1>5, <3>1
  <2>2. QED
    BY <2>1
<1>7. ASSUME NEW n \in Nat, n \in U PROVE n + 1 \in U
  <2>1. ASSUME NEW s \in SUBSET D, Cardinality(s) = n + 1 PROVE G[s] \in T
    <3>0. \A r \in SUBSET D : Cardinality(r) = n => G[r] \in T
      BY <1>7
    <3> HIDE DEF U
    <3>1. s # {}
      <4>1. Cardinality({}) = 0
        BY FS_EmptySet
      <4>2. QED
        BY <2>1, <4>1
    <3>2. Some(s) \in s
      BY <3>1 DEF Some
    <3>3. Cardinality(s \ {Some(s)}) = n /\ s \ {Some(s)} \in SUBSET D
      BY <1>0, <2>1, <3>2, FS_RemoveElement
    <3>4. G[s \ {Some(s)}] \in T
      BY <3>0, <3>3
    <3>5. f[Some(s)] \in T
      BY <3>2
    <3>6. G[s] = f[Some(s)] + G[s \ {Some(s)}]
      BY <1>5, <3>1
    <3>7. QED
      BY <3>4, <3>5, <3>6
  <2>2. n + 1 \in Nat
    OBVIOUS
  <2>3. QED
    BY <2>1, <2>2
<1>8. Cardinality(D) \in U
  <2>1. Nat \subseteq U
    <3> HIDE DEF U
    <3>1. QED
      BY <1>6, <1>7, InductiveSet
  <2>2. D \in SUBSET D
    OBVIOUS
  <2>3. QED
    BY <1>0, <2>1, <2>2
<1>9. G[D] \in T
  BY <1>8
<1>10. QED
  BY <1>1, <1>9, SumIsSums DEF G

\* The sum over one key is the value of the key.
LEMMA SumFunctionSingle ==
    ASSUME NEW x, NEW f, DOMAIN f = {x}, f[x] \in Int
    PROVE  SumFunction(f) = f[x]
<1> DEFINE D == {x}
           G == CHOOSE g : Sums(f, D, g)
<1>1. IsFiniteSet(D)
  BY FS_Singleton
<1>2. \E g \in [SUBSET D -> {0, f[x]}] : Sums(f, D, g)
  <2> DEFINE g == [s \in SUBSET D |-> IF s = {} THEN 0 ELSE f[x]]
  <2>1. ASSUME NEW s \in SUBSET D, s # {} PROVE Some(s) = x /\ s \ {Some(s)} = {}
    <3>1. Some(s) \in s
      BY <2>1 DEF Some
    <3>2. QED
      BY <3>1
  <2>2. ASSUME NEW s \in SUBSET D
        PROVE g[s] = IF s = {} THEN 0 ELSE f[Some(s)] + g[s \ {Some(s)}]
    <3>1. {} \in SUBSET D
      OBVIOUS
    <3>2. g[{}] = 0
      BY <3>1
    <3>3. CASE s = {}
      BY <3>2, <3>3
    <3>4. CASE s # {}
      <4>1. Some(s) = x /\ s \ {Some(s)} = {}
        BY <2>1, <3>4
      <4>2. g[s] = f[x]
        BY <3>4
      <4> HIDE DEF g
      <4>3. QED
        BY <3>2, <3>4, <4>1, <4>2
    <3>5. QED
      BY <3>3, <3>4
  <2>3. g \in [SUBSET D -> {0, f[x]}]
    OBVIOUS
  <2>4. g = [s \in SUBSET D |-> g[s]]
    OBVIOUS
  <2> HIDE DEF g
  <2>5. g = [s \in SUBSET D |-> IF s = {} THEN 0 ELSE f[Some(s)] + g[s \ {Some(s)}]]
    BY <2>2, <2>4
  <2>6. QED
    BY <2>3, <2>5 DEF Sums
<1>3. Sums(f, D, G)
  <2>1. \E g : Sums(f, D, g)
    BY <1>2
  <2>2. QED
    BY <2>1
<1> HIDE DEF G
<1>4. G[D] = f[Some(D)] + G[D \ {Some(D)}] /\ G[{}] = 0
  <2>1. D \in SUBSET D /\ {} \in SUBSET D /\ D # {}
    OBVIOUS
  <2>2. \A s \in SUBSET D : G[s] = IF s = {} THEN 0 ELSE f[Some(s)] + G[s \ {Some(s)}]
    BY <1>3 DEF Sums
  <2>3. QED
    BY <2>1, <2>2
<1>5. Some(D) = x
  BY DEF Some
<1>6. D \ {x} = {}
  OBVIOUS
<1>7. G[D] = f[x]
  <2>1. G[D] = f[x] + G[D \ {x}]
    BY <1>4, <1>5
  <2>2. G[D \ {x}] = 0
    BY <1>4, <1>6
  <2> HIDE DEF D
  <2>3. QED
    BY <2>1, <2>2
<1>8. QED
  BY <1>7, SumIsSums DEF G

-----------------------------------------------------------------------------
(* Tables, which are sequences *)

\* A table is numbered from 1 to its length.
LEMMA TableIsSequence ==
    ASSUME NEW s, IsTable(s)
    PROVE  Len(s) \in Nat /\ DOMAIN s = 1 .. Len(s) /\ s = [i \in 1 .. Len(s) |-> s[i]]
<1> DEFINE X == {s[i] : i \in DOMAIN s}
<1>1. s \in Seq(X)
  BY DEF IsTable
<1> HIDE DEF X
<1>2. QED
  BY <1>1, LenProperties

\* A function on 1 .. n is a table of n rows.
LEMMA SequenceIsTable ==
    ASSUME NEW s, NEW n \in Nat, DOMAIN s = 1 .. n, s = [i \in 1 .. n |-> s[i]]
    PROVE  IsTable(s) /\ Len(s) = n
<1> DEFINE X == {s[i] : i \in DOMAIN s}
<1>1. s \in [1 .. n -> X]
  OBVIOUS
<1>2. s \in Seq(X)
  <2> HIDE DEF X
  <2>1. QED
    BY <1>1, SeqDef
<1>3. Len(s) = n
  <2> HIDE DEF X
  <2>1. Len(s) \in Nat /\ DOMAIN s = 1 .. Len(s)
    BY <1>2, LenProperties
  <2>2. 1 .. Len(s) = 1 .. n
    BY <2>1
  <2>3. QED
    BY <2>1, <2>2
<1>4. QED
  BY <1>2, <1>3 DEF IsTable

\* A sequence over any set is a table.
LEMMA SubsetIsTable ==
    ASSUME NEW X, NEW s \in Seq(X)
    PROVE  IsTable(s)
<1>1. Len(s) \in Nat /\ s \in [1 .. Len(s) -> X]
  BY LenProperties
<1>2. DOMAIN s = 1 .. Len(s) /\ s = [i \in 1 .. Len(s) |-> s[i]]
  BY <1>1
<1>3. QED
  BY <1>1, <1>2, SequenceIsTable

\* The empty table.
LEMMA EmptyIsTable == IsTable(<<>>) /\ Len(<<>>) = 0
<1>1. <<>> \in Seq({})
  BY EmptySeq
<1>2. QED
  BY <1>1, EmptySeq, SubsetIsTable

\* A table of one row.
LEMMA OneIsTable ==
    ASSUME NEW x
    PROVE  IsTable(<<x>>) /\ Len(<<x>>) = 1 /\ <<x>>[1] = x /\ DOMAIN <<x>> = {1}
<1>1. <<x>> \in Seq({x})
  OBVIOUS
<1>2. IsTable(<<x>>)
  BY <1>1, SubsetIsTable
<1>3. QED
  BY <1>2

(* Both parts of a joined table are in it, in place, and nothing else.        *)
LEMMA Join ==
    ASSUME NEW s, NEW t, IsTable(s), IsTable(t)
    PROVE  /\ IsTable(s \o t)
           /\ Len(s \o t) = Len(s) + Len(t)
           /\ \A i \in DOMAIN s : i \in DOMAIN (s \o t) /\ (s \o t)[i] = s[i]
           /\ \A j \in DOMAIN t : Len(s) + j \in DOMAIN (s \o t) /\ (s \o t)[Len(s) + j] = t[j]
           /\ \A i \in DOMAIN (s \o t) :
                 \/ i \in DOMAIN s
                 \/ i - Len(s) \in DOMAIN t /\ (s \o t)[i] = t[i - Len(s)]
<1> DEFINE X == {s[i] : i \in DOMAIN s} \cup {t[j] : j \in DOMAIN t}
           u == s \o t
<1>1. s \in Seq(X) /\ t \in Seq(X)
  <2>1. s \in Seq({s[i] : i \in DOMAIN s}) /\ t \in Seq({t[j] : j \in DOMAIN t})
    BY DEF IsTable
  <2>2. {s[i] : i \in DOMAIN s} \subseteq X /\ {t[j] : j \in DOMAIN t} \subseteq X
    OBVIOUS
  <2> HIDE DEF X
  <2>3. QED
    BY <2>1, <2>2, SeqMonotonic
<1> HIDE DEF X
<1>2. Len(s) \in Nat /\ DOMAIN s = 1 .. Len(s) /\ Len(t) \in Nat /\ DOMAIN t = 1 .. Len(t)
  BY TableIsSequence
<1>3. /\ u \in Seq(X)
      /\ Len(u) = Len(s) + Len(t)
      /\ \A i \in 1 .. Len(s) + Len(t) : u[i] = IF i <= Len(s) THEN s[i] ELSE t[i - Len(s)]
  BY <1>1, ConcatProperties
<1>4. IsTable(u)
  BY <1>3, SubsetIsTable
<1> HIDE DEF u
<1>5. DOMAIN u = 1 .. (Len(s) + Len(t))
  BY <1>3, <1>4, TableIsSequence
<1>6. \A i \in DOMAIN s : i \in DOMAIN u /\ u[i] = s[i]
  BY <1>2, <1>3, <1>5
<1>7. ASSUME NEW j \in DOMAIN t PROVE Len(s) + j \in DOMAIN u /\ u[Len(s) + j] = t[j]
  <2>1. Len(s) + j \in 1 .. (Len(s) + Len(t)) /\ ~(Len(s) + j <= Len(s)) /\ (Len(s) + j) - Len(s) = j
    BY <1>2
  <2>2. QED
    BY <1>3, <1>5, <2>1
<1>8. ASSUME NEW i \in DOMAIN u
      PROVE  i \in DOMAIN s \/ (i - Len(s) \in DOMAIN t /\ u[i] = t[i - Len(s)])
  <2>1. CASE i <= Len(s)
    BY <1>2, <1>5, <2>1
  <2>2. CASE ~(i <= Len(s))
    BY <1>2, <1>3, <1>5, <2>2
  <2>3. QED
    BY <2>1, <2>2
<1>9. QED
  BY <1>3, <1>4, <1>6, <1>7, <1>8 DEF u

-----------------------------------------------------------------------------
(* Flattening *)

\* s has the members of the first n of the parts, and no other.
Joins(parts, n, s) ==
    /\ IsTable(s)
    /\ \A i \in DOMAIN s : \E j \in 1 .. n : \E k \in DOMAIN parts[j] : s[i] = parts[j][k]
    /\ \A j \in 1 .. n : \A k \in DOMAIN parts[j] : \E i \in DOMAIN s : s[i] = parts[j][k]

\* The first part is the flattening of the first part.
LEMMA JoinsOne ==
    ASSUME NEW parts, IsTable(parts[1])
    PROVE  Joins(parts, 1, parts[1])
<1>1. 1 .. 1 = {1}
  OBVIOUS
<1>2. QED
  BY <1>1 DEF Joins

\* A part joined to the flattening of those before it.
LEMMA JoinsNext ==
    ASSUME NEW parts, NEW n \in Nat, NEW s, Joins(parts, n - 1, s), n - 1 \in Nat, IsTable(parts[n])
    PROVE  Joins(parts, n, s \o parts[n])
<1> DEFINE t == parts[n]
           u == s \o t
<1>1. IsTable(s) /\ IsTable(t)
  BY DEF Joins
<1>2. /\ IsTable(u)
      /\ \A i \in DOMAIN s : i \in DOMAIN u /\ u[i] = s[i]
      /\ \A j \in DOMAIN t : Len(s) + j \in DOMAIN u /\ u[Len(s) + j] = t[j]
      /\ \A i \in DOMAIN u : \/ i \in DOMAIN s
                             \/ i - Len(s) \in DOMAIN t /\ u[i] = t[i - Len(s)]
  <2> HIDE DEF t
  <2>1. /\ IsTable(s \o t)
        /\ Len(s \o t) = Len(s) + Len(t)
        /\ \A i \in DOMAIN s : i \in DOMAIN (s \o t) /\ (s \o t)[i] = s[i]
        /\ \A j \in DOMAIN t : Len(s) + j \in DOMAIN (s \o t) /\ (s \o t)[Len(s) + j] = t[j]
        /\ \A i \in DOMAIN (s \o t) :
              \/ i \in DOMAIN s
              \/ i - Len(s) \in DOMAIN t /\ (s \o t)[i] = t[i - Len(s)]
    BY <1>1, Join, Zenon
  <2>2. QED
    BY <2>1
<1> HIDE DEF u
<1> HIDE DEF t
<1>3. 1 .. (n - 1) \subseteq 1 .. n /\ n \in 1 .. n
  <2>1. n >= 1
    OBVIOUS
  <2>2. n \in 1 .. n
    BY <2>1
  <2>3. \A j \in 1 .. (n - 1) : j \in 1 .. n
    OBVIOUS
  <2>4. QED
    BY <2>2, <2>3
<1>3a. ASSUME NEW j \in 1 .. n PROVE j \in 1 .. (n - 1) \/ j = n
  OBVIOUS
<1>4. ASSUME NEW i \in DOMAIN u PROVE \E j \in 1 .. n : \E k \in DOMAIN parts[j] : u[i] = parts[j][k]
  <2>1. CASE i \in DOMAIN s
    <3>1. PICK j \in 1 .. (n - 1) : \E k \in DOMAIN parts[j] : s[i] = parts[j][k]
      BY <2>1 DEF Joins
    <3>2. u[i] = s[i]
      BY <1>2, <2>1
    <3>3. j \in 1 .. n
      BY <1>3
    <3>4. QED
      BY <3>1, <3>2, <3>3
  <2>2. CASE i - Len(s) \in DOMAIN t /\ u[i] = t[i - Len(s)]
    <3>1. \E k \in DOMAIN parts[n] : u[i] = parts[n][k]
      BY <2>2 DEF t
    <3>2. n \in 1 .. n
      BY <1>3
    <3>3. QED
      BY <3>1, <3>2
  <2>3. i \in DOMAIN s \/ (i - Len(s) \in DOMAIN t /\ u[i] = t[i - Len(s)])
    BY <1>2
  <2>4. QED
    BY <2>1, <2>2, <2>3
<1>5. ASSUME NEW j \in 1 .. n, NEW k \in DOMAIN parts[j] PROVE \E i \in DOMAIN u : u[i] = parts[j][k]
  <2>1. CASE j \in 1 .. (n - 1)
    <3>1. PICK i \in DOMAIN s : s[i] = parts[j][k]
      BY <2>1 DEF Joins
    <3>2. QED
      BY <1>2, <3>1
  <2>2. CASE j = n
    <3>1. k \in DOMAIN t /\ parts[j][k] = t[k]
      BY <2>2 DEF t
    <3>2. QED
      BY <1>2, <3>1
  <2>3. QED
    BY <1>3a, <2>1, <2>2
<1>6. QED
  BY <1>2, <1>4, <1>5 DEF Joins, u, t

\* The flattening of the parts, part by part.
Flattens(parts, g) ==
    g = [i \in 1 .. Len(parts) |-> IF i = 1 THEN parts[i] ELSE g[i - 1] \o parts[i]]

\* FlattenSeq is the last value of its recursion.
LEMMA FlattenIsLast ==
    ASSUME NEW parts, Len(parts) # 0
    PROVE  FlattenSeq(parts) = (CHOOSE g : Flattens(parts, g))[Len(parts)]
BY DEF FlattenSeq, Flattens

\* The recursion of FlattenSeq has a solution.
LEMMA FlatteningExists ==
    ASSUME NEW parts, IsTable(parts), \A j \in DOMAIN parts : IsTable(parts[j])
    PROVE  \E g : Flattens(parts, g)
<1> DEFINE L == Len(parts)
           X == UNION {{parts[j][k] : k \in DOMAIN parts[j]} : j \in DOMAIN parts}
           T == Seq(X)
           F == [j \in Nat |-> [s \in T |-> IF j \in 1 .. L THEN s \o parts[j] ELSE s]]
<1>1. L \in Nat /\ DOMAIN parts = 1 .. L
  BY TableIsSequence
<1>2. ASSUME NEW j \in 1 .. L PROVE parts[j] \in T
  <2>1. IsTable(parts[j])
    BY <1>1
  <2>2. parts[j] \in Seq({parts[j][k] : k \in DOMAIN parts[j]})
    BY <2>1 DEF IsTable
  <2>3. {parts[j][k] : k \in DOMAIN parts[j]} \subseteq X
    BY <1>1
  <2> HIDE DEF X
  <2>4. QED
    BY <2>2, <2>3, SeqMonotonic
<1>3. <<>> \in T
  BY EmptySeq
<1> HIDE DEF X
<1>4. F \in [Nat -> [T -> T]]
  <2>1. ASSUME NEW j \in Nat, NEW s \in T PROVE (IF j \in 1 .. L THEN s \o parts[j] ELSE s) \in T
    <3>1. CASE j \in 1 .. L
      <4>1. parts[j] \in Seq(X) /\ s \in Seq(X)
        BY <1>2, <3>1
      <4>2. s \o parts[j] \in Seq(X)
        BY <4>1, ConcatProperties
      <4>3. QED
        BY <3>1, <4>2
    <3>2. QED
      BY <3>1
  <2>2. QED
    BY <2>1
<1>5. PICK f : Iterates(f, T, <<>>, F, L)
  <2> HIDE DEF F, T, L
  <2>1. QED
    BY <1>1, <1>3, <1>4, BoundedRecursion
<1>6. f \in [0 .. L -> T] /\ f[0] = <<>> /\ \A k \in 1 .. L : f[k] = F[k][f[k - 1]]
  BY <1>5 DEF Iterates
<1>7. ASSUME NEW k \in 1 .. L PROVE f[k] = f[k - 1] \o parts[k] /\ f[k] \in T
  <2>1. k \in Nat /\ k - 1 \in 0 .. L /\ k \in 0 .. L
    BY <1>1
  <2>2. f[k - 1] \in T /\ f[k] \in T
    BY <1>6, <2>1
  <2>3. F[k][f[k - 1]] = f[k - 1] \o parts[k]
    <3> HIDE DEF T
    <3>1. QED
      BY <2>1, <2>2
  <2>4. QED
    BY <1>6, <2>2, <2>3
<1> DEFINE g == [i \in 1 .. L |-> f[i]]
<1>8. ASSUME NEW i \in 1 .. L PROVE g[i] = IF i = 1 THEN parts[i] ELSE g[i - 1] \o parts[i]
  <2>1. f[i] = f[i - 1] \o parts[i]
    BY <1>7
  <2>2. CASE i = 1
    <3>1. f[i - 1] = <<>>
      BY <1>6, <2>2
    <3>2. parts[i] \in Seq(X)
      BY <1>2
    <3>3. <<>> \o parts[i] = parts[i]
      BY <3>2, ConcatEmptySeq
    <3>4. QED
      BY <2>1, <2>2, <3>1, <3>3
  <2>3. CASE i # 1
    <3>1. i - 1 \in 1 .. L
      BY <1>1, <2>3
    <3>2. g[i - 1] = f[i - 1]
      BY <3>1
    <3>3. QED
      BY <2>1, <2>3, <3>2
  <2>4. QED
    BY <2>2, <2>3
<1>9. g = [i \in 1 .. L |-> g[i]]
  OBVIOUS
<1> HIDE DEF g
<1>10. g = [i \in 1 .. Len(parts) |-> IF i = 1 THEN parts[i] ELSE g[i - 1] \o parts[i]]
  BY <1>8, <1>9
<1>11. QED
  BY <1>10 DEF Flattens

(* A flattened table has the rows of its parts, and no other.                 *)
LEMMA Flattened ==
    ASSUME NEW parts, IsTable(parts), \A j \in DOMAIN parts : IsTable(parts[j])
    PROVE  Joins(parts, Len(parts), FlattenSeq(parts))
<1> DEFINE L == Len(parts)
           G == CHOOSE g : Flattens(parts, g)
           U == {n \in Nat : n + 1 \in 1 .. L => Joins(parts, n + 1, G[n + 1])}
<1>1. L \in Nat /\ DOMAIN parts = 1 .. L
  BY TableIsSequence
<1>2. Flattens(parts, G)
  <2>1. \E g : Flattens(parts, g)
    BY FlatteningExists
  <2>2. QED
    BY <2>1
<1> HIDE DEF G
<1>3. \A i \in 1 .. L : G[i] = IF i = 1 THEN parts[i] ELSE G[i - 1] \o parts[i]
  BY <1>2 DEF Flattens
<1>4. 0 \in U
  <2>1. ASSUME 1 \in 1 .. L PROVE Joins(parts, 1, G[1])
    <3>1. G[1] = parts[1] /\ IsTable(parts[1])
      BY <1>1, <1>3, <2>1
    <3>2. QED
      BY <3>1, JoinsOne
  <2>2. QED
    BY <2>1
<1>5. ASSUME NEW n \in Nat, n \in U PROVE n + 1 \in U
  <2> DEFINE j == n + 1
             k == j + 1
  <2>1. j \in Nat /\ k \in Nat /\ k - 1 = j /\ k # 1
    OBVIOUS
  <2>2. j \in 1 .. L => Joins(parts, j, G[j])
    BY <1>5
  <2>3. ASSUME k \in 1 .. L PROVE Joins(parts, k, G[k])
    <3>1. j \in 1 .. L
      BY <2>3, <1>1
    <3>2. G[k] = G[j] \o parts[k] /\ IsTable(parts[k])
      BY <1>1, <1>3, <2>1, <2>3
    <3>3. Joins(parts, k - 1, G[j])
      BY <2>1, <2>2, <3>1
    <3> HIDE DEF j, k
    <3>4. QED
      BY <2>1, <3>2, <3>3, JoinsNext
  <2>4. QED
    <3>1. n + 1 \in Nat /\ (n + 1 + 1 \in 1 .. L => Joins(parts, n + 1 + 1, G[n + 1 + 1]))
      BY <2>1, <2>3
    <3>2. QED
      BY <3>1
<1>6. Nat \subseteq U
  <2> HIDE DEF U
  <2>1. QED
    BY <1>4, <1>5, InductiveSet
<1>7. CASE L = 0
  <2>1. FlattenSeq(parts) = parts /\ DOMAIN parts = {}
    BY <1>1, <1>7 DEF FlattenSeq
  <2>2. QED
    BY <1>1, <1>7, <2>1 DEF Joins
<1>8. CASE L # 0
  <2>1. L - 1 \in Nat /\ L \in 1 .. L /\ (L - 1) + 1 = L
    BY <1>1, <1>8
  <2>2. L - 1 \in U
    BY <1>6, <2>1
  <2>3. Joins(parts, (L - 1) + 1, G[(L - 1) + 1])
    BY <2>1, <2>2
  <2>4. Joins(parts, L, G[L])
    BY <2>1, <2>3
  <2>5. FlattenSeq(parts) = G[L]
    BY <1>8, FlattenIsLast DEF G
  <2>6. QED
    BY <2>4, <2>5
<1>9. QED
  BY <1>7, <1>8

-----------------------------------------------------------------------------
(* A finite set as a sequence *)

\* SetToSeq lists a finite set.
LEMMA ListedSet ==
    ASSUME NEW S, IsFiniteSet(S)
    PROVE  IsTable(SetToSeq(S)) /\ \A i \in DOMAIN SetToSeq(S) : SetToSeq(S)[i] \in S
<1> DEFINE n == Cardinality(S)
<1>1. n \in Nat
  BY FS_CardinalityType
<1>2. \E f \in [1 .. n -> S] : IsInjective(f)
  <2>1. PICK f \in Bijection(1 .. n, S) : TRUE
    BY FS_CardinalityType DEF ExistsBijection
  <2>2. f \in [1 .. n -> S] /\ \A a, b \in DOMAIN f : f[a] = f[b] => a = b
    BY <2>1 DEF Bijection, Injection, IsInjective
  <2>3. QED
    BY <2>2 DEF IsInjective
<1>3. SetToSeq(S) \in [1 .. n -> S]
  BY <1>2 DEF SetToSeq
<1>4. DOMAIN SetToSeq(S) = 1 .. n /\ SetToSeq(S) = [i \in 1 .. n |-> SetToSeq(S)[i]]
  BY <1>3
<1>5. QED
  BY <1>1, <1>3, <1>4, SequenceIsTable

-----------------------------------------------------------------------------
(* Variances *)

\* Squares are natural.
LEMMA SquareNat == \A a \in Int : a * a \in Nat
<1>1. ASSUME NEW a \in Int PROVE a * a \in Nat
  <2>1. CASE a >= 0
    BY <2>1
  <2>2. CASE a < 0
    <3>1. a * a = (-a) * (-a) /\ -a \in Nat
      BY <2>2
    <3>2. (-a) * (-a) \in Nat
      BY <3>1
    <3>3. QED
      BY <3>1, <3>2
  <2>3. QED
    BY <2>1, <2>2
<1>2. QED
  BY <1>1

\* Rounding up leaves a natural.
LEMMA CeilDivNat == \A a \in Nat, b \in Nat \ {0} : CeilDiv(a, b) \in Nat
<1>1. ASSUME NEW a \in Nat, NEW b \in Nat \ {0} PROVE (a + b - 1) \div b \in Nat
  <2>1. a + b - 1 \in Nat
    OBVIOUS
  <2>2. \A c \in Nat : c \div b \in Nat
    OBVIOUS
  <2>3. QED
    BY <2>1, <2>2
<1>2. QED
  BY <1>1 DEF CeilDiv

\* The larger of two numbers.
LEMMA LargestFacts ==
    \A a, b \in Int : Largest(a, b) \in {a, b} /\ Largest(a, b) >= a /\ Largest(a, b) >= b
BY DEF Largest

\* A factor of at least one does not lower a variance.
LEMMA MoreVariance == \A a \in Nat, f \in Nat \ {0} : a * f \in Nat /\ a * f >= a
<1>1. ASSUME NEW a \in Nat, NEW f \in Nat \ {0} PROVE a * f \in Nat /\ a * f >= a
  <2>1. f - 1 \in Nat
    OBVIOUS
  <2>2. a * (f - 1) \in Nat
    BY <2>1
  <2>3. a * f = a * (f - 1) + a
    BY <2>1
  <2>4. QED
    BY <2>2, <2>3
<1>2. QED
  BY <1>1

\* The variance of a load uniform in its box is natural.
LEMMA VarUniformNat ==
    ASSUME NEW box \in Int \X Int
    PROVE  VarUniform(box) \in Nat
<1> DEFINE d == box[2] - box[1]
<1>1. d \in Int
  OBVIOUS
<1>2. d * d \in Nat
  BY <1>1, SquareNat
<1>3. 100 * d * d = 100 * (d * d)
  BY <1>1
<1>4. 100 * (d * d) \in Nat
  BY <1>2
<1>5. 100 * d * d \in Nat
  BY <1>3, <1>4
<1> HIDE DEF d
<1>6. CeilDiv(100 * d * d, 12) \in Nat
  BY <1>5, CeilDivNat
<1>7. QED
  BY <1>6 DEF VarUniform, d

\* The flow floor is natural.
LEMMA FloorNat ==
    ASSUME NEW row, NEW net, NEW lines, NEW cfg, cfg.floor \in Nat, AreNodes(net)
    PROVE  Floor(row, net, lines, cfg) \in Nat
<1> DEFINE v == MaxVn(net, lines[row.obj])
           x == cfg.floor
<1>1. v \in Nat
  <2> DEFINE vn(n) == IF n \in DOMAIN net THEN net[n].vn ELSE 0
  <2>1. \A n : vn(n) \in Nat
    BY DEF AreNodes
  <2> DEFINE a == vn(lines[row.obj].from)
             b == vn(lines[row.obj].to)
  <2>2. a \in Nat /\ b \in Nat
    BY <2>1
  <2>3. v = Largest(a, b)
    BY DEF MaxVn
  <2> HIDE DEF a, b, v
  <2>4. QED
    BY <2>2, <2>3, LargestFacts
<1>2. x \in Nat
  OBVIOUS
<1> HIDE DEF v, x
<1>3. 3 * x * x * v * v \in Nat
  <2>1. x * x \in Nat /\ v * v \in Nat
    BY <1>1, <1>2
  <2>2. 3 * x \in Nat
    BY <1>2
  <2>3. 3 * x * x \in Nat
    BY <1>2, <2>2
  <2>4. 3 * x * x * v \in Nat
    BY <1>1, <2>3
  <2>5. QED
    BY <1>1, <2>4
<1>4. CeilDiv(3 * x * x * v * v, 100) \in Nat
  BY <1>3, CeilDivNat
<1>5. QED
  BY <1>4 DEF Floor, x, v

-----------------------------------------------------------------------------
(* Batches of rows *)

\* All but the id.
SameRow(r, s) ==
    /\ DOMAIN r = RowFields
    /\ r.kind = s.kind /\ r.obj = s.obj /\ r.side = s.side /\ r.pseudo = s.pseudo
    /\ r.status = s.status /\ r.value = s.value /\ r.var = s.var
    /\ r.quality = s.quality /\ r.flag = s.flag /\ r.part = s.part

AreRecords(rows) == IsTable(rows) /\ \A j \in DOMAIN rows : DOMAIN rows[j] = RowFields

\* A renumbered row differs in its id alone.
LEMMA Renumbered ==
    ASSUME NEW r, DOMAIN r = RowFields, NEW id
    PROVE  SameRow([r EXCEPT !.id = id], r) /\ [r EXCEPT !.id = id].id = id
BY DEF SameRow, RowFields

\* The fields of a row that NodeRow makes.
LEMMA MadeRow ==
    ASSUME NEW kind, NEW node, NEW value, NEW var, NEW quality, NEW pseudo, NEW part
    PROVE  LET r == NodeRow(kind, node, value, var, quality, pseudo, part)
           IN  /\ DOMAIN r = RowFields
               /\ r.kind = kind /\ r.obj = node /\ r.side = -1 /\ r.pseudo = pseudo
               /\ r.status = TRUE /\ r.value = value /\ r.var = var /\ r.quality = quality
               /\ r.part = part
BY DEF NodeRow, RowFields

\* The fields of a row that PseudoRow makes.
LEMMA MadePseudoRow ==
    ASSUME NEW kind, NEW node, NEW value, NEW var
    PROVE  LET r == PseudoRow(kind, node, value, var)
           IN  /\ DOMAIN r = RowFields
               /\ r.kind = kind /\ r.obj = node /\ r.pseudo = TRUE /\ r.status = TRUE
               /\ r.var = var /\ r.quality = Good
BY DEF PseudoRow, NodeRow, RowFields

\* u is t with the rows of a batch numbered from first.
Extends(t, rows, first, u) ==
    /\ IsTable(u)
    /\ \A i \in DOMAIN t : i \in DOMAIN u /\ u[i] = t[i]
    /\ \A j \in DOMAIN rows : Len(t) + j \in DOMAIN u /\ SameRow(u[Len(t) + j], rows[j])
    /\ \A i \in DOMAIN u :
          \/ i \in DOMAIN t
          \/ /\ i - Len(t) \in DOMAIN rows /\ SameRow(u[i], rows[i - Len(t)])
             /\ u[i].id = first + (i - Len(t)) - 1

\* add_many keeps the rows and appends the batch, numbered from first.
LEMMA AddManyExtends ==
    ASSUME NEW t, IsTable(t), NEW rows, AreRecords(rows), NEW first \in Int
    PROVE  Extends(t, rows, first, AddMany(t, rows, first))
<1> DEFINE new == [j \in DOMAIN rows |-> [rows[j] EXCEPT !.id = first + j - 1]]
           u == t \o new
<1>1. IsTable(rows)
  BY DEF AreRecords
<1>2. Len(rows) \in Nat /\ DOMAIN rows = 1 .. Len(rows)
  BY <1>1, TableIsSequence
<1>3. DOMAIN new = DOMAIN rows
  OBVIOUS
<1>4. ASSUME NEW j \in DOMAIN rows PROVE SameRow(new[j], rows[j]) /\ new[j].id = first + j - 1
  <2>1. DOMAIN rows[j] = RowFields
    BY DEF AreRecords
  <2>2. new[j] = [rows[j] EXCEPT !.id = first + j - 1]
    OBVIOUS
  <2> HIDE DEF new
  <2>3. QED
    BY <2>1, <2>2, Renumbered
<1>5. IsTable(new)
  <2>1. DOMAIN new = 1 .. Len(rows) /\ new = [j \in 1 .. Len(rows) |-> new[j]]
    BY <1>2
  <2> HIDE DEF new
  <2>2. QED
    BY <1>2, <2>1, SequenceIsTable
<1> HIDE DEF new
<1>6. /\ IsTable(t \o new)
      /\ Len(t \o new) = Len(t) + Len(new)
      /\ \A i \in DOMAIN t : i \in DOMAIN (t \o new) /\ (t \o new)[i] = t[i]
      /\ \A j \in DOMAIN new : Len(t) + j \in DOMAIN (t \o new) /\ (t \o new)[Len(t) + j] = new[j]
      /\ \A i \in DOMAIN (t \o new) :
            \/ i \in DOMAIN t
            \/ i - Len(t) \in DOMAIN new /\ (t \o new)[i] = new[i - Len(t)]
  BY <1>5, Join, Zenon
<1>7. u = AddMany(t, rows, first)
  BY DEF AddMany, new
<1>8. IsTable(u) /\ \A i \in DOMAIN t : i \in DOMAIN u /\ u[i] = t[i]
  BY <1>6
<1>9. ASSUME NEW j \in DOMAIN rows
      PROVE  Len(t) + j \in DOMAIN u /\ u[Len(t) + j] = new[j]
  BY <1>3, <1>6
<1>10. ASSUME NEW i \in DOMAIN u, i \notin DOMAIN t
       PROVE  i - Len(t) \in DOMAIN rows /\ u[i] = new[i - Len(t)]
  BY <1>3, <1>6, <1>10
<1> HIDE DEF u
<1>11. \A j \in DOMAIN rows : Len(t) + j \in DOMAIN u /\ SameRow(u[Len(t) + j], rows[j])
  BY <1>4, <1>9
<1>12. \A i \in DOMAIN u : \/ i \in DOMAIN t
                           \/ /\ i - Len(t) \in DOMAIN rows /\ SameRow(u[i], rows[i - Len(t)])
                              /\ u[i].id = first + (i - Len(t)) - 1
  BY <1>4, <1>10
<1>13. QED
  BY <1>7, <1>8, <1>11, <1>12 DEF Extends

Distinct(t) == \A i, j \in DOMAIN t : t[i].id = t[j].id => i = j

(* A batch that meets no id of the table leaves the ids distinct.             *)
LEMMA ExtendedIsDistinct ==
    ASSUME NEW t, IsTable(t), Distinct(t), NEW rows, NEW first \in Int, NEW u,
           Extends(t, rows, first, u), ~Collides(t, rows, first)
    PROVE  Distinct(u)
<1>0. Len(t) \in Nat /\ DOMAIN t = 1 .. Len(t) /\ IsTable(u)
  BY TableIsSequence DEF Extends
<1>00. DOMAIN u \subseteq Int
  <2>1. Len(u) \in Nat /\ DOMAIN u = 1 .. Len(u)
    BY <1>0, TableIsSequence
  <2>2. QED
    BY <2>1
<1>1. ASSUME NEW i \in DOMAIN u, i \in DOMAIN t PROVE u[i].id = t[i].id
  BY <1>1 DEF Extends
<1>2. ASSUME NEW i \in DOMAIN u, i \notin DOMAIN t
      PROVE  i - Len(t) \in DOMAIN rows /\ u[i].id = first + (i - Len(t)) - 1
  BY <1>2 DEF Extends
<1>3. ASSUME NEW i \in DOMAIN u, NEW j \in DOMAIN u, u[i].id = u[j].id, i \in DOMAIN t, j \notin DOMAIN t
      PROVE  FALSE
  <2>1. u[j].id = first + (j - Len(t)) - 1 /\ j - Len(t) \in DOMAIN rows
    BY <1>2, <1>3
  <2>2. u[i].id \in Ids(t)
    BY <1>1, <1>3 DEF Ids
  <2>3. first + (j - Len(t)) - 1 \in Ids(t)
    BY <1>3, <2>1, <2>2
  <2>4. QED
    BY <2>1, <2>3 DEF Collides
<1>4. ASSUME NEW i \in DOMAIN u, NEW j \in DOMAIN u, u[i].id = u[j].id PROVE i = j
  <2>1. CASE i \in DOMAIN t /\ j \in DOMAIN t
    BY <1>1, <1>4, <2>1 DEF Distinct
  <2>2. CASE i \in DOMAIN t /\ j \notin DOMAIN t
    BY <1>3, <1>4, <2>2
  <2>3. CASE i \notin DOMAIN t /\ j \in DOMAIN t
    BY <1>3, <1>4, <2>3
  <2>4. CASE i \notin DOMAIN t /\ j \notin DOMAIN t
    <3>1. first + (i - Len(t)) - 1 = first + (j - Len(t)) - 1
      BY <1>2, <1>4, <2>4
    <3>2. i \in Int /\ j \in Int
      BY <1>00
    <3>3. QED
      BY <1>0, <3>1, <3>2
  <2>5. QED
    BY <2>1, <2>2, <2>3, <2>4
<1>5. QED
  BY <1>4 DEF Distinct

(* The values of a function on a finite set are finite, and no more than the  *)
(* set.                                                                       *)
LEMMA FiniteImage ==
    ASSUME NEW S, IsFiniteSet(S), NEW f, DOMAIN f = S, f = [x \in S |-> f[x]]
    PROVE  /\ IsFiniteSet({f[x] : x \in S})
           /\ Cardinality({f[x] : x \in S}) \in Nat
           /\ Cardinality({f[x] : x \in S}) <= Cardinality(S)
<1> DEFINE T == {f[x] : x \in S}
<1>1. f \in Surjection(S, T)
  <2>1. f \in [S -> T] /\ \A t \in T : \E s \in S : f[s] = t
    OBVIOUS
  <2> HIDE DEF T
  <2>2. QED
    BY <2>1 DEF Surjection
<1> HIDE DEF T
<1>2. IsFiniteSet(T) /\ Cardinality(T) <= Cardinality(S)
  BY <1>1, FS_Surjection
<1>3. QED
  BY <1>2, FS_CardinalityType DEF T

\* A table has finitely many ids, no more than rows.
LEMMA IdsFinite ==
    ASSUME NEW t, IsFiniteSet(DOMAIN t)
    PROVE  /\ IsFiniteSet(Ids(t)) /\ Cardinality(Ids(t)) \in Nat
           /\ Cardinality(Ids(t)) <= Cardinality(DOMAIN t)
<1> DEFINE f == [i \in DOMAIN t |-> t[i].id]
           S == DOMAIN t
<1>1. DOMAIN f = S /\ f = [i \in S |-> f[i]] /\ Ids(t) = {f[i] : i \in S}
  BY DEF Ids
<1> HIDE DEF f, S
<1>2. IsFiniteSet(S)
  BY DEF S
<1>3. QED
  BY <1>1, <1>2, FiniteImage DEF S

(* The first id after the largest meets none.                                 *)
LEMMA AfterMaxIsFree ==
    ASSUME NEW t, IsTable(t), \A i \in DOMAIN t : t[i].id \in Int, NEW rows, IsTable(rows)
    PROVE  AfterMax(t) \in Int /\ ~Collides(t, rows, AfterMax(t))
<1>1. Len(t) \in Nat /\ DOMAIN t = 1 .. Len(t) /\ Len(rows) \in Nat /\ DOMAIN rows = 1 .. Len(rows)
  BY TableIsSequence
<1>2. CASE t = <<>>
  <2>1. Ids(t) = {} /\ AfterMax(t) = 1
    BY <1>2 DEF Ids, AfterMax
  <2>2. QED
    BY <2>1 DEF Collides
<1>3. CASE t # <<>>
  <2>1. IsFiniteSet(DOMAIN t)
    BY <1>1, FS_Interval
  <2>2. IsFiniteSet(Ids(t)) /\ Ids(t) \subseteq Int
    BY <2>1, IdsFinite DEF Ids
  <2>3. Ids(t) # {}
    <3>1. Len(t) # 0
      <4>1. ASSUME Len(t) = 0 PROVE FALSE
        <5>1. t = [i \in 1 .. 0 |-> t[i]]
          BY <4>1, TableIsSequence
        <5>2. 1 .. 0 = {}
          OBVIOUS
        <5>3. t = <<>>
          BY <5>1, <5>2
        <5>4. QED
          BY <1>3, <5>3
      <4>2. QED
        BY <4>1
    <3>2. 1 \in DOMAIN t
      BY <1>1, <3>1
    <3>3. QED
      BY <3>2 DEF Ids
  <2>4. Max(Ids(t)) \in Int /\ \A y \in Ids(t) : Max(Ids(t)) >= y
    BY <2>2, <2>3, LargestNumber
  <2>5. AfterMax(t) = Max(Ids(t)) + 1
    BY <1>3 DEF AfterMax
  <2>6. ASSUME NEW j \in DOMAIN rows, AfterMax(t) + j - 1 \in Ids(t) PROVE FALSE
    <3>1. j >= 1 /\ j \in Int
      BY <1>1
    <3>2. Max(Ids(t)) >= AfterMax(t) + j - 1
      BY <2>4, <2>6
    <3>3. QED
      BY <2>4, <2>5, <3>1, <3>2
  <2>7. QED
    BY <2>4, <2>5, <2>6 DEF Collides
<1>4. QED
  BY <1>2, <1>3

(* The first free id from the base of a step is a number.                     *)
LEMMA SkipTakenType ==
    ASSUME NEW t, IsTable(t), NEW start \in Int
    PROVE  SkipTaken(t, start) \in Int
<1> DEFINE L == Len(t)
           K == start .. start + L
           U == {k \in K : k \notin Ids(t)}
<1>1. L \in Nat /\ DOMAIN t = 1 .. L
  BY TableIsSequence
<1>2. IsFiniteSet(DOMAIN t) /\ Cardinality(DOMAIN t) = L
  <2>1. Cardinality(1 .. L) = IF 1 > L THEN 0 ELSE L - 1 + 1
    BY <1>1, FS_Interval
  <2>2. QED
    BY <1>1, <2>1, FS_Interval
<1>3. IsFiniteSet(Ids(t)) /\ Cardinality(Ids(t)) <= L /\ Cardinality(Ids(t)) \in Nat
  BY <1>2, IdsFinite
<1>4. Cardinality(K) = L + 1
  <2>1. Cardinality(start .. start + L) = IF start > start + L THEN 0 ELSE (start + L) - start + 1
    BY <1>1, FS_Interval
  <2>2. QED
    BY <1>1, <2>1
<1>5. U # {}
  <2>1. ASSUME U = {} PROVE FALSE
    <3>1. K \in SUBSET Ids(t)
      BY <2>1
    <3>2. Cardinality(K) <= Cardinality(Ids(t))
      <4> HIDE DEF K
      <4>1. QED
        BY <1>3, <3>1, FS_Subset
    <3> HIDE DEF K, L
    <3>3. QED
      BY <1>1, <1>3, <1>4, <3>2
  <2>2. QED
    BY <2>1
<1>6. U \subseteq Int /\ \A y \in U : start <= y
  BY <1>1
<1>7. Min(U) \in Int
  <2> HIDE DEF U
  <2>1. Min(U) \in U
    BY <1>5, <1>6, LeastMember
  <2>2. QED
    BY <1>6, <2>1
<1>8. QED
  BY <1>7 DEF SkipTaken

-----------------------------------------------------------------------------
(* Filters *)

(* What a filter may make of a row: it stays the row it was, a suspicion is    *)
(* not withdrawn and its variance does not fall, a final variance stays.       *)
RowFiltered(r, s, keep) ==
    /\ DOMAIN s = RowFields
    /\ s.id = r.id /\ s.kind = r.kind /\ s.obj = r.obj /\ s.side = r.side
    /\ s.pseudo = r.pseudo /\ s.part = r.part
    /\ s.status => r.status
    /\ s.quality = r.quality \/ s.quality = Questionable
    /\ r.var \in Nat => s.var \in Nat /\ (r.quality = Questionable => s.var >= r.var)
    /\ r.id \in keep => s.var = r.var

Filtered(t, u, keep) ==
    /\ IsTable(u) /\ DOMAIN u = DOMAIN t
    /\ \A i \in DOMAIN t : RowFiltered(t[i], u[i], keep)

AllNat(t) == \A i \in DOMAIN t : t[i].var \in Nat

\* A table judged row by row is filtered.
LEMMA FilteredByRow ==
    ASSUME NEW t, AreRecords(t), NEW u, NEW keep, DOMAIN u = DOMAIN t, u = [i \in DOMAIN t |-> u[i]],
           \A i \in DOMAIN t : RowFiltered(t[i], u[i], keep)
    PROVE  Filtered(t, u, keep)
<1>1. Len(t) \in Nat /\ DOMAIN t = 1 .. Len(t)
  BY TableIsSequence DEF AreRecords
<1>2. IsTable(u)
  BY <1>1, SequenceIsTable
<1>3. QED
  BY <1>2 DEF Filtered

\* A row that is left alone passes the filter.
LEMMA SameIsFiltered ==
    ASSUME NEW r, DOMAIN r = RowFields, NEW keep PROVE RowFiltered(r, r, keep)
BY DEF RowFiltered

\* A row that is switched off passes the filter.
LEMMA OffIsFiltered ==
    ASSUME NEW r, DOMAIN r = RowFields, NEW keep, NEW flag
    PROVE  /\ RowFiltered(r, [r EXCEPT !.status = FALSE], keep)
           /\ RowFiltered(r, [r EXCEPT !.status = FALSE, !.flag = flag], keep)
BY DEF RowFiltered, RowFields

\* apply_voltage_range_filter only switches off or downweights.
LEMMA RangeFilterFilters ==
    ASSUME NEW t, AreRecords(t), AllNat(t), NEW net, NEW keep, NEW cfg
    PROVE  Filtered(t, RangeFilter(t, net, keep, cfg), keep)
<1> DEFINE u == RangeFilter(t, net, keep, cfg)
<1>1. DOMAIN u = DOMAIN t /\ u = [i \in DOMAIN t |-> u[i]]
  BY DEF RangeFilter
<1>2. ASSUME NEW i \in DOMAIN t PROVE RowFiltered(t[i], u[i], keep)
  <2> DEFINE r == t[i]
  <2>1. DOMAIN r = RowFields /\ r.var \in Nat
    BY DEF AreRecords, AllNat
  <2>2. u[i] \in {r, [r EXCEPT !.status = FALSE]} \/ (u[i] = Downweighted(r) /\ r.id \notin keep)
    BY DEF RangeFilter
  <2> HIDE DEF r, u
  <2>3. RowFiltered(r, r, keep) /\ RowFiltered(r, [r EXCEPT !.status = FALSE], keep)
    BY <2>1, SameIsFiltered, OffIsFiltered
  <2>4. ASSUME r.id \notin keep PROVE RowFiltered(r, Downweighted(r), keep)
    <3> DEFINE v == r.var * QuestionableFactor
    <3>1. v \in Nat /\ v >= r.var
      BY <2>1, MoreVariance, FactorsAssumption
    <3>2. Downweighted(r) = [r EXCEPT !.var = v, !.quality = Questionable]
      BY <2>1 DEF Downweighted, RowFields
    <3> HIDE DEF v
    <3>3. QED
      BY <2>1, <2>4, <3>1, <3>2 DEF RowFiltered, RowFields
  <2>5. RowFiltered(r, u[i], keep)
    BY <2>2, <2>3, <2>4
  <2>6. QED
    BY <2>5 DEF r
<1> HIDE DEF u
<1>3. QED
  BY <1>1, <1>2, FilteredByRow DEF u

\* release_load_only_injections only switches off.
LEMMA ReleaseFilters ==
    ASSUME NEW t, AreRecords(t), NEW net, NEW plan, NEW keep
    PROVE  Filtered(t, Release(t, net, plan), keep)
<1> DEFINE u == Release(t, net, plan)
<1>1. DOMAIN u = DOMAIN t /\ u = [i \in DOMAIN t |-> u[i]]
  BY DEF Release
<1>2. ASSUME NEW i \in DOMAIN t PROVE RowFiltered(t[i], u[i], keep)
  <2> DEFINE r == t[i]
             off == [r EXCEPT !.status = FALSE, !.flag = "load_only"]
  <2>1. DOMAIN r = RowFields
    BY DEF AreRecords
  <2>2. u[i] = r \/ u[i] = off
    BY DEF Release
  <2>3. RowFiltered(r, r, keep) /\ RowFiltered(r, off, keep)
    <3> HIDE DEF r
    <3>1. QED
      BY <2>1, SameIsFiltered, OffIsFiltered
  <2> HIDE DEF r, u, off
  <2>4. RowFiltered(r, u[i], keep)
    BY <2>2, <2>3
  <2>5. QED
    BY <2>4 DEF r
<1> HIDE DEF u
<1>3. QED
  BY <1>1, <1>2, FilteredByRow DEF u

(* widen_generation_only_injections only switches off or adds to variances    *)
(* that are not final.                                                        *)
LEMMA WidenFilters ==
    ASSUME NEW t, AreRecords(t), AllNat(t), NEW net, AreNodes(net), NEW plan, NEW keep
    PROVE  Filtered(t, Widen(t, net, plan, keep), keep)
<1> DEFINE u == Widen(t, net, plan, keep)
<1>1. DOMAIN u = DOMAIN t /\ u = [i \in DOMAIN t |-> u[i]]
  BY DEF Widen
<1>2. ASSUME NEW i \in DOMAIN t PROVE RowFiltered(t[i], u[i], keep)
  <2> DEFINE r == t[i]
             box == LoadRange(net[r.obj], r.kind)
             value == r.value - (box[1] + box[2]) \div 2
             var == IF r.id \in keep THEN r.var ELSE r.var + VarUniform(box)
  <2>1. DOMAIN r = RowFields /\ r.var \in Nat
    BY DEF AreRecords, AllNat
  <2> DEFINE off == [r EXCEPT !.status = FALSE, !.flag = "gen_only"]
  <2>2. \/ u[i] = r \/ u[i] = off
        \/ i \in Partial(t, net, plan) /\ u[i] = [r EXCEPT !.value = value, !.var = var]
    <3>1. u[i] = IF i \notin Partial(t, net, plan) \/ ~(Declared(box) \/ Unset(box)) THEN r
                 ELSE IF Unset(box) THEN [r EXCEPT !.status = FALSE, !.flag = "gen_only"]
                 ELSE [r EXCEPT !.value = @ - (box[1] + box[2]) \div 2,
                                !.var = IF r.id \in keep THEN @ ELSE @ + VarUniform(box)]
      BY DEF Widen
    <3>2. [r EXCEPT !.value = @ - (box[1] + box[2]) \div 2,
                    !.var = IF r.id \in keep THEN @ ELSE @ + VarUniform(box)]
            = [r EXCEPT !.value = value, !.var = var]
      <4> HIDE DEF r, box
      <4>1. QED
        BY <2>1 DEF RowFields
    <3>3. QED
      <4> HIDE DEF r, box, value, var, u
      <4>1. QED
        BY <3>1, <3>2
  <2>3. ASSUME i \in Partial(t, net, plan) PROVE RowFiltered(r, [r EXCEPT !.value = value, !.var = var], keep)
    <3>1. r.obj \in DOMAIN net
      BY <2>3 DEF Partial
    <3>2. box \in Int \X Int
      BY <3>1 DEF AreNodes, LoadRange
    <3>3. VarUniform(box) \in Nat
      <4> HIDE DEF box
      <4>1. QED
        BY <3>2, VarUniformNat
    <3>4. var \in Nat /\ var >= r.var /\ (r.id \in keep => var = r.var)
      <4> DEFINE w == VarUniform(box)
                 x == r.var
                 y == r.id
      <4>1. w \in Nat /\ x \in Nat /\ var = IF y \in keep THEN x ELSE x + w
        BY <2>1, <3>3
      <4> HIDE DEF w, x, y, var
      <4>2. var \in Nat /\ var >= x /\ (y \in keep => var = x)
        BY <4>1
      <4>3. QED
        BY <4>2 DEF x, y
    <3> HIDE DEF var, value, r
    <3>5. QED
      BY <2>1, <3>4 DEF RowFiltered, RowFields
  <2> HIDE DEF r, u, var, value
  <2>4. RowFiltered(r, r, keep) /\ RowFiltered(r, off, keep)
    BY <2>1, SameIsFiltered, OffIsFiltered
  <2> HIDE DEF off
  <2>5. RowFiltered(r, u[i], keep)
    BY <2>2, <2>3, <2>4
  <2>6. QED
    BY <2>5 DEF r
<1> HIDE DEF u
<1>3. QED
  BY <1>1, <1>2, FilteredByRow DEF u

(* The calibration of generator voltages takes only good readings that are    *)
(* not final.                                                                 *)
LEMMA GenVoltageFilters ==
    ASSUME NEW t, AreRecords(t), NEW net, NEW keep, NEW cfg
    PROVE  Filtered(t, GenVoltage(t, net, keep, cfg), keep)
<1> DEFINE u == GenVoltage(t, net, keep, cfg)
<1>1. DOMAIN u = DOMAIN t /\ u = [i \in DOMAIN t |-> u[i]]
  BY DEF GenVoltage
<1>2. ASSUME NEW i \in DOMAIN t PROVE RowFiltered(t[i], u[i], keep)
  <2> DEFINE r == t[i]
  <2>1. DOMAIN r = RowFields
    BY DEF AreRecords
  <2>2. u[i] = r \/ (u[i] = [r EXCEPT !.var = GenVSigma2] /\ r.id \notin keep /\ r.quality = Good)
    BY DEF GenVoltage
  <2> HIDE DEF r, u
  <2>3. ASSUME r.id \notin keep, r.quality = Good PROVE RowFiltered(r, [r EXCEPT !.var = GenVSigma2], keep)
    <3>1. Good # Questionable /\ GenVSigma2 \in Nat
      BY FactorsAssumption DEF Good, Questionable
    <3>2. QED
      BY <2>1, <2>3, <3>1 DEF RowFiltered, RowFields
  <2>4. RowFiltered(r, u[i], keep)
    BY <2>1, <2>2, <2>3, SameIsFiltered
  <2>5. QED
    BY <2>4 DEF r
<1> HIDE DEF u
<1>3. QED
  BY <1>1, <1>2, FilteredByRow DEF u

\* deactivate_orphan_measurements leaves active rows at live objects only.
LEMMA OrphansFilters ==
    ASSUME NEW t, AreRecords(t), NEW net, NEW lines, NEW keep
    PROVE  /\ Filtered(t, Orphans(t, net, lines), keep)
           /\ \A i \in DOMAIN t : Orphans(t, net, lines)[i].status => Live(Orphans(t, net, lines)[i], net, lines)
<1> DEFINE u == Orphans(t, net, lines)
<1>1. DOMAIN u = DOMAIN t /\ u = [i \in DOMAIN t |-> u[i]]
  BY DEF Orphans
<1>2. ASSUME NEW i \in DOMAIN t
      PROVE  RowFiltered(t[i], u[i], keep) /\ (u[i].status => Live(u[i], net, lines))
  <2> DEFINE r == t[i]
             on == r.status /\ Live(r, net, lines)
  <2>1. DOMAIN r = RowFields
    BY DEF AreRecords
  <2>2. u[i] = [r EXCEPT !.status = on]
    <3>1. u[i] = [r EXCEPT !.status = @ /\ Live(r, net, lines)]
      BY DEF Orphans
    <3> HIDE DEF r, u
    <3>2. QED
      BY <2>1, <3>1 DEF RowFields
  <2>3. on => r.status /\ Live(r, net, lines)
    OBVIOUS
  <2> HIDE DEF r, u, on
  <2>4. /\ u[i].status = on /\ u[i].kind = r.kind /\ u[i].obj = r.obj /\ DOMAIN u[i] = RowFields
        /\ u[i].id = r.id /\ u[i].side = r.side /\ u[i].pseudo = r.pseudo /\ u[i].part = r.part
        /\ u[i].quality = r.quality /\ u[i].var = r.var
    BY <2>1, <2>2 DEF RowFields
  <2>5. RowFiltered(r, u[i], keep)
    BY <2>3, <2>4 DEF RowFiltered
  <2>6. u[i].status => Live(u[i], net, lines)
    <3>1. Live(u[i], net, lines) <=> Live(r, net, lines)
      BY <2>4 DEF Live
    <3>2. u[i].status => Live(r, net, lines)
      BY <2>3, <2>4
    <3>3. QED
      BY <3>1, <3>2
  <2>7. QED
    BY <2>5, <2>6 DEF r
<1> HIDE DEF u
<1>3. QED
  BY <1>1, <1>2, FilteredByRow DEF u

(* apply_flow_sigma_floor raises variances of readings that are not final,    *)
(* and no other.                                                              *)
LEMMA FlowFloorFilters ==
    ASSUME NEW t, AreRecords(t), NEW net, AreNodes(net), NEW lines, NEW keep,
           NEW cfg, cfg.floor \in Nat, \A i \in DOMAIN t : ~t[i].pseudo => t[i].var \in Nat
    PROVE  LET u == FlowFloor(t, net, lines, keep, cfg)
           IN  /\ Filtered(t, u, keep)
               /\ \A i \in DOMAIN t :
                     /\ u[i].status = t[i].status /\ u[i].quality = t[i].quality
                     /\ t[i].pseudo => u[i] = t[i]
<1> DEFINE u == FlowFloor(t, net, lines, keep, cfg)
<1>1. DOMAIN u = DOMAIN t /\ u = [i \in DOMAIN t |-> u[i]]
  BY DEF FlowFloor
<1>2. ASSUME NEW i \in DOMAIN t
      PROVE  /\ RowFiltered(t[i], u[i], keep)
             /\ u[i].status = t[i].status /\ u[i].quality = t[i].quality
             /\ t[i].pseudo => u[i] = t[i]
  <2> DEFINE r == t[i]
             v == Largest(r.var, Floor(r, net, lines, cfg))
  <2>1. DOMAIN r = RowFields /\ (~r.pseudo => r.var \in Nat)
    BY DEF AreRecords
  <2>2. u[i] = r \/ (u[i] = [r EXCEPT !.var = v] /\ r.id \notin keep /\ ~r.pseudo)
    <3>1. u[i] = r \/ (u[i] = [r EXCEPT !.var = Largest(@, Floor(r, net, lines, cfg))] /\ r.id \notin keep /\ ~r.pseudo)
      BY DEF FlowFloor
    <3>2. [r EXCEPT !.var = Largest(@, Floor(r, net, lines, cfg))] = [r EXCEPT !.var = v]
      BY <2>1 DEF RowFields
    <3> HIDE DEF r, u, v
    <3>3. QED
      BY <3>1, <3>2
  <2>3. ASSUME ~r.pseudo PROVE v \in Nat /\ v >= r.var
    <3> DEFINE w == Floor(r, net, lines, cfg)
               x == r.var
    <3>1. w \in Nat /\ x \in Nat
      BY <2>1, <2>3, FloorNat
    <3> HIDE DEF w, x
    <3>2. Largest(x, w) \in Nat /\ Largest(x, w) >= x
      BY <3>1, LargestFacts
    <3>3. QED
      BY <3>2 DEF w, x
  <2> HIDE DEF r, u, v
  <2>4. ASSUME r.id \notin keep, ~r.pseudo
        PROVE  /\ RowFiltered(r, [r EXCEPT !.var = v], keep)
               /\ [r EXCEPT !.var = v].status = r.status /\ [r EXCEPT !.var = v].quality = r.quality
    BY <2>1, <2>3, <2>4 DEF RowFiltered, RowFields
  <2>5. RowFiltered(r, u[i], keep) /\ u[i].status = r.status /\ u[i].quality = r.quality
    BY <2>1, <2>2, <2>4, SameIsFiltered
  <2>6. QED
    BY <2>2, <2>5 DEF r
<1> HIDE DEF u
<1>3. Filtered(t, u, keep)
  BY <1>1, <1>2, FilteredByRow
<1>4. QED
  BY <1>2, <1>3 DEF u

-----------------------------------------------------------------------------
(* The telemetry step *)

\* The variance of a power reading is natural.
LEMMA VarPowerNat ==
    \A value \in Int, percent \in Nat, base \in Nat : VarPower(value, percent, base) \in Nat
<1>1. ASSUME NEW value \in Int, NEW percent \in Nat, NEW base \in Nat
      PROVE  VarPower(value, percent, base) \in Nat
  <2> DEFINE a == percent * percent * value * value
             c == CeilDiv(a, 100)
             l == Largest(c, 25)
  <2>1. a \in Nat
    <3>1. percent * percent \in Nat /\ value * value \in Nat
      BY SquareNat
    <3>2. a = (percent * percent) * (value * value)
      OBVIOUS
    <3>3. \A x, y \in Nat : x * y \in Nat
      OBVIOUS
    <3>4. QED
      BY <3>1, <3>2, <3>3
  <2> HIDE DEF a
  <2>2. c \in Nat
    BY <2>1, CeilDivNat
  <2> HIDE DEF c
  <2>3. l \in Nat
    BY <2>2, LargestFacts
  <2> HIDE DEF l
  <2>4. l + base \in Nat
    BY <2>3
  <2>5. QED
    BY <2>4 DEF VarPower, l, c, a
<1>2. QED
  BY <1>1

\* The variance of a voltage reading is natural.
LEMMA VarVoltageNat == \A vn \in Nat : VarVoltage(vn) \in Nat
<1>1. ASSUME NEW vn \in Nat PROVE VarVoltage(vn) \in Nat
  <2> DEFINE c == CeilDiv(vn * vn, 100)
  <2>1. vn * vn \in Nat
    OBVIOUS
  <2>2. c \in Nat
    BY <2>1, CeilDivNat
  <2> HIDE DEF c
  <2>3. Largest(c, 1) \in Nat
    BY <2>2, LargestFacts
  <2>4. QED
    BY <2>3 DEF VarVoltage, c
<1>2. QED
  BY <1>1

\* The variance of a reactive flow is natural.
LEMMA VarBranchQNat == \A value, charging \in Int : VarBranchQ(value, charging) \in Nat
<1>1. ASSUME NEW value \in Int, NEW charging \in Int PROVE VarBranchQ(value, charging) \in Nat
  <2> DEFINE a == VarPower(value, 7, 100)
             b == charging * charging
  <2>1. a \in Nat /\ b \in Nat
    BY VarPowerNat, SquareNat
  <2> HIDE DEF a, b
  <2>2. Largest(a, b) \in Nat
    BY <2>1, LargestFacts
  <2>3. QED
    BY <2>2 DEF VarBranchQ, a, b
<1>2. QED
  BY <1>1

\* The built-in noise model gives naturals.
LEMMA BuiltinNat ==
    ASSUME NEW net, AreNodes(net), NEW lines, AreBranches(lines), NEW key, NEW value \in Int,
           IsFlow(key) => key[1] \in DOMAIN lines
    PROVE  Builtin(net, lines, key, value) \in Nat
<1>1. CASE key[2] = "v"
  <2>1. NodeVn(net, key[1]) \in Nat
    BY DEF NodeVn, AreNodes
  <2>2. VarVoltage(NodeVn(net, key[1])) \in Nat
    BY <2>1, VarVoltageNat
  <2>3. Builtin(net, lines, key, value) = VarVoltage(NodeVn(net, key[1]))
    BY <1>1 DEF Builtin, IsQ
  <2>4. QED
    BY <2>2, <2>3
<1>2. CASE IsQ(key)
  <2> DEFINE c == IF FromVn(net, lines[key[1]]) > 0 THEN lines[key[1]].charging ELSE 0
  <2>1. key[1] \in DOMAIN lines
    BY <1>2 DEF IsFlow
  <2>2. c \in Int
    BY <2>1 DEF AreBranches
  <2>3. Builtin(net, lines, key, value) = VarBranchQ(value, c)
    BY <1>2 DEF Builtin, IsQ
  <2> HIDE DEF c
  <2>4. QED
    BY <2>2, <2>3, VarBranchQNat
<1>3. CASE key[2] # "v" /\ ~IsQ(key)
  <2>1. Builtin(net, lines, key, value) = VarPower(value, 2, 100)
    BY <1>3 DEF Builtin
  <2>2. QED
    BY <2>1, VarPowerNat
<1>4. QED
  BY <1>1, <1>2, <1>3

(* A reading that activates its row has a number, is not of bad quality, and  *)
(* its branch is in the table.                                                *)
LEMMA ActivatingReading ==
    ASSUME NEW plan, NEW net, NEW lines, NEW key, NEW cfg,
           Verdict(plan, net, lines, key, cfg) = "activate"
    PROVE  /\ plan[key].value # None /\ plan[key].quality # Bad
           /\ IsFlow(key) => key[1] \in DOMAIN lines
BY DEF Verdict

(* An activated reading has a natural variance, its external one where that   *)
(* is final.                                                                  *)
LEMMA VarianceNat ==
    ASSUME NEW plan, IsPlan(plan), NEW net, AreNodes(net), NEW lines, AreBranches(lines),
           NEW cfg, NEW key \in DOMAIN plan, Verdict(plan, net, lines, key, cfg) = "activate"
    PROVE  /\ Variance(plan, net, lines, key, cfg) \in Nat
           /\ plan[key].ext # None /\ cfg.final => Variance(plan, net, lines, key, cfg) = plan[key].ext
<1> DEFINE ext == plan[key].ext
           value == plan[key].value
           scale == plan[key].scale
           base == IF ext # None THEN ext ELSE Builtin(net, lines, key, value)
           doubt == IF plan[key].quality = Questionable THEN QuestionableFactor ELSE 1
           loss == IF IsQ(key) /\ QInconsistent(plan, net, lines, key[1], cfg) THEN QLossFactor ELSE 1
           scaled == CeilDiv(base * doubt * scale, 100)
<1>1. /\ ext = None \/ ext \in Nat
      /\ value \in Int /\ scale \in Nat
      /\ IsFlow(key) => key[1] \in DOMAIN lines
  BY ActivatingReading DEF IsPlan
<1>2. base \in Nat
  <2> HIDE DEF ext, value
  <2>1. Builtin(net, lines, key, value) \in Nat
    BY <1>1, BuiltinNat
  <2>2. QED
    BY <1>1, <2>1
<1>3. doubt \in Nat /\ loss \in Nat
  BY FactorsAssumption
<1>4. Variance(plan, net, lines, key, cfg) = IF ext # None /\ cfg.final THEN base ELSE scaled * loss
  BY DEF Variance
<1>5. ext # None => base = ext
  OBVIOUS
<1> HIDE DEF base, doubt, loss, ext, scale
<1>6. base * doubt * scale \in Nat
  <2>1. base * doubt \in Nat
    BY <1>2, <1>3
  <2>2. QED
    BY <1>1, <2>1
<1>7. scaled \in Nat
  BY <1>6, CeilDivNat
<1> HIDE DEF scaled
<1>8. scaled * loss \in Nat
  BY <1>3, <1>7
<1>9. Variance(plan, net, lines, key, cfg) \in Nat
  BY <1>2, <1>4, <1>8
<1>10. ext # None /\ cfg.final => Variance(plan, net, lines, key, cfg) = ext
  BY <1>4, <1>5
<1>11. QED
  BY <1>9, <1>10 DEF ext

(* A row after the readings: off, or activated by a reading of its key.       *)
Applied(r, s, plan, net, lines, keys, cfg) ==
    /\ DOMAIN s = RowFields
    /\ s.id = r.id /\ s.kind = r.kind /\ s.obj = r.obj /\ s.side = r.side
    /\ s.pseudo = r.pseudo /\ s.part = r.part
    /\ s.var \in Nat
    /\ s.status =>
          /\ s.quality # Bad /\ s.value \in Int
          /\ \E key \in keys :
                /\ s.var = Variance(plan, net, lines, key, cfg)
                /\ Verdict(plan, net, lines, key, cfg) = "activate"

KeysAt(plan, t, i) == {k \in DOMAIN plan : IsPlaced(k) /\ Target(t, k) = i}

(* Activation takes variance and quality from the reading and keeps the key   *)
(* of the row.                                                                *)
LEMMA ActivatedRow ==
    ASSUME NEW r, DOMAIN r = RowFields, NEW plan, NEW net, NEW lines, NEW key, NEW cfg
    PROVE  LET s == Activated(r, plan, net, lines, key, cfg)
           IN  /\ DOMAIN s = RowFields
               /\ s.id = r.id /\ s.kind = r.kind /\ s.obj = r.obj /\ s.side = r.side
               /\ s.pseudo = r.pseudo /\ s.part = r.part
               /\ s.var = Variance(plan, net, lines, key, cfg) /\ s.quality = plan[key].quality
               /\ s.value = plan[key].value
BY DEF Activated, RowFields

(* Every row after the readings: switched off, or activated by a reading of   *)
(* its key.                                                                   *)
LEMMA ReadingsApplied ==
    ASSUME NEW t, AreRows(t), NEW plan, IsPlan(plan), NEW net, AreNodes(net),
           NEW lines, AreBranches(lines), NEW cfg
    PROVE  LET u == ApplyReadings(t, plan, net, lines, cfg)
           IN  /\ IsTable(u) /\ DOMAIN u = DOMAIN t /\ Len(u) = Len(t)
               /\ \A i \in DOMAIN t : Applied(t[i], u[i], plan, net, lines, KeysAt(plan, t, i), cfg)
<1> DEFINE u == ApplyReadings(t, plan, net, lines, cfg)
<1>1. DOMAIN u = DOMAIN t /\ u = [i \in DOMAIN t |-> u[i]]
  BY DEF ApplyReadings
<1>2. ASSUME NEW i \in DOMAIN t
      PROVE  Applied(t[i], u[i], plan, net, lines, KeysAt(plan, t, i), cfg)
  <2> DEFINE r == t[i]
             off == [r EXCEPT !.status = FALSE]
             keys == KeysAt(plan, t, i)
             key == CHOOSE k \in keys : TRUE
             verdict == Verdict(plan, net, lines, key, cfg)
             flagged == [off EXCEPT !.flag = verdict]
  <2>1. DOMAIN r = RowFields /\ r.var \in Nat
    BY DEF AreRows
  <2>2. u[i] = IF keys = {} \/ verdict = "skip" THEN off
               ELSE IF verdict = "activate" THEN Activated(off, plan, net, lines, key, cfg)
               ELSE flagged
    BY DEF ApplyReadings, KeysAt
  <2>3. /\ DOMAIN off = RowFields /\ DOMAIN flagged = RowFields
        /\ off.id = r.id /\ off.kind = r.kind /\ off.obj = r.obj /\ off.side = r.side
        /\ off.pseudo = r.pseudo /\ off.part = r.part /\ off.var = r.var /\ off.status = FALSE
    <3> HIDE DEF r, verdict
    <3>1. QED
      BY <2>1 DEF RowFields
  <2>4. /\ flagged.id = r.id /\ flagged.kind = r.kind /\ flagged.obj = r.obj /\ flagged.side = r.side
        /\ flagged.pseudo = r.pseudo /\ flagged.part = r.part /\ flagged.var = r.var
        /\ flagged.status = FALSE
    <3> HIDE DEF r, verdict
    <3>1. QED
      BY <2>1 DEF RowFields
  <2>5. keys # {} => key \in keys
    OBVIOUS
  <2>6. keys \subseteq DOMAIN plan
    BY DEF KeysAt
  <2> HIDE DEF r, off, keys, key, flagged, u
  <2>7. Applied(r, off, plan, net, lines, keys, cfg) /\ Applied(r, flagged, plan, net, lines, keys, cfg)
    BY <2>1, <2>3, <2>4 DEF Applied
  <2>8. ASSUME keys # {}, verdict = "activate"
        PROVE  Applied(r, Activated(off, plan, net, lines, key, cfg), plan, net, lines, keys, cfg)
    <3> DEFINE s == Activated(off, plan, net, lines, key, cfg)
    <3>1. key \in keys /\ key \in DOMAIN plan /\ Verdict(plan, net, lines, key, cfg) = "activate"
      BY <2>5, <2>6, <2>8
    <3>2. /\ Variance(plan, net, lines, key, cfg) \in Nat /\ plan[key].quality # Bad
          /\ plan[key].value \in Int
      BY <3>1, VarianceNat, ActivatingReading DEF IsPlan
    <3>3. /\ DOMAIN s = RowFields
          /\ s.id = off.id /\ s.kind = off.kind /\ s.obj = off.obj /\ s.side = off.side
          /\ s.pseudo = off.pseudo /\ s.part = off.part
          /\ s.var = Variance(plan, net, lines, key, cfg) /\ s.quality = plan[key].quality
          /\ s.value = plan[key].value
      BY <2>3, ActivatedRow
    <3> HIDE DEF s
    <3>4. Applied(r, s, plan, net, lines, keys, cfg)
      BY <2>3, <3>1, <3>2, <3>3 DEF Applied
    <3>5. QED
      BY <3>4 DEF s
  <2>9. Applied(r, u[i], plan, net, lines, keys, cfg)
    <3>1. CASE keys = {} \/ verdict = "skip"
      BY <2>2, <2>7, <3>1
    <3>2. CASE keys # {} /\ verdict = "activate"
      <4>1. u[i] = Activated(off, plan, net, lines, key, cfg)
        BY <2>2, <3>2
      <4>2. QED
        BY <2>8, <3>2, <4>1
    <3>3. CASE keys # {} /\ verdict # "skip" /\ verdict # "activate"
      BY <2>2, <2>7, <3>3
    <3>4. QED
      BY <3>1, <3>2, <3>3
  <2>10. QED
    BY <2>9 DEF r, keys
<1> HIDE DEF u
<1>3. Len(t) \in Nat /\ DOMAIN t = 1 .. Len(t)
  BY TableIsSequence DEF AreRows
<1>4. IsTable(u) /\ Len(u) = Len(t)
  BY <1>1, <1>3, SequenceIsTable
<1>5. QED
  BY <1>1, <1>2, <1>4 DEF u

-----------------------------------------------------------------------------
(* Injection rows *)

\* The components that a row of this role sums.
RoleKeys(plan, n, part, role) == {k \in Components(plan, n, part) : role \in {0, Sign[k[2]]}}

\* The components of an injection are usable readings of its node.
LEMMA ComponentsAreReadings ==
    ASSUME NEW plan, IsPlan(plan), NEW n, NEW part, NEW role
    PROVE  /\ IsFiniteSet(RoleKeys(plan, n, part, role))
           /\ \A k \in RoleKeys(plan, n, part, role) :
                 /\ k \in DOMAIN plan /\ k[1] = n
                 /\ Sign[k[2]] \in Int
                 /\ plan[k].value \in Int /\ plan[k].quality \in {Good, Questionable}
                 /\ plan[k].ext = None \/ plan[k].ext \in Nat
<1> DEFINE K == RoleKeys(plan, n, part, role)
<1>1. ASSUME NEW k \in K
      PROVE  /\ k \in DOMAIN plan /\ k[1] = n
             /\ k[2] \in DOMAIN Part
             /\ plan[k].value # None /\ plan[k].quality # Bad
  BY DEF RoleKeys, Components, Usable, IsComponent
<1>2. K \in SUBSET DOMAIN plan
  BY <1>1
<1>3. IsFiniteSet(K)
  <2> HIDE DEF K
  <2>1. QED
    BY <1>2, FS_Subset DEF IsPlan
<1>4. \A e \in DOMAIN Part : Sign[e] \in Int
  BY DEF Part, Sign
<1> HIDE DEF K
<1>5. ASSUME NEW k \in K
      PROVE  /\ Sign[k[2]] \in Int
             /\ plan[k].value \in Int /\ plan[k].quality \in {Good, Questionable}
             /\ plan[k].ext = None \/ plan[k].ext \in Nat
  <2>1. k \in DOMAIN plan /\ k[2] \in DOMAIN Part /\ plan[k].value # None /\ plan[k].quality # Bad
    BY <1>1
  <2>2. Sign[k[2]] \in Int
    BY <1>4, <2>1
  <2>3. /\ plan[k].value = None \/ plan[k].value \in Int
        /\ plan[k].ext = None \/ plan[k].ext \in Nat
        /\ plan[k].quality \in {Good, Questionable, Bad}
    BY <2>1 DEF IsPlan
  <2>4. QED
    BY <2>1, <2>2, <2>3
<1>6. QED
  BY <1>1, <1>3, <1>5 DEF K

\* External variances sum to a natural.
LEMMA ExternalSumNat ==
    ASSUME NEW plan, NEW keys, IsFiniteSet(keys), \A k \in keys : plan[k].ext \in Nat
    PROVE  ExternalSum(plan, keys) \in Nat
<1> DEFINE f == [k \in keys |-> plan[k].ext]
<1>1. f \in [keys -> Nat]
  OBVIOUS
<1>2. 0 \in Nat /\ \A a, b \in Nat : a + b \in Nat
  OBVIOUS
<1> HIDE DEF f
<1>3. SumFunction(f) \in Nat
  BY <1>1, <1>2, SumFunctionType
<1>4. QED
  BY <1>3 DEF ExternalSum, f

(* The quality of an injection is that of its worst component.                *)
LEMMA WorstQuality ==
    ASSUME NEW plan, NEW keys, IsFiniteSet(keys), keys # {},
           \A k \in keys : plan[k].quality \in {Good, Questionable}
    PROVE  Max({plan[k].quality : k \in keys}) \in {Good, Questionable}
<1> DEFINE f == [k \in keys |-> plan[k].quality]
           Q == {plan[k].quality : k \in keys}
<1>1. DOMAIN f = keys /\ f = [k \in keys |-> f[k]] /\ Q = {f[k] : k \in keys}
  OBVIOUS
<1>2. Q \subseteq {Good, Questionable} /\ Q # {} /\ Q \subseteq Int
  BY DEF Good, Questionable
<1> HIDE DEF f, Q
<1>3. IsFiniteSet(Q)
  BY <1>1, FiniteImage
<1>4. Max(Q) \in Q
  BY <1>2, <1>3, LargestNumber
<1>5. QED
  BY <1>2, <1>4 DEF Q

\* row is the active row of these components, with their external variance
\* where that is final.
SumsComponents(row, plan, n, part, role, cfg) ==
    /\ DOMAIN row = RowFields
    /\ row.kind = part /\ row.obj = n /\ row.part = role
    /\ row.pseudo = FALSE /\ row.status = TRUE
    /\ row.value \in Int /\ row.var \in Nat /\ row.quality # Bad
    /\ cfg.final /\ Covered(plan, RoleKeys(plan, n, part, role)) =>
          row.var = ExternalSum(plan, RoleKeys(plan, n, part, role))

\* The row made of components: its key, quality and variance.
LEMMA InjectionRowMade ==
    ASSUME NEW plan, IsPlan(plan), NEW n, NEW part, NEW role, NEW cfg,
           RoleKeys(plan, n, part, role) # {}
    PROVE  SumsComponents(InjectionRow(plan, RoleKeys(plan, n, part, role), part, role, cfg),
                          plan, n, part, role, cfg)
<1> DEFINE keys == RoleKeys(plan, n, part, role)
           signed == [k \in keys |-> IF role = 0 THEN Sign[k[2]] * plan[k].value ELSE plan[k].value]
           value == SumFunction(signed)
           quality == Max({plan[k].quality : k \in keys})
           base == IF Covered(plan, keys) THEN ExternalSum(plan, keys) ELSE VarInjection(value, part)
           doubt == IF quality = Questionable /\ ~(Covered(plan, keys) /\ cfg.final)
                    THEN QuestionableFactor ELSE 1
           node == CHOOSE x \in {k[1] : k \in keys} : TRUE
           row == InjectionRow(plan, keys, part, role, cfg)
<1>1. /\ IsFiniteSet(keys)
      /\ \A k \in keys : /\ k \in DOMAIN plan /\ k[1] = n
                         /\ Sign[k[2]] \in Int
                         /\ plan[k].value \in Int /\ plan[k].quality \in {Good, Questionable}
                         /\ plan[k].ext = None \/ plan[k].ext \in Nat
  BY ComponentsAreReadings, Zenon
<1>2. row = NodeRow(part, node, value, base * doubt, quality, FALSE, role)
  BY DEF InjectionRow
<1>2a. keys # {}
  OBVIOUS
<1> HIDE DEF keys
<1>3. node = n
  <2>1. {k[1] : k \in keys} = {n}
    BY <1>1, <1>2a
  <2>2. QED
    BY <2>1
<1>4. value \in Int
  <2>1. signed \in [keys -> Int]
    <3>1. ASSUME NEW k \in keys
          PROVE  (IF role = 0 THEN Sign[k[2]] * plan[k].value ELSE plan[k].value) \in Int
      <4> DEFINE x == Sign[k[2]]
                 y == plan[k].value
      <4>1. x \in Int /\ y \in Int
        BY <1>1
      <4> HIDE DEF x, y
      <4>2. x * y \in Int
        BY <4>1
      <4>3. QED
        BY <4>1, <4>2 DEF x, y
    <3>2. QED
      BY <3>1
  <2>2. 0 \in Int /\ \A a, b \in Int : a + b \in Int
    OBVIOUS
  <2> HIDE DEF signed
  <2>3. QED
    BY <1>1, <2>1, <2>2, SumFunctionType
<1>5. quality \in {Good, Questionable} /\ quality # Bad
  <2>1. quality \in {Good, Questionable}
    BY <1>1, <1>2a, WorstQuality
  <2> HIDE DEF quality
  <2>2. QED
    BY <2>1 DEF Good, Questionable, Bad
<1> HIDE DEF value, quality, node
<1>6. VarInjection(value, part) \in Nat
  <2> DEFINE b == IF part = "Pinj" THEN 100 ELSE 50
  <2>1. b \in Nat
    OBVIOUS
  <2> HIDE DEF b
  <2>2. VarPower(value, 5, b) \in Nat
    BY <1>4, <2>1, VarPowerNat
  <2>3. QED
    BY <2>2 DEF VarInjection, b
<1>7. Covered(plan, keys) => ExternalSum(plan, keys) \in Nat
  <2>1. ASSUME Covered(plan, keys) PROVE \A k \in keys : plan[k].ext \in Nat
    BY <1>1, <2>1 DEF Covered
  <2>2. QED
    BY <1>1, <2>1, ExternalSumNat
<1>8. base \in Nat /\ doubt \in Nat
  BY <1>6, <1>7, FactorsAssumption
<1>9. cfg.final /\ Covered(plan, keys) => base = ExternalSum(plan, keys) /\ doubt = 1
  OBVIOUS
<1> HIDE DEF base, doubt
<1>10. base * doubt \in Nat /\ (doubt = 1 => base * doubt = base)
  BY <1>8
<1> DEFINE var == base * doubt
<1>11. /\ DOMAIN row = RowFields
       /\ row.kind = part /\ row.obj = node /\ row.pseudo = FALSE /\ row.status = TRUE
       /\ row.value = value /\ row.var = var /\ row.quality = quality /\ row.part = role
  <2> HIDE DEF row, var
  <2>1. row = NodeRow(part, node, value, var, quality, FALSE, role)
    BY <1>2 DEF var
  <2>2. QED
    BY <2>1 DEF NodeRow, RowFields
<1>12. var \in Nat /\ (cfg.final /\ Covered(plan, keys) => var = ExternalSum(plan, keys))
  BY <1>9, <1>10
<1> HIDE DEF row, var
<1>13. /\ DOMAIN row = RowFields
       /\ row.kind = part /\ row.obj = n /\ row.part = role
       /\ row.pseudo = FALSE /\ row.status = TRUE
       /\ row.value \in Int /\ row.var \in Nat /\ row.quality # Bad
       /\ cfg.final /\ Covered(plan, keys) => row.var = ExternalSum(plan, keys)
  BY <1>3, <1>4, <1>5, <1>11, <1>12
<1>14. QED
  BY <1>13 DEF row, keys, SumsComponents

\* row sums the components of one node, part and role.
IsInjection(row, plan, cfg) ==
    \E n : \E part \in InjectionKinds : \E role \in {0, 1, -1} :
        RoleKeys(plan, n, part, role) # {} /\ SumsComponents(row, plan, n, part, role, cfg)

Groups(plan, role) ==
    {g \in {<<RoleKeys(plan, n, p, role), p>> : n \in {k[1] : k \in DOMAIN plan}, p \in InjectionKinds} :
        g[1] # {}}

RoleRows(plan, role, cfg) == {InjectionRow(plan, g[1], g[2], role, cfg) : g \in Groups(plan, role)}

(* The injection rows are those of the net injection and, with roles, of its  *)
(* two parts.                                                                 *)
LEMMA InjectionRowsOfRoles ==
    ASSUME NEW plan, NEW cfg
    PROVE  InjectionRows(plan, cfg) =
               SetToSeq(RoleRows(plan, 0, cfg))
                   \o (IF cfg.roles THEN SetToSeq(RoleRows(plan, 1, cfg)) \o SetToSeq(RoleRows(plan, -1, cfg))
                       ELSE <<>>)
BY DEF InjectionRows, RoleRows, Groups, RoleKeys

\* The rows of one role, listed.
LEMMA RoleRowsListed ==
    ASSUME NEW plan, IsPlan(plan), NEW role \in {0, 1, -1}, NEW cfg
    PROVE  LET s == SetToSeq(RoleRows(plan, role, cfg))
           IN  IsTable(s) /\ \A i \in DOMAIN s : IsInjection(s[i], plan, cfg)
<1> DEFINE G == Groups(plan, role)
           S == RoleRows(plan, role, cfg)
           f == [g \in G |-> InjectionRow(plan, g[1], g[2], role, cfg)]
<1>1. ASSUME NEW g \in G
      PROVE  /\ \E n : \E p \in InjectionKinds : g = <<RoleKeys(plan, n, p, role), p>> /\ g[1] # {}
             /\ g \in (SUBSET DOMAIN plan) \X InjectionKinds
  <2>1. PICK n \in {k[1] : k \in DOMAIN plan}, p \in InjectionKinds :
           g = <<RoleKeys(plan, n, p, role), p>> /\ g[1] # {}
    BY DEF Groups
  <2>2. RoleKeys(plan, n, p, role) \in SUBSET DOMAIN plan
    BY DEF RoleKeys, Components
  <2>3. QED
    BY <2>1, <2>2
<1>2. IsFiniteSet(G)
  <2>1. IsFiniteSet(SUBSET DOMAIN plan)
    BY FS_SUBSET DEF IsPlan
  <2>2. IsFiniteSet(InjectionKinds)
    <3>1. IsFiniteSet({"Pinj"}) /\ InjectionKinds = {"Pinj"} \cup {"Qinj"}
      BY FS_Singleton DEF InjectionKinds
    <3>2. QED
      BY <3>1, FS_AddElement
  <2>3. IsFiniteSet((SUBSET DOMAIN plan) \X InjectionKinds)
    BY <2>1, <2>2, FS_Product
  <2>4. G \in SUBSET ((SUBSET DOMAIN plan) \X InjectionKinds)
    BY <1>1
  <2> HIDE DEF G
  <2>5. QED
    BY <2>3, <2>4, FS_Subset
<1>3. DOMAIN f = G /\ f = [g \in G |-> f[g]] /\ S = {f[g] : g \in G}
  BY DEF RoleRows
<1>4. IsFiniteSet(S)
  <2> HIDE DEF f, G, S
  <2>1. QED
    BY <1>2, <1>3, FiniteImage
<1>5. ASSUME NEW row \in S PROVE IsInjection(row, plan, cfg)
  <2>1. PICK g \in G : row = InjectionRow(plan, g[1], g[2], role, cfg)
    BY DEF RoleRows
  <2>2. PICK n : \E p \in InjectionKinds : g = <<RoleKeys(plan, n, p, role), p>> /\ g[1] # {}
    BY <1>1
  <2>3. PICK p \in InjectionKinds : g = <<RoleKeys(plan, n, p, role), p>> /\ g[1] # {}
    BY <2>2
  <2>4. g[1] = RoleKeys(plan, n, p, role) /\ g[2] = p
    BY <2>3
  <2>5. RoleKeys(plan, n, p, role) # {} /\ row = InjectionRow(plan, RoleKeys(plan, n, p, role), p, role, cfg)
    BY <2>1, <2>3, <2>4
  <2>6. SumsComponents(row, plan, n, p, role, cfg)
    BY <2>5, InjectionRowMade
  <2>7. QED
    BY <2>5, <2>6 DEF IsInjection
<1> HIDE DEF S
<1>6. IsTable(SetToSeq(S)) /\ \A i \in DOMAIN SetToSeq(S) : SetToSeq(S)[i] \in S
  BY <1>4, ListedSet
<1>7. IsTable(SetToSeq(S)) /\ \A i \in DOMAIN SetToSeq(S) : IsInjection(SetToSeq(S)[i], plan, cfg)
  BY <1>5, <1>6
<1>8. QED
  BY <1>7 DEF S

\* Injection rows joined to injection rows.
LEMMA JoinedInjections ==
    ASSUME NEW plan, NEW cfg, NEW s, IsTable(s), NEW t, IsTable(t),
           \A i \in DOMAIN s : IsInjection(s[i], plan, cfg),
           \A i \in DOMAIN t : IsInjection(t[i], plan, cfg)
    PROVE  IsTable(s \o t) /\ \A i \in DOMAIN (s \o t) : IsInjection((s \o t)[i], plan, cfg)
<1>1. /\ IsTable(s \o t)
      /\ Len(s \o t) = Len(s) + Len(t)
      /\ \A i \in DOMAIN s : i \in DOMAIN (s \o t) /\ (s \o t)[i] = s[i]
      /\ \A j \in DOMAIN t : Len(s) + j \in DOMAIN (s \o t) /\ (s \o t)[Len(s) + j] = t[j]
      /\ \A i \in DOMAIN (s \o t) :
            \/ i \in DOMAIN s
            \/ i - Len(s) \in DOMAIN t /\ (s \o t)[i] = t[i - Len(s)]
  BY Join, Zenon
<1> DEFINE u == s \o t
<1>2. ASSUME NEW i \in DOMAIN u PROVE IsInjection(u[i], plan, cfg)
  <2>1. CASE i \in DOMAIN s
    <3>1. u[i] = s[i]
      BY <1>1, <2>1
    <3> HIDE DEF u
    <3>2. QED
      BY <2>1, <3>1
  <2>2. CASE i - Len(s) \in DOMAIN t /\ u[i] = t[i - Len(s)]
    <3> HIDE DEF u
    <3>1. QED
      BY <2>2
  <2>3. QED
    BY <1>1, <2>1, <2>2
<1>3. QED
  BY <1>1, <1>2

\* Every injection row sums the components of a node and a part.
LEMMA InjectionRowsMade ==
    ASSUME NEW plan, IsPlan(plan), NEW cfg
    PROVE  LET rows == InjectionRows(plan, cfg)
           IN  AreRecords(rows) /\ \A j \in DOMAIN rows : IsInjection(rows[j], plan, cfg)
<1> DEFINE S(role) == SetToSeq(RoleRows(plan, role, cfg))
           a == S(0)
           b == S(1)
           c == S(-1)
           d == IF cfg.roles THEN b \o c ELSE <<>>
           rows == InjectionRows(plan, cfg)
<1>1. /\ IsTable(a) /\ \A i \in DOMAIN a : IsInjection(a[i], plan, cfg)
      /\ IsTable(b) /\ \A i \in DOMAIN b : IsInjection(b[i], plan, cfg)
      /\ IsTable(c) /\ \A i \in DOMAIN c : IsInjection(c[i], plan, cfg)
  BY RoleRowsListed
<1>2. rows = a \o d
  BY InjectionRowsOfRoles
<1> HIDE DEF a, b, c, rows
<1>3. IsTable(d) /\ \A i \in DOMAIN d : IsInjection(d[i], plan, cfg)
  <2>1. CASE cfg.roles
    <3>1. d = b \o c
      BY <2>1
    <3>2. IsTable(b \o c) /\ \A i \in DOMAIN (b \o c) : IsInjection((b \o c)[i], plan, cfg)
      BY <1>1, JoinedInjections
    <3> HIDE DEF d
    <3>3. QED
      BY <3>1, <3>2
  <2>2. CASE ~cfg.roles
    <3>1. d = <<>>
      BY <2>2
    <3> HIDE DEF d
    <3>2. IsTable(d) /\ Len(d) = 0
      BY <3>1, EmptyIsTable
    <3>3. DOMAIN d = {}
      <4>1. DOMAIN d = 1 .. 0
        BY <3>2, TableIsSequence
      <4>2. QED
        BY <4>1
    <3>4. QED
      BY <3>2, <3>3
  <2>3. QED
    BY <2>1, <2>2
<1> HIDE DEF d
<1>4. IsTable(a \o d) /\ \A i \in DOMAIN (a \o d) : IsInjection((a \o d)[i], plan, cfg)
  BY <1>1, <1>3, JoinedInjections
<1>5. IsTable(rows) /\ \A i \in DOMAIN rows : IsInjection(rows[i], plan, cfg)
  BY <1>2, <1>4
<1>6. ASSUME NEW j \in DOMAIN rows PROVE DOMAIN rows[j] = RowFields
  BY <1>5 DEF IsInjection, SumsComponents
<1>7. QED
  BY <1>5, <1>6 DEF AreRecords, rows

-----------------------------------------------------------------------------
(* What the telemetry step leaves *)

IntIds(t) == \A i \in DOMAIN t : t[i].id \in Int

\* Active rows are not of bad quality.
NotBad(t) == \A i \in DOMAIN t : t[i].status => t[i].quality # Bad

\* Active rows have numbers for values.
IntValues(t) == \A i \in DOMAIN t : t[i].status => t[i].value \in Int

\* The active injection rows are built from components of the plan.
OfComponents(t, plan) ==
    \A i \in DOMAIN t :
        t[i].status /\ t[i].kind \in InjectionKinds => Components(plan, t[i].obj, t[i].kind) # {}

\* Feeding, over any plan.
Feeds(plan, row) ==
    {k \in DOMAIN plan : k[1] = row.obj /\
        IF IsComponent(k)
        THEN Part[k[2]] = row.kind /\ Usable(plan[k]) /\ row.part \in {0, Sign[k[2]]}
        ELSE IsPlaced(k) /\ Place[k[2]] = <<row.kind, row.side>>}

KeysOf(plan, row) ==
    IF row.kind \in InjectionKinds
    THEN {k \in Components(plan, row.obj, row.kind) : row.part \in {0, Sign[k[2]]}}
    ELSE {k \in DOMAIN plan : IsPlaced(k) /\ Place[k[2]] = <<row.kind, row.side>> /\ k[1] = row.obj}

\* The final ids, by the readings that feed a row.
LEMMA FinalIdsAre ==
    ASSUME NEW t, NEW plan, NEW net, NEW lines, NEW cfg, cfg.final
    PROVE  LET u == Telemetry(t, plan, net, lines, cfg)
           IN  FinalIds(t, plan, net, lines, cfg) =
                  {u[i].id : i \in {j \in DOMAIN u : /\ u[j].status
                                                     /\ KeysOf(plan, u[j]) # {}
                                                     /\ Covered(plan, KeysOf(plan, u[j]))}}
BY DEF FinalIds, KeysOf

\* The kinds of rows and of components do not overlap.
LEMMA PlacesAndParts ==
    /\ \A e \in DOMAIN Place : Place[e][1] \in {"V", "P", "Q"}
    /\ \A e \in DOMAIN Part : Part[e] \in InjectionKinds
    /\ \A e \in DOMAIN Place : e \notin DOMAIN Part
    /\ InjectionKinds \cap {"V", "P", "Q"} = {}
BY DEF Place, Part, InjectionKinds

\* Readings of two kinds never share a place.
LEMMA PlaceIsInjective == \A d, e \in DOMAIN Place : Place[d] = Place[e] => d = e
BY DEF Place

\* The readings FinalIds looks at are those that feed the row.
LEMMA KeysOfFeed ==
    ASSUME NEW plan, NEW row PROVE KeysOf(plan, row) = Feeds(plan, row)
<1>1. CASE row.kind \in InjectionKinds
  <2> DEFINE K == {k \in Components(plan, row.obj, row.kind) : row.part \in {0, Sign[k[2]]}}
  <2>1. KeysOf(plan, row) = K
    BY <1>1 DEF KeysOf
  <2>2. ASSUME NEW k \in K PROVE k \in Feeds(plan, row)
    BY DEF Components, Feeds
  <2>3. ASSUME NEW k \in Feeds(plan, row) PROVE k \in K
    <3>1. IsComponent(k)
      <4>1. ASSUME ~IsComponent(k) PROVE FALSE
        <5>1. k[2] \in DOMAIN Place /\ Place[k[2]] = <<row.kind, row.side>>
          BY <4>1 DEF Feeds, IsPlaced
        <5>2. Place[k[2]][1] = row.kind
          BY <5>1
        <5>3. QED
          BY <1>1, <5>1, <5>2, PlacesAndParts
      <4>2. QED
        BY <4>1
    <3>2. QED
      BY <3>1 DEF Components, Feeds
  <2>4. K = Feeds(plan, row)
    BY <2>2, <2>3
  <2>5. QED
    BY <2>1, <2>4
<1>2. CASE row.kind \notin InjectionKinds
  <2> DEFINE K == {k \in DOMAIN plan : IsPlaced(k) /\ Place[k[2]] = <<row.kind, row.side>> /\ k[1] = row.obj}
  <2>1. KeysOf(plan, row) = K
    BY <1>2 DEF KeysOf
  <2>2. ASSUME NEW k \in K PROVE k \in Feeds(plan, row)
    <3>1. ~IsComponent(k)
      BY PlacesAndParts DEF IsPlaced, IsComponent
    <3>2. QED
      BY <3>1 DEF Feeds
  <2>3. ASSUME NEW k \in Feeds(plan, row) PROVE k \in K
    <3>1. ~IsComponent(k)
      BY <1>2, PlacesAndParts DEF IsComponent, Feeds
    <3>2. QED
      BY <3>1 DEF Feeds
  <2>4. K = Feeds(plan, row)
    BY <2>2, <2>3
  <2>5. QED
    BY <2>1, <2>4
<1>3. QED
  BY <1>1, <1>2

(* A reading goes to a row of its kind, side and object.                      *)
LEMMA TargetIsItsRow ==
    ASSUME NEW t, IsTable(t), NEW key, NEW i \in DOMAIN t, Target(t, key) = i
    PROVE  t[i].kind = Place[key[2]][1] /\ t[i].side = Place[key[2]][2] /\ t[i].obj = key[1]
<1> DEFINE kind == Place[key[2]][1]
           side == Place[key[2]][2]
           obj == key[1]
           hits == {j \in DOMAIN t : t[j].kind = kind /\ t[j].side = side /\ t[j].obj = obj}
<1>1. Len(t) \in Nat /\ DOMAIN t = 1 .. Len(t)
  BY TableIsSequence
<1>2. i = IF hits = {} THEN 0 ELSE Min(hits)
  BY DEF Target, RowAt
<1>3. hits # {}
  BY <1>1, <1>2
<1>4. hits \subseteq Int /\ \A y \in hits : 1 <= y
  BY <1>1
<1>5. Min(hits) \in hits
  <2> DEFINE one == 1
  <2>1. one \in Int /\ \A y \in hits : one <= y
    BY <1>4
  <2> HIDE DEF hits, one
  <2>2. QED
    BY <1>3, <1>4, <2>1, LeastMember
<1>6. i \in hits
  BY <1>2, <1>3, <1>5
<1>7. QED
  BY <1>6

\* No reading of the plan activates an injection row.
LEMMA InjectionsAreNotApplied ==
    ASSUME NEW t, IsTable(t), NEW i \in DOMAIN t, NEW s, NEW plan, NEW net, NEW lines, NEW cfg,
           Applied(t[i], s, plan, net, lines, KeysAt(plan, t, i), cfg), s.status
    PROVE  s.kind \notin InjectionKinds
<1>1. PICK key \in KeysAt(plan, t, i) : TRUE
  BY DEF Applied
<1>2. IsPlaced(key) /\ Target(t, key) = i
  BY <1>1 DEF KeysAt
<1>3. t[i].kind = Place[key[2]][1]
  BY <1>2, TargetIsItsRow
<1>4. s.kind = Place[key[2]][1] /\ key[2] \in DOMAIN Place
  BY <1>2, <1>3 DEF Applied, IsPlaced
<1>5. QED
  BY <1>4, PlacesAndParts

\* A row that sums components is of components of the plan.
LEMMA InjectionIsOfComponents ==
    ASSUME NEW row, NEW plan, NEW cfg, IsInjection(row, plan, cfg)
    PROVE  Components(plan, row.obj, row.kind) # {}
<1>1. PICK n : \E part \in InjectionKinds : \E role \in {0, 1, -1} :
          RoleKeys(plan, n, part, role) # {} /\ SumsComponents(row, plan, n, part, role, cfg)
  BY DEF IsInjection
<1>2. PICK part \in InjectionKinds : \E role \in {0, 1, -1} :
          RoleKeys(plan, n, part, role) # {} /\ SumsComponents(row, plan, n, part, role, cfg)
  BY <1>1
<1>3. row.obj = n /\ row.kind = part
  BY <1>2 DEF SumsComponents
<1>4. Components(plan, n, part) # {}
  BY <1>2 DEF RoleKeys
<1>5. QED
  BY <1>3, <1>4

\* A voltage or flow row is fed by one reading.
LEMMA OneReadingFeeds ==
    ASSUME NEW plan, IsPlan(plan), NEW key \in DOMAIN plan, IsPlaced(key), NEW row,
           row.kind = Place[key[2]][1], row.side = Place[key[2]][2], row.obj = key[1]
    PROVE  Feeds(plan, row) = {key}
<1>1. key[2] \in DOMAIN Place /\ ~IsComponent(key) /\ row.kind \notin InjectionKinds
  BY PlacesAndParts DEF IsPlaced, IsComponent
<1>2. Place[key[2]] = <<row.kind, row.side>>
  <2>1. \A e \in DOMAIN Place : Place[e] = <<Place[e][1], Place[e][2]>>
    BY DEF Place
  <2>2. QED
    BY <1>1, <2>1
<1>3. key \in Feeds(plan, row)
  BY <1>1, <1>2 DEF Feeds
<1>4. ASSUME NEW k \in Feeds(plan, row) PROVE k = key
  <2>1. k \in DOMAIN plan /\ k[1] = key[1]
    BY DEF Feeds
  <2>2. ~IsComponent(k)
    BY <1>1, PlacesAndParts DEF IsComponent, Feeds
  <2>3. IsPlaced(k) /\ Place[k[2]] = Place[key[2]]
    BY <1>2, <2>2 DEF Feeds
  <2>4. k[2] = key[2]
    BY <1>1, <2>3, PlaceIsInjective DEF IsPlaced
  <2>5. k[3] = 0 /\ key[3] = 0
    BY <2>1, <2>3 DEF IsPlan
  <2>6. k \in Int \X STRING \X Nat /\ key \in Int \X STRING \X Nat
    BY <2>1 DEF IsPlan
  <2>7. k = <<k[1], k[2], k[3]>> /\ key = <<key[1], key[2], key[3]>>
    BY <2>6
  <2>8. QED
    BY <2>1, <2>4, <2>5, <2>7
<1>5. QED
  BY <1>3, <1>4

(* The row of a plan and a final variance: the sum of what feeds it.          *)
KeptVariance(row, plan) ==
    row.status /\ ~row.pseudo /\ Feeds(plan, row) # {} /\ Covered(plan, Feeds(plan, row)) =>
        row.var = ExternalSum(plan, Feeds(plan, row))

\* An activated voltage or flow row has its final variance.
LEMMA AppliedKeeps ==
    ASSUME NEW t, IsTable(t), NEW i \in DOMAIN t, NEW s, NEW plan, IsPlan(plan),
           NEW net, AreNodes(net), NEW lines, AreBranches(lines), NEW cfg, cfg.final,
           Applied(t[i], s, plan, net, lines, KeysAt(plan, t, i), cfg)
    PROVE  KeptVariance(s, plan)
<1> SUFFICES ASSUME s.status, Covered(plan, Feeds(plan, s))
             PROVE  s.var = ExternalSum(plan, Feeds(plan, s))
  BY DEF KeptVariance
<1>1. PICK key \in KeysAt(plan, t, i) :
         /\ s.var = Variance(plan, net, lines, key, cfg)
         /\ Verdict(plan, net, lines, key, cfg) = "activate"
  BY DEF Applied
<1>2. key \in DOMAIN plan /\ IsPlaced(key) /\ Target(t, key) = i
  BY DEF KeysAt
<1>3. s.kind = Place[key[2]][1] /\ s.side = Place[key[2]][2] /\ s.obj = key[1]
  BY <1>2, TargetIsItsRow DEF Applied
<1>4. Feeds(plan, s) = {key}
  BY <1>2, <1>3, OneReadingFeeds
<1>5. plan[key].ext # None /\ plan[key].ext \in Nat
  BY <1>2, <1>4 DEF Covered, IsPlan
<1>6. s.var = plan[key].ext
  BY <1>1, <1>2, <1>5, VarianceNat
<1>7. ExternalSum(plan, {key}) = plan[key].ext
  <2> DEFINE f == [k \in {key} |-> plan[k].ext]
  <2>1. DOMAIN f = {key} /\ f[key] = plan[key].ext /\ f[key] \in Int
    BY <1>5
  <2> HIDE DEF f
  <2>2. SumFunction(f) = f[key]
    BY <2>1, SumFunctionSingle
  <2>3. QED
    BY <2>1, <2>2 DEF ExternalSum, f
<1>8. QED
  BY <1>4, <1>6, <1>7

\* An injection row has the sum of its final variances.
LEMMA InjectionKeeps ==
    ASSUME NEW row, NEW plan, NEW cfg, cfg.final, IsInjection(row, plan, cfg)
    PROVE  KeptVariance(row, plan)
<1>0. PICK n : \E part \in InjectionKinds : \E role \in {0, 1, -1} :
         RoleKeys(plan, n, part, role) # {} /\ SumsComponents(row, plan, n, part, role, cfg)
  BY DEF IsInjection
<1>1. PICK part \in InjectionKinds, role \in {0, 1, -1} :
         RoleKeys(plan, n, part, role) # {} /\ SumsComponents(row, plan, n, part, role, cfg)
  BY <1>0
<1>2. row.kind = part /\ row.obj = n /\ row.part = role
  BY <1>1 DEF SumsComponents
<1>3. KeysOf(plan, row) = RoleKeys(plan, n, part, role)
  BY <1>2 DEF KeysOf, RoleKeys
<1>4. Feeds(plan, row) = RoleKeys(plan, n, part, role)
  BY <1>3, KeysOfFeed
<1>5. QED
  BY <1>1, <1>4 DEF KeptVariance, SumsComponents

(* The variance depends on nothing else of a row.                             *)
LEMMA KeptBySameRow ==
    ASSUME NEW r, NEW s, NEW plan, KeptVariance(s, plan),
           r.kind = s.kind, r.obj = s.obj, r.side = s.side, r.pseudo = s.pseudo, r.part = s.part,
           r.var = s.var, r.status => s.status
    PROVE  KeptVariance(r, plan)
<1>1. Feeds(plan, r) = Feeds(plan, s)
  BY DEF Feeds
<1>2. QED
  BY <1>1 DEF KeptVariance

(* The step: a table of distinct ids, no active row of bad quality, and the   *)
(* final variances in place.                                                  *)
LEMMA TelemetryLeaves ==
    ASSUME NEW t, AreRows(t), NEW plan, IsPlan(plan), NEW net, AreNodes(net),
           NEW lines, AreBranches(lines), NEW cfg
    PROVE  LET u == Telemetry(t, plan, net, lines, cfg)
           IN  /\ AreRecords(u) /\ IntIds(u) /\ AllNat(u) /\ Distinct(u) /\ NotBad(u)
               /\ IntValues(u) /\ OfComponents(u, plan)
               /\ cfg.final => \A i \in DOMAIN u : KeptVariance(u[i], plan)
<1> DEFINE a == ApplyReadings(t, plan, net, lines, cfg)
           rows == InjectionRows(plan, cfg)
           first == AfterMax(t)
           u == Telemetry(t, plan, net, lines, cfg)
<1>1. IsTable(t) /\ IntIds(t) /\ Distinct(t)
  BY DEF AreRows, IntIds, Distinct
<1>2. /\ IsTable(a) /\ DOMAIN a = DOMAIN t /\ Len(a) = Len(t)
      /\ \A i \in DOMAIN t : Applied(t[i], a[i], plan, net, lines, KeysAt(plan, t, i), cfg)
  BY ReadingsApplied
<1>3. AreRecords(rows) /\ IsTable(rows) /\ \A j \in DOMAIN rows : IsInjection(rows[j], plan, cfg)
  BY InjectionRowsMade DEF AreRecords
<1>4. u = AddMany(a, rows, first)
  BY DEF Telemetry
<1> HIDE DEF a, rows, u
<1>5. first \in Int /\ ~Collides(t, rows, first)
  BY <1>1, <1>3, AfterMaxIsFree DEF IntIds
<1>6. Ids(a) = Ids(t)
  BY <1>2 DEF Ids, Applied
<1>7. ~Collides(a, rows, first)
  BY <1>5, <1>6 DEF Collides
<1> HIDE DEF first
<1>8. Extends(a, rows, first, u)
  BY <1>2, <1>3, <1>4, <1>5, AddManyExtends
<1>9. Distinct(a)
  BY <1>1, <1>2 DEF Distinct, Applied
<1>10. Distinct(u)
  BY <1>2, <1>5, <1>7, <1>8, <1>9, ExtendedIsDistinct
<1>11. ASSUME NEW i \in DOMAIN u
       PROVE  /\ DOMAIN u[i] = RowFields /\ u[i].id \in Int /\ u[i].var \in Nat
              /\ u[i].status => u[i].quality # Bad /\ u[i].value \in Int
              /\ u[i].status /\ u[i].kind \in InjectionKinds =>
                    Components(plan, u[i].obj, u[i].kind) # {}
              /\ cfg.final => KeptVariance(u[i], plan)
  <2>1. CASE i \in DOMAIN a
    <3>1. u[i] = a[i]
      BY <1>8, <2>1 DEF Extends
    <3>2. Applied(t[i], a[i], plan, net, lines, KeysAt(plan, t, i), cfg) /\ t[i].id \in Int
      BY <1>1, <1>2, <2>1 DEF IntIds
    <3>3. cfg.final => KeptVariance(a[i], plan)
      BY <1>1, <1>2, <2>1, <3>2, AppliedKeeps
    <3>4. a[i].status => a[i].kind \notin InjectionKinds
      BY <1>1, <1>2, <2>1, <3>2, InjectionsAreNotApplied
    <3>5. QED
      BY <3>1, <3>2, <3>3, <3>4 DEF Applied
  <2>2. CASE i \notin DOMAIN a
    <3> DEFINE j == i - Len(a)
    <3>1. j \in DOMAIN rows /\ SameRow(u[i], rows[j]) /\ u[i].id = first + j - 1
      BY <1>8, <2>2 DEF Extends
    <3>2. IsInjection(rows[j], plan, cfg) /\ j \in Int
      <4>1. Len(rows) \in Nat /\ DOMAIN rows = 1 .. Len(rows)
        BY <1>3, TableIsSequence
      <4>2. \A x \in 1 .. Len(rows) : x \in Int
        BY <4>1
      <4> HIDE DEF j
      <4>3. QED
        BY <1>3, <3>1, <4>1, <4>2
    <3> HIDE DEF j
    <3>3. u[i].id \in Int
      BY <1>5, <3>1, <3>2
    <3>4. rows[j].var \in Nat /\ rows[j].quality # Bad /\ rows[j].value \in Int
      BY <3>2 DEF IsInjection, SumsComponents
    <3>5. cfg.final => KeptVariance(u[i], plan)
      <4>1. cfg.final => KeptVariance(rows[j], plan)
        BY <3>2, InjectionKeeps
      <4>2. QED
        BY <3>1, <4>1, KeptBySameRow DEF SameRow
    <3>6. Components(plan, rows[j].obj, rows[j].kind) # {}
      BY <3>2, InjectionIsOfComponents
    <3>7. QED
      BY <3>1, <3>3, <3>4, <3>5, <3>6 DEF SameRow
  <2>3. QED
    BY <2>1, <2>2
<1>12. IsTable(u)
  BY <1>8 DEF Extends
<1>13. /\ AreRecords(u) /\ IntIds(u) /\ AllNat(u) /\ Distinct(u) /\ NotBad(u) /\ IntValues(u)
       /\ OfComponents(u, plan)
       /\ cfg.final => \A i \in DOMAIN u : KeptVariance(u[i], plan)
  BY <1>10, <1>11, <1>12 DEF AreRecords, IntIds, AllNat, NotBad, IntValues, OfComponents
<1>14. QED
  BY <1>13 DEF u

(* Every row with a final variance is among the final ids.                    *)
LEMMA FinalIdsComplete ==
    ASSUME NEW t, NEW plan, NEW net, NEW lines, NEW cfg, cfg.final,
           NEW i \in DOMAIN Telemetry(t, plan, net, lines, cfg),
           Telemetry(t, plan, net, lines, cfg)[i].status,
           Feeds(plan, Telemetry(t, plan, net, lines, cfg)[i]) # {},
           Covered(plan, Feeds(plan, Telemetry(t, plan, net, lines, cfg)[i]))
    PROVE  Telemetry(t, plan, net, lines, cfg)[i].id \in FinalIds(t, plan, net, lines, cfg)
<1> DEFINE u == Telemetry(t, plan, net, lines, cfg)
           F == FinalIds(t, plan, net, lines, cfg)
<1>1. F = {u[x].id : x \in {j \in DOMAIN u : /\ u[j].status
                                             /\ KeysOf(plan, u[j]) # {}
                                             /\ Covered(plan, KeysOf(plan, u[j]))}}
  BY FinalIdsAre
<1>2. i \in DOMAIN u /\ u[i].status /\ KeysOf(plan, u[i]) # {} /\ Covered(plan, KeysOf(plan, u[i]))
  BY KeysOfFeed
<1> HIDE DEF u, F
<1>3. u[i].id \in F
  BY <1>1, <1>2
<1>4. QED
  BY <1>3 DEF u, F

-----------------------------------------------------------------------------
(* Pseudo rows *)

\* An active row of good quality at a live node.
AtLiveNode(r, net) ==
    /\ DOMAIN r = RowFields
    /\ r.pseudo = TRUE /\ r.status = TRUE /\ r.quality = Good
    /\ r.kind \in {"V", "Pinj", "Qinj"} /\ r.obj \in ActiveNodes(net)

AllAtLiveNodes(s, net) == IsTable(s) /\ \A i \in DOMAIN s : AtLiveNode(s[i], net)

\* A pseudo row of an active node.
LEMMA PseudoRowAtNode ==
    ASSUME NEW net, NEW n \in ActiveNodes(net), NEW kind \in {"V", "Pinj", "Qinj"}, NEW value, NEW var
    PROVE  /\ AtLiveNode(PseudoRow(kind, n, value, var), net)
           /\ PseudoRow(kind, n, value, var).kind = kind /\ PseudoRow(kind, n, value, var).obj = n
<1> DEFINE r == PseudoRow(kind, n, value, var)
<1>1. /\ DOMAIN r = RowFields
      /\ r.kind = kind /\ r.obj = n /\ r.pseudo = TRUE /\ r.status = TRUE /\ r.quality = Good
  BY DEF PseudoRow, NodeRow, RowFields
<1> HIDE DEF r
<1>2. AtLiveNode(r, net) /\ r.kind = kind /\ r.obj = n
  BY <1>1 DEF AtLiveNode
<1>3. QED
  BY <1>2 DEF r

\* No rows at all are rows at live nodes.
LEMMA NoRows == \A net : AllAtLiveNodes(<<>>, net)
<1>1. IsTable(<<>>) /\ Len(<<>>) = 0
  BY EmptyIsTable
<1>2. DOMAIN <<>> = {}
  <2>1. DOMAIN <<>> = 1 .. Len(<<>>)
    BY <1>1, TableIsSequence
  <2>2. QED
    BY <1>1, <2>1
<1>3. QED
  BY <1>1, <1>2 DEF AllAtLiveNodes

\* One row at a live node.
LEMMA OneRow ==
    ASSUME NEW r, NEW net, AtLiveNode(r, net) PROVE AllAtLiveNodes(<<r>>, net)
<1>1. IsTable(<<r>>) /\ <<r>>[1] = r /\ DOMAIN <<r>> = {1}
  BY OneIsTable
<1>2. QED
  BY <1>1 DEF AllAtLiveNodes

\* Rows at live nodes joined to such rows.
LEMMA JoinedAtLiveNodes ==
    ASSUME NEW s, NEW t, NEW net, AllAtLiveNodes(s, net), AllAtLiveNodes(t, net)
    PROVE  AllAtLiveNodes(s \o t, net)
<1>0. IsTable(s) /\ IsTable(t)
  BY DEF AllAtLiveNodes
<1>1. /\ IsTable(s \o t)
      /\ Len(s \o t) = Len(s) + Len(t)
      /\ \A i \in DOMAIN s : i \in DOMAIN (s \o t) /\ (s \o t)[i] = s[i]
      /\ \A j \in DOMAIN t : Len(s) + j \in DOMAIN (s \o t) /\ (s \o t)[Len(s) + j] = t[j]
      /\ \A i \in DOMAIN (s \o t) :
            \/ i \in DOMAIN s
            \/ i - Len(s) \in DOMAIN t /\ (s \o t)[i] = t[i - Len(s)]
  BY <1>0, Join, Zenon
<1> DEFINE u == s \o t
<1>2. ASSUME NEW i \in DOMAIN u PROVE AtLiveNode(u[i], net)
  <2>1. CASE i \in DOMAIN s
    <3>1. u[i] = s[i]
      BY <1>1, <2>1
    <3> HIDE DEF u
    <3>2. QED
      BY <2>1, <3>1 DEF AllAtLiveNodes
  <2>2. CASE i - Len(s) \in DOMAIN t /\ u[i] = t[i - Len(s)]
    <3> HIDE DEF u
    <3>1. QED
      BY <2>2 DEF AllAtLiveNodes
  <2>3. QED
    BY <1>1, <2>1, <2>2
<1>3. QED
  BY <1>1, <1>2 DEF AllAtLiveNodes

\* Lists of rows at live nodes, flattened.
LEMMA FlattenedAtLiveNodes ==
    ASSUME NEW parts, IsTable(parts), NEW net, \A j \in DOMAIN parts : AllAtLiveNodes(parts[j], net)
    PROVE  AllAtLiveNodes(FlattenSeq(parts), net)
<1> DEFINE s == FlattenSeq(parts)
<1>1. \A j \in DOMAIN parts : IsTable(parts[j])
  BY DEF AllAtLiveNodes
<1>2. Joins(parts, Len(parts), s)
  BY <1>1, Flattened
<1>3. DOMAIN parts = 1 .. Len(parts)
  BY TableIsSequence
<1> HIDE DEF s
<1>4. ASSUME NEW i \in DOMAIN s PROVE AtLiveNode(s[i], net)
  <2>1. PICK j \in 1 .. Len(parts) : \E k \in DOMAIN parts[j] : s[i] = parts[j][k]
    BY <1>2 DEF Joins
  <2>2. PICK k \in DOMAIN parts[j] : s[i] = parts[j][k]
    BY <2>1
  <2>3. AllAtLiveNodes(parts[j], net)
    BY <1>3
  <2>4. QED
    BY <2>2, <2>3 DEF AllAtLiveNodes
<1>5. AllAtLiveNodes(s, net)
  BY <1>2, <1>4 DEF AllAtLiveNodes, Joins
<1>6. QED
  BY <1>5 DEF s

-----------------------------------------------------------------------------
(* Mirrored voltages *)

\* What a branch adds are mirrored rows of active nodes.
LEMMA ThroughAtLiveNodes ==
    ASSUME NEW t, NEW net, NEW lines, NEW rows, NEW b
    PROVE  LET X == {MirrorRow(t, f, n) : f \in ActiveNodes(net), n \in ActiveNodes(net)}
           IN  Through(t, net, lines, rows, b) \in Seq(X)
<1> DEFINE A == ActiveNodes(net)
           X == {MirrorRow(t, f, n) : f \in A, n \in A}
           from == lines[b].from
           to == lines[b].to
           w == Through(t, net, lines, rows, b)
<1>1. w = <<>> \/ ({from, to} \subseteq A /\ (w = <<MirrorRow(t, from, to)>> \/ w = <<MirrorRow(t, to, from)>>))
  BY DEF Through
<1> HIDE DEF w
<1>2. <<>> \in Seq(X)
  <2> HIDE DEF X
  <2>1. QED
    BY EmptySeq
<1>3. ASSUME {from, to} \subseteq A
      PROVE  <<MirrorRow(t, from, to)>> \in Seq(X) /\ <<MirrorRow(t, to, from)>> \in Seq(X)
  <2> DEFINE x == MirrorRow(t, from, to)
             y == MirrorRow(t, to, from)
  <2>1. x \in X /\ y \in X
    BY <1>3
  <2> HIDE DEF X, x, y
  <2>2. <<x>> \in Seq(X) /\ <<y>> \in Seq(X)
    BY <2>1
  <2>3. QED
    BY <2>2 DEF x, y
<1>4. w \in Seq(X)
  <2> HIDE DEF X, from, to
  <2>1. QED
    BY <1>1, <1>2, <1>3
<1>5. QED
  BY <1>4 DEF w

\* The mirrored rows, branch by branch.
Mirrors(t, net, lines, g) ==
    g = [b \in 0 .. Len(lines) |->
            IF b = 0 THEN <<>> ELSE g[b - 1] \o Through(t, net, lines, g[b - 1], b)]

\* The mirrored rows are the last value of their recursion.
LEMMA MirrorRowsAreLast ==
    ASSUME NEW t, NEW net, NEW lines
    PROVE  MirrorRows(t, net, lines) = (CHOOSE g : Mirrors(t, net, lines, g))[Len(lines)]
BY DEF MirrorRows, Mirrors

\* The recursion over the branches has a solution.
LEMMA MirrorsExist ==
    ASSUME NEW t, NEW net, NEW lines, Len(lines) \in Nat
    PROVE  \E g : Mirrors(t, net, lines, g)
<1> DEFINE L == Len(lines)
           X == {MirrorRow(t, f, n) : f \in ActiveNodes(net), n \in ActiveNodes(net)}
           T == Seq(X)
           F == [b \in Nat |-> [s \in T |-> s \o Through(t, net, lines, s, b)]]
           Next1(s, b) == s \o Through(t, net, lines, s, b)
<1>0. \A b, s : Through(t, net, lines, s, b) \in Seq(X)
  BY ThroughAtLiveNodes
<1> HIDE DEF X
<1>1. <<>> \in T
  BY EmptySeq
<1>2. ASSUME NEW b \in Nat, NEW s \in T PROVE Next1(s, b) \in T
  <2>1. Through(t, net, lines, s, b) \in Seq(X)
    BY <1>0
  <2>2. s \in Seq(X)
    OBVIOUS
  <2>3. s \o Through(t, net, lines, s, b) \in Seq(X)
    BY <2>1, <2>2, ConcatProperties
  <2>4. QED
    BY <2>3
<1>3. F \in [Nat -> [T -> T]]
  BY <1>2
<1>4. PICK f : Iterates(f, T, <<>>, F, L)
  <2> HIDE DEF F, T, L
  <2>1. L \in Nat
    BY DEF L
  <2>2. QED
    BY <1>1, <1>3, <2>1, BoundedRecursion
<1>5. f \in [0 .. L -> T] /\ f[0] = <<>> /\ \A k \in 1 .. L : f[k] = F[k][f[k - 1]]
  BY <1>4 DEF Iterates
<1>6. ASSUME NEW k \in 1 .. L PROVE f[k] = Next1(f[k - 1], k)
  <2>1. k \in Nat /\ k - 1 \in 0 .. L
    OBVIOUS
  <2>2. f[k - 1] \in T
    BY <1>5, <2>1
  <2>3. F[k][f[k - 1]] = Next1(f[k - 1], k)
    <3> HIDE DEF T
    <3>1. QED
      BY <2>1, <2>2
  <2>4. QED
    BY <1>5, <2>3
<1> HIDE DEF Next1
<1>7. \A b \in 0 .. L : f[b] = IF b = 0 THEN <<>> ELSE Next1(f[b - 1], b)
  <2>1. ASSUME NEW b \in 0 .. L PROVE f[b] = IF b = 0 THEN <<>> ELSE Next1(f[b - 1], b)
    <3>1. CASE b = 0
      BY <1>5, <3>1
    <3>2. CASE b # 0
      <4>1. b \in 1 .. L
        BY <3>2
      <4>2. QED
        BY <1>6, <3>2, <4>1
    <3>3. QED
      BY <3>1, <3>2
  <2>2. QED
    BY <2>1
<1>8. f = [b \in 0 .. L |-> IF b = 0 THEN <<>> ELSE Next1(f[b - 1], b)]
  BY <1>5, <1>7
<1>9. QED
  BY <1>8 DEF Mirrors, Next1

(* Mirrored rows are pseudo rows at live nodes, through any sequence of       *)
(* branches.                                                                  *)
LEMMA MirrorRowsAtLiveNodes ==
    ASSUME NEW t, NEW net, NEW lines, IsTable(lines)
    PROVE  AllAtLiveNodes(MirrorRows(t, net, lines), net)
<1> DEFINE L == Len(lines)
           A == ActiveNodes(net)
           X == {MirrorRow(t, f, n) : f \in A, n \in A}
           G == CHOOSE g : Mirrors(t, net, lines, g)
           U == {b \in Nat : b \in 0 .. L => G[b] \in Seq(X)}
<1>1. L \in Nat
  BY TableIsSequence
<1>2. Mirrors(t, net, lines, G)
  <2>1. \E g : Mirrors(t, net, lines, g)
    <3> HIDE DEF G, X, U
    <3>1. QED
      BY <1>1, MirrorsExist
  <2>2. QED
    BY <2>1
<1>3. \A b \in 0 .. L : G[b] = IF b = 0 THEN <<>> ELSE G[b - 1] \o Through(t, net, lines, G[b - 1], b)
  <2> HIDE DEF G
  <2>1. QED
    BY <1>2 DEF Mirrors
<1> HIDE DEF G
<1>4. 0 \in U
  <2>1. G[0] = <<>>
    BY <1>1, <1>3
  <2>2. G[0] \in Seq(X)
    <3> HIDE DEF X
    <3>1. QED
      BY <2>1, EmptySeq
  <2> HIDE DEF X
  <2>3. QED
    BY <2>2
<1>5. ASSUME NEW n \in Nat, n \in U PROVE n + 1 \in U
  <2> DEFINE k == n + 1
  <2>1. k \in Nat /\ k # 0 /\ k - 1 = n
    OBVIOUS
  <2>2. ASSUME k \in 0 .. L PROVE G[k] \in Seq(X)
    <3>1. n \in 0 .. L
      BY <1>1, <2>2
    <3>2. G[n] \in Seq(X)
      <4> HIDE DEF X
      <4>1. QED
        BY <1>5, <3>1
    <3>3. G[k] = G[n] \o Through(t, net, lines, G[n], k)
      <4> HIDE DEF k
      <4>1. QED
        BY <1>3, <2>1, <2>2
    <3>4. Through(t, net, lines, G[n], k) \in Seq(X)
      BY ThroughAtLiveNodes
    <3> HIDE DEF X, k
    <3>5. G[n] \o Through(t, net, lines, G[n], k) \in Seq(X)
      BY <3>2, <3>4, ConcatProperties
    <3>6. QED
      BY <3>3, <3>5
  <2> HIDE DEF X, k
  <2>3. k \in U
    BY <2>1, <2>2
  <2>4. QED
    BY <2>3 DEF k
<1>6. Nat \subseteq U
  <2> HIDE DEF U
  <2>1. QED
    BY <1>4, <1>5, InductiveSet
<1>7. G[L] \in Seq(X)
  <2> HIDE DEF X
  <2>1. QED
    BY <1>1, <1>6
<1>8. ASSUME NEW x \in X PROVE AtLiveNode(x, net)
  <2>1. PICK f \in A, n \in A : x = MirrorRow(t, f, n)
    OBVIOUS
  <2>2. x = PseudoRow("V", n, t[LastV(t, f)].value, t[LastV(t, f)].var)
    BY <2>1 DEF MirrorRow
  <2>3. QED
    BY <2>2, PseudoRowAtNode
<1> DEFINE s == MirrorRows(t, net, lines)
<1>9. s = G[L]
  BY MirrorRowsAreLast DEF G
<1> HIDE DEF s, X
<1>10. s \in Seq(X)
  BY <1>7, <1>9
<1>11. IsTable(s) /\ \A i \in DOMAIN s : s[i] \in X
  <2>1. IsTable(s)
    BY <1>10, SubsetIsTable
  <2>2. DOMAIN s = 1 .. Len(s)
    BY <2>1, TableIsSequence
  <2>3. QED
    BY <1>10, <2>1, <2>2, ElementOfSeq
<1>12. QED
  BY <1>8, <1>11 DEF AllAtLiveNodes, s

-----------------------------------------------------------------------------
(* External and built-in pseudo rows *)

\* External pseudo rows are added at live nodes only.
LEMMA ExternalRowsAtLiveNodes ==
    ASSUME NEW net, NEW given, IsTable(given),
           \A j \in DOMAIN given : given[j].kind \in {"V"} \cup InjectionKinds
    PROVE  AllAtLiveNodes(ExternalRows(net, given), net)
<1> DEFINE parts == [j \in DOMAIN given |->
                        IF given[j].node \in ActiveNodes(net)
                        THEN <<PseudoRow(given[j].kind, given[j].node, given[j].value, given[j].var)>>
                        ELSE <<>>]
<1>1. ExternalRows(net, given) = FlattenSeq(parts)
  BY DEF ExternalRows
<1>2. Len(given) \in Nat /\ DOMAIN given = 1 .. Len(given)
  BY TableIsSequence
<1>3. DOMAIN parts = DOMAIN given /\ parts = [j \in 1 .. Len(given) |-> parts[j]]
  BY <1>2
<1>4. ASSUME NEW j \in DOMAIN given PROVE AllAtLiveNodes(parts[j], net)
  <2>1. CASE given[j].node \in ActiveNodes(net)
    <3> DEFINE r == PseudoRow(given[j].kind, given[j].node, given[j].value, given[j].var)
    <3>1. given[j].kind \in {"V", "Pinj", "Qinj"}
      BY DEF InjectionKinds
    <3>2. AtLiveNode(r, net)
      BY <2>1, <3>1, PseudoRowAtNode
    <3>3. parts[j] = <<r>>
      BY <2>1
    <3> HIDE DEF r, parts
    <3>4. QED
      BY <3>2, <3>3, OneRow
  <2>2. CASE given[j].node \notin ActiveNodes(net)
    <3>1. parts[j] = <<>>
      BY <2>2
    <3> HIDE DEF parts
    <3>2. QED
      BY <3>1, NoRows
  <2>3. QED
    BY <2>1, <2>2
<1> HIDE DEF parts
<1>5. IsTable(parts)
  BY <1>2, <1>3, SequenceIsTable
<1>6. AllAtLiveNodes(FlattenSeq(parts), net)
  BY <1>3, <1>4, <1>5, FlattenedAtLiveNodes
<1>7. QED
  BY <1>1, <1>6

\* s has a row of this kind at node n.
HasRow(s, kind, n) == \E i \in DOMAIN s : s[i].kind = kind /\ s[i].obj = n

\* The row of a list of one.
LEMMA OneHasRow ==
    ASSUME NEW r PROVE HasRow(<<r>>, r.kind, r.obj)
<1>1. <<r>>[1] = r /\ DOMAIN <<r>> = {1}
  BY OneIsTable
<1>2. QED
  BY <1>1 DEF HasRow

\* A row of either list is one of both joined.
LEMMA JoinHasRow ==
    ASSUME NEW s, IsTable(s), NEW t, IsTable(t), NEW kind, NEW n, HasRow(s, kind, n) \/ HasRow(t, kind, n)
    PROVE  HasRow(s \o t, kind, n)
<1>1. /\ IsTable(s \o t)
      /\ Len(s \o t) = Len(s) + Len(t)
      /\ \A i \in DOMAIN s : i \in DOMAIN (s \o t) /\ (s \o t)[i] = s[i]
      /\ \A j \in DOMAIN t : Len(s) + j \in DOMAIN (s \o t) /\ (s \o t)[Len(s) + j] = t[j]
      /\ \A i \in DOMAIN (s \o t) :
            \/ i \in DOMAIN s
            \/ i - Len(s) \in DOMAIN t /\ (s \o t)[i] = t[i - Len(s)]
  BY Join, Zenon
<1> DEFINE u == s \o t
<1>2. (\A i \in DOMAIN s : i \in DOMAIN u /\ u[i] = s[i])
      /\ (\A j \in DOMAIN t : Len(s) + j \in DOMAIN u /\ u[Len(s) + j] = t[j])
  BY <1>1
<1> HIDE DEF u
<1>3. HasRow(u, kind, n)
  BY <1>2 DEF HasRow
<1>4. QED
  BY <1>3 DEF u

\* A pair is two lists of one, joined.
LEMMA PairIsJoin ==
    ASSUME NEW p, NEW q
    PROVE  <<p, q>> = <<p>> \o <<q>>
<1> DEFINE S == {p, q}
           u == <<p>> \o <<q>>
<1>1. <<p>> \in Seq(S) /\ <<q>> \in Seq(S) /\ <<p, q>> \in Seq(S)
  OBVIOUS
<1>2. Len(<<p>>) = 1 /\ Len(<<q>>) = 1 /\ <<p>>[1] = p /\ <<q>>[1] = q
  OBVIOUS
<1> HIDE DEF S
<1>3. /\ u \in Seq(S)
      /\ Len(u) = Len(<<p>>) + Len(<<q>>)
      /\ \A i \in 1 .. Len(<<p>>) + Len(<<q>>) :
            u[i] = IF i <= Len(<<p>>) THEN <<p>>[i] ELSE <<q>>[i - Len(<<p>>)]
  BY <1>1, ConcatProperties
<1> HIDE DEF u
<1>4. Len(u) = 2 /\ u[1] = p /\ u[2] = q
  BY <1>2, <1>3
<1>5. Len(<<p, q>>) = 2 /\ <<p, q>>[1] = p /\ <<p, q>>[2] = q
  OBVIOUS
<1>6. \A i \in 1 .. 2 : i = 1 \/ i = 2
  OBVIOUS
<1>7. <<p, q>> = u
  BY <1>1, <1>3, <1>4, <1>5, <1>6, SeqEqual
<1>8. QED
  BY <1>7 DEF u

\* A bare node with a nominal voltage gets a V prior.
LEMMA VPriorRows ==
    ASSUME NEW t, NEW net, NEW lines, NEW n \in ActiveNodes(net), NEW cfg
    PROVE  /\ AllAtLiveNodes(VPrior(t, net, lines, n, cfg), net)
           /\ cfg.pseudoV /\ n \notin Have(t, "V") /\ net[n].vn > 0 =>
                 HasRow(VPrior(t, net, lines, n, cfg), "V", n)
<1> DEFINE r == PseudoRow("V", n, PriorV(net, n), VarPriorV(t, net, lines, n, cfg))
           s == VPrior(t, net, lines, n, cfg)
           bare == cfg.pseudoV /\ n \notin Have(t, "V") /\ net[n].vn > 0
<1>1. s = IF bare THEN <<r>> ELSE <<>>
  BY DEF VPrior
<1>2. AtLiveNode(r, net) /\ r.kind = "V" /\ r.obj = n
  BY PseudoRowAtNode
<1> HIDE DEF r, s, bare
<1>3. AllAtLiveNodes(<<r>>, net) /\ AllAtLiveNodes(<<>>, net) /\ HasRow(<<r>>, "V", n)
  BY <1>2, OneRow, NoRows, OneHasRow
<1>4. AllAtLiveNodes(s, net) /\ (bare => HasRow(s, "V", n))
  BY <1>1, <1>3
<1>5. QED
  BY <1>4 DEF s, bare

\* A node without an active P injection gets a P prior.
LEMMA InjectionPriorRows ==
    ASSUME NEW t, NEW net, NEW lines, NEW n \in ActiveNodes(net), NEW free, NEW cfg
    PROVE  /\ AllAtLiveNodes(InjectionPriors(t, net, lines, n, free, cfg), net)
           /\ cfg.pseudoInjections /\ n \notin Have(t, "Pinj") =>
                 HasRow(InjectionPriors(t, net, lines, n, free, cfg), "Pinj", n)
<1> DEFINE p == PseudoRow("Pinj", n, net[n].genP - net[n].loadP,
                          VarInjectionPrior(t, net, lines, n, "Pinj", free, cfg))
           q == PseudoRow("Qinj", n, net[n].genQ - net[n].loadQ,
                          VarInjectionPrior(t, net, lines, n, "Qinj", free, cfg))
           p0 == PseudoRow("Pinj", n, 0, TransitVariance)
           q0 == PseudoRow("Qinj", n, 0, TransitVariance)
           s == InjectionPriors(t, net, lines, n, free, cfg)
<1>1. s = IF ~cfg.pseudoInjections THEN <<>>
          ELSE IF TightTransit(net, n, cfg) THEN <<p0, q0>>
          ELSE IF n \in Have(t, "Pinj") THEN <<>>
          ELSE IF n \in Have(t, "Qinj") THEN <<p>>
          ELSE <<p, q>>
  BY DEF InjectionPriors
<1>2. /\ AtLiveNode(p, net) /\ p.kind = "Pinj" /\ p.obj = n
      /\ AtLiveNode(q, net) /\ AtLiveNode(q0, net)
      /\ AtLiveNode(p0, net) /\ p0.kind = "Pinj" /\ p0.obj = n
  BY PseudoRowAtNode
<1> HIDE DEF p, q, p0, q0, s
<1>3. /\ AllAtLiveNodes(<<p>>, net) /\ AllAtLiveNodes(<<q>>, net)
      /\ AllAtLiveNodes(<<p0>>, net) /\ AllAtLiveNodes(<<q0>>, net) /\ AllAtLiveNodes(<<>>, net)
      /\ HasRow(<<p>>, "Pinj", n) /\ HasRow(<<p0>>, "Pinj", n)
  BY <1>2, OneRow, NoRows, OneHasRow
<1>4. AllAtLiveNodes(<<p, q>>, net) /\ HasRow(<<p, q>>, "Pinj", n)
  <2>1. AllAtLiveNodes(<<p>> \o <<q>>, net)
    BY <1>3, JoinedAtLiveNodes
  <2>2. HasRow(<<p>> \o <<q>>, "Pinj", n)
    BY <1>3, JoinHasRow DEF AllAtLiveNodes
  <2>3. QED
    BY <2>1, <2>2, PairIsJoin
<1>5. AllAtLiveNodes(<<p0, q0>>, net) /\ HasRow(<<p0, q0>>, "Pinj", n)
  <2>1. AllAtLiveNodes(<<p0>> \o <<q0>>, net)
    BY <1>3, JoinedAtLiveNodes
  <2>2. HasRow(<<p0>> \o <<q0>>, "Pinj", n)
    BY <1>3, JoinHasRow DEF AllAtLiveNodes
  <2>3. QED
    BY <2>1, <2>2, PairIsJoin
<1>6. AllAtLiveNodes(s, net)
  BY <1>1, <1>3, <1>4, <1>5
<1>7. cfg.pseudoInjections /\ n \notin Have(t, "Pinj") => HasRow(s, "Pinj", n)
  BY <1>1, <1>3, <1>4, <1>5
<1>8. QED
  BY <1>6, <1>7 DEF s

\* The priors are rows at live nodes, and every bare node gets its own.
LEMMA PriorsRows ==
    ASSUME NEW t, NEW net, AreNodes(net), NEW lines, NEW free, NEW cfg
    PROVE  /\ AllAtLiveNodes(Priors(t, net, lines, free, cfg), net)
           /\ \A n \in ActiveNodes(net) :
                 /\ cfg.pseudoV /\ n \notin Have(t, "V") /\ net[n].vn > 0 =>
                       HasRow(Priors(t, net, lines, free, cfg), "V", n)
                 /\ cfg.pseudoInjections /\ n \notin Have(t, "Pinj") =>
                       HasRow(Priors(t, net, lines, free, cfg), "Pinj", n)
<1> DEFINE V(n) == VPrior(t, net, lines, n, cfg)
           I(n) == InjectionPriors(t, net, lines, n, free, cfg)
           parts == [n \in DOMAIN net |-> IF ~net[n].status THEN <<>> ELSE V(n) \o I(n)]
           s == Priors(t, net, lines, free, cfg)
<1>1. s = FlattenSeq(parts)
  BY DEF Priors
<1>2. Len(net) \in Nat /\ DOMAIN net = 1 .. Len(net)
  BY TableIsSequence DEF AreNodes
<1>3. DOMAIN parts = DOMAIN net /\ parts = [n \in 1 .. Len(net) |-> parts[n]]
  BY <1>2
<1>4. \A n \in DOMAIN net : parts[n] = IF n \in ActiveNodes(net) THEN V(n) \o I(n) ELSE <<>>
  BY DEF ActiveNodes
<1> HIDE DEF parts
<1>5. ASSUME NEW n \in ActiveNodes(net)
      PROVE  /\ AllAtLiveNodes(V(n), net) /\ AllAtLiveNodes(I(n), net)
             /\ cfg.pseudoV /\ n \notin Have(t, "V") /\ net[n].vn > 0 => HasRow(V(n), "V", n)
             /\ cfg.pseudoInjections /\ n \notin Have(t, "Pinj") => HasRow(I(n), "Pinj", n)
  BY VPriorRows, InjectionPriorRows
<1> HIDE DEF V, I
<1>6. ASSUME NEW n \in ActiveNodes(net)
      PROVE  /\ AllAtLiveNodes(parts[n], net)
             /\ cfg.pseudoV /\ n \notin Have(t, "V") /\ net[n].vn > 0 => HasRow(parts[n], "V", n)
             /\ cfg.pseudoInjections /\ n \notin Have(t, "Pinj") => HasRow(parts[n], "Pinj", n)
  <2>1. n \in DOMAIN net
    BY DEF ActiveNodes
  <2>2. parts[n] = V(n) \o I(n)
    BY <1>4, <2>1
  <2>3. IsTable(V(n)) /\ IsTable(I(n))
    BY <1>5 DEF AllAtLiveNodes
  <2>4. AllAtLiveNodes(V(n) \o I(n), net)
    BY <1>5, JoinedAtLiveNodes
  <2>5. HasRow(V(n), "V", n) => HasRow(V(n) \o I(n), "V", n)
    BY <2>3, JoinHasRow
  <2>6. HasRow(I(n), "Pinj", n) => HasRow(V(n) \o I(n), "Pinj", n)
    BY <2>3, JoinHasRow
  <2>7. QED
    BY <1>5, <2>2, <2>4, <2>5, <2>6
<1>7. ASSUME NEW n \in DOMAIN parts PROVE AllAtLiveNodes(parts[n], net)
  <2>1. CASE n \in ActiveNodes(net)
    BY <1>6, <2>1
  <2>2. CASE n \notin ActiveNodes(net)
    <3>1. parts[n] = <<>>
      BY <1>3, <1>4, <2>2
    <3>2. QED
      BY <3>1, NoRows
  <2>3. QED
    BY <2>1, <2>2
<1>8. IsTable(parts) /\ Len(parts) = Len(net)
  BY <1>2, <1>3, SequenceIsTable
<1>9. AllAtLiveNodes(s, net)
  BY <1>1, <1>7, <1>8, FlattenedAtLiveNodes
<1>10. Joins(parts, Len(parts), s)
  <2>1. \A j \in DOMAIN parts : IsTable(parts[j])
    BY <1>7 DEF AllAtLiveNodes
  <2>2. QED
    BY <1>1, <1>8, <2>1, Flattened
<1> HIDE DEF s
<1>11. ASSUME NEW n \in ActiveNodes(net), NEW kind, HasRow(parts[n], kind, n) PROVE HasRow(s, kind, n)
  <2>1. n \in 1 .. Len(parts)
    BY <1>2, <1>8 DEF ActiveNodes
  <2>2. PICK k \in DOMAIN parts[n] : parts[n][k].kind = kind /\ parts[n][k].obj = n
    BY <1>11 DEF HasRow
  <2>3. PICK i \in DOMAIN s : s[i] = parts[n][k]
    BY <1>10, <2>1 DEF Joins
  <2>4. QED
    BY <2>2, <2>3 DEF HasRow
<1>12. \A n \in ActiveNodes(net) :
          /\ cfg.pseudoV /\ n \notin Have(t, "V") /\ net[n].vn > 0 => HasRow(s, "V", n)
          /\ cfg.pseudoInjections /\ n \notin Have(t, "Pinj") => HasRow(s, "Pinj", n)
  BY <1>6, <1>11
<1>13. QED
  BY <1>9, <1>12 DEF s

-----------------------------------------------------------------------------
(* The inductive invariant *)

\* The steps before rows that carry no reading are added.
BeforeAdditions == {"telemetry", "cascade", "range", "release", "relax", "widen", "genV",
                    "orphans", "mirror"}

\* The steps after the objects of the rows have been checked.
PastOrphans == {"mirror", "materialize", "external", "pseudo", "floor", "done"}

AtStart ==
    pc = "telemetry" => m = case.rows /\ nodes = case.nodes /\ branches = case.branches

TablesAreTables ==
    AreRecords(m) /\ IntIds(m) /\ Distinct(m) /\ AreNodes(nodes) /\ AreBranches(branches)

\* Only an added row may lack a variance that counts.
VariancesCount ==
    /\ pc \in BeforeAdditions => AllNat(m)
    /\ \A i \in DOMAIN m : m[i].var \in Nat \/ (m[i].pseudo = TRUE /\ m[i].quality = Good)

NoBadReading == pc \notin {"telemetry", "failed"} => NotBad(m)

AllLive(t, net, lines) == \A i \in DOMAIN t : t[i].status => Live(t[i], net, lines)

LiveRows ==
    pc \in PastOrphans /\ "orphans" \notin case.cfg.off => AllLive(m, nodes, branches)

\* Every active node has an active row of the kind.
Anchors(t, net) ==
    \A n \in ActiveNodes(net) :
        /\ net[n].vn > 0 => \E i \in DOMAIN t : t[i].kind = "V" /\ t[i].obj = n /\ t[i].status
        /\ \E i \in DOMAIN t : t[i].kind = "Pinj" /\ t[i].obj = n /\ t[i].status

NodesAnchored ==
    /\ pc \in {"floor", "done"} /\ "pseudo" \notin case.cfg.off
    /\ case.cfg.pseudoV /\ case.cfg.pseudoInjections
    => Anchors(m, nodes)

\* A row whose variance is final has it, and the later steps know it.
Protected(row, plan, keep) ==
    /\ KeptVariance(row, plan)
    /\ row.status /\ ~row.pseudo /\ Feeds(plan, row) # {} /\ Covered(plan, Feeds(plan, row)) =>
          row.id \in keep

FinalRowsProtected ==
    pc \notin {"telemetry", "failed"} /\ case.cfg.final =>
        \A i \in DOMAIN m : Protected(m[i], case.plan, fixed)

MInv ==
    /\ case \in Cases
    /\ pc \in Steps \cup {"done", "failed"}
    /\ AtStart /\ TablesAreTables /\ VariancesCount /\ NoBadReading /\ LiveRows
    /\ NodesAnchored /\ FinalRowsProtected

-----------------------------------------------------------------------------
(* What a step that judges rows keeps *)

\* A filtered table keeps its rows, their fields and their ids.
LEMMA FilteredTable ==
    ASSUME NEW t, AreRecords(t), IntIds(t), Distinct(t), NEW u, NEW keep, Filtered(t, u, keep)
    PROVE  AreRecords(u) /\ IntIds(u) /\ Distinct(u)
<1>1. IsTable(u) /\ DOMAIN u = DOMAIN t
  BY DEF Filtered
<1>2. \A i \in DOMAIN t : DOMAIN u[i] = RowFields /\ u[i].id = t[i].id
  BY DEF Filtered, RowFiltered
<1>3. QED
  BY <1>1, <1>2 DEF AreRecords, IntIds, Distinct

\* Filtered variances still count.
LEMMA FilteredVariances ==
    ASSUME NEW t, AllNat(t), NEW u, NEW keep, Filtered(t, u, keep)
    PROVE  AllNat(u)
BY DEF AllNat, Filtered, RowFiltered

\* Filtering makes no active row bad.
LEMMA FilteredNotBad ==
    ASSUME NEW t, NotBad(t), NEW u, NEW keep, Filtered(t, u, keep)
    PROVE  NotBad(u)
<1>1. Questionable # Bad
  BY DEF Questionable, Bad
<1>2. DOMAIN u = DOMAIN t
  BY DEF Filtered
<1>3. \A i \in DOMAIN t : /\ u[i].status => t[i].status
                          /\ u[i].quality = t[i].quality \/ u[i].quality = Questionable
  BY DEF Filtered, RowFiltered
<1>4. QED
  BY <1>1, <1>2, <1>3 DEF NotBad

\* Filtering leaves active rows at live objects.
LEMMA FilteredLive ==
    ASSUME NEW t, NEW net, NEW lines, AllLive(t, net, lines), NEW u, NEW keep, Filtered(t, u, keep)
    PROVE  AllLive(u, net, lines)
<1>1. DOMAIN u = DOMAIN t
  BY DEF Filtered
<1>2. \A i \in DOMAIN t : /\ u[i].status => t[i].status
                          /\ u[i].kind = t[i].kind /\ u[i].obj = t[i].obj
  BY DEF Filtered, RowFiltered
<1>3. QED
  BY <1>1, <1>2 DEF AllLive, Live

\* Filtering keeps the variances that are final.
LEMMA FilteredProtected ==
    ASSUME NEW t, NEW plan, NEW keep, \A i \in DOMAIN t : Protected(t[i], plan, keep),
           NEW u, Filtered(t, u, keep)
    PROVE  \A i \in DOMAIN u : Protected(u[i], plan, keep)
<1>1. DOMAIN u = DOMAIN t
  BY DEF Filtered
<1>2. ASSUME NEW i \in DOMAIN t PROVE Protected(u[i], plan, keep)
  <2>1. /\ u[i].id = t[i].id /\ u[i].kind = t[i].kind /\ u[i].obj = t[i].obj
        /\ u[i].side = t[i].side /\ u[i].pseudo = t[i].pseudo /\ u[i].part = t[i].part
        /\ u[i].status => t[i].status
        /\ t[i].id \in keep => u[i].var = t[i].var
    BY DEF Filtered, RowFiltered
  <2>2. Feeds(plan, u[i]) = Feeds(plan, t[i])
    BY <2>1 DEF Feeds
  <2>3. Protected(t[i], plan, keep)
    OBVIOUS
  <2>4. QED
    BY <2>1, <2>2, <2>3 DEF Protected, KeptVariance
<1>3. QED
  BY <1>1, <1>2

\* A step that changes nothing filters nothing out.
LEMMA SameFilters ==
    ASSUME NEW t, AreRecords(t), NEW keep
    PROVE  Filtered(t, t, keep)
<1>1. \A i \in DOMAIN t : RowFiltered(t[i], t[i], keep)
  BY SameIsFiltered DEF AreRecords
<1>2. QED
  BY <1>1 DEF Filtered, AreRecords

-----------------------------------------------------------------------------
(* What a step that adds rows keeps *)

\* A batch without colliding ids leaves a table of distinct integer ids.
LEMMA ExtendedTable ==
    ASSUME NEW t, AreRecords(t), IntIds(t), Distinct(t), NEW rows, AreRecords(rows),
           NEW first \in Int, ~Collides(t, rows, first)
    PROVE  LET u == AddMany(t, rows, first)
           IN  AreRecords(u) /\ IntIds(u) /\ Distinct(u)
<1> DEFINE u == AddMany(t, rows, first)
<1>1. IsTable(t) /\ IsTable(rows)
  BY DEF AreRecords
<1>2. Extends(t, rows, first, u)
  BY <1>1, AddManyExtends
<1> HIDE DEF u
<1>3. Distinct(u)
  BY <1>1, <1>2, ExtendedIsDistinct
<1>4. IsTable(u)
  BY <1>2 DEF Extends
<1>5. Len(t) \in Nat
  BY <1>1, TableIsSequence
<1>6. \A j \in DOMAIN rows : j \in Int
  BY <1>1, TableIsSequence
<1>7. ASSUME NEW i \in DOMAIN u PROVE DOMAIN u[i] = RowFields /\ u[i].id \in Int
  <2>1. CASE i \in DOMAIN t
    <3>1. u[i] = t[i]
      BY <1>2, <2>1 DEF Extends
    <3>2. QED
      BY <2>1, <3>1 DEF AreRecords, IntIds
  <2>2. CASE /\ i - Len(t) \in DOMAIN rows /\ SameRow(u[i], rows[i - Len(t)])
             /\ u[i].id = first + (i - Len(t)) - 1
    <3>1. first + (i - Len(t)) - 1 \in Int
      BY <1>6, <2>2
    <3>2. QED
      BY <2>2, <3>1 DEF SameRow
  <2>3. QED
    BY <1>2, <2>1, <2>2 DEF Extends
<1>8. QED
  BY <1>3, <1>4, <1>7 DEF AreRecords, IntIds, u

(* After a batch every row is an old one or a pseudo row at a live node, and  *)
(* all of the batch is there.                                                 *)
LEMMA ExtendedRows ==
    ASSUME NEW t, AreRecords(t), NEW rows, NEW net, AllAtLiveNodes(rows, net), NEW first \in Int
    PROVE  LET u == AddMany(t, rows, first)
           IN  /\ \A i \in DOMAIN t : i \in DOMAIN u /\ u[i] = t[i]
               /\ \A i \in DOMAIN u : i \in DOMAIN t \/ AtLiveNode(u[i], net)
               /\ \A kind, n : HasRow(rows, kind, n) =>
                     \E i \in DOMAIN u : u[i].kind = kind /\ u[i].obj = n /\ u[i].status
<1> DEFINE u == AddMany(t, rows, first)
<1>1. IsTable(t) /\ IsTable(rows) /\ AreRecords(rows)
  BY DEF AreRecords, AllAtLiveNodes, AtLiveNode
<1>2. Extends(t, rows, first, u)
  BY <1>1, AddManyExtends
<1> HIDE DEF u
<1>3. ASSUME NEW r, NEW s, SameRow(r, s), AtLiveNode(s, net) PROVE AtLiveNode(r, net)
  BY <1>3 DEF SameRow, AtLiveNode
<1>4. \A i \in DOMAIN t : i \in DOMAIN u /\ u[i] = t[i]
  BY <1>2 DEF Extends
<1>5. \A i \in DOMAIN u : i \in DOMAIN t \/ AtLiveNode(u[i], net)
  BY <1>2, <1>3 DEF Extends, AllAtLiveNodes
<1>6. ASSUME NEW kind, NEW n, HasRow(rows, kind, n)
      PROVE  \E i \in DOMAIN u : u[i].kind = kind /\ u[i].obj = n /\ u[i].status
  <2>1. PICK j \in DOMAIN rows : rows[j].kind = kind /\ rows[j].obj = n
    BY <1>6 DEF HasRow
  <2>2. rows[j].status = TRUE
    BY <2>1 DEF AllAtLiveNodes, AtLiveNode
  <2>3. Len(t) + j \in DOMAIN u /\ SameRow(u[Len(t) + j], rows[j])
    BY <1>2, <2>1 DEF Extends
  <2>4. QED
    BY <2>1, <2>2, <2>3 DEF SameRow
<1>7. QED
  BY <1>4, <1>5, <1>6 DEF u

\* A pseudo row at an active node is live.
LEMMA AtLiveNodeIsLive ==
    ASSUME NEW r, NEW net, NEW lines, AtLiveNode(r, net)
    PROVE  Live(r, net, lines)
<1>1. r.kind \notin FlowKinds
  BY DEF AtLiveNode, FlowKinds
<1>2. QED
  BY <1>1 DEF AtLiveNode, ActiveNodes, Live

-----------------------------------------------------------------------------
(* The steps and their order *)

\* The order of the steps.
LEMMA Order ==
    /\ Steps = {"telemetry", "cascade", "range", "release", "relax", "widen", "genV", "orphans",
                "mirror", "materialize", "external", "pseudo", "floor"}
    /\ After["telemetry"] = "cascade" /\ After["cascade"] = "range"
    /\ After["range"] = "release" /\ After["release"] = "relax"
    /\ After["relax"] = "widen" /\ After["widen"] = "genV"
    /\ After["genV"] = "orphans" /\ After["orphans"] = "mirror"
    /\ After["mirror"] = "materialize" /\ After["materialize"] = "external"
    /\ After["external"] = "pseudo" /\ After["pseudo"] = "floor"
    /\ After["floor"] = "done"
BY DEF Steps, After

\* The steps that judge rows, before any row is added.
Judging == {"cascade", "range", "release", "relax", "widen", "genV", "orphans"}

\* The judging steps come before every addition and end with the orphans.
LEMMA JudgingOrder ==
    /\ \A step \in Judging :
          /\ step \in BeforeAdditions /\ step \notin {"telemetry", "failed"}
          /\ After[step] \in BeforeAdditions /\ After[step] \in Steps
          /\ After[step] \notin {"telemetry", "failed", "floor", "done"}
          /\ step # "orphans" => After[step] \notin PastOrphans
BY Order DEF Judging, BeforeAdditions, PastOrphans

\* The call is one that the assumption describes.
LEMMA CallIsCall == MInv => IsCall(case)
BY CasesAssumption DEF MInv

\* The invariant holds of the tables as given.
LEMMA InitHolds == Init => MInv
<1> SUFFICES ASSUME Init PROVE MInv
  OBVIOUS
<1>1. IsCall(case)
  BY CasesAssumption DEF Init
<1>2. pc = "telemetry" /\ m = case.rows /\ nodes = case.nodes /\ branches = case.branches /\ case \in Cases
  BY DEF Init
<1>3. AreRows(m) /\ AreNodes(nodes) /\ AreBranches(branches)
  BY <1>1, <1>2 DEF IsCall
<1>4. TablesAreTables
  BY <1>3 DEF TablesAreTables, AreRows, AreRecords, IntIds, Distinct
<1>5. VariancesCount
  BY <1>3 DEF VariancesCount, AreRows, AllNat
<1>6. AtStart /\ NoBadReading /\ LiveRows /\ NodesAnchored /\ FinalRowsProtected
  BY <1>2 DEF AtStart, NoBadReading, LiveRows, NodesAnchored, FinalRowsProtected, PastOrphans
<1>7. pc \in Steps
  BY <1>2, Order
<1>8. QED
  BY <1>2, <1>4, <1>5, <1>6, <1>7 DEF MInv

(* A step that only filters rows, and keeps the tables tables, keeps the      *)
(* invariant.                                                                 *)
LEMMA JudgingStep ==
    ASSUME MInv, pc \in Judging, pc' = After[pc], case' = case, fixed' = fixed,
           Filtered(m, m', fixed), AreNodes(nodes'), AreBranches(branches'),
           pc = "orphans" => "orphans" \in case.cfg.off \/ AllLive(m', nodes', branches')
    PROVE  MInv'
<1>1. /\ pc \in BeforeAdditions /\ pc \notin {"telemetry", "failed"}
      /\ pc' \in BeforeAdditions /\ pc' \in Steps
      /\ pc' \notin {"telemetry", "failed", "floor", "done"}
      /\ pc # "orphans" => pc' \notin PastOrphans
  BY JudgingOrder
<1>2. AreRecords(m) /\ IntIds(m) /\ Distinct(m) /\ AllNat(m) /\ NotBad(m)
  BY <1>1 DEF MInv, TablesAreTables, VariancesCount, NoBadReading
<1>3. TablesAreTables'
  BY <1>2, FilteredTable DEF TablesAreTables
<1>4. AllNat(m')
  BY <1>2, FilteredVariances
<1>5. VariancesCount'
  BY <1>4 DEF VariancesCount, AllNat
<1>6. NoBadReading'
  BY <1>2, FilteredNotBad DEF NoBadReading
<1>7. LiveRows'
  BY <1>1 DEF LiveRows
<1>8. FinalRowsProtected'
  <2>1. CASE case.cfg.final
    <3>1. \A i \in DOMAIN m : Protected(m[i], case.plan, fixed)
      BY <1>1, <2>1 DEF MInv, FinalRowsProtected
    <3>2. \A i \in DOMAIN m' : Protected(m'[i], case.plan, fixed)
      BY <3>1, FilteredProtected
    <3>3. QED
      BY <3>2 DEF FinalRowsProtected
  <2>2. CASE ~case.cfg.final
    BY <2>2 DEF FinalRowsProtected
  <2>3. QED
    BY <2>1, <2>2
<1>9. AtStart' /\ NodesAnchored'
  BY <1>1 DEF AtStart, NodesAnchored
<1>10. case' \in Cases
  BY DEF MInv
<1>11. QED
  BY <1>1, <1>3, <1>5, <1>6, <1>7, <1>8, <1>9, <1>10 DEF MInv

\* The telemetry step establishes the variances, qualities and final ids.
LEMMA TelemetryStepKeeps ==
    ASSUME MInv, TelemetryStep
    PROVE  MInv'
<1>1. /\ pc = "telemetry" /\ pc' = "cascade" /\ case' = case
      /\ nodes' = nodes /\ branches' = branches
      /\ m' = Telemetry(m, case.plan, nodes, branches, case.cfg)
      /\ fixed' = FinalIds(m, case.plan, nodes, branches, case.cfg)
  BY Order DEF TelemetryStep, On
<1>2. IsCall(case)
  BY CallIsCall
<1>3. m = case.rows /\ nodes = case.nodes /\ branches = case.branches
  BY <1>1 DEF MInv, AtStart
<1>4. AreRows(m) /\ AreNodes(nodes) /\ AreBranches(branches) /\ IsPlan(case.plan)
  BY <1>2, <1>3 DEF IsCall
<1> DEFINE plan == case.plan
           cfg == case.cfg
           u == Telemetry(m, plan, nodes, branches, cfg)
<1> HIDE DEF plan, cfg
<1>5. /\ AreRecords(u) /\ IntIds(u) /\ AllNat(u) /\ Distinct(u) /\ NotBad(u)
      /\ cfg.final => \A i \in DOMAIN u : KeptVariance(u[i], plan)
  BY <1>4, TelemetryLeaves DEF plan
<1>6. cfg.final => \A i \in DOMAIN u : Protected(u[i], plan, FinalIds(m, plan, nodes, branches, cfg))
  <2> SUFFICES ASSUME cfg.final, NEW i \in DOMAIN u
               PROVE  Protected(u[i], plan, FinalIds(m, plan, nodes, branches, cfg))
    OBVIOUS
  <2>1. KeptVariance(u[i], plan)
    BY <1>5
  <2>2. u[i].status /\ Feeds(plan, u[i]) # {} /\ Covered(plan, Feeds(plan, u[i])) =>
            u[i].id \in FinalIds(m, plan, nodes, branches, cfg)
    BY FinalIdsComplete
  <2> HIDE DEF u
  <2>3. QED
    BY <2>1, <2>2 DEF Protected
<1>7. m' = u /\ fixed' = FinalIds(m, plan, nodes, branches, cfg)
  BY <1>1 DEF plan, cfg
<1> HIDE DEF u
<1>8. FinalRowsProtected'
  BY <1>1, <1>6, <1>7 DEF FinalRowsProtected, plan, cfg
<1>9. TablesAreTables'
  BY <1>1, <1>4, <1>5, <1>7 DEF TablesAreTables
<1>10. VariancesCount' /\ NoBadReading'
  BY <1>5, <1>7 DEF VariancesCount, NoBadReading, AllNat
<1>11. AtStart' /\ LiveRows' /\ NodesAnchored'
  BY <1>1 DEF AtStart, LiveRows, NodesAnchored, PastOrphans
<1>12. case' \in Cases /\ pc' \in Steps
  BY <1>1, Order DEF MInv
<1>13. QED
  BY <1>8, <1>9, <1>10, <1>11, <1>12 DEF MInv

\* A run that fails leaves the tables as they are.
LEMMA FailingStep ==
    ASSUME MInv, pc' = "failed", UNCHANGED <<case, m, nodes, branches>>
    PROVE  MInv'
<1>1. TablesAreTables'
  BY DEF MInv, TablesAreTables
<1>2. VariancesCount'
  BY DEF MInv, VariancesCount, BeforeAdditions
<1>3. AtStart' /\ NoBadReading' /\ LiveRows' /\ NodesAnchored' /\ FinalRowsProtected'
  BY DEF AtStart, NoBadReading, LiveRows, NodesAnchored, FinalRowsProtected, PastOrphans
<1>4. QED
  BY <1>1, <1>2, <1>3 DEF MInv

\* The steps after which rows may have been added.
Late == {"mirror", "materialize", "external", "pseudo", "floor"}

\* The steps after the orphans, in their order.
LEMMA LateOrder ==
    \A step \in Late :
        /\ step \in PastOrphans /\ step \notin {"telemetry", "failed"}
        /\ After[step] \in PastOrphans /\ After[step] \notin {"telemetry", "failed"}
        /\ After[step] \in Steps \cup {"done"} /\ After[step] \notin BeforeAdditions
        /\ After[step] \in {"floor", "done"} => step \in {"pseudo", "floor"}
BY Order DEF Late, BeforeAdditions, PastOrphans

\* A step that leaves the rows and, of the nodes, their statuses.
LEMMA QuietStep ==
    ASSUME MInv, pc \in Late, pc' = After[pc], UNCHANGED <<case, m, branches, fixed>>,
           AreNodes(nodes'), DOMAIN nodes' = DOMAIN nodes,
           \A n \in DOMAIN nodes : nodes'[n].status = nodes[n].status /\ nodes'[n].vn = nodes[n].vn,
           pc = "pseudo" => "pseudo" \in case.cfg.off
    PROVE  MInv'
<1>1. /\ pc \in PastOrphans /\ pc \notin {"telemetry", "failed"}
      /\ pc' \in PastOrphans /\ pc' \notin {"telemetry", "failed"}
      /\ pc' \in Steps \cup {"done"} /\ pc' \notin BeforeAdditions
      /\ pc' \in {"floor", "done"} => pc \in {"pseudo", "floor"}
  BY LateOrder
<1>2. TablesAreTables'
  BY DEF MInv, TablesAreTables
<1>3. VariancesCount'
  BY <1>1 DEF MInv, VariancesCount
<1>4. NoBadReading' /\ AtStart'
  BY <1>1 DEF MInv, NoBadReading, AtStart
<1>5. LiveRows'
  <2>1. ASSUME NEW i \in DOMAIN m, Live(m[i], nodes, branches) PROVE Live(m[i], nodes', branches')
    BY <2>1 DEF Live
  <2>2. QED
    BY <1>1, <2>1 DEF MInv, LiveRows, AllLive
<1>6. NodesAnchored'
  <2>1. ActiveNodes(nodes') = ActiveNodes(nodes)
    BY DEF ActiveNodes
  <2>2. ASSUME Anchors(m, nodes) PROVE Anchors(m', nodes')
    BY <2>1, <2>2 DEF Anchors, ActiveNodes
  <2>3. QED
    BY <1>1, <2>2 DEF MInv, NodesAnchored
<1>7. FinalRowsProtected'
  BY <1>1 DEF MInv, FinalRowsProtected
<1>8. case' \in Cases
  BY DEF MInv
<1>9. QED
  BY <1>1, <1>2, <1>3, <1>4, <1>5, <1>6, <1>7, <1>8 DEF MInv

-----------------------------------------------------------------------------
(* The steps that add rows, the floor, and what the tables keep *)

\* New rows at live nodes, none of which is of a reading.
LEMMA AddingStep ==
    ASSUME MInv, NEW rows, NEW first \in Int, AllAtLiveNodes(rows, nodes),
           pc \in {"mirror", "external", "pseudo"}, Added(rows, first),
           UNCHANGED <<case, nodes, branches, fixed>>,
           pc = "pseudo" /\ case.cfg.pseudoV /\ case.cfg.pseudoInjections =>
               \A n \in ActiveNodes(nodes) :
                   /\ n \notin Have(m, "V") /\ nodes[n].vn > 0 => HasRow(rows, "V", n)
                   /\ n \notin Have(m, "Pinj") => HasRow(rows, "Pinj", n)
    PROVE  MInv'
<1>1. CASE Collides(m, rows, first)
  BY <1>1, FailingStep DEF Added
<1>2. CASE ~Collides(m, rows, first)
  <2> DEFINE u == AddMany(m, rows, first)
  <2>1. pc' = After[pc] /\ m' = u
    BY <1>2 DEF Added
  <2>2. pc \in Late
    BY DEF Late
  <2>3. /\ pc \in PastOrphans /\ pc \notin {"telemetry", "failed"}
        /\ pc' \in PastOrphans /\ pc' \notin {"telemetry", "failed"}
        /\ pc' \in Steps \cup {"done"} /\ pc' \notin BeforeAdditions
    BY <2>1, <2>2, LateOrder
  <2>4. AreRecords(m) /\ IntIds(m) /\ Distinct(m) /\ AreRecords(rows)
    BY DEF MInv, TablesAreTables, AllAtLiveNodes, AtLiveNode, AreRecords
  <2>5. AreRecords(u) /\ IntIds(u) /\ Distinct(u)
    BY <1>2, <2>4, ExtendedTable
  <2>6. /\ \A i \in DOMAIN m : i \in DOMAIN u /\ u[i] = m[i]
        /\ \A i \in DOMAIN u : i \in DOMAIN m \/ AtLiveNode(u[i], nodes)
        /\ \A kind, n : HasRow(rows, kind, n) =>
              \E i \in DOMAIN u : u[i].kind = kind /\ u[i].obj = n /\ u[i].status
    BY <2>4, ExtendedRows
  <2> HIDE DEF u
  <2>7. TablesAreTables'
    BY <2>1, <2>5 DEF MInv, TablesAreTables
  <2>8. VariancesCount'
    BY <2>1, <2>3, <2>6 DEF MInv, VariancesCount, AtLiveNode
  <2>9. NoBadReading'
    <3>1. Good # Bad
      BY DEF Good, Bad
    <3>2. QED
      BY <2>1, <2>3, <2>6, <3>1 DEF MInv, NoBadReading, NotBad, AtLiveNode
  <2>10. LiveRows'
    <3>1. \A i \in DOMAIN u : i \in DOMAIN m \/ Live(u[i], nodes, branches)
      BY <2>6, AtLiveNodeIsLive
    <3>2. QED
      BY <2>1, <2>3, <2>6, <3>1 DEF MInv, LiveRows, AllLive
  <2>11. FinalRowsProtected'
    <3>1. \A i \in DOMAIN u : i \in DOMAIN m \/ Protected(u[i], case.plan, fixed)
      BY <2>6 DEF AtLiveNode, Protected, KeptVariance
    <3>2. QED
      BY <2>1, <2>3, <2>6, <3>1 DEF MInv, FinalRowsProtected
  <2>12. NodesAnchored'
    <3>1. SUFFICES ASSUME pc' \in {"floor", "done"}, case.cfg.pseudoV, case.cfg.pseudoInjections
                   PROVE  Anchors(u, nodes)
      BY <2>1 DEF NodesAnchored
    <3>2. pc = "pseudo"
      BY <2>1, <2>2, <3>1, Order DEF Late
    <3>3. \A n \in ActiveNodes(nodes) :
              /\ n \notin Have(m, "V") /\ nodes[n].vn > 0 => HasRow(rows, "V", n)
              /\ n \notin Have(m, "Pinj") => HasRow(rows, "Pinj", n)
      BY <3>1, <3>2
    <3>4. ASSUME NEW n, NEW kind, n \in Have(m, kind)
          PROVE  \E i \in DOMAIN u : u[i].kind = kind /\ u[i].obj = n /\ u[i].status
      <4>1. PICK i \in DOMAIN m : m[i].kind = kind /\ m[i].obj = n /\ m[i].status
        BY <3>4 DEF Have, Rows
      <4>2. QED
        BY <2>6, <4>1
    <3>5. QED
      BY <2>6, <3>3, <3>4 DEF Anchors
  <2>13. AtStart' /\ case' \in Cases
    BY <2>3 DEF MInv, AtStart
  <2>14. QED
    BY <2>3, <2>7, <2>8, <2>9, <2>10, <2>11, <2>12, <2>13 DEF MInv
<1>3. QED
  BY <1>1, <1>2

(* The floor keeps the invariant: pseudo rows, statuses and final variances   *)
(* stay.                                                                      *)
LEMMA FloorStepKeeps ==
    ASSUME MInv, FlowSigmaFloor
    PROVE  MInv'
<1>1. /\ pc = "floor" /\ pc' = "done" /\ UNCHANGED <<case, nodes, branches, fixed>>
      /\ m' = FlowFloor(m, nodes, branches, fixed, case.cfg)
  BY Order DEF FlowSigmaFloor, On
<1>2. case.cfg.floor \in Nat
  BY CallIsCall DEF IsCall
<1>3. AreRecords(m) /\ IntIds(m) /\ Distinct(m) /\ AreNodes(nodes) /\ AreBranches(branches)
  BY DEF MInv, TablesAreTables
<1>4. \A i \in DOMAIN m : ~m[i].pseudo => m[i].var \in Nat
  BY DEF MInv, VariancesCount
<1> DEFINE u == FlowFloor(m, nodes, branches, fixed, case.cfg)
<1>5. /\ Filtered(m, u, fixed)
      /\ \A i \in DOMAIN m :
            /\ u[i].status = m[i].status /\ u[i].quality = m[i].quality
            /\ m[i].pseudo => u[i] = m[i]
  BY <1>2, <1>3, <1>4, FlowFloorFilters
<1>6. m' = u
  BY <1>1
<1> HIDE DEF u
<1>7. DOMAIN u = DOMAIN m
  BY <1>5 DEF Filtered
<1>8. TablesAreTables'
  BY <1>1, <1>3, <1>5, <1>6, FilteredTable DEF TablesAreTables
<1>9. VariancesCount'
  <2>1. ASSUME NEW i \in DOMAIN u PROVE u[i].var \in Nat \/ (u[i].pseudo = TRUE /\ u[i].quality = Good)
    <3>1. RowFiltered(m[i], u[i], fixed)
      BY <1>5, <1>7 DEF Filtered
    <3>2. CASE m[i].var \in Nat
      BY <3>1, <3>2 DEF RowFiltered
    <3>3. CASE m[i].pseudo = TRUE /\ m[i].quality = Good
      BY <1>5, <1>7, <3>3
    <3>4. QED
      BY <1>7, <3>2, <3>3 DEF MInv, VariancesCount
  <2>2. QED
    BY <1>1, <1>6, <2>1 DEF VariancesCount, BeforeAdditions
<1>10. NoBadReading'
  BY <1>1, <1>5, <1>6, FilteredNotBad DEF MInv, NoBadReading
<1>11. LiveRows'
  BY <1>1, <1>5, <1>6, FilteredLive DEF MInv, LiveRows, PastOrphans
<1>12. NodesAnchored'
  <2>1. ASSUME NEW i \in DOMAIN m
        PROVE  i \in DOMAIN u /\ u[i].kind = m[i].kind /\ u[i].obj = m[i].obj /\ u[i].status = m[i].status
    BY <1>5, <1>7 DEF Filtered, RowFiltered
  <2>2. ASSUME Anchors(m, nodes) PROVE Anchors(u, nodes)
    BY <2>1, <2>2 DEF Anchors
  <2>3. QED
    BY <1>1, <1>6, <2>2 DEF MInv, NodesAnchored
<1>13. FinalRowsProtected'
  <2>1. CASE case.cfg.final
    <3>1. \A i \in DOMAIN m : Protected(m[i], case.plan, fixed)
      BY <1>1, <2>1 DEF MInv, FinalRowsProtected
    <3>2. \A i \in DOMAIN u : Protected(u[i], case.plan, fixed)
      BY <1>5, <3>1, FilteredProtected
    <3>3. QED
      BY <1>1, <1>6, <3>2 DEF FinalRowsProtected
  <2>2. CASE ~case.cfg.final
    BY <1>1, <2>2 DEF FinalRowsProtected
  <2>3. QED
    BY <2>1, <2>2
<1>14. AtStart' /\ case' \in Cases
  BY <1>1 DEF MInv, AtStart
<1>15. QED
  BY <1>1, <1>8, <1>9, <1>10, <1>11, <1>12, <1>13, <1>14 DEF MInv

\* A table rewritten entry by entry is a table.
LEMMA RewrittenIsTable ==
    ASSUME NEW s, IsTable(s), NEW u, DOMAIN u = DOMAIN s, u = [i \in DOMAIN s |-> u[i]]
    PROVE  IsTable(u)
<1>1. Len(s) \in Nat /\ DOMAIN s = 1 .. Len(s)
  BY TableIsSequence
<1>2. QED
  BY <1>1, SequenceIsTable

\* The cascade rewrites statuses only.
LEMMA CascadeKeepsTables ==
    ASSUME MInv, Cascade
    PROVE  AreNodes(nodes') /\ AreBranches(branches')
<1>1. AreNodes(nodes) /\ AreBranches(branches)
  BY DEF MInv, TablesAreTables
<1>2. PICK dead \in case.outages :
          /\ nodes' = [n \in DOMAIN nodes |-> [nodes[n] EXCEPT !.status = @ /\ n \notin dead]]
          /\ branches' = [b \in DOMAIN branches |->
                [branches[b] EXCEPT !.status = @ /\ {branches[b].from, branches[b].to} \cap dead = {}]]
  BY DEF Cascade
<1>3. DOMAIN nodes' = DOMAIN nodes /\ nodes' = [n \in DOMAIN nodes |-> nodes'[n]]
  BY <1>2
<1>4. DOMAIN branches' = DOMAIN branches /\ branches' = [b \in DOMAIN branches |-> branches'[b]]
  BY <1>2
<1>5. IsTable(nodes') /\ IsTable(branches')
  BY <1>1, <1>3, <1>4, RewrittenIsTable DEF AreNodes, AreBranches
<1>6. ASSUME NEW n \in DOMAIN nodes
      PROVE  /\ DOMAIN nodes'[n] = DOMAIN nodes[n]
             /\ nodes'[n].vn = nodes[n].vn /\ nodes'[n].lp = nodes[n].lp /\ nodes'[n].lq = nodes[n].lq
  <2> DEFINE r == nodes[n]
             x == r.status /\ n \notin dead
  <2>1. nodes'[n] = [r EXCEPT !.status = x]
    BY <1>2
  <2>2. {"status", "vn", "lp", "lq"} \subseteq DOMAIN r
    BY <1>1 DEF AreNodes
  <2> HIDE DEF r, x
  <2>3. /\ DOMAIN nodes'[n] = DOMAIN r
        /\ nodes'[n].vn = r.vn /\ nodes'[n].lp = r.lp /\ nodes'[n].lq = r.lq
    BY <2>1, <2>2
  <2>4. QED
    BY <2>3 DEF r
<1>7. ASSUME NEW b \in DOMAIN branches
      PROVE  DOMAIN branches'[b] = DOMAIN branches[b] /\ branches'[b].charging = branches[b].charging
  <2> DEFINE r == branches[b]
             x == r.status /\ {r.from, r.to} \cap dead = {}
  <2>1. branches'[b] = [r EXCEPT !.status = x]
    BY <1>2
  <2>2. "charging" \in DOMAIN r
    BY <1>1 DEF AreBranches
  <2> HIDE DEF r, x
  <2>3. DOMAIN branches'[b] = DOMAIN r /\ branches'[b].charging = r.charging
    BY <2>1, <2>2
  <2>4. QED
    BY <2>3 DEF r
<1>8. QED
  BY <1>1, <1>3, <1>4, <1>5, <1>6, <1>7 DEF AreNodes, AreBranches

\* Relaxing a minimum rewrites the generation range only.
LEMMA RelaxKeepsNodes ==
    ASSUME NEW t, NEW net, AreNodes(net), NEW plan
    PROVE  AreNodes(Relax(t, net, plan))
<1> DEFINE u == Relax(t, net, plan)
<1>1. DOMAIN u = DOMAIN net /\ u = [n \in DOMAIN net |-> u[n]]
  BY DEF Relax
<1>3. ASSUME NEW n \in DOMAIN net
      PROVE  /\ DOMAIN u[n] = DOMAIN net[n]
             /\ u[n].vn = net[n].vn /\ u[n].lp = net[n].lp /\ u[n].lq = net[n].lq
  <2> DEFINE r == net[n]
             lowest == t[FirstReading(t, n)].value + LoadBox(net, n, plan)[1]
                          - Sigmas(Shortfall(t, net, n, plan), RelaxSigma, t[FirstReading(t, n)].var)
             x == IF lowest < 0 THEN lowest ELSE 0
             gp == [r.gp EXCEPT ![1] = x]
  <2>1. u[n] = r \/ u[n] = [r EXCEPT !.gp = gp]
    BY DEF Relax
  <2>2. {"vn", "gp", "lp", "lq"} \subseteq DOMAIN r
    BY DEF AreNodes
  <2> HIDE DEF r, gp, u
  <2>3. DOMAIN u[n] = DOMAIN r /\ u[n].vn = r.vn /\ u[n].lp = r.lp /\ u[n].lq = r.lq
    BY <2>1, <2>2
  <2>4. QED
    BY <2>3 DEF r
<1> HIDE DEF u
<1>4. IsTable(u)
  BY <1>1, RewrittenIsTable DEF AreNodes
<1>5. QED
  BY <1>1, <1>3, <1>4 DEF AreNodes, u

\* Materialization rewrites the operating point only.
LEMMA MaterializeKeepsNodes ==
    ASSUME NEW net, AreNodes(net), NEW obs
    PROVE  LET u == Materialize(net, obs)
           IN  /\ AreNodes(u) /\ DOMAIN u = DOMAIN net
               /\ \A n \in DOMAIN net : u[n].status = net[n].status /\ u[n].vn = net[n].vn
<1> DEFINE u == Materialize(net, obs)
<1>1. DOMAIN u = DOMAIN net /\ u = [n \in DOMAIN net |-> u[n]]
  BY DEF Materialize
<1>3. ASSUME NEW n \in DOMAIN net
      PROVE  /\ DOMAIN u[n] = DOMAIN net[n]
             /\ u[n].vn = net[n].vn /\ u[n].lp = net[n].lp /\ u[n].lq = net[n].lq
             /\ u[n].status = net[n].status
  <2> DEFINE r == net[n]
             a == LoadValue(net, obs.loadP, "lp", n, r.loadP)
             b == LoadValue(net, obs.loadQ, "lq", n, r.loadQ)
             c == GenValue(net, obs.genP, n, r.genP)
             d == GenValue(net, obs.genQ, n, r.genQ)
  <2>1. {"status", "vn", "lp", "lq", "genP", "genQ", "loadP", "loadQ"} \subseteq DOMAIN r
    BY DEF AreNodes
  <2>2. u[n] = [r EXCEPT !.loadP = a, !.loadQ = b, !.genP = c, !.genQ = d]
    BY <2>1 DEF Materialize
  <2> HIDE DEF r, a, b, c, d, u
  <2>3. DOMAIN u[n] = DOMAIN r /\ u[n].vn = r.vn /\ u[n].lp = r.lp /\ u[n].lq = r.lq
        /\ u[n].status = r.status
    BY <2>1, <2>2
  <2>4. QED
    BY <2>3 DEF r
<1> HIDE DEF u
<1>4. IsTable(u)
  BY <1>1, RewrittenIsTable DEF AreNodes
<1>5. QED
  BY <1>1, <1>3, <1>4 DEF AreNodes, u

-----------------------------------------------------------------------------
(* Every step keeps the invariant *)

\* A step that judges rows, with what the invariant says of the tables.
LEMMA JudgingRows ==
    ASSUME MInv, pc \in Judging
    PROVE  /\ AreRecords(m) /\ AllNat(m) /\ AreNodes(nodes) /\ AreBranches(branches)
           /\ Filtered(m, m, fixed)
<1>1. AreRecords(m) /\ AllNat(m) /\ AreNodes(nodes) /\ AreBranches(branches)
  BY JudgingOrder DEF MInv, TablesAreTables, VariancesCount
<1>2. QED
  BY <1>1, SameFilters

\* The cascade keeps the invariant.
LEMMA CascadeKeeps == ASSUME MInv, Cascade PROVE MInv'
<1>1. /\ pc = "cascade" /\ pc' = After[pc] /\ UNCHANGED <<case, m, fixed>>
  BY DEF Cascade, On
<1>2. pc \in Judging
  BY <1>1 DEF Judging
<1>3. Filtered(m, m', fixed)
  BY <1>1, <1>2, JudgingRows
<1>4. AreNodes(nodes') /\ AreBranches(branches')
  BY CascadeKeepsTables
<1>5. QED
  BY <1>1, <1>2, <1>3, <1>4, JudgingStep

\* The voltage range filter keeps the invariant.
LEMMA VoltageRangeFilterKeeps == ASSUME MInv, VoltageRangeFilter PROVE MInv'
<1>1. /\ pc = "range" /\ pc' = After[pc] /\ UNCHANGED <<case, nodes, branches, fixed>>
      /\ m' = RangeFilter(m, nodes, fixed, case.cfg)
  BY DEF VoltageRangeFilter, On
<1>2. pc \in Judging
  BY <1>1 DEF Judging
<1>3. AreRecords(m) /\ AllNat(m) /\ AreNodes(nodes) /\ AreBranches(branches)
  BY <1>2, JudgingRows
<1>4. Filtered(m, m', fixed)
  BY <1>1, <1>3, RangeFilterFilters
<1>5. QED
  BY <1>1, <1>2, <1>3, <1>4, JudgingStep

\* The release of load-only injections keeps the invariant.
LEMMA ReleaseLoadOnlyKeeps == ASSUME MInv, ReleaseLoadOnly PROVE MInv'
<1>1. /\ pc = "release" /\ pc' = After[pc] /\ UNCHANGED <<case, nodes, branches, fixed>>
      /\ m' = m \/ m' = Release(m, nodes, case.plan)
  BY DEF ReleaseLoadOnly, On
<1>2. pc \in Judging
  BY <1>1 DEF Judging
<1>3. AreRecords(m) /\ AreNodes(nodes) /\ AreBranches(branches) /\ Filtered(m, m, fixed)
  BY <1>2, JudgingRows
<1>4. Filtered(m, m', fixed)
  BY <1>1, <1>3, ReleaseFilters
<1>5. QED
  BY <1>1, <1>2, <1>3, <1>4, JudgingStep

\* The relaxation of generation minimums keeps the invariant.
LEMMA RelaxGenerationMinKeeps == ASSUME MInv, RelaxGenerationMin PROVE MInv'
<1>1. /\ pc = "relax" /\ pc' = After[pc] /\ UNCHANGED <<case, m, branches, fixed>>
      /\ nodes' = Relax(m, nodes, case.plan)
  BY DEF RelaxGenerationMin, On
<1>2. pc \in Judging
  BY <1>1 DEF Judging
<1>3. AreNodes(nodes) /\ AreBranches(branches) /\ Filtered(m, m', fixed)
  BY <1>1, <1>2, JudgingRows
<1>4. AreNodes(nodes')
  BY <1>1, <1>3, RelaxKeepsNodes
<1>5. QED
  BY <1>1, <1>2, <1>3, <1>4, JudgingStep

\* The widening of generation-only injections keeps the invariant.
LEMMA WidenGenerationOnlyKeeps == ASSUME MInv, WidenGenerationOnly PROVE MInv'
<1>1. /\ pc = "widen" /\ pc' = After[pc] /\ UNCHANGED <<case, nodes, branches, fixed>>
      /\ m' = m \/ m' = Widen(m, nodes, case.plan, fixed)
  BY DEF WidenGenerationOnly, On
<1>2. pc \in Judging
  BY <1>1 DEF Judging
<1>3. /\ AreRecords(m) /\ AllNat(m) /\ AreNodes(nodes) /\ AreBranches(branches)
      /\ Filtered(m, m, fixed)
  BY <1>2, JudgingRows
<1>4. Filtered(m, m', fixed)
  BY <1>1, <1>3, WidenFilters
<1>5. QED
  BY <1>1, <1>2, <1>3, <1>4, JudgingStep

\* The calibration of generator voltages keeps the invariant.
LEMMA CalibrateGenVoltageKeeps == ASSUME MInv, CalibrateGenVoltage PROVE MInv'
<1>1. /\ pc = "genV" /\ pc' = After[pc] /\ UNCHANGED <<case, nodes, branches, fixed>>
      /\ m' = GenVoltage(m, nodes, fixed, case.cfg)
  BY DEF CalibrateGenVoltage, On
<1>2. pc \in Judging
  BY <1>1 DEF Judging
<1>3. AreRecords(m) /\ AreNodes(nodes) /\ AreBranches(branches)
  BY <1>2, JudgingRows
<1>4. Filtered(m, m', fixed)
  BY <1>1, <1>3, GenVoltageFilters
<1>5. QED
  BY <1>1, <1>2, <1>3, <1>4, JudgingStep

\* Switching off orphans keeps the invariant and makes active rows live.
LEMMA DeactivateOrphansKeeps == ASSUME MInv, DeactivateOrphans PROVE MInv'
<1>1. /\ pc = "orphans" /\ pc' = After[pc] /\ UNCHANGED <<case, nodes, branches, fixed>>
      /\ m' = Orphans(m, nodes, branches)
  BY DEF DeactivateOrphans, On
<1>2. pc \in Judging
  BY <1>1 DEF Judging
<1>3. AreRecords(m) /\ AreNodes(nodes) /\ AreBranches(branches)
  BY <1>2, JudgingRows
<1>4. /\ Filtered(m, m', fixed)
      /\ \A i \in DOMAIN m : m'[i].status => Live(m'[i], nodes, branches)
  BY <1>1, <1>3, OrphansFilters
<1>5. AllLive(m', nodes', branches')
  BY <1>1, <1>4 DEF AllLive, Filtered
<1>6. QED
  BY <1>1, <1>2, <1>3, <1>4, <1>5, JudgingStep

\* Mirroring voltages keeps the invariant.
LEMMA MirrorVoltageKeeps == ASSUME MInv, MirrorVoltage PROVE MInv'
<1> DEFINE rows == MirrorRows(m, nodes, branches)
           first == SkipTaken(m, MirrorBase)
<1>1. /\ pc = "mirror" /\ UNCHANGED <<case, nodes, branches, fixed>> /\ Added(rows, first)
  BY DEF MirrorVoltage
<1>2. IsTable(m) /\ IsTable(branches)
  BY DEF MInv, TablesAreTables, AreRecords, AreBranches
<1>3. AllAtLiveNodes(rows, nodes)
  BY <1>2, MirrorRowsAtLiveNodes
<1>4. first \in Int
  BY <1>2, SkipTakenType, FactorsAssumption
<1> HIDE DEF rows, first
<1>5. QED
  BY <1>1, <1>3, <1>4, AddingStep

\* Adding external pseudo rows keeps the invariant.
LEMMA AddExternalKeeps == ASSUME MInv, AddExternal PROVE MInv'
<1> DEFINE rows == ExternalRows(nodes, case.given)
           first == SkipTaken(m, ExternalBase)
<1>1. /\ pc = "external" /\ UNCHANGED <<case, nodes, branches, fixed>> /\ Added(rows, first)
  BY DEF AddExternal
<1>2. IsTable(m)
  BY DEF MInv, TablesAreTables, AreRecords
<1>3. AllAtLiveNodes(rows, nodes)
  <2>1. /\ IsTable(case.given)
        /\ \A j \in DOMAIN case.given : case.given[j].kind \in {"V"} \cup InjectionKinds
    BY CallIsCall DEF IsCall
  <2>2. QED
    BY <2>1, ExternalRowsAtLiveNodes
<1>4. first \in Int
  BY <1>2, SkipTakenType, FactorsAssumption
<1> HIDE DEF rows, first
<1>5. QED
  BY <1>1, <1>3, <1>4, AddingStep

\* Adding priors keeps the invariant and anchors every active node.
LEMMA AddPseudoKeeps == ASSUME MInv, AddPseudo PROVE MInv'
<1> DEFINE rows == Priors(m, nodes, branches, released, case.cfg)
<1>1. /\ pc = "pseudo" /\ UNCHANGED <<case, nodes, branches, fixed>> /\ Added(rows, PseudoBase)
  BY DEF AddPseudo
<1>2. AreNodes(nodes)
  BY DEF MInv, TablesAreTables
<1>3. /\ AllAtLiveNodes(rows, nodes)
      /\ \A n \in ActiveNodes(nodes) :
            /\ case.cfg.pseudoV /\ n \notin Have(m, "V") /\ nodes[n].vn > 0 => HasRow(rows, "V", n)
            /\ case.cfg.pseudoInjections /\ n \notin Have(m, "Pinj") => HasRow(rows, "Pinj", n)
  BY <1>2, PriorsRows
<1>4. PseudoBase \in Int
  BY FactorsAssumption
<1> HIDE DEF rows
<1>5. QED
  BY <1>1, <1>3, <1>4, AddingStep

\* Materialization keeps the invariant.
LEMMA MaterializeRegimeKeeps == ASSUME MInv, MaterializeRegime PROVE MInv'
<1>1. /\ pc = "materialize" /\ pc' = After[pc] /\ UNCHANGED <<case, m, branches, fixed>>
      /\ nodes' = Materialize(nodes, case.obs)
  BY DEF MaterializeRegime, On
<1>2. AreNodes(nodes)
  BY DEF MInv, TablesAreTables
<1>3. /\ AreNodes(nodes') /\ DOMAIN nodes' = DOMAIN nodes
      /\ \A n \in DOMAIN nodes : nodes'[n].status = nodes[n].status /\ nodes'[n].vn = nodes[n].vn
  BY <1>1, <1>2, MaterializeKeepsNodes
<1>4. pc \in Late
  BY <1>1 DEF Late
<1>5. QED
  BY <1>1, <1>3, <1>4, QuietStep

\* A step whose toggle is off keeps the invariant.
LEMMA SkipStepKeeps == ASSUME MInv, SkipStep PROVE MInv'
<1>1. /\ pc \in Steps /\ pc \in case.cfg.off /\ pc' = After[pc]
      /\ UNCHANGED <<case, m, nodes, branches, fixed>>
  BY DEF SkipStep
<1>2. pc # "telemetry"
  BY <1>1, CallIsCall DEF IsCall
<1>3. AreNodes(nodes) /\ AreBranches(branches)
  BY DEF MInv, TablesAreTables
<1>4. CASE pc \in Judging
  <2>1. Filtered(m, m', fixed)
    BY <1>1, <1>4, JudgingRows
  <2>2. QED
    BY <1>1, <1>3, <1>4, <2>1, JudgingStep
<1>5. CASE pc \in Late
  BY <1>1, <1>3, <1>5, QuietStep
<1>6. pc \in Judging \cup Late
  BY <1>1, <1>2, Order DEF Judging, Late
<1>7. QED
  BY <1>4, <1>5, <1>6

\* Every step keeps the invariant.
LEMMA NextKeeps == MInv /\ [Next]_vars => MInv'
<1> SUFFICES ASSUME MInv, [Next]_vars PROVE MInv'
  OBVIOUS
<1>1. CASE TelemetryFails
  BY <1>1, FailingStep DEF TelemetryFails
<1>2. CASE TelemetryStep
  BY <1>2, TelemetryStepKeeps
<1>3. CASE Cascade
  BY <1>3, CascadeKeeps
<1>4. CASE VoltageRangeFilter
  BY <1>4, VoltageRangeFilterKeeps
<1>5. CASE ReleaseLoadOnly
  BY <1>5, ReleaseLoadOnlyKeeps
<1>6. CASE RelaxGenerationMin
  BY <1>6, RelaxGenerationMinKeeps
<1>7. CASE WidenGenerationOnly
  BY <1>7, WidenGenerationOnlyKeeps
<1>8. CASE CalibrateGenVoltage
  BY <1>8, CalibrateGenVoltageKeeps
<1>9. CASE DeactivateOrphans
  BY <1>9, DeactivateOrphansKeeps
<1>10. CASE MirrorVoltage
  BY <1>10, MirrorVoltageKeeps
<1>11. CASE MaterializeRegime
  BY <1>11, MaterializeRegimeKeeps
<1>12. CASE AddExternal
  BY <1>12, AddExternalKeeps
<1>13. CASE AddPseudo
  BY <1>13, AddPseudoKeeps
<1>14. CASE FlowSigmaFloor
  BY <1>14, FloorStepKeeps
<1>15. CASE SkipStep
  BY <1>15, SkipStepKeeps
<1>16. CASE UNCHANGED vars
  <2>1. UNCHANGED <<case, pc, m, nodes, branches, fixed>>
    BY <1>16 DEF vars
  <2>2. QED
    BY <2>1 DEF MInv, AtStart, TablesAreTables, VariancesCount, NoBadReading, LiveRows, AllLive,
                NodesAnchored, Anchors, FinalRowsProtected
<1>17. QED
  BY <1>1, <1>2, <1>3, <1>4, <1>5, <1>6, <1>7, <1>8, <1>9, <1>10, <1>11, <1>12, <1>13, <1>14,
     <1>15, <1>16 DEF Next

\* The invariant holds throughout a run.
LEMMA InvariantHolds == Spec => []MInv
<1>1. Init => MInv
  BY InitHolds
<1>2. MInv /\ [Next]_vars => MInv'
  BY NextKeeps
<1>3. QED
  BY <1>1, <1>2, PTL DEF Spec

-----------------------------------------------------------------------------
(* Minimums and readings: bounds and readings *)

\* The active readings of the injection of a node.
ReadingsAt(t, n) == {i \in Rows(t, {"Pinj"}, FALSE) : t[i].obj = n}

\* The reading a minimum is compared with.
LEMMA FirstIsLeast ==
    ASSUME NEW t, IsTable(t), NEW n, ReadingsAt(t, n) # {}
    PROVE  FirstReading(t, n) \in ReadingsAt(t, n)
<1> DEFINE S == ReadingsAt(t, n)
<1>1. S \subseteq Nat
  <2>1. \A i \in DOMAIN t : i \in Nat
    BY TableIsSequence
  <2>2. QED
    BY <2>1 DEF ReadingsAt, Rows
<1>2. \E i \in S : \A j \in S : i <= j
  <2> HIDE DEF S
  <2>1. S # {}
    BY DEF S
  <2>2. QED
    BY <1>1, <2>1, LeastNumber
<1>3. FirstReading(t, n) = CHOOSE i \in S : \A j \in S : i <= j
  BY DEF FirstReading, InjectionReadings, ReadingsAt
<1>4. QED
  BY <1>2, <1>3

\* The same readings have the same first one.
LEMMA FirstOfSame ==
    ASSUME NEW t, NEW u, NEW n, ReadingsAt(u, n) = ReadingsAt(t, n)
    PROVE  FirstReading(u, n) = FirstReading(t, n)
BY DEF FirstReading, InjectionReadings, ReadingsAt

\* A smaller gap is beyond the sigmas of a larger variance no sooner.
LEMMA BeyondIsMonotone ==
    ASSUME NEW a \in Int, NEW b \in Int, a <= b, NEW k \in Nat, NEW v \in Nat, NEW w \in Nat, v <= w,
           Beyond(a, k, w)
    PROVE  Beyond(b, k, v)
<1>1. a > 0 /\ 100 * a * a > k * k * w
  BY DEF Beyond
<1>2. b > 0 /\ a * a <= b * b
  <2>1. b > 0 /\ a > 0
    BY <1>1
  <2>2. a * a <= a * b /\ a * b <= b * b
    BY <2>1
  <2>3. a * a \in Int /\ a * b \in Int /\ b * b \in Int
    OBVIOUS
  <2>4. QED
    BY <2>1, <2>2, <2>3
<1>3. 100 * a * a = 100 * (a * a) /\ 100 * b * b = 100 * (b * b)
  OBVIOUS
<1>4. k * k * v <= k * k * w
  <2> DEFINE q == k * k
  <2>1. q \in Nat
    OBVIOUS
  <2> HIDE DEF q
  <2>2. q * v <= q * w
    BY <2>1
  <2>3. QED
    BY <2>2 DEF q
<1>5. k * k * v \in Int /\ k * k * w \in Int /\ a * a \in Int /\ b * b \in Int
  <2>1. k * k \in Int
    OBVIOUS
  <2>2. QED
    BY <2>1
<1> DEFINE A == a * a
           B == b * b
           V == k * k * v
           W == k * k * w
<1>6. A \in Int /\ B \in Int /\ V \in Int /\ W \in Int /\ A <= B /\ V <= W /\ 100 * A > W
  BY <1>1, <1>2, <1>3, <1>4, <1>5
<1> HIDE DEF A, B, V, W
<1>7. 100 * B > V
  BY <1>6
<1>8. QED
  BY <1>2, <1>3, <1>7 DEF B, V, Beyond

\* The sigmas that a gap is beyond, in whole units.
LEMMA SigmasInt ==
    ASSUME NEW gap \in Int, NEW k \in Nat, NEW var \in Nat, Beyond(gap, k, var)
    PROVE  Sigmas(gap, k, var) \in Int
<1> DEFINE S == {s \in 0 .. gap : Beyond(s + 1, k, var)}
<1>1. gap > 0
  BY DEF Beyond
<1>2. Beyond(gap + 1, k, var)
  BY BeyondIsMonotone
<1>3. S \subseteq Int /\ S # {} /\ 0 \in Int /\ \A s \in S : 0 <= s
  <2>1. gap \in S
    BY <1>1, <1>2
  <2>2. QED
    BY <2>1
<1> HIDE DEF S
<1>4. Min(S) \in S
  BY <1>3, LeastMember
<1>5. QED
  BY <1>3, <1>4 DEF Sigmas, S

\* A declared range is taken as it is.
LEMMA DeclaredIsResolved ==
    ASSUME NEW box, Declared(box)
    PROVE  Resolve(box) = box /\ box[1] < box[2]
BY DEF Declared, Resolve

\* The load box of a reading, known or not.
LEMMA LoadBoxType ==
    ASSUME NEW net, AreNodes(net), NEW n \in DOMAIN net, NEW plan
    PROVE  LoadBox(net, n, plan) \in (Int \X Int) \cup {None}
BY DEF LoadBox, AreNodes

-----------------------------------------------------------------------------
(* What a step keeps of the ranges *)

\* v has the ranges of net.
SameRanges(net, v) ==
    /\ DOMAIN v = DOMAIN net
    /\ \A n \in DOMAIN net :
          /\ DOMAIN v[n] = DOMAIN net[n]
          /\ v[n].existGen = net[n].existGen /\ v[n].existLoad = net[n].existLoad
          /\ v[n].gp = net[n].gp /\ v[n].lp = net[n].lp

SameStatuses(net, v) == \A n \in DOMAIN net : v[n].status = net[n].status

\* The cascade keeps the ranges.
LEMMA CascadeKeepsRanges ==
    ASSUME AreNodes(nodes), HaveRanges(nodes), Cascade
    PROVE  SameRanges(nodes, nodes')
<1>1. PICK dead :
          nodes' = [n \in DOMAIN nodes |-> [nodes[n] EXCEPT !.status = @ /\ n \notin dead]]
  BY DEF Cascade
<1>2. ASSUME NEW n \in DOMAIN nodes
      PROVE  /\ DOMAIN nodes'[n] = DOMAIN nodes[n]
             /\ nodes'[n].existGen = nodes[n].existGen /\ nodes'[n].existLoad = nodes[n].existLoad
             /\ nodes'[n].gp = nodes[n].gp /\ nodes'[n].lp = nodes[n].lp
  <2> DEFINE r == nodes[n]
             x == r.status /\ n \notin dead
  <2>1. nodes'[n] = [r EXCEPT !.status = x]
    BY <1>1
  <2>2. {"status", "existGen", "existLoad", "gp", "lp"} \subseteq DOMAIN r
    BY DEF AreNodes, HaveRanges
  <2> HIDE DEF r, x
  <2>3. /\ DOMAIN nodes'[n] = DOMAIN r
        /\ nodes'[n].existGen = r.existGen /\ nodes'[n].existLoad = r.existLoad
        /\ nodes'[n].gp = r.gp /\ nodes'[n].lp = r.lp
    BY <2>1, <2>2
  <2>4. QED
    BY <2>3 DEF r
<1>3. DOMAIN nodes' = DOMAIN nodes
  BY <1>1
<1>4. QED
  BY <1>2, <1>3 DEF SameRanges

\* Materialization keeps the ranges.
LEMMA MaterializeKeepsRanges ==
    ASSUME NEW net, AreNodes(net), HaveRanges(net), NEW obs
    PROVE  SameRanges(net, Materialize(net, obs)) /\ SameStatuses(net, Materialize(net, obs))
<1> DEFINE u == Materialize(net, obs)
<1>1. DOMAIN u = DOMAIN net
  BY DEF Materialize
<1>2. ASSUME NEW n \in DOMAIN net
      PROVE  /\ DOMAIN u[n] = DOMAIN net[n] /\ u[n].status = net[n].status
             /\ u[n].existGen = net[n].existGen /\ u[n].existLoad = net[n].existLoad
             /\ u[n].gp = net[n].gp /\ u[n].lp = net[n].lp
  <2> DEFINE r == net[n]
             a == LoadValue(net, obs.loadP, "lp", n, r.loadP)
             b == LoadValue(net, obs.loadQ, "lq", n, r.loadQ)
             c == GenValue(net, obs.genP, n, r.genP)
             d == GenValue(net, obs.genQ, n, r.genQ)
  <2>1. {"status", "existGen", "existLoad", "gp", "lp", "genP", "genQ", "loadP", "loadQ"} \subseteq DOMAIN r
    BY DEF AreNodes, HaveRanges
  <2>2. u[n] = [r EXCEPT !.loadP = a, !.loadQ = b, !.genP = c, !.genQ = d]
    BY <2>1 DEF Materialize
  <2> HIDE DEF r, a, b, c, d, u
  <2>3. /\ DOMAIN u[n] = DOMAIN r /\ u[n].status = r.status
        /\ u[n].existGen = r.existGen /\ u[n].existLoad = r.existLoad
        /\ u[n].gp = r.gp /\ u[n].lp = r.lp
    BY <2>1, <2>2
  <2>4. QED
    BY <2>3 DEF r
<1> HIDE DEF u
<1>3. QED
  BY <1>1, <1>2 DEF SameRanges, SameStatuses, u

\* The same ranges are ranges.
LEMMA SameRangesAreRanges ==
    ASSUME NEW net, HaveRanges(net), NEW v, SameRanges(net, v)
    PROVE  HaveRanges(v)
BY DEF HaveRanges, SameRanges

-----------------------------------------------------------------------------
(* What a step keeps of the readings *)

\* u has the readings of t at the node.
SameReadings(t, u, n) ==
    /\ ReadingsAt(u, n) = ReadingsAt(t, n)
    /\ \A i \in ReadingsAt(t, n) : u[i].value = t[i].value /\ u[i].var = t[i].var

\* A row as far as it may be a reading of an injection.
SameReading(r, s) ==
    /\ s.kind = r.kind /\ s.obj = r.obj /\ s.pseudo = r.pseudo
    /\ r.kind = "Pinj" => (s.status <=> r.status) /\ s.value = r.value /\ s.var = r.var

\* Tables of the same readings.
LEMMA RowByRow ==
    ASSUME NEW t, NEW u, DOMAIN u = DOMAIN t, NEW n,
           \A i \in DOMAIN t : (t[i].obj = n => SameReading(t[i], u[i])) /\ u[i].obj = t[i].obj
    PROVE  SameReadings(t, u, n)
<1>1. ASSUME NEW i \in DOMAIN t PROVE i \in ReadingsAt(u, n) <=> i \in ReadingsAt(t, n)
  BY DEF ReadingsAt, Rows, SameReading
<1>2. ReadingsAt(u, n) = ReadingsAt(t, n)
  BY <1>1 DEF ReadingsAt, Rows
<1>3. QED
  BY <1>2 DEF SameReadings, ReadingsAt, Rows, SameReading

\* Rows that are the same readings, table by table.
LEMMA AllRowsSame ==
    ASSUME NEW t, NEW u, DOMAIN u = DOMAIN t, \A i \in DOMAIN t : SameReading(t[i], u[i])
    PROVE  \A n : SameReadings(t, u, n)
<1>1. \A i \in DOMAIN t : u[i].obj = t[i].obj
  BY DEF SameReading
<1>2. ASSUME NEW n PROVE SameReadings(t, u, n)
  <2>1. \A i \in DOMAIN t : (t[i].obj = n => SameReading(t[i], u[i])) /\ u[i].obj = t[i].obj
    BY <1>1
  <2>2. QED
    BY <2>1, RowByRow, Zenon
<1>3. QED
  BY <1>2

\* A row is the reading it is.
LEMMA SameIsSameReading == \A r : SameReading(r, r)
BY DEF SameReading

\* A row with another variance that is not of an injection.
LEMMA OtherVariance ==
    ASSUME NEW r, DOMAIN r = RowFields, r.kind # "Pinj", NEW var
    PROVE  SameReading(r, [r EXCEPT !.var = var])
BY DEF SameReading, RowFields

\* The calibration of voltages leaves the injections alone.
LEMMA GenVoltageKeepsReadings ==
    ASSUME NEW t, AreRecords(t), NEW net, NEW keep, NEW cfg
    PROVE  LET u == GenVoltage(t, net, keep, cfg)
           IN  \A n : SameReadings(t, u, n)
<1> DEFINE u == GenVoltage(t, net, keep, cfg)
<1>1. DOMAIN u = DOMAIN t
  BY DEF GenVoltage
<1>2. ASSUME NEW i \in DOMAIN t PROVE SameReading(t[i], u[i])
  <2>1. u[i] = t[i] \/ (t[i].kind = "V" /\ u[i] = [t[i] EXCEPT !.var = GenVSigma2])
    BY DEF GenVoltage, VoltageRows, Rows
  <2>2. DOMAIN t[i] = RowFields
    BY DEF AreRecords
  <2>3. QED
    BY <2>1, <2>2, OtherVariance, SameIsSameReading
<1> HIDE DEF u
<1>3. \A n : SameReadings(t, u, n)
  BY <1>1, <1>2, AllRowsSame
<1>4. QED
  BY <1>3 DEF u

\* The floor of the flows leaves the injections alone.
LEMMA FlowFloorKeepsReadings ==
    ASSUME NEW t, AreRecords(t), NEW net, NEW lines, NEW keep, NEW cfg
    PROVE  LET u == FlowFloor(t, net, lines, keep, cfg)
           IN  \A n : SameReadings(t, u, n)
<1> DEFINE u == FlowFloor(t, net, lines, keep, cfg)
<1>1. DOMAIN u = DOMAIN t
  BY DEF FlowFloor
<1>2. ASSUME NEW i \in DOMAIN t PROVE SameReading(t[i], u[i])
  <2> DEFINE r == t[i]
             x == Largest(r.var, Floor(r, net, lines, cfg))
  <2>1. u[i] = r \/ (r.kind \in {"P", "Q"} /\ u[i] = [r EXCEPT !.var = x])
    BY DEF FlowFloor
  <2>2. DOMAIN r = RowFields
    BY DEF AreRecords
  <2> HIDE DEF r, x, u
  <2>3. SameReading(r, u[i])
    BY <2>1, <2>2, OtherVariance, SameIsSameReading
  <2>4. QED
    BY <2>3 DEF r
<1> HIDE DEF u
<1>3. \A n : SameReadings(t, u, n)
  BY <1>1, <1>2, AllRowsSame
<1>4. QED
  BY <1>3 DEF u

\* The readings of an active node are no orphans.
LEMMA OrphansKeepReadings ==
    ASSUME NEW t, AreRecords(t), NEW net, NEW lines
    PROVE  LET u == Orphans(t, net, lines)
           IN  \A n \in ActiveNodes(net) : SameReadings(t, u, n)
<1> DEFINE u == Orphans(t, net, lines)
<1>1. DOMAIN u = DOMAIN t
  BY DEF Orphans
<1>2. ASSUME NEW i \in DOMAIN t
      PROVE  /\ u[i].obj = t[i].obj
             /\ t[i].obj \in ActiveNodes(net) => SameReading(t[i], u[i])
  <2> DEFINE r == t[i]
             on == r.status /\ Live(r, net, lines)
  <2>1. DOMAIN r = RowFields
    BY DEF AreRecords
  <2>2. u[i] = [r EXCEPT !.status = on]
    <3>1. u[i] = [r EXCEPT !.status = @ /\ Live(r, net, lines)]
      BY DEF Orphans
    <3> HIDE DEF r, u
    <3>2. QED
      BY <2>1, <3>1 DEF RowFields
  <2>3. r.kind = "Pinj" /\ r.obj \in ActiveNodes(net) => (on <=> r.status)
    BY DEF Live, FlowKinds, ActiveNodes
  <2> HIDE DEF r, on, u
  <2>4. /\ u[i].obj = r.obj
        /\ r.obj \in ActiveNodes(net) => SameReading(r, u[i])
    BY <2>1, <2>2, <2>3 DEF SameReading, RowFields
  <2>5. QED
    BY <2>4 DEF r
<1> HIDE DEF u
<1>3. ASSUME NEW n \in ActiveNodes(net) PROVE SameReadings(t, u, n)
  BY <1>1, <1>2, RowByRow
<1>4. QED
  BY <1>3 DEF u

\* Pseudo rows are no readings.
LEMMA AddedRowsAreNoReadings ==
    ASSUME NEW t, AreRecords(t), NEW rows, NEW net, AllAtLiveNodes(rows, net), NEW first \in Int
    PROVE  LET u == AddMany(t, rows, first)
           IN  \A n : SameReadings(t, u, n)
<1> DEFINE u == AddMany(t, rows, first)
<1>1. /\ \A i \in DOMAIN t : i \in DOMAIN u /\ u[i] = t[i]
      /\ \A i \in DOMAIN u : i \in DOMAIN t \/ AtLiveNode(u[i], net)
  BY ExtendedRows
<1> HIDE DEF u
<1>2. ASSUME NEW n PROVE SameReadings(t, u, n)
  <2>1. ReadingsAt(u, n) = ReadingsAt(t, n)
    BY <1>1 DEF ReadingsAt, Rows, AtLiveNode
  <2>2. QED
    BY <1>1, <2>1 DEF SameReadings, ReadingsAt, Rows
<1>3. QED
  BY <1>2 DEF u

\* The filters before the relaxation leave values, kinds and objects alone.
LEMMA FiltersKeepValues ==
    ASSUME NEW t, AreRecords(t), IntValues(t), NEW net, NEW plan, NEW keep, NEW cfg,
           NEW given, OfComponents(t, given)
    PROVE  /\ IntValues(RangeFilter(t, net, keep, cfg)) /\ IntValues(Release(t, net, plan))
           /\ OfComponents(RangeFilter(t, net, keep, cfg), given)
           /\ OfComponents(Release(t, net, plan), given)
<1> DEFINE Kept(r, s) == (s.status => r.status) /\ s.value = r.value /\ s.kind = r.kind /\ s.obj = r.obj
<1>1. ASSUME NEW i \in DOMAIN t
      PROVE  /\ Kept(t[i], RangeFilter(t, net, keep, cfg)[i])
             /\ Kept(t[i], Release(t, net, plan)[i])
  <2> DEFINE r == t[i]
             x == RangeFilter(t, net, keep, cfg)[i]
             y == Release(t, net, plan)[i]
             off == [r EXCEPT !.status = FALSE, !.flag = "load_only"]
  <2>1. DOMAIN r = RowFields
    BY DEF AreRecords
  <2>2. x \in {r, [r EXCEPT !.status = FALSE], Downweighted(r)}
    BY DEF RangeFilter
  <2>3. y = r \/ y = off
    BY DEF Release
  <2> HIDE DEF r, x, y
  <2>4. Kept(r, Downweighted(r))
    BY <2>1 DEF Downweighted, RowFields
  <2>5. Kept(r, x) /\ Kept(r, y)
    BY <2>1, <2>2, <2>3, <2>4 DEF RowFields
  <2>6. QED
    BY <2>5 DEF r, x, y
<1>2. DOMAIN RangeFilter(t, net, keep, cfg) = DOMAIN t /\ DOMAIN Release(t, net, plan) = DOMAIN t
  BY DEF RangeFilter, Release
<1>3. QED
  BY <1>1, <1>2 DEF IntValues, OfComponents

-----------------------------------------------------------------------------
(* The inductive invariant of the minimums, beside the one of the tables *)

BeforeRelax == {"telemetry", "cascade", "range", "release", "relax"}

AfterWiden == {"genV", "orphans", "mirror", "materialize", "external", "pseudo", "floor", "done"}

\* The reading of the node, with this much load, does not rule its minimum out.
AgreesWith(t, net, n, load) ==
    ~Beyond(net[n].gp[1] - t[FirstReading(t, n)].value - load, RelaxSigma,
            t[FirstReading(t, n)].var)

\* The nodes that have a minimum and a reading.
Compared(t, net) == {n \in Generating(net) : net[n].gp[1] > 0 /\ ReadingsAt(t, n) # {}}

\* MostLoad, of any network.
Most(net, n, plan, cfg) ==
    IF \/ ~net[n].existLoad
       \/ n \in GenerationOnly(plan, "Pinj") /\ (cfg.roles \/ ~Declared(net[n].lp))
    THEN 0
    ELSE IF DeclaredOrPoint(net[n].lp) THEN net[n].lp[2] ELSE None

AgreeByBox(t, net, plan) ==
    \A n \in Compared(t, net) :
        LoadBox(net, n, plan) # None => AgreesWith(t, net, n, LoadBox(net, n, plan)[2])

AgreeByMost(t, net, plan, cfg) ==
    \A n \in Compared(t, net) :
        Most(net, n, plan, cfg) # None => AgreesWith(t, net, n, Most(net, n, plan, cfg))

\* No load-only reading is left where generation is declared.
NonePartial(t, net, plan) ==
    \A n \in Generating(net) : ReadingsAt(t, n) # {} => n \notin LoadOnly(plan, "Pinj")

\* Nothing but the relaxation writes a minimum.
MinimumsAsGiven ==
    pc \in BeforeRelax => \A n \in DOMAIN nodes : nodes[n].gp = case.nodes[n].gp

ReadingsCount == pc \in {"cascade", "range", "release", "relax", "widen"} => IntValues(m)

\* The widening changes what a reading is compared with, and the reading.
MinimumsAgree ==
    case.cfg.off = {} =>
        /\ pc = "widen" => AgreeByBox(m, nodes, case.plan)
        /\ pc \in AfterWiden => AgreeByMost(m, nodes, case.plan, case.cfg)

\* What is compared with a minimum: readings of the plan, none of load alone.
ReadingsAreFed == pc \in {"cascade", "range", "release", "relax"} => OfComponents(m, case.plan)

PartialAreReleased ==
    pc = "relax" /\ "release" \notin case.cfg.off /\ ~case.cfg.roles =>
        NonePartial(m, nodes, case.plan)

GInv ==
    /\ HaveRanges(nodes) /\ MinimumsAsGiven /\ ReadingsCount
    /\ MinimumsAgree
    /\ ReadingsAreFed /\ PartialAreReleased /\ MinimumDropsOnGeneration

-----------------------------------------------------------------------------
(* The relaxation *)

\* The rows a node's relaxation writes: the range of its generation.
Relaxed(net, n, x) == [net[n] EXCEPT !.gp = [@ EXCEPT ![1] = x]]

\* A minimum that was written is no minimum, and a reading ruled it out.
LEMMA RelaxedMinimum ==
    ASSUME NEW t, AreRecords(t), AllNat(t), IntValues(t),
           NEW net, AreNodes(net), HaveRanges(net), NEW plan, NEW n \in DOMAIN net
    PROVE  LET v == Relax(t, net, plan)
           IN  \/ /\ v[n] = net[n]
                  /\ ~(/\ net[n].status /\ net[n].existGen /\ ReadingsAt(t, n) # {}
                       /\ RuledOut(t, net, n, plan))
               \/ /\ net[n].status /\ net[n].existGen /\ ReadingsAt(t, n) # {}
                  /\ \E x \in Int : x <= 0 /\ v[n] = Relaxed(net, n, x)
<1> DEFINE v == Relax(t, net, plan)
           row == t[FirstReading(t, n)]
           box == LoadBox(net, n, plan)
           gap == Shortfall(t, net, n, plan)
           lowest == row.value + box[1] - Sigmas(gap, RelaxSigma, row.var)
           x == IF lowest < 0 THEN lowest ELSE 0
           cond == /\ net[n].status /\ net[n].existGen /\ ReadingsAt(t, n) # {}
                   /\ RuledOut(t, net, n, plan)
<1>1. (\E i \in InjectionReadings(t, "Pinj") : t[i].obj = n) <=> ReadingsAt(t, n) # {}
  BY DEF InjectionReadings, ReadingsAt
<1>2. v[n] = IF cond THEN [net[n] EXCEPT !.gp[1] = x] ELSE net[n]
  BY <1>1 DEF Relax
<1>3. ASSUME cond PROVE x \in Int /\ x <= 0
  <2>1. FirstReading(t, n) \in ReadingsAt(t, n)
    BY <1>3, FirstIsLeast DEF AreRecords
  <2>2. row.value \in Int /\ row.var \in Nat
    BY <2>1 DEF ReadingsAt, Rows, IntValues, AllNat
  <2>3. box \in Int \X Int
    BY <1>3, LoadBoxType DEF RuledOut
  <2>4. Resolve(net[n].gp)[1] \in Int
    <3>1. Resolve(net[n].gp)[1] > 0 /\ net[n].gp \in Int \X Int
      BY <1>3 DEF RuledOut, HaveRanges
    <3>2. Resolve(net[n].gp) = net[n].gp \/ Resolve(net[n].gp) = NoRange
      BY DEF Resolve
    <3>3. CASE Resolve(net[n].gp) = net[n].gp
      BY <3>1, <3>3
    <3>4. CASE Resolve(net[n].gp) = NoRange
      BY <3>1, <3>4, FactorsAssumption DEF NoRange
    <3>5. QED
      BY <3>2, <3>3, <3>4
  <2>5. gap \in Int
    BY <2>2, <2>3, <2>4 DEF Shortfall
  <2>6. Beyond(gap, RelaxSigma, row.var)
    BY <1>3 DEF RuledOut
  <2>7. Sigmas(gap, RelaxSigma, row.var) \in Int
    BY <2>2, <2>5, <2>6, SigmasInt, FactorsAssumption
  <2> HIDE DEF row, box, gap
  <2>8. lowest \in Int
    BY <2>2, <2>3, <2>7
  <2> HIDE DEF lowest
  <2>9. QED
    BY <2>8
<1>4. CASE cond
  <2>1. v[n] = Relaxed(net, n, x)
    BY <1>2, <1>4 DEF Relaxed
  <2>2. x \in Int /\ x <= 0
    BY <1>3, <1>4
  <2> HIDE DEF x, v
  <2>3. \E y \in Int : y <= 0 /\ v[n] = Relaxed(net, n, y)
    BY <2>1, <2>2
  <2>4. QED
    BY <1>4, <2>3 DEF v
<1>5. CASE ~cond
  BY <1>2, <1>5
<1>6. QED
  BY <1>4, <1>5

\* What a written range leaves of its node.
LEMMA RelaxedNode ==
    ASSUME NEW net, AreNodes(net), HaveRanges(net), NEW n \in DOMAIN net, NEW x \in Int
    PROVE  LET r == Relaxed(net, n, x)
           IN  /\ DOMAIN r = DOMAIN net[n]
               /\ r.status = net[n].status /\ r.existGen = net[n].existGen
               /\ r.existLoad = net[n].existLoad /\ r.lp = net[n].lp
               /\ r.gp[1] = x /\ r.gp \in Int \X Int
<1> DEFINE r == net[n]
           gp == [r.gp EXCEPT ![1] = x]
<1>1. {"status", "existGen", "existLoad", "gp", "lp"} \subseteq DOMAIN r
  BY DEF AreNodes, HaveRanges
<1>2. gp \in Int \X Int /\ gp[1] = x
  <2>1. r.gp \in Int \X Int
    BY DEF HaveRanges
  <2>2. PICK a \in Int, b \in Int : r.gp = <<a, b>>
    BY <2>1
  <2>3. gp = <<x, b>>
    BY <2>2
  <2>4. QED
    BY <2>3
<1>3. Relaxed(net, n, x) = [r EXCEPT !.gp = gp]
  BY DEF Relaxed
<1> HIDE DEF r, gp
<1>4. QED
  BY <1>1, <1>2, <1>3 DEF r

(* Relaxing leaves the ranges ranges, a minimum that is left is one that the  *)
(* first reading does not rule out, and a minimum is dropped on a reading of  *)
(* a live node that may generate.                                             *)
LEMMA RelaxAgrees ==
    ASSUME NEW t, AreRecords(t), AllNat(t), IntValues(t),
           NEW net, AreNodes(net), HaveRanges(net), NEW plan
    PROVE  LET v == Relax(t, net, plan)
           IN  /\ HaveRanges(v) /\ AgreeByBox(t, v, plan)
               /\ DOMAIN v = DOMAIN net
               /\ \A n \in DOMAIN net :
                     v[n].gp # net[n].gp =>
                         net[n].status /\ net[n].existGen /\ ReadingsAt(t, n) # {}
<1> DEFINE v == Relax(t, net, plan)
<1>1. DOMAIN v = DOMAIN net
  BY DEF Relax
<1>2. ASSUME NEW n \in DOMAIN net
      PROVE  \/ /\ v[n] = net[n]
                /\ ~(/\ net[n].status /\ net[n].existGen /\ ReadingsAt(t, n) # {}
                     /\ RuledOut(t, net, n, plan))
             \/ /\ net[n].status /\ net[n].existGen /\ ReadingsAt(t, n) # {}
                /\ \E x \in Int : x <= 0 /\ v[n] = Relaxed(net, n, x)
  BY RelaxedMinimum
<1> HIDE DEF v
<1>3. HaveRanges(v)
  <2>1. ASSUME NEW n \in DOMAIN net
        PROVE  {"existGen", "existLoad"} \subseteq DOMAIN v[n] /\ v[n].gp \in Int \X Int
    <3>1. CASE v[n] = net[n]
      BY <3>1 DEF HaveRanges
    <3>2. CASE \E x \in Int : v[n] = Relaxed(net, n, x)
      <4>1. DOMAIN v[n] = DOMAIN net[n] /\ v[n].gp \in Int \X Int
        BY <3>2, RelaxedNode
      <4>2. QED
        BY <4>1 DEF HaveRanges
    <3>3. QED
      BY <1>2, <3>1, <3>2
  <2>2. QED
    BY <1>1, <2>1 DEF HaveRanges
<1>4. ASSUME NEW n \in Compared(t, v), LoadBox(v, n, plan) # None
      PROVE  AgreesWith(t, v, n, LoadBox(v, n, plan)[2])
  <2>1. n \in DOMAIN net /\ v[n].status /\ v[n].existGen /\ v[n].gp[1] > 0 /\ ReadingsAt(t, n) # {}
        /\ Declared(v[n].gp)
    BY <1>1, <1>4 DEF Compared, Generating
  <2>2. ~\E x \in Int : x <= 0 /\ v[n] = Relaxed(net, n, x)
    <3>1. ASSUME NEW x \in Int, x <= 0, v[n] = Relaxed(net, n, x) PROVE FALSE
      <4>1. v[n].gp[1] = x
        BY <2>1, <3>1, RelaxedNode
      <4>2. QED
        BY <2>1, <3>1, <4>1
    <3>2. QED
      BY <3>1
  <2>3. v[n] = net[n] /\ ~RuledOut(t, net, n, plan)
    BY <1>2, <2>1, <2>2
  <2>4. LoadBox(v, n, plan) = LoadBox(net, n, plan)
    BY <2>3 DEF LoadBox
  <2>5. Resolve(net[n].gp) = net[n].gp
    BY <2>1, <2>3, DeclaredIsResolved
  <2>6. ~Beyond(Shortfall(t, net, n, plan), RelaxSigma, t[FirstReading(t, n)].var)
    BY <1>4, <2>1, <2>3, <2>4, <2>5 DEF RuledOut
  <2>7. QED
    BY <2>3, <2>4, <2>5, <2>6 DEF AgreesWith, Shortfall
<1>5. ASSUME NEW n \in DOMAIN net, v[n].gp # net[n].gp
      PROVE  net[n].status /\ net[n].existGen /\ ReadingsAt(t, n) # {}
  BY <1>2, <1>5
<1>6. QED
  BY <1>1, <1>3, <1>4, <1>5 DEF AgreeByBox, v

(* The release leaves no load-only reading where generation is declared.      *)
LEMMA ReleaseLeavesNonePartial ==
    ASSUME NEW t, AreRecords(t), NEW net, NEW plan
    PROVE  NonePartial(Release(t, net, plan), net, plan)
<1> DEFINE u == Release(t, net, plan)
<1> SUFFICES ASSUME NEW n \in Generating(net), n \in LoadOnly(plan, "Pinj"), NEW i \in ReadingsAt(u, n)
             PROVE  FALSE
  BY DEF NonePartial
<1>1. i \in DOMAIN t /\ u[i].status /\ u[i].kind = "Pinj" /\ ~u[i].pseudo /\ u[i].obj = n
  BY DEF ReadingsAt, Rows, Release
<1>2. u[i] = IF i \in ReleasedRows(t, net, plan)
             THEN [t[i] EXCEPT !.status = FALSE, !.flag = "load_only"] ELSE t[i]
  BY <1>1 DEF Release
<1>3. DOMAIN t[i] = RowFields
  BY <1>1 DEF AreRecords
<1> HIDE DEF u
<1>4. i \notin ReleasedRows(t, net, plan) /\ u[i] = t[i]
  BY <1>1, <1>2, <1>3 DEF RowFields
<1>5. i \in InjectionReadings(t, "Pinj") /\ t[i].obj \in LoadOnly(plan, "Pinj") \cap Generating(net)
  <2>1. t[i].pseudo = FALSE
    BY <1>1, <1>4
  <2>2. QED
    BY <1>1, <1>4, <2>1 DEF InjectionReadings, Rows
<1>6. QED
  BY <1>4, <1>5 DEF ReleasedRows, InjectionKinds

\* Components that are not of load alone are some of generation.
LEMMA SomeGeneration ==
    ASSUME NEW plan, NEW n, Components(plan, n, "Pinj") # {}, n \notin LoadOnly(plan, "Pinj")
    PROVE  \E k \in Components(plan, n, "Pinj") : Sign[k[2]] = 1
<1> DEFINE signs == {Sign[k[2]] : k \in Components(plan, n, "Pinj")}
           node(k) == k[1]
<1>1. n \in {node(k) : k \in DOMAIN plan}
  BY DEF Components
<1>2. signs # {-1}
  BY <1>1 DEF LoadOnly, OneSided
<1>3. signs # {} /\ signs \subseteq {1, -1}
  BY DEF Components, IsComponent, Part, Sign
<1>4. 1 \in signs
  <2> HIDE DEF signs
  <2>1. QED
    BY <1>2, <1>3
<1>5. QED
  BY <1>4

-----------------------------------------------------------------------------
(* The widening *)

\* A reading of generation at a node that has load.
PartialAt(net, n, plan) == n \in GenerationOnly(plan, "Pinj") /\ net[n].existLoad

\* A reading of an active node is widened if it is of generation alone.
LEMMA PartialReading ==
    ASSUME NEW t, NEW net, NEW plan, NEW n \in DOMAIN net, net[n].status, NEW i \in ReadingsAt(t, n)
    PROVE  i \in Partial(t, net, plan) <=> PartialAt(net, n, plan)
<1>1. i \in InjectionReadings(t, "Pinj") /\ t[i].obj = n /\ t[i].kind = "Pinj"
  BY DEF InjectionReadings, ReadingsAt, Rows
<1>2. \A part : i \in InjectionReadings(t, part) => part = "Pinj"
  BY <1>1 DEF InjectionReadings, Rows
<1>3. "Pinj" \in InjectionKinds
  BY DEF InjectionKinds
<1>4. QED
  BY <1>1, <1>2, <1>3 DEF Partial, PartialAt

\* s is r after the widening, partial with this range.
Widened(r, s, partial, box, keep) ==
    /\ s.obj = r.obj /\ s.kind = r.kind /\ s.pseudo = r.pseudo
    /\ \/ s = r /\ (~partial \/ ~(Declared(box) \/ Unset(box)))
       \/ partial /\ Unset(box) /\ s.status = FALSE
       \/ /\ partial /\ Declared(box) /\ ~Unset(box)
          /\ s.status = r.status
          /\ s.value = r.value - (box[1] + box[2]) \div 2
          /\ s.var = IF r.id \in keep THEN r.var ELSE r.var + VarUniform(box)

\* A row of an injection after the widening.
LEMMA WidenedRow ==
    ASSUME NEW t, AreRecords(t), NEW net, NEW plan, NEW keep, NEW i \in DOMAIN t
    PROVE  Widened(t[i], Widen(t, net, plan, keep)[i], i \in Partial(t, net, plan),
                   LoadRange(net[t[i].obj], t[i].kind), keep)
<1> DEFINE r == t[i]
           u == Widen(t, net, plan, keep)
           box == LoadRange(net[r.obj], r.kind)
           value == r.value - (box[1] + box[2]) \div 2
           var == IF r.id \in keep THEN r.var ELSE r.var + VarUniform(box)
           part == i \in Partial(t, net, plan)
<1>1. DOMAIN r = RowFields
  BY DEF AreRecords
<1>2. u[i] = IF ~part \/ ~(Declared(box) \/ Unset(box)) THEN r
             ELSE IF Unset(box) THEN [r EXCEPT !.status = FALSE, !.flag = "gen_only"]
             ELSE [r EXCEPT !.value = value, !.var = var]
  <2>1. u[i] = IF i \notin Partial(t, net, plan) \/ ~(Declared(box) \/ Unset(box)) THEN r
               ELSE IF Unset(box) THEN [r EXCEPT !.status = FALSE, !.flag = "gen_only"]
               ELSE [r EXCEPT !.value = @ - (box[1] + box[2]) \div 2,
                              !.var = IF r.id \in keep THEN @ ELSE @ + VarUniform(box)]
    BY DEF Widen
  <2>2. [r EXCEPT !.value = @ - (box[1] + box[2]) \div 2,
                  !.var = IF r.id \in keep THEN @ ELSE @ + VarUniform(box)]
          = [r EXCEPT !.value = value, !.var = var]
    <3> HIDE DEF r, box
    <3>1. QED
      BY <1>1 DEF RowFields
  <2> HIDE DEF r, box, value, var, u
  <2>3. QED
    BY <2>1, <2>2
<1> HIDE DEF r, u, box, value, var, part
<1>3. CASE ~part \/ ~(Declared(box) \/ Unset(box))
  <2>1. u[i] = r
    BY <1>2, <1>3
  <2>2. Widened(r, u[i], part, box, keep)
    BY <1>3, <2>1 DEF Widened
  <2>3. QED
    BY <2>2 DEF r, u, box, part
<1>4. CASE part /\ Unset(box)
  <2>1. u[i] = [r EXCEPT !.status = FALSE, !.flag = "gen_only"]
    BY <1>2, <1>4
  <2>2. Widened(r, u[i], part, box, keep)
    BY <1>1, <1>4, <2>1 DEF Widened, RowFields
  <2>3. QED
    BY <2>2 DEF r, u, box, part
<1>5. CASE part /\ ~Unset(box) /\ Declared(box)
  <2>1. u[i] = [r EXCEPT !.value = value, !.var = var]
    BY <1>2, <1>5
  <2>2. /\ u[i].obj = r.obj /\ u[i].kind = r.kind /\ u[i].pseudo = r.pseudo
        /\ u[i].status = r.status /\ u[i].value = value /\ u[i].var = var
    BY <1>1, <2>1 DEF RowFields
  <2>3. Widened(r, u[i], part, box, keep)
    BY <1>5, <2>2 DEF Widened, value, var
  <2>4. QED
    BY <2>3 DEF r, u, box, part
<1>6. QED
  BY <1>3, <1>4, <1>5

\* The rows of a node after the widening.
LEMMA WidenAtNode ==
    ASSUME NEW t, AreRecords(t), AllNat(t), NEW net, AreNodes(net), NEW plan, NEW keep,
           NEW n \in DOMAIN net, net[n].status
    PROVE  LET u == Widen(t, net, plan, keep)
               box == net[n].lp
           IN  /\ PartialAt(net, n, plan) /\ Unset(box) =>
                     ReadingsAt(u, n) = {}
               /\ PartialAt(net, n, plan) /\ Declared(box) =>
                     /\ ReadingsAt(u, n) = ReadingsAt(t, n)
                     /\ \A i \in ReadingsAt(t, n) :
                           /\ u[i].value = t[i].value - (box[1] + box[2]) \div 2
                           /\ u[i].var \in Nat /\ u[i].var >= t[i].var
               /\ ~PartialAt(net, n, plan) \/ ~(Declared(box) \/ Unset(box)) => SameReadings(t, u, n)
<1> DEFINE u == Widen(t, net, plan, keep)
           box == net[n].lp
           At(i) == t[i].obj = n /\ t[i].kind = "Pinj" /\ t[i].pseudo = FALSE
<1>1. DOMAIN u = DOMAIN t
  BY DEF Widen
<1>2. ASSUME NEW i \in DOMAIN t
      PROVE  /\ u[i].obj = t[i].obj /\ u[i].kind = t[i].kind /\ u[i].pseudo = t[i].pseudo
             /\ At(i) => Widened(t[i], u[i], i \in Partial(t, net, plan), box, keep)
  <2>1. At(i) => LoadRange(net[t[i].obj], t[i].kind) = box
    BY DEF LoadRange
  <2>2. Widened(t[i], u[i], i \in Partial(t, net, plan), LoadRange(net[t[i].obj], t[i].kind), keep)
    BY WidenedRow
  <2>3. /\ u[i].obj = t[i].obj /\ u[i].kind = t[i].kind /\ u[i].pseudo = t[i].pseudo
    BY <2>2 DEF Widened
  <2> HIDE DEF u, box, At
  <2>4. QED
    BY <2>1, <2>2, <2>3
<1>4. \A i \in ReadingsAt(t, n) : /\ i \in DOMAIN t /\ At(i) /\ t[i].status
                                  /\ i \in Partial(t, net, plan) <=> PartialAt(net, n, plan)
  BY PartialReading DEF ReadingsAt, Rows
<1>5. \A i \in DOMAIN t : At(i) /\ t[i].status => i \in ReadingsAt(t, n)
  BY DEF ReadingsAt, Rows
<1>6. \A i : i \in ReadingsAt(u, n) <=> i \in DOMAIN t /\ At(i) /\ u[i].status
  BY <1>1, <1>2 DEF ReadingsAt, Rows
<1>7. \A i \in DOMAIN t : i \in Partial(t, net, plan) => t[i].status
  BY DEF Partial, InjectionReadings, Rows
<1>8. ~(Unset(box) /\ Declared(box))
  BY DEF Unset, Declared
<1>9. box \in Int \X Int /\ VarUniform(box) \in Nat
  <2>1. box \in Int \X Int
    BY DEF AreNodes
  <2> HIDE DEF box
  <2>2. QED
    BY <2>1, VarUniformNat
<1> HIDE DEF u, box
<1>10. ASSUME PartialAt(net, n, plan), Unset(box)
       PROVE  ReadingsAt(u, n) = {}
  <2>1. \A i \in ReadingsAt(t, n) : u[i].status = FALSE
    BY <1>2, <1>4, <1>8, <1>10 DEF Widened
  <2>2. ASSUME NEW i \in ReadingsAt(u, n) PROVE FALSE
    <3>1. i \in DOMAIN t /\ At(i) /\ u[i].status
      BY <1>6
    <3>2. t[i].status
      BY <1>2, <1>7, <3>1 DEF Widened
    <3>3. QED
      BY <1>5, <2>1, <3>1, <3>2
  <2>3. QED
    BY <2>2
<1>11. ASSUME PartialAt(net, n, plan), Declared(box)
       PROVE  /\ ReadingsAt(u, n) = ReadingsAt(t, n)
              /\ \A i \in ReadingsAt(t, n) :
                    /\ u[i].value = t[i].value - (box[1] + box[2]) \div 2
                    /\ u[i].var \in Nat /\ u[i].var >= t[i].var
  <2>1. ASSUME NEW i \in ReadingsAt(t, n)
        PROVE  /\ u[i].status = t[i].status
               /\ u[i].value = t[i].value - (box[1] + box[2]) \div 2
               /\ u[i].var = IF t[i].id \in keep THEN t[i].var ELSE t[i].var + VarUniform(box)
    BY <1>2, <1>4, <1>8, <1>11 DEF Widened
  <2>2. ASSUME NEW i \in ReadingsAt(t, n) PROVE u[i].var \in Nat /\ u[i].var >= t[i].var
    <3>1. t[i].var \in Nat
      BY <1>4 DEF AllNat
    <3>2. QED
      BY <1>9, <2>1, <3>1
  <2>3. \A i \in ReadingsAt(t, n) : i \in ReadingsAt(u, n)
    BY <1>4, <1>6, <2>1
  <2>4. \A i \in ReadingsAt(u, n) : i \in ReadingsAt(t, n)
    BY <1>2, <1>5, <1>6, <1>7 DEF Widened
  <2>5. QED
    BY <2>1, <2>2, <2>3, <2>4
<1>12. ASSUME ~PartialAt(net, n, plan) \/ ~(Declared(box) \/ Unset(box)) PROVE SameReadings(t, u, n)
  <2>1. \A i \in ReadingsAt(t, n) : u[i] = t[i]
    BY <1>2, <1>4, <1>12 DEF Widened
  <2>2. \A i \in ReadingsAt(t, n) : i \in ReadingsAt(u, n)
    BY <1>4, <1>6, <2>1
  <2>3. \A i \in ReadingsAt(u, n) : i \in ReadingsAt(t, n)
    BY <1>2, <1>5, <1>6, <1>7 DEF Widened
  <2>4. QED
    BY <2>1, <2>2, <2>3 DEF SameReadings
<1>13. QED
  BY <1>10, <1>11, <1>12 DEF u, box

\* A minimum compared after the widening was compared before, by one reading.
LEMMA ComparedBefore ==
    ASSUME NEW t, NEW u, NEW net, NEW n \in Compared(u, net), ReadingsAt(u, n) = ReadingsAt(t, n)
    PROVE  n \in Compared(t, net) /\ FirstReading(u, n) = FirstReading(t, n)
BY FirstOfSame DEF Compared

\* The same readings agree with the same loads.
LEMMA AgreesOnSame ==
    ASSUME NEW t, IsTable(t), NEW u, NEW net, NEW v, NEW n, net[n].gp = v[n].gp,
           ReadingsAt(t, n) # {}, SameReadings(t, u, n), NEW load, AgreesWith(t, net, n, load)
    PROVE  AgreesWith(u, v, n, load)
<1>1. FirstReading(t, n) \in ReadingsAt(t, n) /\ FirstReading(u, n) = FirstReading(t, n)
  BY FirstIsLeast, FirstOfSame DEF SameReadings
<1>2. QED
  BY <1>1 DEF AgreesWith, SameReadings

(* Without a load to add, what the box of a reading allows is what it leaves  *)
(* to its node.                                                               *)
LEMMA MostIsBox ==
    ASSUME NEW net, AreNodes(net), NEW n \in DOMAIN net, NEW plan, NEW cfg,
           cfg.roles \/ ~PartialAt(net, n, plan) \/ ~Declared(net[n].lp),
           Most(net, n, plan, cfg) # None
    PROVE  LoadBox(net, n, plan) # None /\ LoadBox(net, n, plan)[2] = Most(net, n, plan, cfg)
<1>1. <<0, 0>> # None /\ net[n].lp # None /\ <<0, 0>>[2] = 0
  BY FactorsAssumption DEF AreNodes
<1>2. QED
  BY <1>1 DEF Most, LoadBox, PartialAt

(* A reading that is widened by half its load box is not ruled out by the     *)
(* most load sooner than it was by none.                                      *)
LEMMA WideningKeepsAgreement ==
    ASSUME NEW low \in Int, NEW value \in Int, NEW var \in Nat, NEW box \in Int \X Int, box[1] < box[2],
           NEW more \in Nat, more >= var, ~Beyond(low - value - 0, RelaxSigma, var)
    PROVE  ~Beyond(low - (value - (box[1] + box[2]) \div 2) - box[2], RelaxSigma, more)
<1> DEFINE lo == box[1]
           hi == box[2]
           mid == (lo + hi) \div 2
<1>1. lo \in Int /\ hi \in Int /\ lo < hi
  OBVIOUS
<1>2. mid \in Int /\ mid <= hi
  <2> HIDE DEF lo, hi
  <2>1. QED
    BY <1>1
<1> HIDE DEF mid, hi
<1>3. low - (value - mid) - hi \in Int /\ low - value - 0 \in Int
      /\ low - (value - mid) - hi <= low - value - 0
  BY <1>1, <1>2
<1>4. ~Beyond(low - (value - mid) - hi, RelaxSigma, more)
  BY <1>3, BeyondIsMonotone, FactorsAssumption
<1>5. QED
  BY <1>4 DEF mid, hi

(* After the widening the minimums agree with the readings and the most load  *)
(* they leave.                                                                *)
LEMMA WidenAgrees ==
    ASSUME NEW t, AreRecords(t), AllNat(t), IntValues(t),
           NEW net, AreNodes(net), HaveRanges(net), NEW plan, NEW cfg, NEW keep, NEW u,
           u = IF cfg.roles THEN t ELSE Widen(t, net, plan, keep)
    PROVE  AgreeByBox(t, net, plan) => AgreeByMost(u, net, plan, cfg)
<1> SUFFICES ASSUME AgreeByBox(t, net, plan), NEW n \in Compared(u, net),
                    Most(net, n, plan, cfg) # None
             PROVE  AgreesWith(u, net, n, Most(net, n, plan, cfg))
  BY DEF AgreeByMost
<1> DEFINE box == net[n].lp
<1>1. n \in DOMAIN net /\ net[n].status /\ net[n].gp \in Int \X Int /\ ReadingsAt(u, n) # {}
      /\ box \in Int \X Int
  BY DEF Compared, Generating, HaveRanges, AreNodes
<1>2. CASE cfg.roles \/ ~PartialAt(net, n, plan) \/ ~(Declared(box) \/ Unset(box))
  <2>1. SameReadings(t, u, n)
    <3>1. CASE cfg.roles
      BY <3>1 DEF SameReadings
    <3>2. CASE ~cfg.roles
      BY <1>1, <1>2, <3>2, WidenAtNode
    <3>3. QED
      BY <3>1, <3>2
  <2>2. n \in Compared(t, net) /\ ReadingsAt(t, n) # {} /\ IsTable(t)
    BY <1>1, <2>1, ComparedBefore DEF SameReadings, AreRecords
  <2>3. LoadBox(net, n, plan) # None /\ LoadBox(net, n, plan)[2] = Most(net, n, plan, cfg)
    BY <1>1, <1>2, MostIsBox
  <2>4. AgreesWith(t, net, n, Most(net, n, plan, cfg))
    BY <2>2, <2>3 DEF AgreeByBox
  <2>5. QED
    BY <2>1, <2>2, <2>4, AgreesOnSame
<1>3. CASE ~cfg.roles /\ PartialAt(net, n, plan) /\ Unset(box)
  BY <1>1, <1>3, WidenAtNode
<1>4. CASE ~cfg.roles /\ PartialAt(net, n, plan) /\ Declared(box)
  <2>1. /\ ReadingsAt(u, n) = ReadingsAt(t, n)
        /\ \A i \in ReadingsAt(t, n) :
              /\ u[i].value = t[i].value - (box[1] + box[2]) \div 2
              /\ u[i].var \in Nat /\ u[i].var >= t[i].var
    BY <1>1, <1>4, WidenAtNode
  <2>2. n \in Compared(t, net) /\ FirstReading(u, n) = FirstReading(t, n)
    BY <2>1, ComparedBefore
  <2> DEFINE i == FirstReading(t, n)
  <2>3. i \in ReadingsAt(t, n)
    BY <1>1, <2>1, FirstIsLeast DEF AreRecords
  <2>4. t[i].value \in Int /\ t[i].var \in Nat
    BY <2>3 DEF ReadingsAt, Rows, IntValues, AllNat
  <2>5. LoadBox(net, n, plan) = <<0, 0>> /\ <<0, 0>> # None
    BY <1>4, FactorsAssumption DEF PartialAt, LoadBox
  <2>6. Most(net, n, plan, cfg) = box[2]
    BY <1>4 DEF PartialAt, Most
  <2>7. ~Beyond(net[n].gp[1] - t[i].value - 0, RelaxSigma, t[i].var)
    BY <2>2, <2>5 DEF AgreeByBox, AgreesWith
  <2>8. box[1] < box[2] /\ net[n].gp[1] \in Int
    BY <1>1, <1>4, DeclaredIsResolved
  <2> HIDE DEF i, box
  <2>9. ~Beyond(net[n].gp[1] - (t[i].value - (box[1] + box[2]) \div 2) - box[2], RelaxSigma, u[i].var)
    BY <1>1, <2>1, <2>3, <2>4, <2>7, <2>8, WideningKeepsAgreement
  <2>10. u[i].value = t[i].value - (box[1] + box[2]) \div 2
    BY <2>1, <2>3
  <2>11. ~Beyond(net[n].gp[1] - u[i].value - box[2], RelaxSigma, u[i].var)
    BY <2>9, <2>10
  <2>12. FirstReading(u, n) = i
    BY <2>2 DEF i
  <2>13. QED
    BY <2>6, <2>11, <2>12 DEF AgreesWith
<1>5. QED
  BY <1>2, <1>3, <1>4

-----------------------------------------------------------------------------
(* The steps after the widening *)

\* The nodes that may generate, by what a step keeps of them.
LEMMA SameGenerating ==
    ASSUME NEW net, NEW v, SameRanges(net, v), SameStatuses(net, v)
    PROVE  Generating(v) = Generating(net)
BY DEF Generating, SameRanges, SameStatuses

\* A step that keeps ranges and readings keeps their agreement.
LEMMA AgreementCarries ==
    ASSUME NEW t, IsTable(t), NEW u, NEW net, NEW v, SameRanges(net, v), SameStatuses(net, v),
           \A n \in ActiveNodes(net) : SameReadings(t, u, n), NEW plan, NEW cfg
    PROVE  AgreeByMost(t, net, plan, cfg) => AgreeByMost(u, v, plan, cfg)
<1>1. Generating(v) = Generating(net)
  BY SameGenerating
<1>2. ASSUME NEW n \in Generating(net)
      PROVE  /\ SameReadings(t, u, n) /\ v[n].gp = net[n].gp
             /\ Most(v, n, plan, cfg) = Most(net, n, plan, cfg)
  <2>1. n \in ActiveNodes(net) /\ n \in DOMAIN net
    BY DEF Generating, ActiveNodes
  <2>2. QED
    BY <2>1 DEF SameRanges, Most
<1>3. ASSUME AgreeByMost(t, net, plan, cfg), NEW n \in Compared(u, v), Most(v, n, plan, cfg) # None
      PROVE  AgreesWith(u, v, n, Most(v, n, plan, cfg))
  <2>1. n \in Generating(net)
    BY <1>1 DEF Compared
  <2>2. ReadingsAt(t, n) # {} /\ n \in Compared(t, net)
    BY <1>2, <2>1 DEF Compared, SameReadings
  <2>3. AgreesWith(t, net, n, Most(net, n, plan, cfg))
    BY <1>2, <1>3, <2>1, <2>2 DEF AgreeByMost
  <2>4. QED
    BY <1>2, <2>1, <2>2, <2>3, AgreesOnSame
<1>4. QED
  BY <1>3 DEF AgreeByMost

-----------------------------------------------------------------------------
(* The steps keep the agreement of minimums and readings *)

\* What a step that neither relaxes nor widens keeps of the minimums.
LEMMA MinimumsStay ==
    ASSUME MinimumsAsGiven, SameRanges(nodes, nodes'), case' = case,
           pc' \in BeforeRelax => pc \in BeforeRelax
    PROVE  MinimumsAsGiven'
BY DEF MinimumsAsGiven, SameRanges

\* A step that writes no minimum drops none.
LEMMA DropsStay ==
    ASSUME MinimumDropsOnGeneration, SameRanges(nodes, nodes'), case' = case
    PROVE  MinimumDropsOnGeneration'
BY DEF MinimumDropsOnGeneration, MinimumDropped, GenerationWasRead, SameRanges

\* A step before the relaxation.
LEMMA EarlyStep ==
    ASSUME MInv, GInv, pc \in {"telemetry", "cascade", "range", "release"}, pc' = After[pc],
           SameRanges(nodes, nodes'), case' = case, IntValues(m'), OfComponents(m', case.plan),
           pc = "release" => PartialAreReleased'
    PROVE  GInv'
<1>1. pc \in BeforeRelax /\ pc' \in {"cascade", "range", "release", "relax"}
  BY Order DEF BeforeRelax
<1>2. HaveRanges(nodes')
  BY SameRangesAreRanges DEF GInv
<1>3. MinimumsAsGiven'
  BY <1>1, MinimumsStay DEF GInv
<1>4. ReadingsCount'
  BY DEF ReadingsCount
<1>5. pc' \notin AfterWiden \cup {"widen"}
  BY <1>1 DEF AfterWiden
<1>6. MinimumsAgree' /\ ReadingsAreFed'
  BY <1>5 DEF MinimumsAgree, ReadingsAreFed
<1>7. PartialAreReleased'
  <2>1. pc # "release" => pc' # "relax"
    BY Order
  <2>2. QED
    BY <2>1 DEF PartialAreReleased
<1>8. MinimumDropsOnGeneration'
  BY DropsStay DEF GInv
<1>9. QED
  BY <1>2, <1>3, <1>4, <1>6, <1>7, <1>8 DEF GInv

\* A step that leaves nothing behind but a failure.
LEMMA FailureKeepsMinimums ==
    ASSUME GInv, pc' = "failed", nodes' = nodes, case' = case
    PROVE  GInv'
<1>1. SameRanges(nodes, nodes')
  BY DEF SameRanges
<1>2. MinimumDropsOnGeneration'
  BY <1>1, DropsStay DEF GInv
<1>3. QED
  BY <1>2 DEF GInv, HaveRanges, MinimumsAsGiven, ReadingsCount, MinimumsAgree, ReadingsAreFed,
              PartialAreReleased, BeforeRelax, AfterWiden

\* A step after the widening that keeps ranges and readings.
LEMMA LateStep ==
    ASSUME MInv, GInv, pc \in AfterWiden, pc' = After[pc], pc # "done",
           SameRanges(nodes, nodes'), SameStatuses(nodes, nodes'), case' = case,
           \A n \in ActiveNodes(nodes) : SameReadings(m, m', n)
    PROVE  GInv'
<1>1. pc' \in AfterWiden
  BY Order DEF AfterWiden
<1>2. pc' \notin BeforeRelax /\ pc' \notin {"cascade", "range", "release", "relax", "widen"}
  BY <1>1 DEF AfterWiden, BeforeRelax
<1>3. HaveRanges(nodes')
  BY SameRangesAreRanges DEF GInv
<1>4. IsTable(m)
  BY DEF MInv, TablesAreTables, AreRecords
<1>5. AgreeByMost(m, nodes, case.plan, case.cfg) => AgreeByMost(m', nodes', case.plan, case.cfg)
  BY <1>4, AgreementCarries
<1>6. MinimumsAgree'
  <2>1. pc' # "widen"
    BY <1>2
  <2>2. case.cfg.off = {} => AgreeByMost(m, nodes, case.plan, case.cfg)
    BY DEF GInv, MinimumsAgree
  <2>3. QED
    BY <1>5, <2>1, <2>2 DEF MinimumsAgree
<1>7. MinimumDropsOnGeneration'
  BY DropsStay DEF GInv
<1>8. MinimumsAsGiven' /\ ReadingsCount' /\ ReadingsAreFed' /\ PartialAreReleased'
  BY <1>2 DEF MinimumsAsGiven, ReadingsCount, ReadingsAreFed, PartialAreReleased
<1>9. QED
  BY <1>3, <1>6, <1>7, <1>8 DEF GInv

\* The ranges and the readings that nothing writes.
LEMMA Unwritten ==
    /\ \A net : SameRanges(net, net) /\ SameStatuses(net, net)
    /\ \A t, n : SameReadings(t, t, n)
BY DEF SameRanges, SameStatuses, SameReadings

\* A step that adds rows without a reading.
LEMMA AddingKeepsMinimums ==
    ASSUME MInv, GInv, pc \in AfterWiden, pc # "done", UNCHANGED <<case, nodes>>,
           NEW rows, AllAtLiveNodes(rows, nodes), NEW first \in Int, Added(rows, first)
    PROVE  GInv'
<1>1. CASE pc' = "failed"
  BY <1>1, FailureKeepsMinimums
<1>2. CASE pc' = After[pc] /\ m' = AddMany(m, rows, first)
  <2>1. AreRecords(m)
    BY DEF MInv, TablesAreTables
  <2>2. \A n : SameReadings(m, m', n)
    BY <1>2, <2>1, AddedRowsAreNoReadings
  <2>3. SameRanges(nodes, nodes') /\ SameStatuses(nodes, nodes')
    BY Unwritten
  <2>4. QED
    BY <1>2, <2>2, <2>3, LateStep
<1>3. QED
  BY <1>1, <1>2 DEF Added

\* The relaxation leaves minimums that the readings allow.
LEMMA RelaxStep == ASSUME MInv, GInv, RelaxGenerationMin PROVE GInv'
<1>1. /\ pc = "relax" /\ pc' = "widen" /\ case' = case /\ m' = m
      /\ nodes' = Relax(m, nodes, case.plan)
  BY Order DEF RelaxGenerationMin, On
<1>2. pc \in Judging
  BY <1>1 DEF Judging
<1>3. AreRecords(m) /\ AllNat(m) /\ AreNodes(nodes)
  BY <1>2, JudgingRows
<1>4. IntValues(m) /\ HaveRanges(nodes) /\ \A n \in DOMAIN nodes : nodes[n].gp = case.nodes[n].gp
  BY <1>1 DEF GInv, ReadingsCount, MinimumsAsGiven, BeforeRelax
<1>5. /\ HaveRanges(nodes') /\ AgreeByBox(m, nodes', case.plan)
      /\ DOMAIN nodes' = DOMAIN nodes
      /\ \A n \in DOMAIN nodes :
            nodes'[n].gp # nodes[n].gp =>
                nodes[n].status /\ nodes[n].existGen /\ ReadingsAt(m, n) # {}
  BY <1>1, <1>3, <1>4, RelaxAgrees
<1>6. MinimumDropsOnGeneration'
  <2> SUFFICES ASSUME "release" \notin case.cfg.off, ~case.cfg.roles, NEW n \in DOMAIN nodes,
                      Declared(case.nodes[n].gp), nodes'[n].gp # case.nodes[n].gp
               PROVE  \E k \in Components(case.plan, n, "Pinj") : Sign[k[2]] = 1
    BY <1>1, <1>5 DEF MinimumDropsOnGeneration, MinimumDropped, GenerationWasRead
  <2>1. n \in Generating(nodes) /\ ReadingsAt(m, n) # {}
    BY <1>4, <1>5 DEF Generating
  <2>2. n \notin LoadOnly(case.plan, "Pinj")
    BY <1>1, <2>1 DEF GInv, PartialAreReleased, NonePartial
  <2>3. Components(case.plan, n, "Pinj") # {}
    BY <1>1, <2>1 DEF GInv, ReadingsAreFed, OfComponents, ReadingsAt, Rows, InjectionKinds
  <2>4. QED
    BY <2>2, <2>3, SomeGeneration
<1>7. pc' \notin BeforeRelax /\ pc' \notin AfterWiden
  BY <1>1 DEF BeforeRelax, AfterWiden
<1>8. ReadingsCount' /\ MinimumsAsGiven' /\ MinimumsAgree' /\ ReadingsAreFed' /\ PartialAreReleased'
  BY <1>1, <1>4, <1>5, <1>7
     DEF ReadingsCount, MinimumsAsGiven, MinimumsAgree, ReadingsAreFed, PartialAreReleased
<1>9. QED
  BY <1>5, <1>6, <1>8 DEF GInv

\* The widening keeps the agreement.
LEMMA WidenStep == ASSUME MInv, GInv, WidenGenerationOnly PROVE GInv'
<1>1. /\ pc = "widen" /\ pc' = "genV" /\ case' = case /\ nodes' = nodes
      /\ m' = IF case.cfg.roles THEN m ELSE Widen(m, nodes, case.plan, fixed)
  BY Order DEF WidenGenerationOnly, On
<1>2. pc \in Judging
  BY <1>1 DEF Judging
<1>3. AreRecords(m) /\ AllNat(m) /\ AreNodes(nodes)
  BY <1>2, JudgingRows
<1>4. /\ IntValues(m) /\ HaveRanges(nodes)
      /\ case.cfg.off = {} => AgreeByBox(m, nodes, case.plan)
  BY <1>1 DEF GInv, ReadingsCount, MinimumsAgree
<1>5. AgreeByBox(m, nodes, case.plan) => AgreeByMost(m', nodes, case.plan, case.cfg)
  BY <1>1, <1>3, <1>4, WidenAgrees
<1>6. MinimumDropsOnGeneration'
  BY <1>1, Unwritten, DropsStay DEF GInv
<1>7. pc' \notin BeforeRelax
  BY <1>1 DEF BeforeRelax
<1>8. MinimumsAgree'
  BY <1>1, <1>4, <1>5 DEF MinimumsAgree
<1>9. ReadingsCount' /\ MinimumsAsGiven' /\ ReadingsAreFed' /\ PartialAreReleased'
  BY <1>1, <1>7 DEF ReadingsCount, MinimumsAsGiven, ReadingsAreFed, PartialAreReleased
<1>10. QED
  BY <1>1, <1>4, <1>6, <1>8, <1>9 DEF GInv

\* A step whose toggle is off writes no minimum and no reading.
LEMMA SkippingKeepsMinimums == ASSUME MInv, GInv, SkipStep PROVE GInv'
<1>1. /\ pc \in Steps /\ pc \in case.cfg.off /\ pc' = After[pc] /\ UNCHANGED <<case, m, nodes>>
  BY DEF SkipStep
<1>2. pc # "telemetry" /\ case.cfg.off # {}
  BY <1>1, CallIsCall DEF IsCall
<1>3. HaveRanges(nodes)' /\ MinimumsAgree' /\ MinimumDropsOnGeneration'
  <2>1. MinimumDropsOnGeneration'
    BY <1>1, Unwritten, DropsStay DEF GInv
  <2>2. QED
    BY <1>1, <1>2, <2>1 DEF GInv, HaveRanges, MinimumsAgree
<1>4. CASE pc \in {"cascade", "range", "release"}
  <2>1. IntValues(m') /\ OfComponents(m', case.plan) /\ SameRanges(nodes, nodes')
    BY <1>1, <1>4, Unwritten DEF GInv, ReadingsCount, ReadingsAreFed
  <2>2. pc = "release" => PartialAreReleased'
    BY <1>1 DEF PartialAreReleased
  <2>3. QED
    BY <1>1, <1>4, <2>1, <2>2, EarlyStep
<1>5. CASE pc = "relax"
  <2>1. pc' = "widen" /\ pc' \notin BeforeRelax
    BY <1>1, <1>5, Order DEF BeforeRelax
  <2>2. IntValues(m)
    BY <1>5 DEF GInv, ReadingsCount
  <2>3. ReadingsCount' /\ MinimumsAsGiven' /\ ReadingsAreFed' /\ PartialAreReleased'
    BY <1>1, <2>1, <2>2 DEF ReadingsCount, MinimumsAsGiven, ReadingsAreFed, PartialAreReleased
  <2>4. QED
    BY <1>3, <2>3 DEF GInv
<1>6. CASE pc = "widen"
  <2>1. pc' = "genV" /\ pc' \notin BeforeRelax
    BY <1>1, <1>6, Order DEF BeforeRelax
  <2>2. ReadingsCount' /\ MinimumsAsGiven' /\ ReadingsAreFed' /\ PartialAreReleased'
    BY <2>1 DEF ReadingsCount, MinimumsAsGiven, ReadingsAreFed, PartialAreReleased
  <2>3. QED
    BY <1>3, <2>2 DEF GInv
<1>7. CASE pc \in AfterWiden
  <2>1. pc # "done"
    BY <1>1, Order
  <2>2. /\ SameRanges(nodes, nodes') /\ SameStatuses(nodes, nodes')
        /\ \A n : SameReadings(m, m', n)
    BY <1>1, Unwritten
  <2>3. QED
    BY <1>1, <1>7, <2>1, <2>2, LateStep
<1>8. pc \in {"cascade", "range", "release", "relax", "widen"} \cup AfterWiden
  BY <1>1, <1>2, Order DEF AfterWiden
<1>9. QED
  BY <1>4, <1>5, <1>6, <1>7, <1>8

\* The invariant of the minimums holds at the start.
LEMMA MinimumsAtStart == Init => GInv
<1> SUFFICES ASSUME Init PROVE GInv
  OBVIOUS
<1>1. pc = "telemetry" /\ nodes = case.nodes /\ HaveRanges(nodes)
  BY CasesAssumption DEF Init, IsCall
<1>2. pc \notin AfterWiden \cup {"widen"}
  BY <1>1 DEF AfterWiden
<1>3. /\ MinimumsAsGiven /\ ReadingsCount /\ MinimumsAgree
      /\ ReadingsAreFed /\ PartialAreReleased
  BY <1>1, <1>2 DEF MinimumsAsGiven, ReadingsCount, MinimumsAgree, ReadingsAreFed, PartialAreReleased
<1>4. MinimumDropsOnGeneration
  BY <1>1 DEF MinimumDropsOnGeneration, MinimumDropped
<1>5. QED
  BY <1>1, <1>3, <1>4 DEF GInv

\* The rows before a step that adds some.
LEMMA TablesBefore ==
    ASSUME MInv
    PROVE  AreRecords(m) /\ IsTable(m) /\ AreNodes(nodes) /\ IsTable(branches)
BY DEF MInv, TablesAreTables, AreRecords, AreBranches

\* Every step keeps the invariant of the minimums.
LEMMA NextKeepsMinimums == MInv /\ GInv /\ [Next]_vars => GInv'
<1> SUFFICES ASSUME MInv, GInv, [Next]_vars PROVE GInv'
  OBVIOUS
<1>1. AreRecords(m) /\ IsTable(m) /\ AreNodes(nodes) /\ IsTable(branches) /\ HaveRanges(nodes)
  BY TablesBefore DEF GInv
<1>2. SameRanges(nodes, nodes) /\ SameStatuses(nodes, nodes)
  BY Unwritten
<1>3. CASE TelemetryFails
  BY <1>3, FailureKeepsMinimums DEF TelemetryFails
<1>4. CASE TelemetryStep
  <2>1. /\ pc = "telemetry" /\ pc' = After[pc] /\ case' = case /\ nodes' = nodes
        /\ m' = Telemetry(m, case.plan, nodes, branches, case.cfg)
    BY <1>4 DEF TelemetryStep, On
  <2>2. AreRows(m) /\ AreBranches(branches) /\ IsPlan(case.plan)
    BY <2>1, CallIsCall DEF MInv, AtStart, IsCall
  <2>3. IntValues(m') /\ OfComponents(m', case.plan)
    BY <1>1, <2>1, <2>2, TelemetryLeaves
  <2>4. QED
    BY <1>2, <2>1, <2>3, EarlyStep
<1>5. CASE Cascade
  <2>1. pc = "cascade" /\ pc' = After[pc] /\ case' = case /\ m' = m
    BY <1>5 DEF Cascade, On
  <2>2. IntValues(m) /\ OfComponents(m, case.plan) /\ SameRanges(nodes, nodes')
    BY <1>1, <1>5, <2>1, CascadeKeepsRanges DEF GInv, ReadingsCount, ReadingsAreFed
  <2>3. QED
    BY <2>1, <2>2, EarlyStep
<1>6. CASE VoltageRangeFilter
  <2>1. /\ pc = "range" /\ pc' = After[pc] /\ case' = case /\ nodes' = nodes
        /\ m' = RangeFilter(m, nodes, fixed, case.cfg)
    BY <1>6 DEF VoltageRangeFilter, On
  <2>2. IntValues(m) /\ OfComponents(m, case.plan)
    BY <2>1 DEF GInv, ReadingsCount, ReadingsAreFed
  <2>3. IntValues(m') /\ OfComponents(m', case.plan)
    BY <1>1, <2>1, <2>2, FiltersKeepValues
  <2>4. QED
    BY <1>2, <2>1, <2>3, EarlyStep
<1>7. CASE ReleaseLoadOnly
  <2>1. /\ pc = "release" /\ pc' = After[pc] /\ case' = case /\ nodes' = nodes
        /\ m' = IF case.cfg.roles THEN m ELSE Release(m, nodes, case.plan)
    BY <1>7 DEF ReleaseLoadOnly, On
  <2>2. IntValues(m) /\ OfComponents(m, case.plan)
    BY <2>1 DEF GInv, ReadingsCount, ReadingsAreFed
  <2>3. IntValues(m') /\ OfComponents(m', case.plan)
    BY <1>1, <2>1, <2>2, FiltersKeepValues
  <2>4. PartialAreReleased'
    BY <1>1, <2>1, ReleaseLeavesNonePartial DEF PartialAreReleased
  <2>5. QED
    BY <1>2, <2>1, <2>3, <2>4, EarlyStep
<1>8. CASE RelaxGenerationMin
  BY <1>8, RelaxStep
<1>9. CASE WidenGenerationOnly
  BY <1>9, WidenStep
<1>10. CASE CalibrateGenVoltage
  <2>1. /\ pc = "genV" /\ pc' = After[pc] /\ case' = case /\ nodes' = nodes
        /\ m' = GenVoltage(m, nodes, fixed, case.cfg)
    BY <1>10 DEF CalibrateGenVoltage, On
  <2>2. \A n : SameReadings(m, m', n)
    BY <1>1, <2>1, GenVoltageKeepsReadings
  <2>3. pc \in AfterWiden /\ pc # "done"
    BY <2>1 DEF AfterWiden
  <2>4. QED
    BY <1>2, <2>1, <2>2, <2>3, LateStep
<1>11. CASE DeactivateOrphans
  <2>1. /\ pc = "orphans" /\ pc' = After[pc] /\ case' = case /\ nodes' = nodes
        /\ m' = Orphans(m, nodes, branches)
    BY <1>11 DEF DeactivateOrphans, On
  <2>2. \A n \in ActiveNodes(nodes) : SameReadings(m, m', n)
    BY <1>1, <2>1, OrphansKeepReadings
  <2>3. pc \in AfterWiden /\ pc # "done"
    BY <2>1 DEF AfterWiden
  <2>4. QED
    BY <1>2, <2>1, <2>2, <2>3, LateStep
<1>12. CASE MirrorVoltage
  <2>1. /\ pc = "mirror" /\ UNCHANGED <<case, nodes>>
        /\ Added(MirrorRows(m, nodes, branches), SkipTaken(m, MirrorBase))
    BY <1>12 DEF MirrorVoltage
  <2>2. /\ AllAtLiveNodes(MirrorRows(m, nodes, branches), nodes)
        /\ SkipTaken(m, MirrorBase) \in Int
    BY <1>1, MirrorRowsAtLiveNodes, SkipTakenType, FactorsAssumption
  <2>3. pc \in AfterWiden /\ pc # "done"
    BY <2>1 DEF AfterWiden
  <2>4. QED
    BY <2>1, <2>2, <2>3, AddingKeepsMinimums
<1>13. CASE MaterializeRegime
  <2>1. /\ pc = "materialize" /\ pc' = After[pc] /\ case' = case /\ m' = m
        /\ nodes' = Materialize(nodes, case.obs)
    BY <1>13 DEF MaterializeRegime, On
  <2>2. SameRanges(nodes, nodes') /\ SameStatuses(nodes, nodes')
    BY <1>1, <2>1, MaterializeKeepsRanges
  <2>3. pc \in AfterWiden /\ pc # "done"
    BY <2>1 DEF AfterWiden
  <2>4. \A n : SameReadings(m, m', n)
    BY <2>1, Unwritten
  <2>5. QED
    BY <2>1, <2>2, <2>3, <2>4, LateStep
<1>14. CASE AddExternal
  <2>1. /\ pc = "external" /\ UNCHANGED <<case, nodes>>
        /\ Added(ExternalRows(nodes, case.given), SkipTaken(m, ExternalBase))
    BY <1>14 DEF AddExternal
  <2>2. /\ IsTable(case.given)
        /\ \A j \in DOMAIN case.given : case.given[j].kind \in {"V"} \cup InjectionKinds
    BY CallIsCall DEF IsCall
  <2>3. AllAtLiveNodes(ExternalRows(nodes, case.given), nodes)
    BY <2>2, ExternalRowsAtLiveNodes
  <2>4. SkipTaken(m, ExternalBase) \in Int
    BY <1>1, SkipTakenType, FactorsAssumption
  <2>5. pc \in AfterWiden /\ pc # "done"
    BY <2>1 DEF AfterWiden
  <2>6. QED
    BY <2>1, <2>3, <2>4, <2>5, AddingKeepsMinimums
<1>15. CASE AddPseudo
  <2>1. /\ pc = "pseudo" /\ UNCHANGED <<case, nodes>>
        /\ Added(Priors(m, nodes, branches, released, case.cfg), PseudoBase)
    BY <1>15 DEF AddPseudo
  <2>2. AllAtLiveNodes(Priors(m, nodes, branches, released, case.cfg), nodes)
    BY <1>1, PriorsRows
  <2>3. pc \in AfterWiden /\ pc # "done" /\ PseudoBase \in Int
    BY <2>1, FactorsAssumption DEF AfterWiden
  <2>4. QED
    BY <2>1, <2>2, <2>3, AddingKeepsMinimums
<1>16. CASE FlowSigmaFloor
  <2>1. /\ pc = "floor" /\ pc' = After[pc] /\ case' = case /\ nodes' = nodes
        /\ m' = FlowFloor(m, nodes, branches, fixed, case.cfg)
    BY <1>16 DEF FlowSigmaFloor, On
  <2>2. \A n : SameReadings(m, m', n)
    BY <1>1, <2>1, FlowFloorKeepsReadings
  <2>3. pc \in AfterWiden /\ pc # "done"
    BY <2>1 DEF AfterWiden
  <2>4. QED
    BY <1>2, <2>1, <2>2, <2>3, LateStep
<1>17. CASE SkipStep
  BY <1>17, SkippingKeepsMinimums
<1>18. CASE UNCHANGED vars
  <2>1. UNCHANGED <<case, pc, m, nodes>>
    BY <1>18 DEF vars
  <2>2. QED
    BY <2>1 DEF GInv, HaveRanges, MinimumsAsGiven, ReadingsCount, MinimumsAgree, ReadingsAreFed,
                PartialAreReleased, MinimumDropsOnGeneration, MinimumDropped, GenerationWasRead
<1>19. QED
  BY <1>3, <1>4, <1>5, <1>6, <1>7, <1>8, <1>9, <1>10, <1>11, <1>12, <1>13, <1>14, <1>15, <1>16,
     <1>17, <1>18 DEF Next

-----------------------------------------------------------------------------
(* The theorems *)

(* Where every reading that feeds an active row has a final external          *)
(* variance, the row has their sum from the telemetry step (apply_resolved)   *)
(* to the end, whatever filter, widening, calibration or floor runs in        *)
(* between.                                                                   *)
THEOREM FinalVariances == Spec => []FinalVarianceIsKept
<1>1. MInv => FinalVarianceIsKept
  <2> SUFFICES ASSUME MInv, pc \notin {"telemetry", "failed"}, case.cfg.final, NEW i \in DOMAIN m,
                      m[i].status, ~m[i].pseudo, Feeding(m[i]) # {}, Covered(case.plan, Feeding(m[i]))
               PROVE  m[i].var = ExternalSum(case.plan, Feeding(m[i]))
    BY DEF FinalVarianceIsKept
  <2>1. Feeding(m[i]) = Feeds(case.plan, m[i])
    BY DEF Feeding, Feeds
  <2>2. Protected(m[i], case.plan, fixed)
    BY DEF MInv, FinalRowsProtected
  <2>3. QED
    BY <2>1, <2>2 DEF Protected, KeptVariance
<1>2. QED
  BY <1>1, InvariantHolds, PTL

(* With pseudo-measurements on, every active node ends the preparation with   *)
(* an active row of its injection and, if it has a nominal voltage, of its    *)
(* voltage (add_pseudo_measurements), whatever was rejected on the way.       *)
THEOREM LiveNodesAnchored == Spec => []EveryNodeIsAnchored
<1>1. MInv => EveryNodeIsAnchored
  BY DEF MInv, NodesAnchored, Anchors, EveryNodeIsAnchored
<1>2. QED
  BY <1>1, InvariantHolds, PTL

(* Row ids stay distinct whatever ids a call and its batches come with        *)
(* (IdAllocator), and at the end no active row is of a dead object or of bad  *)
(* quality.                                                                   *)
THEOREM RowsAreLive == Spec => []ActiveRowsAreLive
<1>1. MInv => ActiveRowsAreLive
  BY DEF MInv, TablesAreTables, Distinct, LiveRows, AllLive, NoBadReading, NotBad, PastOrphans,
         ActiveRowsAreLive
<1>2. QED
  BY <1>1, InvariantHolds, PTL

\* A step that filters the rows trusts none under suspicion more.
LEMMA FilteringTightensNone ==
    ASSUME NEW t, NEW u, NEW keep, Filtered(t, u, keep), NEW i \in DOMAIN t,
           t[i].quality = Questionable, t[i].var \in Nat
    PROVE  u[i].quality = Questionable /\ u[i].var >= t[i].var
BY DEF Filtered, RowFiltered

(* No step after telemetry lowers the variance of an active row of            *)
(* questionable quality or takes the mark off it.                             *)
THEOREM SuspectsStaySuspect == Spec => SuspectIsNeverTightened
<1>1. MInv /\ [Next]_vars =>
        [\A i \in DOMAIN m :
            pc # "telemetry" /\ m[i].status /\ m[i].quality = Questionable =>
                m'[i].quality = Questionable /\ m'[i].var >= m[i].var]_vars
  <2> SUFFICES ASSUME MInv, [Next]_vars, NEW i \in DOMAIN m, pc # "telemetry",
                      m[i].status, m[i].quality = Questionable
               PROVE  m'[i].quality = Questionable /\ m'[i].var >= m[i].var
    OBVIOUS
  <2>1. m[i].var \in Nat
    <3>1. Questionable # Good
      BY DEF Questionable, Good
    <3>2. QED
      BY <3>1 DEF MInv, VariancesCount
  <2>2. ASSUME m' = m PROVE m'[i].quality = Questionable /\ m'[i].var >= m[i].var
    BY <2>1, <2>2
  <2>3. ASSUME NEW rows, NEW first \in Int, AllAtLiveNodes(rows, nodes), Added(rows, first)
        PROVE  m'[i].quality = Questionable /\ m'[i].var >= m[i].var
    <3>1. CASE m' = m
      BY <2>2, <3>1
    <3>2. CASE m' = AddMany(m, rows, first)
      <4>1. AreRecords(m)
        BY DEF MInv, TablesAreTables
      <4>2. m'[i] = m[i]
        BY <3>2, <4>1, <2>3, ExtendedRows
      <4>3. QED
        BY <2>1, <4>2
    <3>3. QED
      BY <2>3, <3>1, <3>2 DEF Added
  <2>4. AreRecords(m) /\ AreNodes(nodes) /\ IsTable(m) /\ IsTable(branches)
    BY DEF MInv, TablesAreTables, AreRecords, AreBranches
  <2>5. pc \in Judging => AllNat(m)
    BY JudgingRows
  <2>6. CASE TelemetryFails \/ Cascade \/ RelaxGenerationMin \/ MaterializeRegime \/ SkipStep
             \/ UNCHANGED vars
    BY <2>2, <2>6 DEF TelemetryFails, Cascade, RelaxGenerationMin, MaterializeRegime, SkipStep, vars
  <2>7. CASE TelemetryStep
    BY <2>7 DEF TelemetryStep, On
  <2>8. CASE VoltageRangeFilter
    <3>1. pc \in Judging /\ m' = RangeFilter(m, nodes, fixed, case.cfg)
      BY <2>8 DEF VoltageRangeFilter, On, Judging
    <3>2. Filtered(m, m', fixed)
      BY <2>4, <2>5, <3>1, RangeFilterFilters
    <3>3. QED
      BY <2>1, <3>2, FilteringTightensNone
  <2>9. CASE ReleaseLoadOnly
    <3>1. CASE m' = m
      BY <2>2, <3>1
    <3>2. CASE m' = Release(m, nodes, case.plan)
      <4>1. Filtered(m, m', fixed)
        BY <2>4, <3>2, ReleaseFilters
      <4>2. QED
        BY <2>1, <4>1, FilteringTightensNone
    <3>3. QED
      BY <2>9, <3>1, <3>2 DEF ReleaseLoadOnly
  <2>10. CASE WidenGenerationOnly
    <3>1. CASE m' = m
      BY <2>2, <3>1
    <3>2. CASE m' = Widen(m, nodes, case.plan, fixed)
      <4>1. pc \in Judging
        BY <2>10 DEF WidenGenerationOnly, On, Judging
      <4>2. Filtered(m, m', fixed)
        BY <2>4, <2>5, <3>2, <4>1, WidenFilters
      <4>3. QED
        BY <2>1, <4>2, FilteringTightensNone
    <3>3. QED
      BY <2>10, <3>1, <3>2 DEF WidenGenerationOnly
  <2>11. CASE CalibrateGenVoltage
    <3>1. Filtered(m, m', fixed)
      BY <2>4, <2>11, GenVoltageFilters DEF CalibrateGenVoltage
    <3>2. QED
      BY <2>1, <3>1, FilteringTightensNone
  <2>12. CASE DeactivateOrphans
    <3>1. Filtered(m, m', fixed)
      BY <2>4, <2>12, OrphansFilters DEF DeactivateOrphans
    <3>2. QED
      BY <2>1, <3>1, FilteringTightensNone
  <2>13. CASE MirrorVoltage
    <3>1. AllAtLiveNodes(MirrorRows(m, nodes, branches), nodes)
      BY <2>4, MirrorRowsAtLiveNodes
    <3>2. SkipTaken(m, MirrorBase) \in Int
      BY <2>4, SkipTakenType, FactorsAssumption
    <3>3. Added(MirrorRows(m, nodes, branches), SkipTaken(m, MirrorBase))
      BY <2>13 DEF MirrorVoltage
    <3>4. QED
      BY <2>3, <3>1, <3>2, <3>3
  <2>14. CASE AddExternal
    <3>1. AllAtLiveNodes(ExternalRows(nodes, case.given), nodes)
      BY CallIsCall, ExternalRowsAtLiveNodes DEF IsCall
    <3>2. SkipTaken(m, ExternalBase) \in Int
      BY <2>4, SkipTakenType, FactorsAssumption
    <3>3. Added(ExternalRows(nodes, case.given), SkipTaken(m, ExternalBase))
      BY <2>14 DEF AddExternal
    <3>4. QED
      BY <2>3, <3>1, <3>2, <3>3
  <2>15. CASE AddPseudo
    <3>1. AllAtLiveNodes(Priors(m, nodes, branches, released, case.cfg), nodes)
      BY <2>4, PriorsRows
    <3>2. Added(Priors(m, nodes, branches, released, case.cfg), PseudoBase)
      BY <2>15 DEF AddPseudo
    <3>3. QED
      BY <2>3, <3>1, <3>2, FactorsAssumption
  <2>16. CASE FlowSigmaFloor
    <3>1. /\ m' = FlowFloor(m, nodes, branches, fixed, case.cfg)
          /\ case.cfg.floor \in Nat
      BY <2>16, CallIsCall DEF FlowSigmaFloor, IsCall
    <3>2. \A j \in DOMAIN m : ~m[j].pseudo => m[j].var \in Nat
      BY DEF MInv, VariancesCount
    <3>3. Filtered(m, m', fixed)
      BY <2>4, <3>1, <3>2, FlowFloorFilters
    <3>4. QED
      BY <2>1, <3>3, FilteringTightensNone
  <2>17. QED
    BY <2>6, <2>7, <2>8, <2>9, <2>10, <2>11, <2>12, <2>13, <2>14, <2>15, <2>16 DEF Next
<1>2. QED
  BY <1>1, InvariantHolds, PTL DEF Spec, SuspectIsNeverTightened

(* The estimate is not given a minimum generation that the injection reading  *)
(* it is given too rules out (relax_generation_min_to_injection): no step     *)
(* between the relaxation and the end parts the two.                          *)
THEOREM MinimumsAgreeWithReadings == Spec => []MinimumAgreesWithReading
<1>1. MInv /\ GInv => MinimumAgreesWithReading
  <2> SUFFICES ASSUME GInv, pc = "done", case.cfg.off = {}, NEW n \in Generating(nodes),
                      nodes[n].gp[1] > 0, Measured(n) # {}, MostLoad(n) # None
               PROVE  ~Beyond(nodes[n].gp[1] - m[FirstReading(m, n)].value - MostLoad(n),
                              RelaxSigma, m[FirstReading(m, n)].var)
    BY DEF MinimumAgreesWithReading
  <2>1. Measured(n) = ReadingsAt(m, n) /\ MostLoad(n) = Most(nodes, n, case.plan, case.cfg)
    BY DEF Measured, ReadingsAt, MostLoad, Most
  <2>2. AgreeByMost(m, nodes, case.plan, case.cfg)
    BY DEF GInv, MinimumsAgree, AfterWiden
  <2>3. n \in Compared(m, nodes)
    BY <2>1 DEF Compared
  <2>4. QED
    BY <2>1, <2>2, <2>3 DEF AgreeByMost, AgreesWith
<1>2. Init => GInv
  BY MinimumsAtStart
<1>3. MInv /\ GInv /\ [Next]_vars => GInv'
  BY NextKeepsMinimums
<1>4. QED
  BY <1>1, <1>2, <1>3, InvariantHolds, PTL DEF Spec

(* Without injection roles, and unless the release is switched off, the       *)
(* minimum of a declared range is dropped only where some component of        *)
(* generation feeds the injection: release_load_only_injections leaves none   *)
(* of load alone to relax_generation_min_to_injection.                        *)
THEOREM MinimumsDropOnGeneration == Spec => []MinimumDropsOnGeneration
<1>1. GInv => MinimumDropsOnGeneration
  BY DEF GInv
<1>2. Init => GInv
  BY MinimumsAtStart
<1>3. MInv /\ GInv /\ [Next]_vars => GInv'
  BY NextKeepsMinimums
<1>4. QED
  BY <1>1, <1>2, <1>3, InvariantHolds, PTL DEF Spec
=============================================================================

------------------------- MODULE RefineStagesProofs -------------------------
(* Proofs about the stages that edit measurements on the residuals of a solve. *)
(*                                                                             *)
(* The plans are read off three facts: bad data never rejects a whole cover    *)
(* (RejectsAreFew); a median is no higher than some value it is taken over     *)
(* (MedianBound), so a level taken over from neighbours is no higher than one  *)
(* of theirs, front after front (ChainLevels); and halving moves a level       *)
(* towards the nominal (DecayedBetween).  The recursions over fronts, divisors *)
(* and ranks need induction: the naturals are well founded, a nonempty set of  *)
(* them has a least member, and a set closed under successor has them all.     *)
(* The pass itself keeps TypeInv, and MovedInv of what it has moved so far.    *)
EXTENDS RefineStages, WellFoundedInduction, NaturalsInduction, FiniteSetTheorems, TLAPS

-----------------------------------------------------------------------------
(* Induction                                                                   *)

(* The relation of the library is the order of the naturals.                  *)
LEMMA LessIsLess == \A y, z \in Nat : <<y, z>> \in OpToRel(<, Nat) <=> y < z
BY DEF OpToRel

(* A nonempty set of naturals has a least member.                             *)
LEMMA LeastNumber ==
    ASSUME NEW T, T \subseteq Nat, T # {}
    PROVE  \E x \in T : \A y \in T : x <= y
<1> DEFINE R == OpToRel(<, Nat)
<1>1. IsWellFoundedOn(R, Nat)
  BY NatLessThanWellFounded
<1>2. \A y, z \in Nat : <<y, z>> \in R <=> y < z
  BY LessIsLess
<1> HIDE DEF R
<1>3. T \subseteq Nat /\ T # {}
  OBVIOUS
<1>4. \E x \in T : \A y \in T : ~(<<y, x>> \in R)
  BY <1>1, <1>3, WFMin
<1>5. PICK x \in T : \A y \in T : ~(<<y, x>> \in R)
  BY <1>4
<1>6. ASSUME NEW y \in T PROVE x <= y
  <2>1. x \in Nat /\ y \in Nat /\ ~(<<y, x>> \in R)
    BY <1>5
  <2>2. QED
    BY <1>2, <2>1
<1>7. QED
  BY <1>6

(* A set of numbers with 0 and every successor of its members has them all.   *)
LEMMA InductiveSet ==
    ASSUME NEW T, 0 \in T, \A n \in Nat : n \in T => n + 1 \in T
    PROVE  Nat \subseteq T
<1> DEFINE U == {n \in Nat : n \notin T}
<1> SUFFICES ASSUME U # {} PROVE FALSE
  OBVIOUS
<1>1. U \subseteq Nat
  OBVIOUS
<1>2. PICK x \in U : \A y \in U : x <= y
  <2> HIDE DEF U
  <2>1. QED
    BY <1>1, LeastNumber
<1>3. x \in Nat /\ x # 0 /\ x - 1 \in Nat /\ x - 1 \notin U
  BY <1>2
<1>4. QED
  BY <1>2, <1>3

\* f comes from a by N of the steps F.
Iterates(f, T, a, F, N) ==
    f \in [0 .. N -> T] /\ f[0] = a /\ \A k \in 1 .. N : f[k] = F[k][f[k - 1]]

(* Recursion over a bounded range, with the step as a function.               *)
LEMMA BoundedRecursion ==
    ASSUME NEW T, NEW a \in T, NEW F \in [Nat -> [T -> T]], NEW N \in Nat
    PROVE  \E f : Iterates(f, T, a, F, N)
<1> DEFINE Runs(n, f) == f \in [0 .. n -> T] /\ f[0] = a /\ \A k \in 1 .. n : f[k] = F[k][f[k - 1]]
           U == {n \in Nat : \E f : Runs(n, f)}
<1>1. 0 \in U
  <2>1. Runs(0, [k \in 0 .. 0 |-> a])
    OBVIOUS
  <2>2. QED
    BY <2>1
<1>2. ASSUME NEW n \in Nat, n \in U PROVE n + 1 \in U
  <2>1. PICK f : f \in [0 .. n -> T] /\ f[0] = a /\ \A k \in 1 .. n : f[k] = F[k][f[k - 1]]
    BY <1>2
  <2> DEFINE g == [k \in 0 .. (n + 1) |-> IF k = n + 1 THEN F[n + 1][f[n]] ELSE f[k]]
  <2>2. F[n + 1] \in [T -> T] /\ f[n] \in T
    BY <2>1
  <2>3. F[n + 1][f[n]] \in T
    BY <2>2
  <2>4. g \in [0 .. (n + 1) -> T] /\ g[0] = a
    BY <2>1, <2>3
  <2>5. ASSUME NEW k \in 1 .. (n + 1) PROVE g[k] = F[k][g[k - 1]]
    <3>1. g[k - 1] = f[k - 1]
      OBVIOUS
    <3>2. CASE k = n + 1
      BY <3>1, <3>2
    <3>3. CASE k # n + 1
      <4>1. k \in 1 .. n /\ g[k] = f[k]
        BY <3>3
      <4>2. QED
        BY <2>1, <3>1, <4>1
    <3>4. QED
      BY <3>2, <3>3
  <2>6. n + 1 \in Nat
    OBVIOUS
  <2> HIDE DEF g
  <2>7. QED
    BY <2>4, <2>5, <2>6
<1>3. Nat \subseteq U
  <2> HIDE DEF U
  <2>1. QED
    BY <1>1, <1>2, InductiveSet
<1>4. QED
  BY <1>3 DEF Iterates

-----------------------------------------------------------------------------
(* Order statistics                                                           *)

(* A function with finitely many values takes a largest one.                  *)
LEMMA LargestValue ==
    ASSUME NEW S, IsFiniteSet(S), S # {}, NEW f \in [S -> Int]
    PROVE  \E j \in S : \A i \in S : f[i] <= f[j]
<1> DEFINE Higher(j) == {i \in S : f[i] > f[j]}
           U == {Cardinality(Higher(j)) : j \in S}
<1>1. \A j \in S : IsFiniteSet(Higher(j)) /\ Cardinality(Higher(j)) \in Nat
  BY FS_Subset, FS_CardinalityType
<1>2. U \subseteq Nat /\ U # {}
  BY <1>1
<1>3. PICK u \in U : \A x \in U : u <= x
  <2> HIDE DEF U
  <2>1. QED
    BY <1>2, LeastNumber
<1>4. PICK j \in S : u = Cardinality(Higher(j))
  BY <1>3
<1>5. ASSUME NEW i \in S, f[i] > f[j] PROVE FALSE
  <2>1. Higher(i) \subseteq Higher(j) /\ i \in Higher(j) /\ i \notin Higher(i)
    BY <1>5
  <2>2. Cardinality(Higher(i)) < Cardinality(Higher(j))
    <3> HIDE DEF Higher
    <3>1. Higher(i) # Higher(j)
      BY <2>1
    <3>2. QED
      BY <1>1, <2>1, <3>1, FS_Subset, FS_CardinalityType
  <2>3. Cardinality(Higher(i)) \in U
    OBVIOUS
  <2>4. u <= Cardinality(Higher(i))
    BY <1>3, <2>3
  <2>5. u \in Nat /\ Cardinality(Higher(i)) \in Nat /\ Cardinality(Higher(i)) < u
    BY <1>1, <1>4, <2>2
  <2>6. QED
    BY <2>4, <2>5
<1>6. QED
  BY <1>5

\* v is the k-th smallest value of f.
IsKth(f, k, v) ==
    /\ Cardinality({i \in DOMAIN f : f[i] < v}) < k
    /\ Cardinality({i \in DOMAIN f : f[i] <= v}) >= k

(* Among n values there is one with k of them up to it and fewer below.       *)
LEMMA KthExists ==
    ASSUME NEW S, IsFiniteSet(S), NEW f \in [S -> Int], NEW k \in 1 .. Cardinality(S)
    PROVE  \E v \in {f[i] : i \in DOMAIN f} : IsKth(f, k, v)
<1> DEFINE V == {f[i] : i \in S}
           Upto(v) == {i \in S : f[i] <= v}
           U == {Cardinality(Upto(v)) : v \in {w \in V : Cardinality(Upto(w)) >= k}}
<1>1. \A v : IsFiniteSet(Upto(v)) /\ Cardinality(Upto(v)) \in Nat
  BY FS_Subset, FS_CardinalityType
<1>2. S # {} /\ V \subseteq Int /\ k \in Nat
  BY FS_EmptySet
<1>3. PICK j \in S : \A i \in S : f[i] <= f[j]
  BY <1>2, LargestValue
<1>4. Upto(f[j]) = S
  BY <1>3
<1>5. U \subseteq Nat /\ U # {}
  <2>1. f[j] \in {w \in V : Cardinality(Upto(w)) >= k}
    <3>1. f[j] \in V
      OBVIOUS
    <3>2. Cardinality(Upto(f[j])) >= k
      <4>1. Cardinality(S) >= k
        BY FS_CardinalityType
      <4>2. QED
        BY <1>4, <4>1
    <3>3. QED
      BY <3>1, <3>2
  <2>2. U # {}
    BY <2>1
  <2> HIDE DEF Upto, V
  <2>3. QED
    BY <1>1, <2>2
<1>6. PICK u \in U : \A x \in U : u <= x
  <2> HIDE DEF U
  <2>1. QED
    BY <1>5, LeastNumber
<1>7. PICK v \in V : Cardinality(Upto(v)) >= k /\ u = Cardinality(Upto(v))
  BY <1>6
<1> DEFINE B == {i \in S : f[i] < v}
<1>8. IsFiniteSet(B) /\ Cardinality(B) \in Nat
  BY FS_Subset, FS_CardinalityType
<1>9. Cardinality(B) < k
  <2> SUFFICES ASSUME Cardinality(B) >= k PROVE FALSE
    BY <1>2, <1>8
  <2>1. B # {}
    BY <1>2, FS_EmptySet
  <2> DEFINE g == [i \in B |-> f[i]]
  <2>2. g \in [B -> Int]
    OBVIOUS
  <2>3. \E b \in B : \A i \in B : g[i] <= g[b]
    <3> HIDE DEF B, g
    <3>1. QED
      BY <1>8, <2>1, <2>2, LargestValue
  <2>4. PICK b \in B : \A i \in B : f[i] <= f[b]
    BY <2>3
  <2>5. Upto(f[b]) = B
    BY <1>2, <1>7, <2>4
  <2>6. Cardinality(Upto(f[b])) \in U
    BY <2>5
  <2>7. PICK i \in S : f[i] = v
    BY <1>7
  <2>8. B \subseteq Upto(v) /\ i \in Upto(v) /\ i \notin B
    BY <1>2, <1>7, <2>7
  <2>9. Cardinality(B) < Cardinality(Upto(v))
    <3> HIDE DEF B, Upto
    <3>1. B # Upto(v)
      BY <2>8
    <3>2. QED
      BY <1>1, <2>8, <3>1, FS_Subset, FS_CardinalityType
  <2>10. u <= Cardinality(Upto(f[b]))
    BY <1>6, <2>6
  <2>11. u \in Nat /\ Cardinality(B) < u /\ Cardinality(Upto(f[b])) = Cardinality(B)
    BY <1>1, <1>7, <2>5, <2>9
  <2> HIDE DEF B, Upto
  <2>12. QED
    BY <1>8, <2>10, <2>11
<1>10. QED
  BY <1>7, <1>9 DEF IsKth

(* A median is a whole number no higher than some value.                      *)
LEMMA MedianBound ==
    ASSUME NEW S, IsFiniteSet(S), S # {}, NEW f \in [S -> Int]
    PROVE  Median(f) \in Int /\ \E j \in S : Median(f) <= f[j]
<1> DEFINE n == Cardinality(DOMAIN f)
           Kth(k) == CHOOSE v \in {f[i] : i \in DOMAIN f} :
                     /\ Cardinality({i \in DOMAIN f : f[i] < v}) < k
                     /\ Cardinality({i \in DOMAIN f : f[i] <= v}) >= k
           lower == Kth((n + 1) \div 2)
           upper == Kth(n \div 2 + 1)
<1>1. n \in Nat /\ n # 0 /\ n = Cardinality(S)
  BY FS_CardinalityType, FS_EmptySet
<1>2. (n + 1) \div 2 \in 1 .. Cardinality(S) /\ n \div 2 + 1 \in 1 .. Cardinality(S)
  <2> HIDE DEF n
  <2>1. QED
    BY <1>1
<1>3. lower \in {f[i] : i \in DOMAIN f}
  BY <1>2, KthExists DEF IsKth
<1>4. upper \in {f[i] : i \in DOMAIN f}
  BY <1>2, KthExists DEF IsKth
<1>5. Median(f) = (lower + upper) \div 2
  BY DEF Median
<1>6. PICK j \in S : \A i \in S : f[i] <= f[j]
  BY LargestValue
<1> HIDE DEF lower, upper
<1>7. lower \in Int /\ upper \in Int /\ lower <= f[j] /\ upper <= f[j] /\ f[j] \in Int
  BY <1>3, <1>4, <1>6
<1>8. QED
  BY <1>5, <1>7

-----------------------------------------------------------------------------
(* The bad-data plan                                                          *)

(* apply_bad_data_plan keeps every row on its object; only the rejected ones  *)
(* lose their status.                                                         *)
LEMMA ApplyBadDataRows ==
    ASSUME NEW t, IsTable(t), NEW w
    PROVE  LET u == ApplyBadData(t, BadDataPlan(t, w))
           IN  /\ IsTable(u) /\ DOMAIN u = DOMAIN t
               /\ \A i \in DOMAIN t :
                      /\ u[i].kind = t[i].kind /\ u[i].obj = t[i].obj /\ u[i].side = t[i].side
                      /\ u[i].pseudo = t[i].pseudo
                      /\ u[i].status = (t[i].status /\ i \notin Rejects(t, w))
<1> DEFINE p == BadDataPlan(t, w)
           row(i) == [t[i] EXCEPT !.value = IF i \in p.flips THEN -@ ELSE @,
                                  !.status = @ /\ i \notin p.rejects,
                                  !.sigma = IF i \in p.damped THEN DampFactor * @ ELSE @]
           u == ApplyBadData(t, p)
<1>1. u = [i \in DOMAIN t |-> row(i)]
  BY DEF ApplyBadData
<1>2. p.rejects = Rejects(t, w)
  BY DEF BadDataPlan
<1> HIDE DEF p
<1>3. ASSUME NEW i \in DOMAIN t
      PROVE  /\ row(i) \in Measurement
             /\ row(i).kind = t[i].kind /\ row(i).obj = t[i].obj /\ row(i).side = t[i].side
             /\ row(i).pseudo = t[i].pseudo
             /\ row(i).status = (t[i].status /\ i \notin p.rejects)
  <2>1. t[i] \in Measurement
    BY DEF IsTable
  <2>2. (IF i \in p.flips THEN -(t[i].value) ELSE t[i].value) \in Int
    BY <2>1 DEF Measurement
  <2>3. (IF i \in p.damped THEN DampFactor * t[i].sigma ELSE t[i].sigma) \in Int
    BY <2>1, DampingAssumption DEF Measurement
  <2>4. QED
    BY <2>1, <2>2, <2>3 DEF Measurement
<1>4. DOMAIN u = DOMAIN t /\ \A i \in DOMAIN t : u[i] = row(i)
  BY <1>1
<1> HIDE DEF row, u
<1>5. u \in [DOMAIN u -> Measurement]
  <2>1. \A i \in DOMAIN t : row(i) \in Measurement
    BY <1>3
  <2>2. u = [i \in DOMAIN t |-> row(i)]
    BY <1>1
  <2>3. QED
    BY <1>4, <2>1, <2>2
<1>6. IsTable(u)
  BY <1>5 DEF IsTable
<1>7. \A i \in DOMAIN t :
          /\ u[i].kind = t[i].kind /\ u[i].obj = t[i].obj /\ u[i].side = t[i].side
          /\ u[i].pseudo = t[i].pseudo
          /\ u[i].status = (t[i].status /\ i \notin Rejects(t, w))
  BY <1>2, <1>3, <1>4
<1>8. QED
  BY <1>4, <1>6, <1>7 DEF u, p

(* What is rejected is a gross row that is no reactive injection, and of a    *)
(* cover some row stays.                                                      *)
LEMMA RejectsAreFew ==
    ASSUME NEW t, IsTable(t), NEW w
    PROVE  /\ Rejects(t, w) \subseteq Detectable(t)
           /\ \A i \in Rejects(t, w) : t[i].kind # "Qinj"
           /\ \A o \in Observed(t, w) : Cover(t, w, o[1], o[2]) \ Rejects(t, w) # {}
<1>1. Rejects(t, w) \subseteq Gross(t) /\ Gross(t) \subseteq Detectable(t)
  BY DEF Rejects, Gross, Candidates
<1>2. \A i \in Rejects(t, w) : t[i].kind # "Qinj"
  BY DEF Rejects, Damped
<1>3. ASSUME NEW o \in Observed(t, w), Cover(t, w, o[1], o[2]) \subseteq Rejects(t, w)
      PROVE  FALSE
  <2> DEFINE c == Cover(t, w, o[1], o[2])
  <2>1. c # {} /\ c \subseteq Gross(t)
    BY <1>1, <1>3 DEF Observed
  <2>2. c \in {Cover(t, w, q[1], q[2]) : q \in Observed(t, w)}
    OBVIOUS
  <2> HIDE DEF c
  <2>3. c \subseteq Restored(t, w)
    BY <2>1, <2>2 DEF Restored
  <2>4. QED
    BY <1>3, <2>1, <2>3 DEF Rejects, c
<1>4. QED
  BY <1>1, <1>2, <1>3

(* Rows of one kind, object and side say something of the same nodes.         *)
LEMMA NodesOfAlike ==
    ASSUME NEW w, NEW x, NEW y, x.kind = y.kind, x.obj = y.obj, x.side = y.side
    PROVE  NodesOf(w, x) = NodesOf(w, y)
<1>1. CASE x.kind \notin FlowKinds \/ x.obj \notin DOMAIN w
  BY <1>1 DEF NodesOf
<1>2. CASE x.kind \in FlowKinds /\ x.obj \in DOMAIN w
  <2> DEFINE Of(r) == CASE r = 0 -> {w[x.obj].from}
                        [] r = 1 -> {w[x.obj].to}
                        [] OTHER -> {w[x.obj].from, w[x.obj].to}
  <2>1. NodesOf(w, x) = Of(x.side)
    BY <1>2 DEF NodesOf
  <2>2. NodesOf(w, y) = Of(y.side)
    BY <1>2 DEF NodesOf
  <2>3. QED
    BY <2>1, <2>2
<1>3. QED
  BY <1>1, <1>2

(* What the stage observes and measures is what it did before.                *)
LEMMA BadDataCovers ==
    ASSUME NEW t, IsTable(t), NEW w
    PROVE  LET u == ApplyBadData(t, BadDataPlan(t, w))
           IN  /\ Observed(u, w) = Observed(t, w)
               /\ MeasuredNodes(u, w) = MeasuredNodes(t, w)
               /\ \A i \in DOMAIN t : t[i].kind = "Qinj" => u[i].status = t[i].status
<1> DEFINE u == ApplyBadData(t, BadDataPlan(t, w))
<1>1. /\ IsTable(u) /\ DOMAIN u = DOMAIN t
      /\ \A i \in DOMAIN t :
             /\ u[i].kind = t[i].kind /\ u[i].obj = t[i].obj /\ u[i].side = t[i].side
             /\ u[i].pseudo = t[i].pseudo
             /\ u[i].status = (t[i].status /\ i \notin Rejects(t, w))
  BY ApplyBadDataRows
<1> HIDE DEF u
<1>2. \A i \in DOMAIN t : NodesOf(w, u[i]) = NodesOf(w, t[i]) /\ t[i].status \in BOOLEAN
  <2>1. \A i \in DOMAIN t : NodesOf(w, u[i]) = NodesOf(w, t[i])
    BY <1>1, NodesOfAlike
  <2>2. \A i \in DOMAIN t : t[i].status \in BOOLEAN
    BY DEF IsTable, Measurement
  <2>3. QED
    BY <2>1, <2>2
<1>3. Detectable(u) = Detectable(t) \ Rejects(t, w)
  BY <1>1 DEF Detectable, Rows
<1>4. Detectable(u) \subseteq Detectable(t) /\ Detectable(t) \subseteq DOMAIN t
  BY <1>3 DEF Detectable, Rows
<1>5. \A n, d : Cover(u, w, n, d) = Cover(t, w, n, d) \ Rejects(t, w)
  BY <1>1, <1>2, <1>3, <1>4 DEF Cover
<1>6. Observed(u, w) = Observed(t, w)
  <2>1. ASSUME NEW o \in Observed(u, w) PROVE o \in Observed(t, w)
    <3>1. Cover(u, w, o[1], o[2]) # {} /\ o[1] \in UNION {NodesOf(w, u[i]) : i \in Detectable(u)}
          /\ o[2] \in {"P", "Q"} /\ o = <<o[1], o[2]>>
      BY DEF Observed
    <3>2. Cover(t, w, o[1], o[2]) # {}
      BY <1>5, <3>1
    <3>3. o[1] \in UNION {NodesOf(w, t[i]) : i \in Detectable(t)}
      BY <1>2, <1>4, <3>1
    <3>4. QED
      BY <3>1, <3>2, <3>3 DEF Observed
  <2>2. ASSUME NEW o \in Observed(t, w) PROVE o \in Observed(u, w)
    <3>1. o[2] \in {"P", "Q"} /\ o = <<o[1], o[2]>>
      BY DEF Observed
    <3>2. PICK i \in Cover(u, w, o[1], o[2]) : TRUE
      BY <1>5, RejectsAreFew
    <3>3. i \in Detectable(u) /\ o[1] \in NodesOf(w, u[i])
      BY <3>2 DEF Cover
    <3>4. QED
      BY <3>1, <3>2, <3>3 DEF Observed
  <2>3. QED
    BY <2>1, <2>2
<1>7. MeasuredNodes(u, w) = MeasuredNodes(t, w)
  <2> DEFINE kinds == FlowKinds \cup InjectionKinds \cup {"V"}
  <2>1. Rows(u, kinds, FALSE) = Rows(t, kinds, FALSE) \ Rejects(t, w)
    BY <1>1 DEF Rows
  <2>2. ASSUME NEW i \in Rows(t, kinds, FALSE), NEW n \in NodesOf(w, t[i])
        PROVE  \E j \in Rows(u, kinds, FALSE) : n \in NodesOf(w, u[j])
    <3>1. CASE i \notin Rejects(t, w)
      BY <1>2, <2>1, <3>1 DEF Rows
    <3>2. CASE i \in Rejects(t, w)
      <4> DEFINE d == Domain(t[i].kind)
      <4>1. i \in Detectable(t) /\ d \in {"P", "Q"}
        BY <3>2, RejectsAreFew DEF Domain
      <4>2. i \in Cover(t, w, n, d)
        BY <4>1 DEF Cover
      <4>3. <<n, d>> \in Observed(t, w)
        BY <4>1, <4>2 DEF Observed
      <4>4. Cover(u, w, n, d) # {}
        BY <1>6, <4>3 DEF Observed
      <4>5. PICK j \in Cover(u, w, n, d) : TRUE
        BY <4>4
      <4>6. j \in Detectable(u) /\ n \in NodesOf(w, u[j])
        BY <4>5 DEF Cover
      <4>7. j \in Rows(u, kinds, FALSE)
        BY <4>6 DEF Detectable, Rows
      <4>8. QED
        BY <4>6, <4>7
    <3>3. QED
      BY <3>1, <3>2
  <2>3. ASSUME NEW j \in Rows(u, kinds, FALSE), NEW n \in NodesOf(w, u[j])
        PROVE  \E i \in Rows(t, kinds, FALSE) : n \in NodesOf(w, t[i])
    BY <1>2, <2>1 DEF Rows
  <2> DEFINE a == UNION {NodesOf(w, t[i]) : i \in Rows(t, kinds, FALSE)}
             b == UNION {NodesOf(w, u[i]) : i \in Rows(u, kinds, FALSE)}
  <2>4. a = b
    <3>1. a \subseteq b
      BY <2>2
    <3>2. b \subseteq a
      BY <2>3
    <3>3. QED
      BY <3>1, <3>2
  <2>5. QED
    BY <2>4 DEF MeasuredNodes
<1>8. \A i \in DOMAIN t : t[i].kind = "Qinj" => u[i].status = t[i].status
  BY <1>1, <1>2, RejectsAreFew
<1>9. QED
  BY <1>6, <1>7, <1>8 DEF u

-----------------------------------------------------------------------------
(* Division and the halving of the chain                                      *)

(* A quotient lies between zero and its dividend.                             *)
LEMMA QuotientBetween ==
    ASSUME NEW x \in Int, NEW d \in Nat \ {0}
    PROVE  /\ x \div d \in Int
           /\ x >= 0 => 0 <= x \div d /\ x \div d <= x
           /\ x < 0 => x <= x \div d /\ x \div d <= 0
<1> DEFINE q == x \div d
           r == x % d
<1>1. q \in Int /\ r \in Int /\ x = d * q + r /\ 0 <= r /\ r < d
  OBVIOUS
<1> HIDE DEF q, r
<1>2. CASE x >= 0
  <2>1. 0 <= q
    <3> SUFFICES ASSUME q <= -1 PROVE FALSE
      BY <1>1
    <3>1. d * q <= -d
      BY <1>1
    <3>2. QED
      BY <1>1, <1>2, <3>1
  <2>2. q <= d * q
    BY <1>1, <2>1
  <2>3. QED
    BY <1>1, <1>2, <2>1, <2>2 DEF q
<1>3. CASE x < 0
  <2>1. q <= 0
    <3> SUFFICES ASSUME q >= 1 PROVE FALSE
      BY <1>1
    <3>1. d * q >= d
      BY <1>1
    <3>2. QED
      BY <1>1, <1>3, <3>1
  <2>2. x <= q
    <3> SUFFICES ASSUME q <= x - 1 PROVE FALSE
      BY <1>1
    <3>1. d * q <= d * (x - 1)
      BY <1>1
    <3>2. d * (x - 1) <= x - d
      BY <1>3
    <3>3. d * (x - 1) \in Int /\ d * q \in Int
      BY <1>1
    <3>4. QED
      BY <1>1, <3>1, <3>2, <3>3
  <2>3. QED
    BY <1>1, <1>3, <2>1, <2>2 DEF q
<1>4. QED
  BY <1>2, <1>3

(* The divisors exist and are positive.                                       *)
LEMMA DivisorPositive ==
    ASSUME NEW d \in 1 .. MaxDepth
    PROVE  Divisor[d] \in Nat \ {0}
<1> DEFINE P == Nat \ {0}
           F == [k \in Nat |-> [x \in P |-> IF k = 1 THEN 1 ELSE 2 * x]]
<1>1. F \in [Nat -> [P -> P]] /\ 1 \in P /\ MaxDepth \in Nat
  BY VoltageAssumption
<1>2. \E f : Iterates(f, P, 1, F, MaxDepth)
  <2> HIDE DEF F, P
  <2>1. QED
    BY <1>1, BoundedRecursion
<1>10. PICK f : /\ f \in [0 .. MaxDepth -> P] /\ f[0] = 1
               /\ \A k \in 1 .. MaxDepth : f[k] = F[k][f[k - 1]]
  BY <1>2 DEF Iterates
<1> DEFINE g == [k \in 1 .. MaxDepth |-> f[k]]
<1>3. g = [k \in 1 .. MaxDepth |-> IF k = 1 THEN 1 ELSE 2 * g[k - 1]]
  <2>1. ASSUME NEW k \in 1 .. MaxDepth PROVE g[k] = IF k = 1 THEN 1 ELSE 2 * g[k - 1]
    <3>1. k \in Nat /\ k - 1 \in 0 .. MaxDepth /\ f[k - 1] \in P
      BY <1>1, <1>10
    <3>2. f[k] = IF k = 1 THEN 1 ELSE 2 * f[k - 1]
      BY <1>10, <3>1
    <3>3. k # 1 => g[k - 1] = f[k - 1]
      BY <1>1
    <3>4. QED
      BY <3>2, <3>3
  <2>2. QED
    BY <2>1
<1>4. Divisor = [k \in 1 .. MaxDepth |-> IF k = 1 THEN 1 ELSE 2 * Divisor[k - 1]]
  <2> HIDE DEF g
  <2>1. QED
    BY <1>3 DEF Divisor
<1> DEFINE T == {k \in Nat : k \in 1 .. MaxDepth => Divisor[k] \in P}
<1>5. 0 \in T
  BY <1>1
<1>6. ASSUME NEW k \in Nat, k \in T PROVE k + 1 \in T
  <2>1. CASE k + 1 \notin 1 .. MaxDepth
    BY <2>1
  <2>2. CASE k + 1 \in 1 .. MaxDepth
    <3>0. (k + 1) - 1 = k /\ (k + 1 = 1 <=> k = 0)
      OBVIOUS
    <3>1. Divisor[k + 1] = IF k = 0 THEN 1 ELSE 2 * Divisor[k]
      <4> DEFINE j == k + 1
      <4>1. j \in 1 .. MaxDepth
        BY <2>2
      <4> HIDE DEF j
      <4>2. Divisor[j] = IF j = 1 THEN 1 ELSE 2 * Divisor[j - 1]
        BY <1>4, <4>1
      <4>3. QED
        BY <3>0, <4>2 DEF j
    <3>2. k # 0 => Divisor[k] \in P
      BY <1>1, <1>6, <2>2
    <3>3. QED
      BY <3>1, <3>2
  <2>3. QED
    BY <2>1, <2>2
<1>7. Nat \subseteq T
  <2> HIDE DEF T
  <2>1. QED
    BY <1>5, <1>6, InductiveSet
<1>8. d \in Nat
  BY <1>1
<1>9. QED
  BY <1>7, <1>8

(* Halving moves a level towards the nominal.                                 *)
LEMMA DecayedBetween ==
    ASSUME NEW level \in Int, NEW d \in 1 .. MaxDepth
    PROVE  /\ Decayed(level, d) \in Int
           /\ Decayed(level, d) <= Larger(Nominal, level)
           /\ Plausible(level) => Plausible(Decayed(level, d))
<1> DEFINE x == level - Nominal
           q == x \div Divisor[d]
<1>1. Nominal \in Int /\ x \in Int /\ MaxPuDev \in Int
  BY VoltageAssumption DEF Nominal
<1>2. /\ q \in Int
      /\ x >= 0 => 0 <= q /\ q <= x
      /\ x < 0 => x <= q /\ q <= 0
  <2> HIDE DEF x
  <2>1. QED
    BY <1>1, DivisorPositive, QuotientBetween
<1>3. Decayed(level, d) = Nominal + q
  BY DEF Decayed
<1> HIDE DEF q
<1>4. QED
  BY <1>1, <1>2, <1>3 DEF Larger, Plausible, Abs

-----------------------------------------------------------------------------
(* Neighbours and levels                                                      *)

\* The active branches of w join nodes of D.
Joins(w, D) == \A b \in ActiveBranches(w) : {w[b].from, w[b].to} \subseteq D

\* What v takes over at n, unless levels cross transformers, is no higher than
\* a solved level of n's class.
OwnClass(cl, lv, across, n, v) ==
    across \/ \E k \in DOMAIN lv : cl[k] = cl[n] /\ v <= lv[k]

(* Neighbours over active branches are nodes.                                 *)
LEMMA NeighboursAreNodes ==
    ASSUME NEW w, NEW D, Joins(w, D), NEW s, s \subseteq ActiveBranches(w), NEW n
    PROVE  Neighbours(w, s, n) \subseteq D
BY DEF Neighbours, Joins

(* Adjacency is symmetric.                                                    *)
LEMMA NeighboursBothWays ==
    ASSUME NEW w, NEW s, NEW n, NEW k, n \in Neighbours(w, s, k)
    PROVE  k \in Neighbours(w, s, n)
BY DEF Neighbours

(* So is the boundary of a cluster.                                           *)
LEMMA BoundaryOfNodes ==
    ASSUME NEW w, NEW D, Joins(w, D), NEW s, s \subseteq ActiveBranches(w), NEW c
    PROVE  Boundary(w, s, c) \subseteq D
BY NeighboursAreNodes DEF Boundary

(* Level sources are nodes, of the class of the node unless levels may cross. *)
LEMMA SourcesOfClass ==
    ASSUME NEW t, NEW w, NEW cl, NEW lv, NEW across \in BOOLEAN, NEW n, Joins(w, DOMAIN cl)
    PROVE  LET s == LevelSources(t, w, cl, lv, across, n)
           IN s \subseteq DOMAIN cl /\ (~across => \A b \in s : cl[b] = cl[n])
<1> DEFINE c == Cluster(t, w, lv, n)
           same == {b \in Boundary(w, ActiveBranches(w), c) : cl[b] = cl[n]}
           beyond == {b \in Boundary(w, Transformers(w), c) : cl[b] >= CrossAtMinVnom}
<1>1. LevelSources(t, w, cl, lv, across, n) =
          IF same = {} /\ across /\ cl[n] >= CrossAtMinVnom THEN beyond ELSE same
  BY DEF LevelSources
<1> HIDE DEF c
<1>2. Transformers(w) \subseteq ActiveBranches(w)
  BY DEF Transformers
<1>3. same \subseteq DOMAIN cl /\ beyond \subseteq DOMAIN cl
  BY <1>2, BoundaryOfNodes
<1>4. \A b \in same : cl[b] = cl[n]
  OBVIOUS
<1> HIDE DEF same, beyond
<1>5. QED
  BY <1>1, <1>3, <1>4

(* A node moved by v_mirror holds a flat prior and is solved; its new level is *)
(* plausible, a lift, and of its own class unless levels may cross.            *)
LEMMA MirrorPlanLifts ==
    ASSUME NEW t, NEW w, NEW cl, NEW lv \in [DOMAIN cl -> Int], NEW across \in BOOLEAN,
           IsFiniteSet(DOMAIN cl), Joins(w, DOMAIN cl)
    PROVE  LET plan == VMirrorPlan(t, w, cl, lv, across)
           IN \A n \in DOMAIN plan :
                  /\ n \in FlatNodes(t) /\ n \in DOMAIN lv
                  /\ plan[n] \in Int /\ Plausible(plan[n]) /\ plan[n] - lv[n] > MinLift
                  /\ OwnClass(cl, lv, across, n, plan[n])
<1> DEFINE Sources(n) == LevelSources(t, w, cl, lv, across, n)
           D == {k \in FlatNodes(t) \cap Blind(t, w, lv) : Sources(k) # {}}
           target == [n \in D |-> LevelOf(lv, Sources(n))]
           E == {k \in DOMAIN target : Plausible(target[k]) /\ target[k] - lv[k] > MinLift}
           plan == VMirrorPlan(t, w, cl, lv, across)
<1>1. plan = [n \in E |-> target[n]]
  BY DEF VMirrorPlan
<1>2. ASSUME NEW n \in D
      PROVE  /\ n \in FlatNodes(t) /\ n \in DOMAIN lv
             /\ target[n] \in Int /\ OwnClass(cl, lv, across, n, target[n])
  <2> DEFINE s == Sources(n)
             f == [b \in s |-> lv[b]]
  <2>1. s # {} /\ n \in FlatNodes(t) /\ n \in DOMAIN lv
    BY DEF Blind
  <2>2. s \subseteq DOMAIN cl /\ (~across => \A b \in s : cl[b] = cl[n])
    BY SourcesOfClass
  <2> HIDE DEF s
  <2>3. IsFiniteSet(s) /\ f \in [s -> Int]
    BY <2>2, FS_Subset
  <2>4. Median(f) \in Int /\ \E j \in s : Median(f) <= f[j]
    <3> HIDE DEF f
    <3>1. QED
      BY <2>1, <2>3, MedianBound
  <2>5. PICK j \in s : Median(f) <= lv[j]
    BY <2>4
  <2>6. target[n] = Median(f)
    BY DEF LevelOf, s
  <2> HIDE DEF f, target
  <2>7. QED
    BY <2>1, <2>2, <2>4, <2>5, <2>6 DEF OwnClass
<1>3. E \subseteq D /\ \A n \in E : Plausible(target[n]) /\ target[n] - lv[n] > MinLift
  OBVIOUS
<1> HIDE DEF D, target, E
<1>4. DOMAIN plan = E /\ \A n \in E : plan[n] = target[n]
  BY <1>1
<1> HIDE DEF plan
<1>5. \A n \in DOMAIN plan :
          /\ n \in FlatNodes(t) /\ n \in DOMAIN lv
          /\ plan[n] \in Int /\ Plausible(plan[n]) /\ plan[n] - lv[n] > MinLift
          /\ OwnClass(cl, lv, across, n, plan[n])
  BY <1>2, <1>3, <1>4
<1>6. QED
  BY <1>5 DEF plan

-----------------------------------------------------------------------------
(* The fronts of v_mirror_chain                                               *)

\* The fronts of Fronts, one step at a time.
FirstFront(t, lv) ==
    [level |-> [n \in LiveSources(t, lv) |-> lv[n]], reached |-> LiveSources(t, lv)]

NewNodes(w, edges, before) ==
    (UNION {Neighbours(w, edges, n) : n \in DOMAIN before.level}) \ before.reached

Inherited(w, edges, before, k) ==
    [u \in DOMAIN before.level \cap Neighbours(w, edges, k) |-> before.level[u]]

NextFront(w, edges, before) ==
    [level |-> [k \in NewNodes(w, edges, before) |-> Median(Inherited(w, edges, before, k))],
     reached |-> before.reached \cup NewNodes(w, edges, before)]

\* Fronts over the nodes of D.
FrontSet(D) == [level : UNION {[X -> Int] : X \in SUBSET D}, reached : SUBSET D]

(* The fields of a front.                                                     *)
LEMMA FrontTyping ==
    ASSUME NEW D, NEW x, x \in FrontSet(D)
    PROVE  /\ DOMAIN x.level \subseteq D /\ x.reached \subseteq D
           /\ \A n \in DOMAIN x.level : x.level[n] \in Int
BY DEF FrontSet

(* The live sources are a front.                                              *)
LEMMA FirstFrontTyped ==
    ASSUME NEW t, NEW D, NEW lv \in [D -> Int]
    PROVE  FirstFront(t, lv) \in FrontSet(D)
<1>1. LiveSources(t, lv) \subseteq D
  BY DEF LiveSources
<1>2. [n \in LiveSources(t, lv) |-> lv[n]] \in [LiveSources(t, lv) -> Int]
  BY <1>1
<1>3. QED
  BY <1>1, <1>2 DEF FirstFront, FrontSet

(* A node of the next front has a neighbour in this one and inherits no more  *)
(* than the level of some such neighbour.                                     *)
LEMMA NextFrontTyped ==
    ASSUME NEW w, NEW D, IsFiniteSet(D), Joins(w, D),
           NEW edges, edges \subseteq ActiveBranches(w), NEW x, x \in FrontSet(D)
    PROVE  /\ NextFront(w, edges, x) \in FrontSet(D)
           /\ \A k \in DOMAIN NextFront(w, edges, x).level :
                  \E u \in DOMAIN x.level :
                      /\ u \in Neighbours(w, edges, k)
                      /\ NextFront(w, edges, x).level[k] <= x.level[u]
<1> DEFINE new == NewNodes(w, edges, x)
           lev == [k \in new |-> Median(Inherited(w, edges, x, k))]
<1>1. DOMAIN x.level \subseteq D /\ x.reached \subseteq D
      /\ \A n \in DOMAIN x.level : x.level[n] \in Int
  BY FrontTyping
<1>2. new \subseteq D
  BY NeighboursAreNodes DEF NewNodes
<1>3. ASSUME NEW k \in new
      PROVE  /\ lev[k] \in Int
             /\ \E u \in DOMAIN x.level : u \in Neighbours(w, edges, k) /\ lev[k] <= x.level[u]
  <2> DEFINE S == DOMAIN x.level \cap Neighbours(w, edges, k)
             f == Inherited(w, edges, x, k)
  <2>1. PICK n \in DOMAIN x.level : k \in Neighbours(w, edges, n)
    BY DEF NewNodes
  <2>2. n \in S
    BY <2>1, NeighboursBothWays
  <2>3. IsFiniteSet(S)
    BY <1>1, FS_Subset
  <2>4. f = [u \in S |-> x.level[u]]
    BY DEF Inherited
  <2>5. f \in [S -> Int] /\ \A u \in S : f[u] = x.level[u]
    BY <1>1, <2>4
  <2>6. Median(f) \in Int /\ \E j \in S : Median(f) <= f[j]
    <3>1. S # {}
      BY <2>2
    <3> HIDE DEF S, f
    <3>2. QED
      BY <2>3, <2>5, <3>1, MedianBound
  <2>7. lev[k] = Median(f)
    OBVIOUS
  <2>8. PICK j \in S : Median(f) <= x.level[j]
    BY <2>5, <2>6
  <2> HIDE DEF lev, f
  <2>9. j \in DOMAIN x.level /\ j \in Neighbours(w, edges, k)
    OBVIOUS
  <2>10. QED
    BY <2>6, <2>7, <2>8, <2>9
<1>4. NextFront(w, edges, x) = [level |-> lev, reached |-> x.reached \cup new]
  BY DEF NextFront
<1>5. DOMAIN lev = new /\ lev \in [new -> Int]
  <2>1. \A k \in new : lev[k] \in Int
    BY <1>3
  <2>2. QED
    BY <2>1
<1> HIDE DEF lev, new
<1>6. lev \in UNION {[X -> Int] : X \in SUBSET D}
  BY <1>2, <1>5
<1>7. [level |-> lev, reached |-> x.reached \cup new] \in FrontSet(D)
  BY <1>1, <1>2, <1>6 DEF FrontSet
<1>8. NextFront(w, edges, x).level = lev
  BY <1>4
<1>9. QED
  BY <1>3, <1>4, <1>5, <1>7, <1>8

(* The recursion of Fronts is its own solution.                               *)
LEMMA FrontsUnfold ==
    ASSUME NEW t, NEW w, NEW cl, NEW lv \in [DOMAIN cl -> Int], NEW across,
           IsFiniteSet(DOMAIN cl), Joins(w, DOMAIN cl)
    PROVE  LET front == Fronts(t, w, cl, lv, across)
           IN  /\ front[0] = FirstFront(t, lv)
               /\ \A d \in 1 .. MaxDepth :
                      front[d] = NextFront(w, ChainEdges(w, cl, across), front[d - 1])
<1> DEFINE edges == ChainEdges(w, cl, across)
           T == FrontSet(DOMAIN cl)
           a == FirstFront(t, lv)
           F == [k \in Nat |-> [x \in T |-> NextFront(w, edges, x)]]
           Body(g) == [d \in 0 .. MaxDepth |->
                          IF d = 0 THEN a ELSE NextFront(w, edges, g[d - 1])]
           front == Fronts(t, w, cl, lv, across)
<1>1. edges \subseteq ActiveBranches(w) /\ MaxDepth \in Nat
  BY VoltageAssumption DEF ChainEdges
<1>2. \A x \in T : NextFront(w, edges, x) \in T
  <2> HIDE DEF edges
  <2>1. QED
    BY <1>1, NextFrontTyped
<1>3. a \in T
  BY FirstFrontTyped
<1>4. F \in [Nat -> [T -> T]]
  <2> HIDE DEF T, edges
  <2>1. QED
    BY <1>2
<1>5. \E f : Iterates(f, T, a, F, MaxDepth)
  <2> HIDE DEF F, T, a
  <2>1. QED
    BY <1>1, <1>3, <1>4, BoundedRecursion
<1>6. PICK f : /\ f \in [0 .. MaxDepth -> T] /\ f[0] = a
               /\ \A k \in 1 .. MaxDepth : f[k] = F[k][f[k - 1]]
  BY <1>5 DEF Iterates
<1>7. f = Body(f)
  <2>1. ASSUME NEW d \in 0 .. MaxDepth
        PROVE  f[d] = IF d = 0 THEN a ELSE NextFront(w, edges, f[d - 1])
    <3>1. CASE d = 0
      BY <1>6, <3>1
    <3>2. CASE d # 0
      <4>1. d \in Nat /\ d \in 1 .. MaxDepth /\ d - 1 \in 0 .. MaxDepth
        BY <1>1, <3>2
      <4>2. f[d - 1] \in T /\ f[d] = F[d][f[d - 1]]
        BY <1>6, <4>1
      <4> HIDE DEF T, edges
      <4>3. F[d][f[d - 1]] = NextFront(w, edges, f[d - 1])
        BY <4>1, <4>2
      <4>4. QED
        BY <3>2, <4>2, <4>3
    <3>3. QED
      BY <3>1, <3>2
  <2> HIDE DEF T, edges, a, F
  <2>2. QED
    BY <1>6, <2>1
<1>8. front = CHOOSE g : g = Body(g)
  BY DEF Fronts, FirstFront, NextFront, NewNodes, Inherited
<1>9. front = Body(front)
  <2> HIDE DEF Body, front
  <2>1. QED
    BY <1>7, <1>8
<1>10. front[0] = a
  <2> HIDE DEF front, edges, a
  <2>1. QED
    BY <1>1, <1>9
<1>11. ASSUME NEW d \in 1 .. MaxDepth PROVE front[d] = NextFront(w, edges, front[d - 1])
  <2>1. d \in 0 .. MaxDepth /\ d # 0
    BY <1>1
  <2> HIDE DEF front, edges, a
  <2>2. QED
    BY <1>9, <2>1
<1>12. QED
  BY <1>10, <1>11

(* Where levels do not cross transformers, chain edges stay within a class.   *)
LEMMA ChainNeighboursOfClass ==
    ASSUME NEW w, NEW cl, NEW across, ~across, NEW n, NEW u,
           u \in Neighbours(w, ChainEdges(w, cl, across), n)
    PROVE  cl[u] = cl[n]
<1>1. PICK b \in ChainEdges(w, cl, across) :
          (w[b].from = n /\ w[b].to = u) \/ (w[b].to = n /\ w[b].from = u)
  BY DEF Neighbours
<1>2. cl[w[b].from] = cl[w[b].to]
  BY DEF ChainEdges
<1>3. QED
  BY <1>1, <1>2

(* In every front the levels are those of solved nodes of the same class, or  *)
(* lower, unless levels may cross.                                            *)
LEMMA ChainLevels ==
    ASSUME NEW t, NEW w, NEW cl, NEW lv \in [DOMAIN cl -> Int], NEW across \in BOOLEAN,
           IsFiniteSet(DOMAIN cl), Joins(w, DOMAIN cl), NEW d \in 0 .. MaxDepth
    PROVE  LET x == Fronts(t, w, cl, lv, across)[d]
           IN  /\ x \in FrontSet(DOMAIN cl)
               /\ \A n \in DOMAIN x.level : OwnClass(cl, lv, across, n, x.level[n])
<1> DEFINE front == Fronts(t, w, cl, lv, across)
           edges == ChainEdges(w, cl, across)
           Good(x) == /\ x \in FrontSet(DOMAIN cl)
                      /\ \A n \in DOMAIN x.level : OwnClass(cl, lv, across, n, x.level[n])
           T == {k \in Nat : k \in 0 .. MaxDepth => Good(front[k])}
<1>1. MaxDepth \in Nat /\ edges \subseteq ActiveBranches(w)
  BY VoltageAssumption DEF ChainEdges
<1>2. /\ front[0] = FirstFront(t, lv)
      /\ \A k \in 1 .. MaxDepth : front[k] = NextFront(w, edges, front[k - 1])
  BY FrontsUnfold
<1> HIDE DEF front
<1>3. Good(front[0])
  <2>1. FirstFront(t, lv) \in FrontSet(DOMAIN cl)
    BY FirstFrontTyped
  <2>2. ASSUME NEW n \in DOMAIN FirstFront(t, lv).level
        PROVE  OwnClass(cl, lv, across, n, FirstFront(t, lv).level[n])
    <3>1. n \in LiveSources(t, lv) /\ FirstFront(t, lv).level[n] = lv[n]
      BY DEF FirstFront
    <3>2. n \in DOMAIN lv /\ lv[n] \in Int
      BY <3>1 DEF LiveSources
    <3>3. QED
      BY <3>1, <3>2 DEF OwnClass
  <2>3. QED
    BY <1>2, <2>1, <2>2
<1>4. ASSUME NEW x, Good(x) PROVE Good(NextFront(w, edges, x))
  <2> DEFINE y == NextFront(w, edges, x)
  <2>1. /\ y \in FrontSet(DOMAIN cl)
        /\ \A k \in DOMAIN y.level : \E u \in DOMAIN x.level :
               u \in Neighbours(w, edges, k) /\ y.level[k] <= x.level[u]
    <3> HIDE DEF edges
    <3>1. QED
      BY <1>1, <1>4, NextFrontTyped
  <2> HIDE DEF y
  <2>2. ASSUME NEW k \in DOMAIN y.level PROVE OwnClass(cl, lv, across, k, y.level[k])
    <3>1. PICK u \in DOMAIN x.level : u \in Neighbours(w, edges, k) /\ y.level[k] <= x.level[u]
      BY <2>1
    <3>2. OwnClass(cl, lv, across, u, x.level[u]) /\ x.level[u] \in Int /\ y.level[k] \in Int
      BY <1>4, <2>1, FrontTyping
    <3>3. CASE across
      BY <3>3 DEF OwnClass
    <3>4. CASE ~across
      <4>1. cl[u] = cl[k]
        BY <3>1, <3>4, ChainNeighboursOfClass
      <4>2. PICK j \in DOMAIN lv : cl[j] = cl[u] /\ x.level[u] <= lv[j]
        BY <3>2, <3>4 DEF OwnClass
      <4>3. lv[j] \in Int
        BY <4>2
      <4>4. y.level[k] <= lv[j] /\ cl[j] = cl[k]
        BY <3>1, <3>2, <4>1, <4>2, <4>3
      <4>5. QED
        BY <4>4 DEF OwnClass
    <3>5. QED
      BY <3>3, <3>4
  <2>3. Good(y)
    BY <2>1, <2>2
  <2>4. QED
    BY <2>3 DEF y
<1> HIDE DEF Good, edges
<1>5. 0 \in T
  BY <1>3
<1>6. ASSUME NEW k \in Nat, k \in T PROVE k + 1 \in T
  <2>1. CASE k + 1 \notin 0 .. MaxDepth
    BY <2>1
  <2>2. CASE k + 1 \in 0 .. MaxDepth
    <3>1. k \in 0 .. MaxDepth /\ k + 1 \in 1 .. MaxDepth /\ (k + 1) - 1 = k
      BY <1>1, <2>2
    <3>2. Good(front[k])
      BY <1>6, <3>1
    <3> DEFINE j == k + 1
    <3>3. front[j] = NextFront(w, edges, front[j - 1]) /\ j - 1 = k
      BY <1>2, <3>1
    <3> HIDE DEF j
    <3>4. Good(front[j])
      BY <1>4, <3>2, <3>3
    <3>5. QED
      BY <3>4 DEF j
  <2>3. QED
    BY <2>1, <2>2
<1>7. Nat \subseteq T
  <2> HIDE DEF T
  <2>1. QED
    BY <1>5, <1>6, InductiveSet
<1>8. d \in Nat
  BY <1>1
<1>9. Good(front[d])
  BY <1>7, <1>8
<1>10. QED
  BY <1>9 DEF Good, front

(* A node moved by v_mirror_chain holds a flat prior and is solved; its new    *)
(* level is plausible, a lift, and no higher than the nominal or a level of    *)
(* its own class, unless levels may cross.                                     *)
LEMMA ChainPlanLifts ==
    ASSUME NEW t, NEW w, NEW cl, NEW lv \in [DOMAIN cl -> Int], NEW across \in BOOLEAN,
           IsFiniteSet(DOMAIN cl), Joins(w, DOMAIN cl)
    PROVE  LET plan == ChainPlan(t, w, cl, lv, across)
           IN \A n \in DOMAIN plan :
                  /\ n \in FlatNodes(t) /\ n \in DOMAIN lv
                  /\ plan[n] \in Int /\ Plausible(plan[n]) /\ plan[n] - lv[n] > MinLift
                  /\ across \/ \E k \in DOMAIN lv : cl[k] = cl[n] /\ plan[n] <= Larger(Nominal, lv[k])
<1> DEFINE front == Fronts(t, w, cl, lv, across)
           depths == 1 .. MaxDepth
           Depth(n) == CHOOSE d \in depths : n \in DOMAIN front[d].level
           D == (UNION {DOMAIN front[d].level : d \in depths}) \cap FlatNodes(t)
           level == [n \in D |-> front[Depth(n)].level[n]]
           E == {k \in D : Plausible(level[k])}
           target == [n \in E |-> Decayed(level[n], Depth(n))]
           G == {k \in E : target[k] - lv[k] > MinLift}
           plan == ChainPlan(t, w, cl, lv, across)
<1>1. plan = [n \in G |-> target[n]]
  BY DEF ChainPlan
<1>2. MaxDepth \in Nat /\ Nominal \in Int
  BY VoltageAssumption DEF Nominal
<1>3. ASSUME NEW d \in depths
      PROVE  /\ DOMAIN front[d].level \subseteq DOMAIN cl
             /\ \A n \in DOMAIN front[d].level :
                    front[d].level[n] \in Int /\ OwnClass(cl, lv, across, n, front[d].level[n])
  <2>1. d \in 0 .. MaxDepth
    BY <1>2
  <2>2. /\ front[d] \in FrontSet(DOMAIN cl)
        /\ \A n \in DOMAIN front[d].level : OwnClass(cl, lv, across, n, front[d].level[n])
    BY <2>1, ChainLevels
  <2> HIDE DEF front
  <2>3. QED
    BY <2>2, FrontTyping
<1> HIDE DEF front
<1>4. ASSUME NEW n \in D
      PROVE  /\ Depth(n) \in depths /\ n \in DOMAIN front[Depth(n)].level /\ n \in FlatNodes(t)
             /\ level[n] = front[Depth(n)].level[n]
  <2>1. \E d \in depths : n \in DOMAIN front[d].level
    OBVIOUS
  <2>2. Depth(n) \in depths /\ n \in DOMAIN front[Depth(n)].level
    <3> HIDE DEF depths
    <3>1. QED
      BY <2>1
  <2>3. QED
    BY <2>2
<1> HIDE DEF Depth, level
<1>5. ASSUME NEW n \in D
      PROVE  /\ n \in DOMAIN lv /\ level[n] \in Int
             /\ OwnClass(cl, lv, across, n, level[n])
  BY <1>3, <1>4
<1>6. ASSUME NEW n \in E
      PROVE  /\ n \in D /\ target[n] \in Int /\ target[n] <= Larger(Nominal, level[n])
             /\ Plausible(target[n])
  <2>1. n \in D /\ Plausible(level[n]) /\ target[n] = Decayed(level[n], Depth(n))
    OBVIOUS
  <2>2. level[n] \in Int /\ Depth(n) \in 1 .. MaxDepth
    BY <1>4, <1>5, <2>1
  <2> HIDE DEF D, E, target, depths
  <2>3. QED
    BY <2>1, <2>2, DecayedBetween
<1>7. ASSUME NEW n \in E
      PROVE  across \/ \E k \in DOMAIN lv : cl[k] = cl[n] /\ target[n] <= Larger(Nominal, lv[k])
  <2>1. CASE across
    BY <2>1
  <2>2. CASE ~across
    <3>1. /\ target[n] \in Int /\ target[n] <= Larger(Nominal, level[n])
          /\ level[n] \in Int /\ OwnClass(cl, lv, across, n, level[n])
      BY <1>5, <1>6
    <3>2. PICK k \in DOMAIN lv : cl[k] = cl[n] /\ level[n] <= lv[k]
      BY <2>2, <3>1 DEF OwnClass
    <3>3. lv[k] \in Int
      OBVIOUS
    <3> HIDE DEF target
    <3>4. target[n] <= Larger(Nominal, lv[k])
      BY <1>2, <3>1, <3>2, <3>3 DEF Larger
    <3>5. QED
      BY <3>2, <3>4
  <2>3. QED
    BY <2>1, <2>2
<1>8. G \subseteq E /\ \A n \in G : target[n] - lv[n] > MinLift
  OBVIOUS
<1> HIDE DEF D, E, G, target
<1>9. DOMAIN plan = G /\ \A n \in G : plan[n] = target[n]
  BY <1>1
<1> HIDE DEF plan
<1>10. \A n \in DOMAIN plan :
          /\ n \in FlatNodes(t) /\ n \in DOMAIN lv
          /\ plan[n] \in Int /\ Plausible(plan[n]) /\ plan[n] - lv[n] > MinLift
          /\ across \/ \E k \in DOMAIN lv : cl[k] = cl[n] /\ plan[n] <= Larger(Nominal, lv[k])
  BY <1>4, <1>5, <1>6, <1>7, <1>8, <1>9
<1>11. QED
  BY <1>10 DEF plan

-----------------------------------------------------------------------------
(* The pass as a state machine                                                *)

\* What a revert may restore.
Restorable(s) == IsTable(s.m) /\ s.vm \in case.levels

TypeInv ==
    /\ case \in Cases /\ cross_at \in BOOLEAN /\ merge \in BOOLEAN
    /\ IsTable(m) /\ vm \in case.levels
    /\ snap = None \/ Restorable(snap)
    /\ pc = "resolve" => Restorable(snap) /\ after # "resolve"
    /\ DOMAIN moved = DOMAIN case.vnom

(* write_measurement_estimates keeps a table a table.                         *)
LEMMA EstimatedTable ==
    ASSUME NEW t, IsTable(t), NEW D, NEW lv \in [D -> Int]
    PROVE  IsTable(Estimated(t, lv)) /\ DOMAIN Estimated(t, lv) = DOMAIN t
<1> DEFINE row(i) == IF t[i].kind = "V" /\ t[i].obj \in DOMAIN lv
                     THEN [t[i] EXCEPT !.h = lv[t[i].obj]] ELSE t[i]
<1>1. Estimated(t, lv) = [i \in DOMAIN t |-> row(i)]
  BY DEF Estimated
<1>2. ASSUME NEW i \in DOMAIN t PROVE row(i) \in Measurement
  <2>1. t[i] \in Measurement
    BY DEF IsTable
  <2>2. t[i].obj \in DOMAIN lv => lv[t[i].obj] \in Int
    OBVIOUS
  <2>3. QED
    BY <2>1, <2>2 DEF Measurement
<1> HIDE DEF row
<1>3. QED
  BY <1>1, <1>2 DEF IsTable

(* So does tightening.                                                        *)
LEMMA ApplyVRefineTable ==
    ASSUME NEW t, IsTable(t), NEW ids
    PROVE  IsTable(ApplyVRefine(t, ids)) /\ DOMAIN ApplyVRefine(t, ids) = DOMAIN t
<1> DEFINE row(i) == IF i \in ids THEN [t[i] EXCEPT !.sigma = @ \div VRefineDivisor] ELSE t[i]
<1>1. ApplyVRefine(t, ids) = [i \in DOMAIN t |-> row(i)]
  BY DEF ApplyVRefine
<1>2. ASSUME NEW i \in DOMAIN t PROVE row(i) \in Measurement
  <2>1. t[i] \in Measurement
    BY DEF IsTable
  <2>2. t[i].sigma \in Int
    BY <2>1 DEF Measurement
  <2>3. t[i].sigma \div VRefineDivisor \in Int
    BY <2>2, VoltageAssumption
  <2>4. QED
    BY <2>1, <2>3 DEF Measurement
<1> HIDE DEF row
<1>3. QED
  BY <1>1, <1>2 DEF IsTable

\* Row i holds the prior of node n.
HoldsPrior(t, i, n) == t[i].kind = "V" /\ t[i].pseudo /\ t[i].obj = n

(* Moving priors changes their values and nothing else; afterwards every prior *)
(* of a moved node has its new value.                                          *)
LEMMA ApplyVMirrorRows ==
    ASSUME NEW t, IsTable(t), NEW plan, \A n \in DOMAIN plan : plan[n] \in Int
    PROVE  LET u == ApplyVMirror(t, plan)
           IN  /\ IsTable(u) /\ DOMAIN u = DOMAIN t
               /\ \A i \in DOMAIN t :
                      u[i] # t[i] => /\ t[i].kind = "V" /\ t[i].pseudo /\ t[i].obj \in DOMAIN plan
                                     /\ u[i].value = plan[t[i].obj]
                                     /\ u[i] = [t[i] EXCEPT !.value = u[i].value]
               /\ \A i \in DOMAIN t, n \in DOMAIN plan : HoldsPrior(u, i, n) => u[i].value = plan[n]
<1> DEFINE row(i) == IF t[i].kind = "V" /\ t[i].pseudo /\ t[i].obj \in DOMAIN plan
                     THEN [t[i] EXCEPT !.value = plan[t[i].obj]] ELSE t[i]
           u == ApplyVMirror(t, plan)
<1>1. u = [i \in DOMAIN t |-> row(i)]
  BY DEF ApplyVMirror
<1>2. ASSUME NEW i \in DOMAIN t
      PROVE  /\ row(i) \in Measurement
             /\ row(i).kind = t[i].kind /\ row(i).pseudo = t[i].pseudo /\ row(i).obj = t[i].obj
             /\ t[i].kind = "V" /\ t[i].pseudo /\ t[i].obj \in DOMAIN plan
                    => /\ row(i).value = plan[t[i].obj]
                       /\ row(i) = [t[i] EXCEPT !.value = row(i).value]
             /\ ~(t[i].kind = "V" /\ t[i].pseudo /\ t[i].obj \in DOMAIN plan) => row(i) = t[i]
  <2>1. t[i] \in Measurement
    BY DEF IsTable
  <2>2. t[i].obj \in DOMAIN plan => plan[t[i].obj] \in Int
    OBVIOUS
  <2>3. row(i) \in Measurement
    BY <2>1, <2>2 DEF Measurement
  <2>4. row(i).kind = t[i].kind /\ row(i).pseudo = t[i].pseudo /\ row(i).obj = t[i].obj
    BY <2>1 DEF Measurement
  <2>5. ASSUME t[i].kind = "V", t[i].pseudo, t[i].obj \in DOMAIN plan
        PROVE  row(i).value = plan[t[i].obj] /\ row(i) = [t[i] EXCEPT !.value = row(i).value]
    <3>1. row(i) = [t[i] EXCEPT !.value = plan[t[i].obj]]
      BY <2>5
    <3>2. row(i).value = plan[t[i].obj]
      BY <2>1, <3>1 DEF Measurement
    <3>3. QED
      BY <3>1, <3>2
  <2>6. ~(t[i].kind = "V" /\ t[i].pseudo /\ t[i].obj \in DOMAIN plan) => row(i) = t[i]
    OBVIOUS
  <2> HIDE DEF row
  <2>7. QED
    BY <2>3, <2>4, <2>5, <2>6
<1> HIDE DEF row
<1>3. DOMAIN u = DOMAIN t /\ \A i \in DOMAIN t : u[i] = row(i)
  BY <1>1
<1>4. IsTable(u)
  BY <1>1, <1>2, <1>3 DEF IsTable
<1> HIDE DEF u
<1>5. ASSUME NEW i \in DOMAIN t, u[i] # t[i]
      PROVE  /\ t[i].kind = "V" /\ t[i].pseudo /\ t[i].obj \in DOMAIN plan
             /\ u[i].value = plan[t[i].obj]
             /\ u[i] = [t[i] EXCEPT !.value = u[i].value]
  BY <1>2, <1>3, <1>5
<1>6. ASSUME NEW i \in DOMAIN t, NEW n \in DOMAIN plan, HoldsPrior(u, i, n)
      PROVE  u[i].value = plan[n]
  BY <1>2, <1>3, <1>6 DEF HoldsPrior
<1>7. QED
  BY <1>3, <1>4, <1>5, <1>6 DEF u

(* What the plans need of a case.                                             *)
LEMMA CaseFacts ==
    ASSUME TypeInv
    PROVE  /\ vm \in [DOMAIN vnom -> Int] /\ cross_at \in BOOLEAN
           /\ IsFiniteSet(DOMAIN vnom) /\ Joins(net, DOMAIN vnom)
           /\ \A l \in case.levels : l \in [DOMAIN vnom -> Int]
BY CasesAssumption DEF TypeInv, Joins, net, vnom

(* Every stage keeps the type invariant.                                      *)
LEMMA TypeStep ==
    ASSUME TypeInv, [Next]_vars
    PROVE  TypeInv'
<1>1. ASSUME NEW t, IsTable(t), DOMAIN moved' = DOMAIN moved,
             NEW stage, NEW next, next # "resolve",
             Edit(stage, next, t), UNCHANGED <<case, cross_at, merge, vm>>
      PROVE  TypeInv'
  <2>1. IsTable(m') /\ vm' \in case'.levels
    BY <1>1 DEF Edit, TypeInv
  <2>2. Restorable([m |-> m, vm |-> vm])
    BY DEF TypeInv, Restorable
  <2>3. snap' = [m |-> m, vm |-> vm] \/ (snap' = snap /\ snap # None)
    BY <1>1 DEF Edit, Arm
  <2>4. Restorable(snap)' 
    BY <1>1, <2>2, <2>3 DEF TypeInv, Restorable
  <2>5. pc' = "resolve" => after' # "resolve"
    BY <1>1 DEF Edit
  <2>6. QED
    BY <1>1, <2>1, <2>4, <2>5 DEF TypeInv
<1>2. ASSUME NEW stage, NEW next, next # "resolve",
             Skip(stage, next), UNCHANGED <<case, cross_at, merge, vm>>
      PROVE  TypeInv'
  BY <1>2 DEF Skip, TypeInv, Restorable
<1>3. CASE BadData
  <2>1. IsTable(ApplyBadData(m, BadDataPlan(m, net)))
    BY ApplyBadDataRows DEF TypeInv
  <2>2. CASE Skip("bad_data", "v_refine")
    BY <1>2, <1>3, <2>2 DEF BadData
  <2>3. CASE Edit("bad_data", "v_refine", ApplyBadData(m, BadDataPlan(m, net))) /\ UNCHANGED moved
    BY <1>1, <1>3, <2>1, <2>3 DEF BadData
  <2>4. QED
    BY <1>3, <2>2, <2>3 DEF BadData
<1>4. CASE VRefine
  <2>1. IsTable(ApplyVRefine(m, Tighten(m)))
    BY ApplyVRefineTable DEF TypeInv
  <2>2. CASE Skip("v_refine", "v_mirror")
    BY <1>2, <1>4, <2>2 DEF VRefine
  <2>3. CASE Edit("v_refine", "v_mirror", ApplyVRefine(m, Tighten(m))) /\ UNCHANGED moved
    BY <1>1, <1>4, <2>1, <2>3 DEF VRefine
  <2>4. QED
    BY <1>4, <2>2, <2>3 DEF VRefine
<1>5. ASSUME NEW plan, \A n \in DOMAIN plan : plan[n] \in Int, NEW stage, NEW next,
             next # "resolve", Move(stage, next, plan), UNCHANGED <<case, cross_at, merge, vm>>
      PROVE  TypeInv'
  <2>1. IsTable(ApplyVMirror(m, plan))
    BY <1>5, ApplyVMirrorRows DEF TypeInv
  <2>2. CASE DOMAIN plan = {}
    BY <1>2, <1>5, <2>2 DEF Move
  <2>3. CASE DOMAIN plan # {}
    <3>1. Edit(stage, next, ApplyVMirror(m, plan)) /\ DOMAIN moved' = DOMAIN moved
      BY <1>5, <2>3 DEF Move
    <3>2. QED
      BY <1>1, <1>5, <2>1, <3>1
  <2>4. QED
    BY <2>2, <2>3
<1>6. CASE VMirror
  <2>1. \A n \in DOMAIN VMirrorPlan(m, net, vnom, vm, cross_at) :
            VMirrorPlan(m, net, vnom, vm, cross_at)[n] \in Int
    BY CaseFacts, MirrorPlanLifts
  <2>2. QED
    BY <1>5, <1>6, <2>1 DEF VMirror
<1>7. CASE VMirrorChain
  <2>1. \A n \in DOMAIN ChainPlan(m, net, vnom, vm, cross_at) :
            ChainPlan(m, net, vnom, vm, cross_at)[n] \in Int
    BY CaseFacts, ChainPlanLifts
  <2>2. QED
    BY <1>5, <1>7, <2>1 DEF VMirrorChain
<1>8. CASE Resolve
  <2>1. /\ snap' = None /\ pc' # "resolve" /\ UNCHANGED <<case, cross_at, merge>>
        /\ DOMAIN moved' = DOMAIN moved
    BY <1>8 DEF Resolve, TypeInv
  <2>2. IsTable(m') /\ vm' \in case.levels
    <3>1. CASE Accept
      <4>1. vm' \in [DOMAIN vnom -> Int]
        BY <3>1, CaseFacts DEF Accept
      <4>2. QED
        BY <3>1, <4>1, EstimatedTable DEF Accept, TypeInv
    <3>2. CASE Revert
      BY <1>8, <3>2 DEF Resolve, Revert, TypeInv, Restorable
    <3>3. QED
      BY <1>8, <3>1, <3>2 DEF Resolve
  <2>3. QED
    BY <2>1, <2>2 DEF TypeInv
<1>9. CASE UNCHANGED vars
  BY <1>9 DEF vars, TypeInv, Restorable
<1>10. QED
  BY <1>3, <1>4, <1>6, <1>7, <1>8, <1>9 DEF Next

(* It holds of a fresh pass.                                                  *)
LEMMA TypeInit ==
    ASSUME Init
    PROVE  TypeInv
<1>1. PICK t \in case.tables : m = Estimated(t, vm)
  BY DEF Init
<1>2. case \in Cases /\ vm \in case.levels
  BY DEF Init
<1>3. IsTable(t) /\ vm \in [DOMAIN case.vnom -> Int]
  BY <1>1, <1>2, CasesAssumption
<1>4. IsTable(m)
  BY <1>1, <1>3, EstimatedTable
<1>5. DOMAIN moved = DOMAIN case.vnom /\ snap = None /\ pc # "resolve"
      /\ cross_at \in BOOLEAN /\ merge \in BOOLEAN
  BY DEF Init
<1>6. QED
  BY <1>2, <1>4, <1>5 DEF TypeInv

(* The edited tables stay tables and a snapshot can always be restored when a *)
(* re-solve may lose convergence (_resolve_pass).                             *)
THEOREM StagesTypeCorrect == Spec => []TypeInv
<1>1. Init => TypeInv
  BY TypeInit
<1>2. TypeInv /\ [Next]_vars => TypeInv'
  BY TypeStep
<1>3. QED
  BY <1>1, <1>2, PTL DEF Spec

\* The step formula of BadDataKeepsCoverage.
CoverageStep ==
    pc = "bad_data" =>
         /\ Observed(m', net) = Observed(m, net)
         /\ MeasuredNodes(m', net) = MeasuredNodes(m, net)
         /\ \A i \in DOMAIN m : m[i].kind = "Qinj" => m'[i].status = m[i].status

(* The bad-data stage keeps the observed nodes of each domain, the measured    *)
(* nodes, and the status of reactive injections (build_bad_data_plan).        *)
THEOREM BadDataNeverBlinds == Spec => BadDataKeepsCoverage
<1>1. TypeInv /\ [Next]_vars => [CoverageStep]_vars
  <2> SUFFICES ASSUME TypeInv, Next, pc = "bad_data" PROVE CoverageStep
    BY DEF CoverageStep
  <2>1. BadData
    BY DEF Next, VRefine, VMirror, VMirrorChain, Resolve
  <2> DEFINE u == ApplyBadData(m, BadDataPlan(m, net))
  <2>2. m' = m \/ m' = u
    BY <2>1 DEF BadData, Skip, Edit
  <2>3. CASE m' = m
    BY <2>3 DEF CoverageStep
  <2>4. CASE m' = u
    <3>1. /\ Observed(u, net) = Observed(m, net)
          /\ MeasuredNodes(u, net) = MeasuredNodes(m, net)
          /\ \A i \in DOMAIN m : m[i].kind = "Qinj" => u[i].status = m[i].status
      BY BadDataCovers DEF TypeInv
    <3> HIDE DEF u
    <3>2. QED
      BY <2>4, <3>1 DEF CoverageStep
  <2>5. QED
    BY <2>2, <2>3, <2>4
<1>2. [CoverageStep]_vars <=>
      [pc = "bad_data" =>
         /\ Observed(m', net) = Observed(m, net)
         /\ MeasuredNodes(m', net) = MeasuredNodes(m, net)
         /\ \A i \in DOMAIN m : m[i].kind = "Qinj" => m'[i].status = m[i].status]_vars
  BY DEF CoverageStep
<1>3. QED
  BY <1>1, <1>2, StagesTypeCorrect, PTL DEF Spec, BadDataKeepsCoverage

\* The step formula of MirrorsOnlyLift.
LiftStep ==
    \A i \in DOMAIN m :
        pc \in {"v_mirror", "v_mirror_chain"} /\ m'[i] # m[i] => Lifted(m[i], m'[i])

(* Priors moved by a plan that lifts are lifted.                              *)
LEMMA PlanLifts ==
    ASSUME TypeInv, NEW plan, NEW stage, NEW next, Move(stage, next, plan),
           \A n \in DOMAIN plan :
               /\ n \in FlatNodes(m) /\ n \in DOMAIN vm
               /\ plan[n] \in Int /\ Plausible(plan[n]) /\ plan[n] - vm[n] > MinLift
               /\ cross_at \/ \E k \in DOMAIN vm :
                                  vnom[k] = vnom[n] /\ plan[n] <= Larger(Nominal, vm[k])
    PROVE  LiftStep
<1> DEFINE u == ApplyVMirror(m, plan)
<1>1. /\ IsTable(m) /\ \A n \in DOMAIN plan : plan[n] \in Int
  BY DEF TypeInv
<1>2. \A i \in DOMAIN m :
          u[i] # m[i] => /\ m[i].kind = "V" /\ m[i].pseudo /\ m[i].obj \in DOMAIN plan
                         /\ u[i].value = plan[m[i].obj]
                         /\ u[i] = [m[i] EXCEPT !.value = u[i].value]
  BY <1>1, ApplyVMirrorRows
<1>3. m' = m \/ m' = u
  BY DEF Move, Skip, Edit
<1> HIDE DEF u
<1>4. ASSUME NEW i \in DOMAIN m, m'[i] # m[i] PROVE Lifted(m[i], m'[i])
  <2>1. m' = u /\ u[i] # m[i]
    BY <1>3, <1>4
  <2> DEFINE n == m[i].obj
             v == plan[n]
  <2>2. /\ m[i].kind = "V" /\ m[i].pseudo /\ n \in DOMAIN plan /\ u[i].value = v
        /\ u[i] = [m[i] EXCEPT !.value = u[i].value]
    BY <1>2, <2>1
  <2>3. /\ n \in FlatNodes(m) /\ Plausible(v) /\ v - vm[n] > MinLift
        /\ cross_at \/ \E k \in DOMAIN vm : vnom[k] = vnom[n] /\ v <= Larger(Nominal, vm[k])
    BY <2>2
  <2>4. cross_at \/ \E k \in SameClass(n) : v <= Larger(Nominal, vm[k])
    BY <2>3 DEF SameClass
  <2> HIDE DEF v
  <2>5. QED
    BY <2>1, <2>2, <2>3, <2>4 DEF Lifted
<1>5. QED
  BY <1>4 DEF LiftStep

(* v_mirror and v_mirror_chain change only flat priors, only upwards, within   *)
(* max_pu_dev and, without crossing, within the voltage class.                 *)
THEOREM MirrorStagesOnlyLift == Spec => MirrorsOnlyLift
<1>1. ASSUME TypeInv, Next PROVE LiftStep
  <2>1. CASE BadData \/ VRefine \/ Resolve
    BY <2>1 DEF BadData, VRefine, Resolve, LiftStep
  <2>2. CASE VMirror
    <3> DEFINE plan == VMirrorPlan(m, net, vnom, vm, cross_at)
    <3>1. /\ vm \in [DOMAIN vnom -> Int] /\ cross_at \in BOOLEAN
          /\ IsFiniteSet(DOMAIN vnom) /\ Joins(net, DOMAIN vnom)
      BY <1>1, CaseFacts
    <3>2. \A n \in DOMAIN plan :
              /\ n \in FlatNodes(m) /\ n \in DOMAIN vm
              /\ plan[n] \in Int /\ Plausible(plan[n]) /\ plan[n] - vm[n] > MinLift
              /\ OwnClass(vnom, vm, cross_at, n, plan[n])
      BY <3>1, MirrorPlanLifts
    <3>3. Move("v_mirror", "v_mirror_chain", plan)
      BY <2>2 DEF VMirror
    <3> HIDE DEF plan
    <3>4. ASSUME NEW n \in DOMAIN plan
          PROVE  cross_at \/ \E k \in DOMAIN vm :
                                 vnom[k] = vnom[n] /\ plan[n] <= Larger(Nominal, vm[k])
      <4>1. CASE cross_at
        BY <4>1
      <4>2. CASE ~cross_at
        <5>1. PICK k \in DOMAIN vm : vnom[k] = vnom[n] /\ plan[n] <= vm[k]
          BY <3>2, <4>2 DEF OwnClass
        <5>2. vm[k] \in Int /\ plan[n] \in Int
          BY <3>1, <3>2
        <5>3. plan[n] <= Larger(Nominal, vm[k])
          BY <5>1, <5>2 DEF Larger, Nominal
        <5>4. QED
          BY <5>1, <5>3
      <4>3. QED
        BY <4>1, <4>2
    <3>5. QED
      BY <1>1, <3>2, <3>3, <3>4, PlanLifts
  <2>3. CASE VMirrorChain
    <3> DEFINE plan == ChainPlan(m, net, vnom, vm, cross_at)
    <3>1. /\ vm \in [DOMAIN vnom -> Int] /\ cross_at \in BOOLEAN
          /\ IsFiniteSet(DOMAIN vnom) /\ Joins(net, DOMAIN vnom)
      BY <1>1, CaseFacts
    <3>2. \A n \in DOMAIN plan :
              /\ n \in FlatNodes(m) /\ n \in DOMAIN vm
              /\ plan[n] \in Int /\ Plausible(plan[n]) /\ plan[n] - vm[n] > MinLift
              /\ cross_at \/ \E k \in DOMAIN vm :
                                 vnom[k] = vnom[n] /\ plan[n] <= Larger(Nominal, vm[k])
      BY <3>1, ChainPlanLifts
    <3>3. Move("v_mirror_chain", "done", plan)
      BY <2>3 DEF VMirrorChain
    <3> HIDE DEF plan
    <3>4. QED
      BY <1>1, <3>2, <3>3, PlanLifts
  <2>4. QED
    BY <1>1, <2>1, <2>2, <2>3 DEF Next
<1>2. TypeInv /\ [Next]_vars => [LiftStep]_vars
  BY <1>1
<1>3. [LiftStep]_vars <=>
      [\A i \in DOMAIN m :
         pc \in {"v_mirror", "v_mirror_chain"} /\ m'[i] # m[i] => Lifted(m[i], m'[i])]_vars
  BY DEF LiftStep
<1>4. QED
  BY <1>2, <1>3, StagesTypeCorrect, PTL DEF Spec, MirrorsOnlyLift

-----------------------------------------------------------------------------
(* What a pass has moved                                                      *)

(* Before v_mirror nothing is moved; before the chain a moved node has one new *)
(* value, which all its priors hold.                                          *)
MovedInv ==
    \A n \in DOMAIN moved :
        /\ pc \in {"bad_data", "v_refine", "v_mirror"} => moved[n] = {}
        /\ pc = "v_mirror_chain" =>
               \/ moved[n] = {}
               \/ \E v \in moved[n] : moved[n] = {v} /\ \A i \in DOMAIN m : HoldsPrior(m, i, n) => m[i].value = v
        /\ moved[n] = {} \/ (\E v \in moved[n] : moved[n] = {v}) \/ Nominal \in moved[n]

(* Every stage keeps what is known of the moved priors.                       *)
LEMMA MovedStep ==
    ASSUME TypeInv, MovedInv, Next
    PROVE  MovedInv'
<1>1. CASE BadData
  <2>1. \A n \in DOMAIN moved : moved[n] = {}
    BY <1>1 DEF BadData, MovedInv
  <2>2. moved' = moved
    BY <1>1 DEF BadData, Skip
  <2>3. QED
    BY <2>1, <2>2 DEF MovedInv
<1>2. CASE VRefine
  <2>1. \A n \in DOMAIN moved : moved[n] = {}
    BY <1>2 DEF VRefine, MovedInv
  <2>2. moved' = moved
    BY <1>2 DEF VRefine, Skip
  <2>3. QED
    BY <2>1, <2>2 DEF MovedInv
<1>3. CASE VMirror
  <2> DEFINE plan == VMirrorPlan(m, net, vnom, vm, cross_at)
             u == ApplyVMirror(m, plan)
  <2>1. \A n \in DOMAIN moved : moved[n] = {}
    BY <1>3 DEF VMirror, MovedInv
  <2>2. Move("v_mirror", "v_mirror_chain", plan)
    BY <1>3 DEF VMirror
  <2>3. \A n \in DOMAIN plan : plan[n] \in Int
    BY CaseFacts, MirrorPlanLifts
  <2>4. \A i \in DOMAIN m, n \in DOMAIN plan : HoldsPrior(u, i, n) => u[i].value = plan[n]
    <3> HIDE DEF plan
    <3>1. QED
      BY <2>3, ApplyVMirrorRows DEF TypeInv
  <2>5. DOMAIN u = DOMAIN m
    BY DEF ApplyVMirror
  <2> HIDE DEF plan, u
  <2>6. CASE moved' = moved
    BY <2>1, <2>6 DEF MovedInv
  <2>7. CASE /\ m' = u
             /\ moved' = [n \in DOMAIN moved |-> moved[n] \cup IF n \in DOMAIN plan THEN {plan[n]} ELSE {}]
    <3>1. ASSUME NEW n \in DOMAIN moved'
          PROVE  \/ moved'[n] = {}
                 \/ n \in DOMAIN plan /\ moved'[n] = {plan[n]}
      BY <2>1, <2>7
    <3>2. ASSUME NEW n \in DOMAIN plan
          PROVE  \A i \in DOMAIN m' : HoldsPrior(m', i, n) => m'[i].value = plan[n]
      BY <2>4, <2>5, <2>7
    <3>3. pc' \notin {"bad_data", "v_refine", "v_mirror"}
      BY <2>2 DEF Move, Skip, Edit, LastMerged, Shared
    <3>4. QED
      BY <3>1, <3>2, <3>3 DEF MovedInv, HoldsPrior
  <2>8. QED
    BY <2>2, <2>6, <2>7 DEF Move, Skip, Edit, u
<1>4. CASE VMirrorChain
  <2> DEFINE plan == ChainPlan(m, net, vnom, vm, cross_at)
  <2>1. Move("v_mirror_chain", "done", plan) /\ pc = "v_mirror_chain"
    BY <1>4 DEF VMirrorChain
  <2>2. \A n \in DOMAIN plan : n \in FlatNodes(m)
    BY CaseFacts, ChainPlanLifts
  <2> HIDE DEF plan
  <2>3. pc' \in {"resolve", "done"}
    BY <2>1 DEF Move, Skip, Edit, Shared
  <2>4. \A n \in DOMAIN moved :
            \/ moved[n] = {}
            \/ \E v : moved[n] = {v} /\ \A i \in DOMAIN m : HoldsPrior(m, i, n) => m[i].value = v
    BY <2>1 DEF MovedInv
  <2>5. ASSUME NEW n \in DOMAIN moved, n \in DOMAIN plan, moved[n] # {}
        PROVE  Nominal \in moved[n]
    <3>1. PICK v : moved[n] = {v} /\ \A i \in DOMAIN m : HoldsPrior(m, i, n) => m[i].value = v
      BY <2>4, <2>5
    <3>2. PICK i \in DOMAIN m : m[i].kind = "V" /\ m[i].pseudo = TRUE /\ m[i].value = Nominal
                                /\ m[i].obj = n
      BY <2>2, <2>5 DEF FlatNodes, Rows
    <3>3. v = Nominal
      BY <3>1, <3>2 DEF HoldsPrior
    <3>4. QED
      BY <3>1, <3>3
  <2>6. ASSUME NEW n \in DOMAIN moved'
        PROVE  moved'[n] = {} \/ (\E v : moved'[n] = {v}) \/ Nominal \in moved'[n]
    <3>1. CASE moved' = moved
      BY <2>4, <2>6, <3>1
    <3>2. CASE moved' = [k \in DOMAIN moved |->
                             moved[k] \cup IF k \in DOMAIN plan THEN {plan[k]} ELSE {}]
      <4>1. n \in DOMAIN moved
        BY <2>6, <3>2
      <4>2. CASE n \notin DOMAIN plan
        BY <2>4, <3>2, <4>1, <4>2
      <4>3. CASE n \in DOMAIN plan /\ moved[n] = {}
        BY <3>2, <4>1, <4>3
      <4>4. CASE n \in DOMAIN plan /\ moved[n] # {}
        BY <2>5, <3>2, <4>1, <4>4
      <4>5. QED
        BY <4>2, <4>3, <4>4
    <3>3. QED
      BY <2>1, <3>1, <3>2 DEF Move, Skip
  <2>7. QED
    BY <2>3, <2>6 DEF MovedInv
<1>5. CASE Resolve
  <2>1. moved' = [n \in DOMAIN moved |-> {}]
    BY <1>5 DEF Resolve
  <2>2. \A n \in DOMAIN moved' : moved'[n] = {}
    BY <2>1
  <2>3. QED
    BY <2>2 DEF MovedInv
<1>6. QED
  BY <1>1, <1>2, <1>3, <1>4, <1>5 DEF Next

(* A prior is moved twice in one merged pass only if the first move left it at *)
(* the nominal.                                                               *)
THEOREM PriorsMoveAgainOnlyFromNominal == Spec => []MovedAgainOnlyFromNominal
<1>1. Init => MovedInv
  BY DEF Init, MovedInv
<1>2. TypeInv /\ MovedInv /\ [Next]_vars => MovedInv'
  <2>1. TypeInv /\ MovedInv /\ Next => MovedInv'
    BY MovedStep
  <2>2. MovedInv /\ UNCHANGED vars => MovedInv'
    BY DEF vars, MovedInv, HoldsPrior
  <2>3. QED
    BY <2>1, <2>2
<1>3. MovedInv => MovedAgainOnlyFromNominal
  <2> SUFFICES ASSUME MovedInv, NEW n \in DOMAIN moved, Cardinality(moved[n]) > 1
               PROVE  Nominal \in moved[n]
    BY DEF MovedAgainOnlyFromNominal
  <2>1. moved[n] # {}
    BY FS_EmptySet
  <2>2. ASSUME NEW v, moved[n] = {v} PROVE FALSE
    <3>1. Cardinality({v}) = 1
      BY FS_Singleton
    <3>2. QED
      BY <2>2, <3>1
  <2>3. QED
    BY <2>1, <2>2 DEF MovedInv
<1>4. QED
  BY <1>1, <1>2, <1>3, StagesTypeCorrect, PTL DEF Spec
=============================================================================

--------------------------- MODULE CountingProofs ---------------------------
(***************************************************************************)
(* What the operators of Counting return: a sum over parts counts the      *)
(* elements of the whole, and a finite set in a strict order has exactly   *)
(* one n-th element, for each n up to its size.                            *)
(***************************************************************************)
EXTENDS Counting, FunctionTheorems, FiniteSetTheorems, TLAPS

(* A set of natural numbers has a least element.                              *)
LEMMA LeastNat ==
  ASSUME NEW T \in SUBSET Nat, T # {}
  PROVE  \E x \in T : \A y \in T : x <= y
<1>1. PICK x \in T : \A y \in T : ~(<<y, x>> \in OpToRel(<, Nat))
  BY NatLessThanWellFounded, WFMin
<1>2. ASSUME NEW y \in T PROVE ~(y < x)
  BY <1>1 DEF OpToRel
<1> QED BY <1>2

-----------------------------------------------------------------------------
(* Tally                                                                      *)

(* The elements g of G, each size[g] times.                                   *)
Pairs(G, size) == UNION {{g} \X (1 .. size[g]) : g \in G}

(* A set in disjoint parts has as many elements as the parts together.        *)
LEMMA PartsCount ==
  ASSUME NEW S, IsFiniteSet(S), NEW G, NEW part, NEW size,
         \A g \in G : part[g] \in SUBSET S /\ size[g] = Cardinality(part[g]),
         \A i \in S : \E g \in G : i \in part[g],
         \A g, h \in G : \A i \in part[g] : i \in part[h] => g = h
  PROVE  Cardinality(Pairs(G, size)) = Cardinality(S)
<1> DEFINE U == Pairs(G, size)
           I(g) == 1 .. size[g]
           b == [g \in G |-> CHOOSE f : f \in Bijection(I(g), part[g])]
           F == [u \in U |-> b[u[1]][u[2]]]
<1>1. ASSUME NEW g \in G
      PROVE  /\ b[g] \in [I(g) -> part[g]]
             /\ \A i, j \in I(g) : b[g][i] = b[g][j] => i = j
             /\ \A t \in part[g] : \E i \in I(g) : b[g][i] = t
  <2>1. IsFiniteSet(part[g]) BY FS_Subset
  <2>2. ExistsBijection(I(g), part[g]) BY <2>1, FS_CardinalityType
  <2> HIDE DEF I
  <2>3. b[g] \in Bijection(I(g), part[g]) BY <2>2 DEF ExistsBijection
  <2> HIDE DEF b
  <2> QED BY <2>3, Fun_BijectionProperties
<1>2. ASSUME NEW u \in U
      PROVE  u = <<u[1], u[2]>> /\ u[1] \in G /\ u[2] \in I(u[1])
  BY DEF Pairs
<1>3. ASSUME NEW g \in G, NEW i \in I(g) PROVE <<g, i>> \in U
  BY DEF Pairs
<1> HIDE DEF U, I, b
<1>4. ASSUME NEW u \in U PROVE F[u] = b[u[1]][u[2]] /\ F[u] \in part[u[1]]
  BY <1>1, <1>2
<1>5. F \in [U -> S] BY <1>2, <1>4
<1>6. ASSUME NEW u \in U, NEW v \in U, F[u] = F[v] PROVE u = v
  <2>1. u[1] = v[1] BY <1>2, <1>4, <1>6
  <2> QED BY <1>1, <1>2, <1>4, <1>6, <2>1
<1>7. ASSUME NEW i \in S PROVE \E u \in U : F[u] = i
  <2>1. PICK g \in G : i \in part[g] OBVIOUS
  <2>2. PICK k \in I(g) : b[g][k] = i BY <1>1, <2>1
  <2>3. <<g, k>> \in U BY <1>3
  <2>4. F[<<g, k>>] = i BY <2>2, <2>3
  <2> QED BY <2>3, <2>4
<1> HIDE DEF F
<1>8. F \in Bijection(U, S) BY <1>5, <1>6, <1>7, Fun_IsBij
<1>9. ExistsBijection(S, U) BY <1>8, Fun_ExistsBijSymmetric DEF ExistsBijection
<1> QED BY <1>9, FS_Bijection DEF U

(* So a tally of the sizes of the parts is the size of the whole.              *)
LEMMA TallyOfParts ==
  ASSUME NEW S, IsFiniteSet(S), NEW count, NEW part,
         \A g \in DOMAIN count : part[g] \in SUBSET S /\ count[g] = Cardinality(part[g]),
         \A i \in S : \E g \in DOMAIN count : i \in part[g],
         \A g, h \in DOMAIN count : \A i \in part[g] : i \in part[h] => g = h
  PROVE  Tally(count) = Cardinality(S)
<1>1. Tally(count) = Cardinality(Pairs(DOMAIN count, count)) BY DEF Tally, Pairs
<1> QED BY <1>1, PartsCount

-----------------------------------------------------------------------------
(* Nth                                                                        *)

(* R is a strict order of S in which any two elements are comparable.         *)
StrictOrder(R, S) ==
  /\ \A x \in S : <<x, x>> \notin R
  /\ \A x, y, z \in S : <<x, y>> \in R /\ <<y, z>> \in R => <<x, z>> \in R
  /\ \A x, y \in S : x = y \/ <<x, y>> \in R \/ <<y, x>> \in R

(* How many elements of S come before x.                                      *)
Rank(R, S, x) == Cardinality({y \in S : <<y, x>> \in R})

(* No two elements have the same rank, and every rank is taken.               *)
LEMMA RanksAreUnique ==
  ASSUME NEW S, IsFiniteSet(S), NEW R, StrictOrder(R, S)
  PROVE  /\ \A x \in S : Rank(R, S, x) \in 0 .. Cardinality(S) - 1
         /\ \A x, y \in S : Rank(R, S, x) = Rank(R, S, y) => x = y
         /\ \A n \in 1 .. Cardinality(S) : \E x \in S : Rank(R, S, x) = n - 1
<1> DEFINE Below(x) == {y \in S : <<y, x>> \in R}
<1>1. Cardinality(S) \in Nat BY FS_CardinalityType
<1>2. ASSUME NEW x \in S
      PROVE  IsFiniteSet(Below(x)) /\ Rank(R, S, x) \in 0 .. Cardinality(S) - 1
  <2>1. IsFiniteSet(Below(x)) /\ Cardinality(Below(x)) <= Cardinality(S) BY FS_Subset
  <2>2. Cardinality(S) = Cardinality(Below(x)) => S = Below(x) BY FS_Subset
  <2>3. x \notin Below(x) BY DEF StrictOrder
  <2>4. Cardinality(Below(x)) # Cardinality(S) BY <2>2, <2>3
  <2>5. Cardinality(Below(x)) \in Nat BY <2>1, FS_CardinalityType
  <2> QED BY <1>1, <2>1, <2>4, <2>5 DEF Rank
<1>3. ASSUME NEW x \in S, NEW y \in S, <<x, y>> \in R
      PROVE  Rank(R, S, x) # Rank(R, S, y)
  <2>1. Below(x) \in SUBSET Below(y) BY <1>3 DEF StrictOrder
  <2>2. x \in Below(y) /\ x \notin Below(x) BY <1>3 DEF StrictOrder
  <2>3. Cardinality(Below(y)) = Cardinality(Below(x)) => Below(y) = Below(x)
    BY <1>2, <2>1, FS_Subset
  <2> QED BY <2>2, <2>3 DEF Rank
<1>4. ASSUME NEW x \in S, NEW y \in S, Rank(R, S, x) = Rank(R, S, y)
      PROVE  x = y
  BY <1>3, <1>4 DEF StrictOrder
<1>5. ASSUME NEW n \in 1 .. Cardinality(S) PROVE \E x \in S : Rank(R, S, x) = n - 1
  <2> DEFINE N == 0 .. Cardinality(S) - 1
             f == [x \in S |-> Rank(R, S, x)]
  <2>1. IsFiniteSet(N) /\ Cardinality(N) = Cardinality(S)
    <3>1. PICK last \in Int : last = Cardinality(S) - 1 BY <1>1
    <3>2. IsFiniteSet(0 .. last) /\ Cardinality(0 .. last) = IF 0 > last THEN 0 ELSE last - 0 + 1
      BY FS_Interval
    <3> QED BY <1>1, <3>1, <3>2
  <2>2. f \in [S -> N] BY <1>2
  <2>3. \A x, y \in S : f[x] = f[y] => x = y BY <1>4
  <2>4. n - 1 \in N BY <1>1
  <2>5. \A x \in S : f[x] = Rank(R, S, x) OBVIOUS
  <2> HIDE DEF N, f
  <2>6. f \in Injection(S, N) BY <2>2, <2>3 DEF Injection, IsInjective
  <2>7. f \in Surjection(S, N) BY <2>1, <2>6, FS_Injection
  <2>8. \E x \in S : f[x] = n - 1 BY <2>4, <2>7 DEF Surjection
  <2> QED BY <2>5, <2>8
<1> QED BY <1>2, <1>4, <1>5
=============================================================================

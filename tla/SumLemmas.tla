------------------------------ MODULE SumLemmas ------------------------------
(***************************************************************************)
(* Sums over finite sets: what SumFunctionOnSet of the community module    *)
(* Functions returns, as the totals of DealStats and Metrics are built     *)
(* from it.  Induction is over sets of naturals and sets of subsets: that  *)
(* a nonempty set of naturals has a least element is all it rests on.      *)
(***************************************************************************)
EXTENDS Integers, FiniteSets, Functions, FiniteSetTheorems, TLAPS

------------------------------------------------------------------------------
(* Induction.                                                              *)

\* A nonempty set of naturals has a least element.
LEMMA LeastNatural ==
  ASSUME NEW I \in SUBSET Nat, I # {}
  PROVE  \E x \in I : \A y \in I : x <= y
<1> DEFINE Less == {ss \in Nat \X Nat : ss[1] < ss[2]}
<1>1. IsWellFoundedOn(Less, Nat)
  BY NatLessThanWellFounded DEF OpToRel
<1>2. PICK x \in I : \A y \in I : ~(<<y, x>> \in Less)
  BY <1>1, WFMin
<1>3. ASSUME NEW y \in I PROVE x <= y
  <2>1. x \in Nat /\ y \in Nat
    OBVIOUS
  <2>2. ~(<<y, x>> \in Less)
    BY <1>2
  <2>3. ~(y < x)
    BY <2>1, <2>2
  <2> QED  BY <2>1, <2>3
<1> QED  BY <1>3

\* Induction over the naturals, for a set of them.
LEMMA NaturalsReached ==
  ASSUME NEW P, 0 \in P, \A n \in Nat : n \in P => n + 1 \in P
  PROVE  \A n \in Nat : n \in P
<1> SUFFICES ASSUME {n \in Nat : n \notin P} # {} PROVE FALSE
  OBVIOUS
<1>1. PICK n \in {k \in Nat : k \notin P} : \A k \in {j \in Nat : j \notin P} : n <= k
  <2>1. {k \in Nat : k \notin P} \in SUBSET Nat
    OBVIOUS
  <2> QED  BY <2>1, LeastNatural
<1>2. n \in Nat /\ n # 0 /\ n \notin P
  OBVIOUS
<1>3. n - 1 \in Nat /\ ~(n <= n - 1)
  BY <1>2
<1>4. n - 1 \in P
  BY <1>1, <1>3
<1>5. (n - 1) + 1 \in P
  BY <1>3, <1>4
<1> QED  BY <1>2, <1>5

\* The element the sum takes from a set first.
Pick(s) == CHOOSE x \in s : TRUE

\* The element picked is one of the set.
LEMMA PickIsIn == \A s : s # {} => Pick(s) \in s
BY DEF Pick

\* Induction over the subsets of a finite set, for a set of them.
LEMMA SubsetsReached ==
  ASSUME NEW S, IsFiniteSet(S), NEW P, {} \in P,
         \A s \in SUBSET S : s # {} /\ s \ {Pick(s)} \in P => s \in P
  PROVE  \A s \in SUBSET S : s \in P
<1> DEFINE N == {n \in Nat : \A s \in SUBSET S : Cardinality(s) = n => s \in P}
<1>1. \A s \in SUBSET S : IsFiniteSet(s) /\ Cardinality(s) \in Nat
  BY FS_Subset, FS_CardinalityType
<1>2. 0 \in N
  BY <1>1, FS_EmptySet
<1>3. ASSUME NEW n \in Nat, n \in N PROVE n + 1 \in N
  <2> SUFFICES ASSUME NEW s \in SUBSET S, Cardinality(s) = n + 1 PROVE s \in P
    OBVIOUS
  <2>1. s # {}
    BY FS_EmptySet
  <2>2. Pick(s) \in s /\ s \ {Pick(s)} \in SUBSET S
    BY <2>1, PickIsIn
  <2>3. Cardinality(s \ {Pick(s)}) = n
    BY <1>1, <2>2, FS_RemoveElement
  <2> QED  BY <1>3, <2>1, <2>2, <2>3
<1> HIDE DEF N
<1>4. \A n \in Nat : n \in N
  BY <1>2, <1>3, NaturalsReached
<1> QED  BY <1>1, <1>4 DEF N

------------------------------------------------------------------------------
(* The recursion of the sum has a solution.                                *)

\* f is the sum of fun over each of the sets D.
IsSumOn(f, fun, D) ==
  f = [s \in D |-> IF s = {} THEN 0 ELSE fun[Pick(s)] + f[s \ {Pick(s)}]]

UpTo(S, n) == {s \in SUBSET S : Cardinality(s) <= n}

\* Over the subsets of a finite set the sum is defined.
LEMMA SumExists ==
  ASSUME NEW S, IsFiniteSet(S), NEW fun
  PROVE  \E f : IsSumOn(f, fun, SUBSET S)
<1> DEFINE N == {n \in Nat : \E f : IsSumOn(f, fun, UpTo(S, n))}
<1>1. \A s \in SUBSET S : IsFiniteSet(s) /\ Cardinality(s) \in Nat
  BY FS_Subset, FS_CardinalityType
<1>2. 0 \in N
  <2> DEFINE f == [s \in UpTo(S, 0) |-> 0]
  <2>1. \A s \in UpTo(S, 0) : s = {}
    BY <1>1, FS_EmptySet DEF UpTo
  <2>2. IsSumOn(f, fun, UpTo(S, 0))
    BY <2>1 DEF IsSumOn
  <2> QED  BY <2>2
<1>3. ASSUME NEW n \in Nat, n \in N PROVE n + 1 \in N
  <2>1. PICK f : IsSumOn(f, fun, UpTo(S, n))
    BY <1>3
  <2> DEFINE g == [s \in UpTo(S, n + 1) |->
                     IF s = {} THEN 0 ELSE fun[Pick(s)] + f[s \ {Pick(s)}]]
  <2>2. \A s \in UpTo(S, n + 1) : s # {} => s \ {Pick(s)} \in UpTo(S, n)
    BY <1>1, PickIsIn, FS_RemoveElement DEF UpTo
  <2>3. \A s \in UpTo(S, n) : s \in UpTo(S, n + 1)
    BY <1>1 DEF UpTo
  <2>4. \A s \in UpTo(S, n) : f[s] = IF s = {} THEN 0 ELSE fun[Pick(s)] + f[s \ {Pick(s)}]
    BY <2>1 DEF IsSumOn
  <2>5. \A s \in UpTo(S, n) : g[s] = f[s]
    BY <2>3, <2>4
  <2>6. \A s \in UpTo(S, n + 1) :
           g[s] = IF s = {} THEN 0 ELSE fun[Pick(s)] + g[s \ {Pick(s)}]
    BY <2>2, <2>5
  <2>7. g = [s \in UpTo(S, n + 1) |-> g[s]]
    OBVIOUS
  <2> HIDE DEF g
  <2>8. IsSumOn(g, fun, UpTo(S, n + 1))
    BY <2>6, <2>7 DEF IsSumOn
  <2> QED  BY <2>8
<1>4. UpTo(S, Cardinality(S)) = SUBSET S
  BY FS_Subset DEF UpTo
<1> HIDE DEF N
<1>5. Cardinality(S) \in N
  BY <1>1, <1>2, <1>3, NaturalsReached
<1> QED  BY <1>4, <1>5 DEF N

\* f has the sum of fun over S, and how it is come by.
SumsUp(f, fun, S) ==
  /\ SumFunctionOnSet(fun, S) = f[S]
  /\ f[{}] = 0
  /\ \A s \in SUBSET S : s # {} => f[s] = fun[Pick(s)] + f[s \ {Pick(s)}]

\* SumFunctionOnSet is what the recursion computes, element by element.
LEMMA SumIsFold ==
  ASSUME NEW S, IsFiniteSet(S), NEW fun
  PROVE  \E f : SumsUp(f, fun, S)
<1> DEFINE Step(iter) == [s \in SUBSET S |->
                            IF s = {} THEN 0 ELSE fun[CHOOSE x \in s : TRUE]
                                                  + iter[s \ {CHOOSE x \in s : TRUE}]]
           f == CHOOSE iter : iter = Step(iter)
<1>1. SumFunctionOnSet(fun, S) = f[S]
  BY DEF SumFunctionOnSet, FoldFunctionOnSet, MapThenFoldSet
<1>2. \A iter : IsSumOn(iter, fun, SUBSET S) <=> iter = Step(iter)
  BY DEF IsSumOn, Pick
<1> HIDE DEF Step
<1>3. \E iter : iter = Step(iter)
  BY <1>2, SumExists
<1>4. f = Step(f)
  BY <1>3
<1> HIDE DEF f
<1>5. IsSumOn(f, fun, SUBSET S)
  BY <1>2, <1>4
<1>6. f[{}] = 0 /\ \A s \in SUBSET S : s # {} => f[s] = fun[Pick(s)] + f[s \ {Pick(s)}]
  BY <1>5 DEF IsSumOn
<1> QED  BY <1>1, <1>6 DEF SumsUp

------------------------------------------------------------------------------
(* What the sum over a finite set is.                                      *)

\* The sum of a function is that over its domain.
LEMMA SumIsOverDomain ==
  \A S, T : \A fun \in [S -> T] : SumFunction(fun) = SumFunctionOnSet(fun, S)
BY DEF SumFunction

\* The sum over no element is zero.
LEMMA SumEmpty == ASSUME NEW fun PROVE SumFunctionOnSet(fun, {}) = 0
BY SumIsFold, FS_EmptySet DEF SumsUp

\* A sum of naturals is a natural.
LEMMA SumType ==
  ASSUME NEW S, IsFiniteSet(S), NEW fun, \A x \in S : fun[x] \in Nat
  PROVE  SumFunctionOnSet(fun, S) \in Nat
<1>1. PICK f : SumsUp(f, fun, S)
  BY SumIsFold
<1> DEFINE P == {s \in SUBSET S : f[s] \in Nat}
<1>2. {} \in P
  BY <1>1 DEF SumsUp
<1>3. ASSUME NEW s \in SUBSET S, s # {}, s \ {Pick(s)} \in P PROVE s \in P
  <2>1. /\ Pick(s) \in S /\ s \ {Pick(s)} \in SUBSET S
        /\ f[s] = fun[Pick(s)] + f[s \ {Pick(s)}]
    BY <1>1, <1>3, PickIsIn DEF SumsUp
  <2> QED  BY <1>3, <2>1
<1> HIDE DEF P
<1>4. \A s \in SUBSET S : s \in P
  BY <1>2, <1>3, SubsetsReached
<1> QED  BY <1>1, <1>4 DEF SumsUp, P

\* A sum grows with its terms.
LEMMA SumMonotonic ==
  ASSUME NEW S, IsFiniteSet(S), NEW fun, NEW gun,
         \A x \in S : fun[x] \in Nat /\ gun[x] \in Nat /\ fun[x] <= gun[x]
  PROVE  SumFunctionOnSet(fun, S) <= SumFunctionOnSet(gun, S)
<1>1. PICK f : SumsUp(f, fun, S)
  BY SumIsFold
<1>2. PICK g : SumsUp(g, gun, S)
  BY SumIsFold
<1> DEFINE P == {s \in SUBSET S : f[s] \in Nat /\ g[s] \in Nat /\ f[s] <= g[s]}
<1>3. {} \in P
  BY <1>1, <1>2 DEF SumsUp
<1>4. ASSUME NEW s \in SUBSET S, s # {}, s \ {Pick(s)} \in P PROVE s \in P
  <2>1. /\ Pick(s) \in s /\ Pick(s) \in S
        /\ f[s] = fun[Pick(s)] + f[s \ {Pick(s)}]
    BY <1>1, <1>4, PickIsIn DEF SumsUp
  <2>2. g[s] = gun[Pick(s)] + g[s \ {Pick(s)}]
    BY <1>2, <1>4 DEF SumsUp
  <2> QED  BY <1>4, <2>1, <2>2 DEF P
<1> HIDE DEF P
<1>5. \A s \in SUBSET S : s \in P
  BY <1>3, <1>4, SubsetsReached
<1> QED  BY <1>1, <1>2, <1>5 DEF SumsUp, P

\* A sum of zeros is zero.
LEMMA SumOfZeros ==
  ASSUME NEW S, IsFiniteSet(S), NEW fun, \A x \in S : fun[x] = 0
  PROVE  SumFunctionOnSet(fun, S) = 0
<1>1. PICK f : SumsUp(f, fun, S)
  BY SumIsFold
<1> DEFINE P == {s \in SUBSET S : f[s] = 0}
<1>2. {} \in P
  BY <1>1 DEF SumsUp
<1>3. ASSUME NEW s \in SUBSET S, s # {}, s \ {Pick(s)} \in P PROVE s \in P
  <2>1. /\ Pick(s) \in S
        /\ f[s] = fun[Pick(s)] + f[s \ {Pick(s)}]
    BY <1>1, <1>3, PickIsIn DEF SumsUp
  <2> QED  BY <1>3, <2>1
<1> HIDE DEF P
<1>4. \A s \in SUBSET S : s \in P
  BY <1>2, <1>3, SubsetsReached
<1> QED  BY <1>1, <1>4 DEF SumsUp, P

\* Over S gun is fun with the term of p grown by d.
GrownAt(p, d, fun, gun, S) ==
  \A x \in S : fun[x] \in Nat /\ gun[x] = IF x = p THEN fun[x] + d ELSE fun[x]

\* If one term grows by d, so does the sum.
LEMMA SumBump ==
  ASSUME NEW S, IsFiniteSet(S), NEW fun, NEW gun, NEW p \in S, NEW d \in Nat,
         GrownAt(p, d, fun, gun, S)
  PROVE  SumFunctionOnSet(gun, S) = SumFunctionOnSet(fun, S) + d
<1>0. \A x \in S : fun[x] \in Nat /\ gun[x] = IF x = p THEN fun[x] + d ELSE fun[x]
  BY DEF GrownAt
<1>1. PICK f : SumsUp(f, fun, S)
  BY SumIsFold
<1>2. PICK g : SumsUp(g, gun, S)
  BY SumIsFold
<1> DEFINE P == {s \in SUBSET S : /\ f[s] \in Nat
                                  /\ g[s] = IF p \in s THEN f[s] + d ELSE f[s]}
<1>3. {} \in P
  BY <1>1, <1>2 DEF SumsUp
<1>4. ASSUME NEW s \in SUBSET S, s # {}, s \ {Pick(s)} \in P PROVE s \in P
  <2>1. /\ Pick(s) \in s /\ Pick(s) \in S
        /\ f[s] = fun[Pick(s)] + f[s \ {Pick(s)}]
    BY <1>1, <1>4, PickIsIn DEF SumsUp
  <2>2. g[s] = gun[Pick(s)] + g[s \ {Pick(s)}]
    BY <1>2, <1>4 DEF SumsUp
  <2>3. CASE p = Pick(s)
    BY <1>0, <1>4, <2>1, <2>2, <2>3
  <2>4. CASE p # Pick(s)
    BY <1>0, <1>4, <2>1, <2>2, <2>4
  <2> QED  BY <2>3, <2>4
<1> HIDE DEF P
<1>5. \A s \in SUBSET S : s \in P
  BY <1>3, <1>4, SubsetsReached
<1> QED  BY <1>1, <1>2, <1>5 DEF SumsUp, P

\* A finite set is as large as its classes together.
LEMMA SumOfClasses ==
  ASSUME NEW S, IsFiniteSet(S), NEW M, IsFiniteSet(M), NEW class
  PROVE  Cardinality({m \in M : class[m] \in S})
         = SumFunctionOnSet([x \in S |-> Cardinality({m \in M : class[m] = x})], S)
<1> DEFINE Of(s) == {m \in M : class[m] \in s}
           One(x) == {m \in M : class[m] = x}
           fun == [x \in S |-> Cardinality(One(x))]
<1>0. \A x \in S : fun[x] = Cardinality(One(x))
  OBVIOUS
<1> HIDE DEF fun
<1>1. PICK f : SumsUp(f, fun, S)
  BY SumIsFold
<1> DEFINE P == {s \in SUBSET S : f[s] = Cardinality(Of(s))}
<1>2. {} \in P
  <2>1. Of({}) = {}
    OBVIOUS
  <2> QED  BY <1>1, <2>1, FS_EmptySet DEF SumsUp
<1>3. ASSUME NEW s \in SUBSET S, s # {}, s \ {Pick(s)} \in P PROVE s \in P
  <2> DEFINE x == Pick(s)
             A == Of(s \ {x})
             B == One(x)
  <2>1. x \in s /\ x \in S /\ s \ {x} \in SUBSET S
    BY <1>3, PickIsIn
  <2>2. f[s] = fun[x] + f[s \ {x}]
    BY <1>1, <1>3, PickIsIn DEF SumsUp
  <2>3. Of(s) = A \cup B /\ A \cap B = {}
    BY <2>1
  <2>4. IsFiniteSet(A) /\ IsFiniteSet(B)
    <3>1. A \in SUBSET M /\ B \in SUBSET M
      OBVIOUS
    <3> QED  BY <3>1, FS_Subset
  <2>5. /\ Cardinality(A) \in Nat /\ Cardinality(B) \in Nat
        /\ Cardinality(A \cup B) = Cardinality(A) + Cardinality(B)
    <3> HIDE DEF A, B
    <3>1. Cardinality(A \cap B) = 0
      BY <2>3, FS_EmptySet
    <3>2. Cardinality(A) \in Nat /\ Cardinality(B) \in Nat
      BY <2>4, FS_CardinalityType
    <3>3. Cardinality(A \cup B) = Cardinality(A) + Cardinality(B) - Cardinality(A \cap B)
      BY <2>4, FS_Union
    <3> QED  BY <3>1, <3>2, <3>3
  <2>6. fun[x] = Cardinality(B)
    BY <1>0, <2>1
  <2>7. f[s \ {x}] = Cardinality(A)
    BY <1>3
  <2> HIDE DEF A, B, x, Of
  <2>8. f[s] = Cardinality(Of(s))
    BY <2>2, <2>3, <2>5, <2>6, <2>7
  <2> QED  BY <2>8
<1> HIDE DEF P
<1>4. \A s \in SUBSET S : s \in P
  BY <1>2, <1>3, SubsetsReached
<1>5. f[S] = Cardinality(Of(S))
  BY <1>4 DEF P
<1> QED  BY <1>1, <1>5 DEF SumsUp, fun
==============================================================================

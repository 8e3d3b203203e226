------------------------------ MODULE DataLemmas ------------------------------
(***************************************************************************)
(* Facts about the data the models compute with, for any size of it: what  *)
(* a sum over a finite set is, its greatest and its least element, how its *)
(* members rank, and what a fold from the left over a sequence keeps.      *)
(*                                                                         *)
(* Sums are the Functions module's SumFunctionOnSet(f, S), a fold.  What a *)
(* fold returns needs induction over the set, and the induction theorems   *)
(* of the library take the induction's formula as an operator, which no    *)
(* installed prover can instantiate.  Here the formula is a set instead:   *)
(* the numbers, or the subsets of S, that satisfy it.  Membership is       *)
(* first-order, so a lemma about every set can be cited like any other.    *)
(***************************************************************************)
EXTENDS Integers, Sequences, FiniteSets, FiniteSetsExt, SequencesExt, Functions,
        WellFoundedInduction, FiniteSetTheorems, TLAPS

(* A set of naturals that is not empty has a least member. *)
LEMMA LeastNat ==
    ASSUME NEW T \in SUBSET Nat, T # {}
    PROVE  \E n \in T : \A m \in T : n <= m
<1> DEFINE R == OpToRel(<, Nat)
<1>1. IsWellFoundedOn(R, Nat)  BY NatLessThanWellFounded
<1>2. \E x \in T : \A y \in T : ~ (<<y, x>> \in R)
  <2> HIDE DEF R
  <2> QED BY <1>1, WFMin
<1>3. PICK x \in T : \A y \in T : ~ (<<y, x>> \in R) BY <1>2
<1>4. ASSUME NEW m \in T PROVE x <= m
  <2>1. ~(m < x) BY <1>3 DEF R, OpToRel
  <2> QED BY <2>1
<1> QED BY <1>4

(* Induction over the naturals, for the members of a set T. *)
LEMMA NatSetInduction ==
    ASSUME NEW T, 0 \in T, \A n \in Nat : n \in T => n + 1 \in T
    PROVE  Nat \subseteq T
<1> SUFFICES ASSUME Nat \ T # {} PROVE FALSE OBVIOUS
<1>1. PICK n \in Nat \ T : \A m \in Nat \ T : n <= m BY LeastNat
<1>2. n # 0 /\ n - 1 \in Nat BY <1>1
<1>3. n - 1 \in T BY <1>1, <1>2
<1> QED BY <1>1, <1>2, <1>3

(* Induction over the subsets of a finite set: F holds every one of them
   if it holds a set whenever it holds that set less any one element. *)
LEMMA FiniteSetInduction ==
    ASSUME NEW S, IsFiniteSet(S), NEW F, {} \in F,
           \A s \in SUBSET S : s # {} /\ (\A x \in s : s \ {x} \in F) => s \in F
    PROVE  SUBSET S \subseteq F
<1> DEFINE T == {n \in Nat : \A s \in SUBSET S : Cardinality(s) = n => s \in F}
<1>1. 0 \in T
  BY FS_Subset, FS_EmptySet
<1>2. ASSUME NEW n \in Nat, n \in T PROVE n + 1 \in T
  <2> SUFFICES ASSUME NEW s \in SUBSET S, Cardinality(s) = n + 1 PROVE s \in F
    OBVIOUS
  <2>1. IsFiniteSet(s) BY FS_Subset
  <2>2. s # {}
    <3>1. Cardinality({}) = 0 BY FS_EmptySet
    <3>2. n + 1 # 0 OBVIOUS
    <3> QED BY <3>1, <3>2, Zenon
  <2>3. ASSUME NEW x \in s PROVE s \ {x} \in F
    <3>1. Cardinality(s \ {x}) = Cardinality(s) - 1 BY <2>1, FS_RemoveElement, Zenon
    <3>2. Cardinality(s \ {x}) = n
      <4> HIDE DEF T
      <4> QED BY <3>1
    <3> QED BY <1>2, <3>2
  <2> QED BY <2>2, <2>3
<1>3. Nat \subseteq T
  <2> HIDE DEF T
  <2> QED BY <1>1, <1>2, NatSetInduction
<1>4. ASSUME NEW s \in SUBSET S PROVE s \in F
  <2>1. IsFiniteSet(s) /\ Cardinality(s) \in Nat BY FS_Subset, FS_CardinalityType
  <2>2. Cardinality(s) \in T BY <1>3, <2>1
  <2> QED BY <2>2
<1> QED BY <1>4

(* The element a fold over s takes first. *)
Chosen(s) == CHOOSE x \in s : TRUE

(* g is the fold that sums f over every set in D. *)
PartSum(g, f, D) ==
    g = [s \in D |-> IF s = {} THEN 0 ELSE f[Chosen(s)] + g[s \ {Chosen(s)}]]

(* The element the fold takes out of a set is one of the set. *)
LEMMA ChosenIn == ASSUME NEW s, s # {} PROVE Chosen(s) \in s
  BY DEF Chosen

(* SumFunctionOnSet is that fold. *)
LEMMA SumUnfold ==
    ASSUME NEW f, NEW S
    PROVE  SumFunctionOnSet(f, S) = (CHOOSE g : PartSum(g, f, SUBSET S))[S]
  BY DEF SumFunctionOnSet, FoldFunctionOnSet, MapThenFoldSet, PartSum, Chosen

(* CHOOSE has a function to choose: the fold is defined up to any number
   of elements, one more at a time. *)
LEMMA PartSumExists ==
    ASSUME NEW S, IsFiniteSet(S), NEW f
    PROVE  \E g : PartSum(g, f, SUBSET S)
<1> DEFINE D(n) == {s \in SUBSET S : Cardinality(s) <= n}
           T == {n \in Nat : \E g : PartSum(g, f, D(n))}
<1>0. ASSUME NEW s \in SUBSET S
      PROVE  /\ IsFiniteSet(s) /\ Cardinality(s) \in Nat
             /\ Cardinality(s) = 0 <=> s = {}
  BY FS_Subset, FS_CardinalityType, FS_EmptySet
<1>1. 0 \in T
  <2> DEFINE g == [s \in D(0) |-> 0]
  <2>1. ASSUME NEW s \in D(0) PROVE s = {}
    BY <1>0
  <2>2. g = [s \in D(0) |-> IF s = {} THEN 0 ELSE f[Chosen(s)] + g[s \ {Chosen(s)}]]
    BY <2>1
  <2>3. PartSum(g, f, D(0))
    BY <2>2 DEF PartSum
  <2> QED  BY <2>3
<1>2. ASSUME NEW n \in Nat, n \in T PROVE n + 1 \in T
  <2>1. PICK g : PartSum(g, f, D(n))  BY <1>2
  <2> DEFINE h == [s \in D(n + 1) |->
                     IF s = {} THEN 0 ELSE f[Chosen(s)] + g[s \ {Chosen(s)}]]
  <2>2. ASSUME NEW s \in D(n) PROVE s \in D(n + 1) /\ h[s] = g[s]
    <3>1. s \in D(n + 1)
      <4>1. Cardinality(s) \in Nat BY <1>0
      <4> QED BY <4>1
    <3>2. g[s] = IF s = {} THEN 0 ELSE f[Chosen(s)] + g[s \ {Chosen(s)}]
      BY <2>1 DEF PartSum
    <3> QED  BY <3>1, <3>2
  <2>3. ASSUME NEW s \in D(n + 1), s # {} PROVE s \ {Chosen(s)} \in D(n)
    <3>1. Chosen(s) \in s BY <2>3, ChosenIn
    <3>2. Cardinality(s \ {Chosen(s)}) = Cardinality(s) - 1
      BY <3>1, <1>0, FS_RemoveElement, Zenon
    <3>3. Cardinality(s) \in Nat /\ Cardinality(s) <= n + 1  BY <1>0
    <3>4. Cardinality(s \ {Chosen(s)}) <= n  BY <3>2, <3>3
    <3> QED  BY <3>4
  <2>4. ASSUME NEW s \in D(n + 1), s # {}
        PROVE  h[s \ {Chosen(s)}] = g[s \ {Chosen(s)}]
    BY <2>2, <2>3, <2>4
  <2>5. h = [s \in D(n + 1) |->
               IF s = {} THEN 0 ELSE f[Chosen(s)] + h[s \ {Chosen(s)}]]
    BY <2>4
  <2>6. PartSum(h, f, D(n + 1))
    BY <2>5 DEF PartSum
  <2> HIDE DEF h
  <2>7. \E e : PartSum(e, f, D(n + 1))
    BY <2>6
  <2>8. n + 1 \in Nat  OBVIOUS
  <2> QED  BY <2>7, <2>8, Zenon
<1>3. Nat \subseteq T
  <2> HIDE DEF T
  <2> QED  BY <1>1, <1>2, NatSetInduction
<1>4. Cardinality(S) \in T
  BY <1>0, <1>3
<1>5. D(Cardinality(S)) = SUBSET S
  BY FS_Subset
<1> QED  BY <1>4, <1>5

(* g sums f over every subset of S. *)
IsSum(g, f, S) == PartSum(g, f, SUBSET S)

(* One unfolding of the fold. *)
LEMMA SumAt ==
    ASSUME NEW g, NEW f, NEW S, IsSum(g, f, S), NEW s, s \subseteq S
    PROVE  /\ s = {} => g[s] = 0
           /\ s # {} => g[s] = f[Chosen(s)] + g[s \ {Chosen(s)}]
  BY DEF PartSum, IsSum

(* The fold over a part of S is the fold over S, restricted. *)
LEMMA PartSumUnique ==
    ASSUME NEW S, NEW T, T \subseteq S, IsFiniteSet(T), NEW f, NEW g, NEW h,
           IsSum(g, f, S), IsSum(h, f, T)
    PROVE  \A s \in SUBSET T : g[s] = h[s]
<1> DEFINE F == {s \in SUBSET T : g[s] = h[s]}
<1>1. {} \in F
  BY SumAt
<1>2. ASSUME NEW s \in SUBSET T, s # {}, \A x \in s : s \ {x} \in F PROVE s \in F
  <2>1. Chosen(s) \in s  BY <1>2, ChosenIn
  <2>2. g[s \ {Chosen(s)}] = h[s \ {Chosen(s)}]  BY <1>2, <2>1
  <2>3. g[s] = f[Chosen(s)] + g[s \ {Chosen(s)}]
    <3>1. s \in SUBSET S  OBVIOUS
    <3> QED  BY <1>2, <3>1, SumAt
  <2>4. h[s] = f[Chosen(s)] + h[s \ {Chosen(s)}]  BY <1>2, SumAt
  <2> QED  BY <2>2, <2>3, <2>4
<1>3. SUBSET T \subseteq F
  <2> HIDE DEF F
  <2> QED  BY <1>1, <1>2, FiniteSetInduction
<1> QED  BY <1>3

(* Integers sum to an integer. *)
LEMMA PartSumInt ==
    ASSUME NEW S, IsFiniteSet(S), NEW f, \A x \in S : f[x] \in Int, NEW g,
           IsSum(g, f, S)
    PROVE  \A s \in SUBSET S : g[s] \in Int
<1> DEFINE F == {s \in SUBSET S : g[s] \in Int}
<1>1. {} \in F
  <2>1. {} \in SUBSET S  OBVIOUS
  <2>2. g[{}] = 0  BY <2>1, SumAt
  <2> QED  BY <2>2
<1>2. ASSUME NEW s \in SUBSET S, s # {}, \A x \in s : s \ {x} \in F PROVE s \in F
  <2>1. Chosen(s) \in s  BY <1>2, ChosenIn
  <2>2. g[s \ {Chosen(s)}] \in Int /\ f[Chosen(s)] \in Int  BY <1>2, <2>1
  <2>3. g[s] = f[Chosen(s)] + g[s \ {Chosen(s)}]  BY <1>2, SumAt
  <2> QED  BY <2>2, <2>3
<1>3. SUBSET S \subseteq F
  <2> HIDE DEF F
  <2> QED  BY <1>1, <1>2, FiniteSetInduction
<1> QED  BY <1>3

(* The order does not matter: any element may be the one taken out first. *)
LEMMA PartSumRemove ==
    ASSUME NEW S, IsFiniteSet(S), NEW f, \A x \in S : f[x] \in Int, NEW g,
           IsSum(g, f, S)
    PROVE  \A s \in SUBSET S : \A x \in s : g[s] = f[x] + g[s \ {x}]
<1> DEFINE F == {s \in SUBSET S : \A x \in s : g[s] = f[x] + g[s \ {x}]}
<1>1. {} \in F
  OBVIOUS
<1>2. ASSUME NEW s \in SUBSET S, s # {}, \A x \in s : s \ {x} \in F PROVE s \in F
  <2> SUFFICES ASSUME NEW x \in s PROVE g[s] = f[x] + g[s \ {x}]  OBVIOUS
  <2> DEFINE c == Chosen(s)
  <2>1. c \in s  BY <1>2, ChosenIn
  <2>2. g[s] = f[c] + g[s \ {c}]  BY <1>2, SumAt
  <2>3. CASE x = c  BY <2>2, <2>3
  <2>4. CASE x # c
    <3> DEFINE rest == g[(s \ {x}) \ {c}]
    <3>1. (s \ {c}) \ {x} = (s \ {x}) \ {c}  OBVIOUS
    <3>2. g[s \ {c}] = f[x] + rest
      <4>1. g[s \ {c}] = f[x] + g[(s \ {c}) \ {x}]  BY <1>2, <2>1, <2>4
      <4> QED  BY <3>1, <4>1
    <3>3. g[s \ {x}] = f[c] + rest  BY <1>2, <2>1, <2>4
    <3>4. f[x] \in Int /\ f[c] \in Int  BY <2>1
    <3>5. rest \in Int
      <4>1. (s \ {x}) \ {c} \subseteq S  OBVIOUS
      <4> QED  BY <4>1, PartSumInt
    <3> HIDE DEF c, rest
    <3> QED  BY <2>2, <3>2, <3>3, <3>4, <3>5
  <2> QED  BY <2>3, <2>4
<1>3. SUBSET S \subseteq F
  <2> HIDE DEF F
  <2> QED  BY <1>1, <1>2, FiniteSetInduction
<1> QED  BY <1>3

(* The sum is the value of such a fold at the whole set. *)
LEMMA SumIsPartSum ==
    ASSUME NEW S, IsFiniteSet(S), NEW f
    PROVE  \E g : IsSum(g, f, S) /\ SumFunctionOnSet(f, S) = g[S]
<1> DEFINE g == CHOOSE h : IsSum(h, f, S)
<1>1. IsSum(g, f, S)  BY PartSumExists DEF IsSum
<1>2. SumFunctionOnSet(f, S) = g[S]  BY SumUnfold DEF IsSum
<1> HIDE DEF g
<1> QED  BY <1>1, <1>2

(* The sum over nothing. *)
LEMMA SumEmpty == ASSUME NEW f PROVE SumFunctionOnSet(f, {}) = 0
<1>1. PICK g : IsSum(g, f, {}) /\ SumFunctionOnSet(f, {}) = g[{}]
  BY SumIsPartSum, FS_EmptySet
<1>2. g[{}] = 0  BY <1>1, SumAt
<1> QED  BY <1>1, <1>2

(* A sum of integers is an integer. *)
LEMMA SumInt ==
    ASSUME NEW S, IsFiniteSet(S), NEW f, \A x \in S : f[x] \in Int
    PROVE  SumFunctionOnSet(f, S) \in Int
<1>1. PICK g : IsSum(g, f, S) /\ SumFunctionOnSet(f, S) = g[S]
  BY SumIsPartSum
<1> QED  BY <1>1, PartSumInt

(* A sum is any one of its terms and the sum of the others. *)
LEMMA SumRemove ==
    ASSUME NEW S, IsFiniteSet(S), NEW f, \A x \in S : f[x] \in Int, NEW x \in S
    PROVE  SumFunctionOnSet(f, S) = f[x] + SumFunctionOnSet(f, S \ {x})
<1>0. IsFiniteSet(S \ {x})  BY FS_RemoveElement
<1>1. PICK g : IsSum(g, f, S) /\ SumFunctionOnSet(f, S) = g[S]
  BY SumIsPartSum
<1>2. PICK h : IsSum(h, f, S \ {x}) /\ SumFunctionOnSet(f, S \ {x}) = h[S \ {x}]
  BY <1>0, SumIsPartSum
<1>3. g[S] = f[x] + g[S \ {x}]
  <2>1. S \in SUBSET S  OBVIOUS
  <2> QED  BY <1>1, <2>1, PartSumRemove
<1>4. g[S \ {x}] = h[S \ {x}]
  <2>1. S \ {x} \subseteq S /\ S \ {x} \in SUBSET (S \ {x})  OBVIOUS
  <2> QED  BY <1>0, <1>1, <1>2, <2>1, PartSumUnique
<1> QED  BY <1>1, <1>2, <1>3, <1>4

(* A sum depends on its terms only. *)
LEMMA SumCong ==
    ASSUME NEW S, IsFiniteSet(S), NEW f, NEW g,
           \A x \in S : f[x] \in Int /\ f[x] = g[x]
    PROVE  SumFunctionOnSet(f, S) = SumFunctionOnSet(g, S)
<1> DEFINE F == {s \in SUBSET S : SumFunctionOnSet(f, s) = SumFunctionOnSet(g, s)}
<1>1. {} \in F  BY SumEmpty
<1>2. ASSUME NEW s \in SUBSET S, s # {}, \A x \in s : s \ {x} \in F PROVE s \in F
  <2>1. PICK x \in s : TRUE  BY <1>2
  <2>2. IsFiniteSet(s)  BY FS_Subset
  <2>3. SumFunctionOnSet(f, s) = f[x] + SumFunctionOnSet(f, s \ {x})
    BY <2>2, SumRemove
  <2>4. SumFunctionOnSet(g, s) = g[x] + SumFunctionOnSet(g, s \ {x})
    BY <2>2, SumRemove
  <2>5. SumFunctionOnSet(f, s \ {x}) = SumFunctionOnSet(g, s \ {x})  BY <1>2
  <2> QED  BY <2>3, <2>4, <2>5
<1>3. SUBSET S \subseteq F
  <2> HIDE DEF F
  <2> QED  BY <1>1, <1>2, FiniteSetInduction
<1> QED  BY <1>3

(* A sum of which one term changes. *)
LEMMA SumChange ==
    ASSUME NEW S, IsFiniteSet(S), NEW f, NEW g, NEW x \in S,
           \A y \in S : f[y] \in Int /\ g[y] \in Int,
           \A y \in S : y # x => g[y] = f[y]
    PROVE  SumFunctionOnSet(g, S) = SumFunctionOnSet(f, S) - f[x] + g[x]
<1>1. IsFiniteSet(S \ {x})  BY FS_RemoveElement
<1>2. SumFunctionOnSet(f, S) = f[x] + SumFunctionOnSet(f, S \ {x})  BY SumRemove
<1>3. SumFunctionOnSet(g, S) = g[x] + SumFunctionOnSet(g, S \ {x})  BY SumRemove
<1>4. SumFunctionOnSet(f, S \ {x}) = SumFunctionOnSet(g, S \ {x})  BY <1>1, SumCong
<1>5. SumFunctionOnSet(f, S \ {x}) \in Int  BY <1>1, SumInt
<1> QED  BY <1>2, <1>3, <1>4, <1>5

(* A sum of zeros. *)
LEMMA SumZero ==
    ASSUME NEW S, IsFiniteSet(S), NEW f, \A x \in S : f[x] = 0
    PROVE  SumFunctionOnSet(f, S) = 0
<1> DEFINE F == {s \in SUBSET S : SumFunctionOnSet(f, s) = 0}
<1>1. {} \in F  BY SumEmpty
<1>2. ASSUME NEW s \in SUBSET S, s # {}, \A x \in s : s \ {x} \in F PROVE s \in F
  <2>1. PICK x \in s : TRUE  BY <1>2
  <2>2. IsFiniteSet(s)  BY FS_Subset
  <2>3. SumFunctionOnSet(f, s) = f[x] + SumFunctionOnSet(f, s \ {x})
    BY <2>2, SumRemove
  <2>4. SumFunctionOnSet(f, s \ {x}) = 0  BY <1>2
  <2> QED  BY <2>3, <2>4
<1>3. SUBSET S \subseteq F
  <2> HIDE DEF F
  <2> QED  BY <1>1, <1>2, FiniteSetInduction
<1> QED  BY <1>3

(* Equal terms. *)
LEMMA SumConstant ==
    ASSUME NEW S, IsFiniteSet(S), NEW n \in Int, NEW f, \A x \in S : f[x] = n
    PROVE  SumFunctionOnSet(f, S) = n * Cardinality(S)
<1> DEFINE F == {s \in SUBSET S : SumFunctionOnSet(f, s) = n * Cardinality(s)}
<1>1. {} \in F
  <2>1. Cardinality({}) = 0 /\ n * 0 = 0  BY FS_EmptySet
  <2> QED  BY <2>1, SumEmpty
<1>2. ASSUME NEW s \in SUBSET S, s # {}, \A x \in s : s \ {x} \in F PROVE s \in F
  <2>1. PICK x \in s : TRUE  BY <1>2
  <2>2. IsFiniteSet(s) /\ Cardinality(s) \in Nat  BY FS_Subset, FS_CardinalityType
  <2>3. SumFunctionOnSet(f, s) = f[x] + SumFunctionOnSet(f, s \ {x})
    BY <2>2, SumRemove
  <2>4. SumFunctionOnSet(f, s \ {x}) = n * Cardinality(s \ {x}) /\ f[x] = n  BY <1>2
  <2>5. Cardinality(s \ {x}) = Cardinality(s) - 1  BY <2>2, FS_RemoveElement
  <2> DEFINE c == Cardinality(s)
  <2>6. n + n * (c - 1) = n * c
    <3> HIDE DEF c
    <3> QED  BY <2>2 DEF c
  <2>7. SumFunctionOnSet(f, s) = n * Cardinality(s)
    BY <2>3, <2>4, <2>5, <2>6
  <2> QED  BY <2>7
<1>3. SUBSET S \subseteq F
  <2> HIDE DEF F
  <2> QED  BY <1>1, <1>2, FiniteSetInduction
<1> QED  BY <1>3

(* The sum after one term has grown by n. *)
LEMMA SumAddAt ==
    ASSUME NEW S, IsFiniteSet(S), NEW f \in [S -> Int], NEW x \in S, NEW n \in Int
    PROVE  SumFunctionOnSet([f EXCEPT ![x] = @ + n], S)
             = SumFunctionOnSet(f, S) + n
<1> DEFINE g == [f EXCEPT ![x] = @ + n]
<1>1. \A y \in S : f[y] \in Int /\ g[y] \in Int
  OBVIOUS
<1>2. \A y \in S : y # x => g[y] = f[y]
  OBVIOUS
<1>3. g[x] = f[x] + n
  OBVIOUS
<1> HIDE DEF g
<1>4. SumFunctionOnSet(g, S) = SumFunctionOnSet(f, S) - f[x] + g[x]
  BY <1>1, <1>2, SumChange
<1>5. SumFunctionOnSet(f, S) \in Int
  BY <1>1, SumInt
<1>6. SumFunctionOnSet(g, S) = SumFunctionOnSet(f, S) + n
  BY <1>1, <1>3, <1>4, <1>5
<1> QED  BY <1>6 DEF g

(* Three sums compared term by term, the first of them over a part of the
   others' domain. *)
LEMMA SumBound ==
    ASSUME NEW S, IsFiniteSet(S), NEW T, T \subseteq S, NEW f, NEW g, NEW h,
           \A x \in S : g[x] \in Int /\ h[x] \in Int,
           \A x \in T : f[x] \in Int /\ f[x] + g[x] <= h[x],
           \A x \in S : x \notin T => g[x] <= h[x]
    PROVE  SumFunctionOnSet(f, T) + SumFunctionOnSet(g, S) <= SumFunctionOnSet(h, S)
<1> DEFINE A(s) == SumFunctionOnSet(f, T \cap s)
           B(s) == SumFunctionOnSet(g, s)
           C(s) == SumFunctionOnSet(h, s)
           F == {s \in SUBSET S : A(s) + B(s) <= C(s)}
<1>1. {} \in F
  <2>1. T \cap {} = {}  OBVIOUS
  <2>2. A({}) = 0 /\ B({}) = 0 /\ C({}) = 0  BY <2>1, SumEmpty
  <2> QED  BY <2>2
<1>2. ASSUME NEW s \in SUBSET S, s # {}, \A x \in s : s \ {x} \in F PROVE s \in F
  <2>1. PICK x \in s : TRUE  BY <1>2
  <2> DEFINE r == s \ {x}
  <2>2. IsFiniteSet(s) /\ IsFiniteSet(r) /\ IsFiniteSet(T \cap s) /\ IsFiniteSet(T \cap r)
    <3>1. s \subseteq S /\ r \subseteq S /\ T \cap s \subseteq S /\ T \cap r \subseteq S  OBVIOUS
    <3> QED  BY <3>1, FS_Subset
  <2>3. B(s) = g[x] + B(r) /\ C(s) = h[x] + C(r)
    BY <2>2, SumRemove
  <2>4. A(r) \in Int /\ B(r) \in Int /\ C(r) \in Int
    BY <2>2, SumInt
  <2>5. A(r) + B(r) <= C(r)  BY <1>2
  <2>6. CASE x \in T
    <3>1. (T \cap s) \ {x} = T \cap r  BY <2>6
    <3>2. SumFunctionOnSet(f, T \cap s) = f[x] + SumFunctionOnSet(f, (T \cap s) \ {x})
      <4>1. x \in T \cap s /\ \A y \in T \cap s : f[y] \in Int  BY <2>6
      <4> QED  BY <2>2, <4>1, SumRemove
    <3>3. A(s) = f[x] + A(r)  BY <3>1, <3>2
    <3>4. f[x] \in Int /\ g[x] \in Int /\ h[x] \in Int /\ f[x] + g[x] <= h[x]  BY <2>6
    <3> HIDE DEF A, B, C, r
    <3>5. A(s) + B(s) <= C(s)  BY <2>3, <2>4, <2>5, <3>3, <3>4
    <3> QED  BY <3>5 DEF F
  <2>7. CASE x \notin T
    <3>1. T \cap s = T \cap r  BY <2>7
    <3>2. A(s) = A(r)  BY <3>1
    <3>3. g[x] \in Int /\ h[x] \in Int /\ g[x] <= h[x]  BY <2>7
    <3> HIDE DEF A, B, C, r
    <3>4. A(s) + B(s) <= C(s)  BY <2>3, <2>4, <2>5, <3>2, <3>3
    <3> QED  BY <3>4 DEF F
  <2> QED  BY <2>6, <2>7
<1>3. SUBSET S \subseteq F
  <2> HIDE DEF F
  <2> QED  BY <1>1, <1>2, FiniteSetInduction
<1>4. S \in F  BY <1>3
<1>5. T \cap S = T  OBVIOUS
<1> QED  BY <1>4, <1>5

(* A sum of terms that are no greater is no greater. *)
LEMMA SumLess ==
    ASSUME NEW S, IsFiniteSet(S), NEW g, NEW h,
           \A x \in S : g[x] \in Int /\ h[x] \in Int /\ g[x] <= h[x]
    PROVE  SumFunctionOnSet(g, S) <= SumFunctionOnSet(h, S)
<1>1. SumFunctionOnSet(g, {}) + SumFunctionOnSet(g, S) <= SumFunctionOnSet(h, S)
  BY SumBound
<1>2. SumFunctionOnSet(g, {}) = 0  BY SumEmpty
<1>3. SumFunctionOnSet(g, S) \in Int  BY SumInt
<1> QED  BY <1>1, <1>2, <1>3

(* A sum of naturals is a natural. *)
LEMMA SumNat ==
    ASSUME NEW S, IsFiniteSet(S), NEW f, \A x \in S : f[x] \in Nat
    PROVE  SumFunctionOnSet(f, S) \in Nat
<1> DEFINE z == [x \in S |-> 0]
<1>1. SumFunctionOnSet(z, S) = 0  BY SumZero
<1>2. \A x \in S : z[x] \in Int /\ f[x] \in Int /\ z[x] <= f[x]  OBVIOUS
<1> HIDE DEF z
<1>3. SumFunctionOnSet(z, S) <= SumFunctionOnSet(f, S)  BY <1>2, SumLess
<1>4. SumFunctionOnSet(f, S) \in Int  BY SumInt
<1> QED  BY <1>1, <1>3, <1>4

-----------------------------------------------------------------------------
(* A part of a finite set is finite and no larger, and all of it when it   *)
(* is as large.                                                            *)
LEMMA SubCard ==
    ASSUME NEW S, IsFiniteSet(S), NEW T, T \subseteq S
    PROVE  /\ IsFiniteSet(T) /\ Cardinality(T) \in Nat /\ Cardinality(S) \in Nat
           /\ Cardinality(T) <= Cardinality(S)
           /\ Cardinality(S) = Cardinality(T) => S = T
<1>1. T \in SUBSET S
  OBVIOUS
<1>2. IsFiniteSet(T) /\ Cardinality(T) <= Cardinality(S)
      /\ (Cardinality(S) = Cardinality(T) => S = T)
  BY <1>1, FS_Subset
<1> QED  BY <1>2, FS_CardinalityType

(* Two finite sets without a common element are together as large as both. *)
LEMMA DisjointCard ==
    ASSUME NEW S, IsFiniteSet(S), NEW T, IsFiniteSet(T), S \cap T = {}
    PROVE  IsFiniteSet(S \cup T) /\ Cardinality(S \cup T) = Cardinality(S) + Cardinality(T)
<1>1. /\ IsFiniteSet(S \cup T)
      /\ Cardinality(S \cup T) = Cardinality(S) + Cardinality(T) - Cardinality(S \cap T)
  BY FS_Union
<1>2. Cardinality(S \cap T) = 0 /\ Cardinality(S) \in Nat /\ Cardinality(T) \in Nat
  BY FS_EmptySet, FS_CardinalityType
<1> QED  BY <1>1, <1>2

(* A finite set of integers that is not empty has a greatest one, which    *)
(* Max is.                                                                 *)
LEMMA FiniteMax ==
    ASSUME NEW S, IsFiniteSet(S), S \subseteq Int, S # {}
    PROVE  Max(S) \in S /\ \A y \in S : y <= Max(S)
<1> DEFINE F == {s \in SUBSET S : s # {} => \E m \in s : \A y \in s : m >= y}
<1>1. {} \in F
  OBVIOUS
<1>2. ASSUME NEW s \in SUBSET S, s # {}, \A x \in s : s \ {x} \in F PROVE s \in F
  <2>1. PICK x \in s : TRUE  BY <1>2
  <2>2. CASE s \ {x} = {}  BY <2>1, <2>2
  <2>3. CASE s \ {x} # {}
    <3>1. PICK m \in s \ {x} : \A y \in s \ {x} : m >= y  BY <1>2, <2>3
    <3>2. x \in Int /\ m \in Int  OBVIOUS
    <3>3. CASE m >= x  BY <3>1, <3>2, <3>3
    <3>4. CASE ~(m >= x)
      <4>1. ASSUME NEW y \in s PROVE x >= y
        <5>1. y \in Int  OBVIOUS
        <5> QED  BY <3>1, <3>2, <3>4, <5>1
      <4> QED  BY <4>1
    <3> QED  BY <3>3, <3>4
  <2> QED  BY <2>2, <2>3
<1>3. SUBSET S \subseteq F
  <2> HIDE DEF F
  <2> QED  BY <1>1, <1>2, FiniteSetInduction
<1>4. \E m \in S : \A y \in S : m >= y
  BY <1>3
<1>5. Max(S) \in S /\ \A y \in S : Max(S) >= y
  BY <1>4 DEF Max
<1> QED  BY <1>5

(* A finite set of integers that is not empty has a least one, which Min   *)
(* is.                                                                     *)
LEMMA FiniteMin ==
    ASSUME NEW S, IsFiniteSet(S), S \subseteq Int, S # {}
    PROVE  Min(S) \in S /\ \A y \in S : Min(S) <= y
<1> DEFINE F == {s \in SUBSET S : s # {} => \E m \in s : \A y \in s : m <= y}
<1>1. {} \in F
  OBVIOUS
<1>2. ASSUME NEW s \in SUBSET S, s # {}, \A x \in s : s \ {x} \in F PROVE s \in F
  <2>1. PICK x \in s : TRUE  BY <1>2
  <2>2. CASE s \ {x} = {}  BY <2>1, <2>2
  <2>3. CASE s \ {x} # {}
    <3>1. PICK m \in s \ {x} : \A y \in s \ {x} : m <= y  BY <1>2, <2>3
    <3>2. x \in Int /\ m \in Int  OBVIOUS
    <3>3. CASE m <= x  BY <3>1, <3>2, <3>3
    <3>4. CASE ~(m <= x)
      <4>1. ASSUME NEW y \in s PROVE x <= y
        <5>1. y \in Int  OBVIOUS
        <5> QED  BY <3>1, <3>2, <3>4, <5>1
      <4> QED  BY <4>1
    <3> QED  BY <3>3, <3>4
  <2> QED  BY <2>2, <2>3
<1>3. SUBSET S \subseteq F
  <2> HIDE DEF F
  <2> QED  BY <1>1, <1>2, FiniteSetInduction
<1>4. \E m \in S : \A y \in S : m <= y
  BY <1>3
<1> QED  BY <1>4 DEF Min

(* A greatest element is the one that Max chooses.                         *)
LEMMA MaxOf == ASSUME NEW S, NEW m \in Int, S \subseteq Int, m \in S, \A y \in S : m >= y
               PROVE Max(S) = m
<1>1. \A x \in S : (\A y \in S : x >= y) => x = m
  OBVIOUS
<1> QED  BY <1>1 DEF Max

(* A least element is the one that Min chooses.                            *)
LEMMA MinOf == ASSUME NEW S, NEW m \in Int, S \subseteq Int, m \in S, \A y \in S : m <= y
               PROVE Min(S) = m
<1>1. \A x \in S : (\A y \in S : x <= y) => x = m
  OBVIOUS
<1> QED  BY <1>1 DEF Min

(* The least and the greatest of a range are its ends.                     *)
LEMMA EndsOfRange ==
    ASSUME NEW a \in Int, NEW b \in Int, a <= b
    PROVE  Max(a..b) = b /\ Min(a..b) = a
<1>1. a..b \subseteq Int /\ a \in a..b /\ b \in a..b /\ \A y \in a..b : b >= y /\ a <= y
  OBVIOUS
<1> QED  BY <1>1, MaxOf, MinOf

------------------------------------------------------------------------------
(* Sums, two at a time and one entry at a time. *)

(* The sum of two sums.                                                    *)
LEMMA SumPlus ==
    ASSUME NEW S, IsFiniteSet(S), NEW f, NEW g, NEW h,
           \A x \in S : f[x] \in Int /\ g[x] \in Int /\ h[x] = f[x] + g[x]
    PROVE  SumFunctionOnSet(h, S) = SumFunctionOnSet(f, S) + SumFunctionOnSet(g, S)
<1> DEFINE F == {s \in SUBSET S :
                   SumFunctionOnSet(h, s) = SumFunctionOnSet(f, s) + SumFunctionOnSet(g, s)}
<1>1. {} \in F
  BY SumEmpty
<1>2. ASSUME NEW s \in SUBSET S, s # {}, \A x \in s : s \ {x} \in F PROVE s \in F
  <2>1. PICK x \in s : TRUE  BY <1>2
  <2>2. IsFiniteSet(s) /\ IsFiniteSet(s \ {x})  BY FS_Subset, FS_RemoveElement
  <2>0. \A y \in s : f[y] \in Int /\ g[y] \in Int /\ h[y] \in Int
    OBVIOUS
  <2>3. /\ SumFunctionOnSet(f, s) = f[x] + SumFunctionOnSet(f, s \ {x})
        /\ SumFunctionOnSet(g, s) = g[x] + SumFunctionOnSet(g, s \ {x})
        /\ SumFunctionOnSet(h, s) = h[x] + SumFunctionOnSet(h, s \ {x})
    BY <2>0, <2>2, SumRemove
  <2>4. SumFunctionOnSet(f, s \ {x}) \in Int /\ SumFunctionOnSet(g, s \ {x}) \in Int
    BY <2>0, <2>2, SumInt
  <2>5. SumFunctionOnSet(h, s \ {x}) = SumFunctionOnSet(f, s \ {x}) + SumFunctionOnSet(g, s \ {x})
    BY <1>2
  <2>6. f[x] \in Int /\ g[x] \in Int /\ h[x] = f[x] + g[x]
    OBVIOUS
  <2>7. SumFunctionOnSet(h, s) = SumFunctionOnSet(f, s) + SumFunctionOnSet(g, s)
    BY <2>3, <2>4, <2>5, <2>6
  <2> QED  BY <2>7
<1>3. SUBSET S \subseteq F
  <2> HIDE DEF F
  <2> QED  BY <1>1, <1>2, FiniteSetInduction
<1> QED  BY <1>3

(* A sum with one entry put in, changed or taken out.                      *)
LEMMA SumPut ==
    ASSUME NEW S, IsFiniteSet(S), NEW T, IsFiniteSet(T), NEW x, S \ {x} = T \ {x},
           NEW f, NEW g, \A y \in S : f[y] \in Int, \A y \in T : g[y] \in Int,
           \A y \in S \ {x} : f[y] = g[y]
    PROVE  SumFunctionOnSet(g, T) = SumFunctionOnSet(f, S)
             - (IF x \in S THEN f[x] ELSE 0) + (IF x \in T THEN g[x] ELSE 0)
<1> DEFINE R == SumFunctionOnSet(f, S \ {x})
<1>1. IsFiniteSet(S \ {x})  BY FS_RemoveElement
<1>2. R \in Int  BY <1>1, SumInt
<1>3. SumFunctionOnSet(g, T \ {x}) = R
  BY <1>1, SumCong
<1>4. SumFunctionOnSet(f, S) = R + (IF x \in S THEN f[x] ELSE 0)
  <2>1. CASE x \in S
    <3>1. SumFunctionOnSet(f, S) = f[x] + R /\ f[x] \in Int
      BY <2>1, SumRemove
    <3> HIDE DEF R
    <3> QED  BY <1>2, <2>1, <3>1
  <2>2. CASE x \notin S
    <3>1. S \ {x} = S  BY <2>2
    <3>2. SumFunctionOnSet(f, S) = R  BY <3>1
    <3> HIDE DEF R
    <3> QED  BY <1>2, <2>2, <3>2
  <2> QED  BY <2>1, <2>2
<1>5. SumFunctionOnSet(g, T) = R + (IF x \in T THEN g[x] ELSE 0)
  <2>1. CASE x \in T
    <3>1. SumFunctionOnSet(g, T) = g[x] + R /\ g[x] \in Int
      BY <1>3, <2>1, SumRemove
    <3> HIDE DEF R
    <3> QED  BY <1>2, <2>1, <3>1
  <2>2. CASE x \notin T
    <3>1. T \ {x} = T  BY <2>2
    <3>2. SumFunctionOnSet(g, T) = R  BY <1>3, <3>1
    <3> HIDE DEF R
    <3> QED  BY <1>2, <2>2, <3>2
  <2> QED  BY <2>1, <2>2
<1> HIDE DEF R
<1> QED  BY <1>2, <1>4, <1>5

(* A sum over indices, one index at a time. *)
LEMMA SumPrefix ==
    ASSUME NEW n \in Nat \ {0}, NEW f, \A i \in 1..n : f[i] \in Int
    PROVE  SumFunctionOnSet(f, 1..n) = SumFunctionOnSet(f, 1..(n - 1)) + f[n]
<1>1. IsFiniteSet(1..n) /\ IsFiniteSet(1..(n - 1)) /\ n \in 1..n /\ (1..n) \ {n} = 1..(n - 1)
  BY FS_Interval
<1>2. SumFunctionOnSet(f, 1..n) = f[n] + SumFunctionOnSet(f, 1..(n - 1))
  BY <1>1, SumRemove
<1>3. SumFunctionOnSet(f, 1..(n - 1)) \in Int
  BY <1>1, SumInt
<1> QED  BY <1>1, <1>2, <1>3

(* A sum over the indices of two sequences, one after the other. *)
Joined(h, f, m, g, n) ==
    /\ \A i \in 1..m : f[i] \in Int /\ h[i] = f[i]
    /\ \A i \in 1..n : g[i] \in Int /\ h[m + i] = g[i]

(* The sum over two sequences is the sum of their sums.                    *)
LEMMA SumConcat ==
    ASSUME NEW m \in Nat, NEW n \in Nat, NEW f, NEW g, NEW h, Joined(h, f, m, g, n)
    PROVE  SumFunctionOnSet(h, 1..(m + n)) = SumFunctionOnSet(f, 1..m) + SumFunctionOnSet(g, 1..n)
<1>j. /\ \A i \in 1..m : f[i] \in Int /\ h[i] = f[i]
      /\ \A i \in 1..n : g[i] \in Int /\ h[m + i] = g[i]
  BY DEF Joined
<1> DEFINE F == SumFunctionOnSet(f, 1..m)
           G(k) == SumFunctionOnSet(g, 1..k)
           H(k) == SumFunctionOnSet(h, 1..(m + k))
           T == {k \in Nat : k <= n => H(k) = F + G(k)}
<1>0. F \in Int /\ \A k \in Nat : k <= n => G(k) \in Int
  <2>1. \A k \in Nat : IsFiniteSet(1..k)
    BY FS_Interval
  <2> QED  BY <1>j, <2>1, SumInt
<1>1. ASSUME NEW i \in 1..(m + n) PROVE h[i] \in Int
  <2>1. CASE i <= m
    BY <1>j, <2>1
  <2>2. CASE i > m
    <3>1. i - m \in 1..n /\ m + (i - m) = i
      BY <2>2
    <3> QED  BY <1>j, <3>1
  <2> QED  BY <2>1, <2>2
<1>2. 0 \in T
  <2>1. G(0) = 0
    <3>1. 1..0 = {}
      OBVIOUS
    <3> QED  BY <3>1, SumEmpty
  <2>2. H(0) = F
    <3>1. m + 0 = m /\ IsFiniteSet(1..m)
      BY FS_Interval
    <3>2. SumFunctionOnSet(f, 1..m) = SumFunctionOnSet(h, 1..m)
      BY <1>j, <3>1, SumCong
    <3> QED  BY <3>1, <3>2
  <2> HIDE DEF F, G, H
  <2> QED  BY <1>0, <2>1, <2>2
<1>3. ASSUME NEW k \in Nat, k \in T PROVE k + 1 \in T
  <2> SUFFICES ASSUME k + 1 <= n PROVE H(k + 1) = F + G(k + 1)
    OBVIOUS
  <2>1. H(k + 1) = H(k) + h[m + (k + 1)]
    <3>1. m + (k + 1) \in Nat \ {0} /\ (m + (k + 1)) - 1 = m + k
          /\ \A i \in 1..(m + (k + 1)) : i \in 1..(m + n)
      OBVIOUS
    <3>2. \A i \in 1..(m + (k + 1)) : h[i] \in Int
      BY <1>1, <3>1
    <3> QED  BY <3>1, <3>2, SumPrefix
  <2>2. G(k + 1) = G(k) + g[k + 1]
    <3>1. k + 1 \in Nat \ {0} /\ (k + 1) - 1 = k /\ \A i \in 1..(k + 1) : i \in 1..n
      OBVIOUS
    <3> QED  BY <1>j, <3>1, SumPrefix
  <2>3. k + 1 \in 1..n /\ g[k + 1] \in Int /\ h[m + (k + 1)] = g[k + 1]
    BY <1>j
  <2>4. H(k) = F + G(k) /\ G(k) \in Int
    BY <1>0, <1>3
  <2> HIDE DEF F, G, H
  <2> QED  BY <1>0, <2>1, <2>2, <2>3, <2>4
<1>4. Nat \subseteq T
  <2> HIDE DEF T
  <2> QED  BY <1>2, <1>3, NatSetInduction
<1>5. n \in T
  <2> HIDE DEF T
  <2> QED  BY <1>4
<1> QED  BY <1>5

------------------------------------------------------------------------------
(* How many members of a set are below one of them, and loops over a set. *)

(* The smaller members of a set.                                           *)
Below(R, d) == {e \in R : e < d}

(* A greater number has more of them below it.                             *)
LEMMA LaterRank ==
    ASSUME NEW T, IsFiniteSet(T), T \subseteq Int, NEW d \in T, NEW e \in T, d < e
    PROVE  /\ Cardinality(Below(T, d)) \in Nat /\ Cardinality(Below(T, e)) \in Nat
           /\ Cardinality(Below(T, d)) < Cardinality(Below(T, e))
<1>1. d \in Int /\ e \in Int
  OBVIOUS
<1>2. Below(T, e) \subseteq T
  BY DEF Below
<1>3. IsFiniteSet(Below(T, e)) /\ Cardinality(Below(T, e)) \in Nat
  BY <1>2, SubCard
<1>4. d \in Below(T, e)
  BY DEF Below
<1>5. Below(T, d) \subseteq Below(T, e) \ {d}
  <2>1. ASSUME NEW f \in Below(T, d) PROVE f \in Below(T, e) \ {d}
    <3>1. f \in T /\ f \in Int /\ f < d  BY DEF Below
    <3> QED  BY <1>1, <3>1 DEF Below
  <2> QED  BY <2>1
<1>6. IsFiniteSet(Below(T, e) \ {d})
      /\ Cardinality(Below(T, e) \ {d}) = Cardinality(Below(T, e)) - 1
  BY <1>3, <1>4, FS_RemoveElement
<1>7. Cardinality(Below(T, d)) \in Nat
      /\ Cardinality(Below(T, d)) <= Cardinality(Below(T, e) \ {d})
  BY <1>5, <1>6, SubCard
<1> QED  BY <1>3, <1>6, <1>7

(* Two members with as many below them are one.                            *)
LEMMA SameRank ==
    ASSUME NEW T, IsFiniteSet(T), T \subseteq Int, NEW d \in T, NEW e \in T,
           Cardinality(Below(T, d)) = Cardinality(Below(T, e))
    PROVE  d = e
<1>1. ASSUME d < e PROVE FALSE
  <2>1. /\ Cardinality(Below(T, d)) \in Nat /\ Cardinality(Below(T, e)) \in Nat
        /\ Cardinality(Below(T, d)) < Cardinality(Below(T, e))
    BY <1>1, LaterRank
  <2> QED  BY <2>1
<1>2. ASSUME e < d PROVE FALSE
  <2>1. /\ Cardinality(Below(T, d)) \in Nat /\ Cardinality(Below(T, e)) \in Nat
        /\ Cardinality(Below(T, e)) < Cardinality(Below(T, d))
    BY <1>2, LaterRank
  <2> QED  BY <2>1
<1>3. d \in Int /\ e \in Int
  OBVIOUS
<1> QED  BY <1>1, <1>2, <1>3

(* For every number below how many there are, some element has so many     *)
(* below it.                                                               *)
LEMMA RankExists ==
    ASSUME NEW T, IsFiniteSet(T), T \subseteq Int, NEW r \in Nat, r < Cardinality(T)
    PROVE  \E d \in T : Cardinality(Below(T, d)) = r
<1> DEFINE n == Cardinality(T)
           R == 0..(n - 1)
           f == [d \in T |-> Cardinality(Below(T, d))]
<1>1. n \in Nat /\ r \in R
  BY FS_CardinalityType
<1>2. IsFiniteSet(R) /\ Cardinality(R) = n
  <2>1. 0 \in Int /\ n - 1 \in Int
    BY <1>1
  <2> HIDE DEF n
  <2>2. IsFiniteSet(R) /\ Cardinality(R) = IF 0 > n - 1 THEN 0 ELSE (n - 1) - 0 + 1
    BY <2>1, FS_Interval
  <2> QED  BY <1>1, <2>2
<1>3. ASSUME NEW d \in T PROVE Cardinality(Below(T, d)) \in R
  <2>1. d \notin Below(T, d) /\ Below(T, d) \subseteq T
    BY DEF Below
  <2>2. /\ Cardinality(Below(T, d)) \in Nat /\ Cardinality(Below(T, d)) <= n
        /\ n = Cardinality(Below(T, d)) => T = Below(T, d)
    BY <2>1, SubCard
  <2> HIDE DEF n
  <2> QED  BY <1>1, <2>1, <2>2
<1>4. f \in [T -> R]
  BY <1>3
<1>5. ASSUME NEW d \in T, NEW e \in T, f[d] = f[e] PROVE d = e
  <2>0. Cardinality(Below(T, d)) = Cardinality(Below(T, e))
    BY <1>5
  <2> HIDE DEF f
  <2> QED  BY <2>0, SameRank
<1> HIDE DEF R
<1>6. f \in Injection(T, R)
  <2> HIDE DEF f
  <2> QED  BY <1>4, <1>5 DEF Injection, IsInjective
<1>7. f \in Surjection(T, R)
  <2> HIDE DEF f
  <2> QED  BY <1>2, <1>6, FS_Injection
<1>8. \E d \in T : f[d] = r
  BY <1>1, <1>7 DEF Surjection
<1> QED  BY <1>8

(* The order in which a loop meets the elements of a set.                  *)
LEMMA SetToSeqIs ==
  ASSUME NEW S, IsFiniteSet(S)
  PROVE  /\ SetToSeq(S) \in [1..Cardinality(S) -> S] /\ Cardinality(S) \in Nat
         /\ DOMAIN SetToSeq(S) = 1..Cardinality(S)
<1>1. Cardinality(S) \in Nat /\ ExistsBijection(1..Cardinality(S), S)
  BY FS_CardinalityType
<1>2. \E f \in [1..Cardinality(S) -> S] : IsInjective(f)
  BY <1>1 DEF ExistsBijection, Bijection, Injection
<1>3. SetToSeq(S) \in [1..Cardinality(S) -> S]
  BY <1>2 DEF SetToSeq
<1> QED  BY <1>1, <1>3

(* A sequence of members of X that has each member of D once.              *)
Lists(s, X, D) ==
  /\ s \in Seq(X)
  /\ \A i \in 1..Len(s) : s[i] \in D
  /\ \A y \in D : \E i \in 1..Len(s) : s[i] = y
  /\ \A i, j \in 1..Len(s) : s[i] = s[j] => i = j

(* With a new one at its end.                                              *)
LEMMA NewAtTheEnd ==
  ASSUME NEW X, NEW D, NEW s, Lists(s, X, D), NEW x \in X, x \notin D, NEW t, t = Append(s, x)
  PROVE  Lists(t, X, D \cup {x})
<1>0. /\ s \in Seq(X)
      /\ \A i \in 1..Len(s) : s[i] \in D
      /\ \A y \in D : \E i \in 1..Len(s) : s[i] = y
      /\ \A i, j \in 1..Len(s) : s[i] = s[j] => i = j
  BY DEF Lists
<1> DEFINE n == Len(s)
<1>1. /\ t \in Seq(X) /\ n \in Nat /\ Len(t) = n + 1 /\ t[n + 1] = x
      /\ \A i \in 1..n : t[i] = s[i]
  BY <1>0
<1>2. \A i \in 1..Len(t) : i \in 1..n \/ i = n + 1
  BY <1>1
<1>3. \A i \in 1..n : i \in 1..Len(t)
  BY <1>1
<1>4. n + 1 \in 1..Len(t)
  BY <1>1
<1> HIDE DEF n
<1>5. \A i \in 1..n : t[i] \in D
  BY <1>0, <1>1 DEF n
<1>6. \A i \in 1..Len(t) : t[i] \in D \cup {x}
  BY <1>1, <1>2, <1>5
<1>7. \A y \in D \cup {x} : \E i \in 1..Len(t) : t[i] = y
  BY <1>0, <1>1, <1>3, <1>4 DEF n
<1>8. \A i, j \in 1..Len(t) : t[i] = t[j] => i = j
  BY <1>0, <1>1, <1>2, <1>5 DEF n
<1> QED  BY <1>1, <1>6, <1>7, <1>8 DEF Lists

------------------------------------------------------------------------------
(* Folds from the left.  Their step is a function here, so that an         *)
(* induction along a fold is first-order.                                  *)

(* One step of a fold from the left: the last index of a range is taken.   *)
LEMMA LastIndex ==
    ASSUME NEW k \in Nat \ {0}
    PROVE  Max(1..k) = k /\ (1..k) \ {Max(1..k)} = 1..(k - 1)
<1>1. Max(1..k) = k
  BY EndsOfRange
<1> QED  BY <1>1

(* The last of a set of indices is one of them. *)
LEMMA LastIn ==
    ASSUME NEW n \in Nat, NEW s \in SUBSET (1..n), s # {}
    PROVE  Max(s) \in s /\ Max(s) \in 1..n /\ s \ {Max(s)} \in SUBSET (1..n)
<1>1. IsFiniteSet(s) /\ s \subseteq Int
  <2>1. IsFiniteSet(1..n)
    BY FS_Interval
  <2>2. IsFiniteSet(s)
    BY <2>1, FS_Subset
  <2> QED  BY <2>2
<1>2. Max(s) \in s
  BY <1>1, FiniteMax
<1> QED  BY <1>2

(* A fold whose steps stay in V, up to a number of elements. *)
PartFold(g, st, base, D) ==
    g = [s \in D |-> IF s = {} THEN base ELSE st[<<g[s \ {Max(s)}], Max(s)>>]]

(* A fold over the indices 1..n exists, and its values are in V if its     *)
(* steps are.                                                              *)
LEMMA FoldExists ==
    ASSUME NEW n \in Nat, NEW V, NEW base \in V, NEW st \in [V \X (1..n) -> V]
    PROVE  \E g \in [SUBSET (1..n) -> V] : PartFold(g, st, base, SUBSET (1..n))
<1> DEFINE S == 1..n
           D(m) == {s \in SUBSET S : Cardinality(s) <= m}
           T == {m \in Nat : \E g \in [D(m) -> V] : PartFold(g, st, base, D(m))}
<1>f. IsFiniteSet(S) /\ Cardinality(S) \in Nat
  BY FS_Interval, FS_CardinalityType
<1>0. ASSUME NEW s \in SUBSET S
      PROVE  /\ IsFiniteSet(s) /\ Cardinality(s) \in Nat
             /\ Cardinality(s) = 0 <=> s = {}
  BY <1>f, FS_Subset, FS_CardinalityType, FS_EmptySet
<1>1. 0 \in T
  <2> DEFINE g == [s \in D(0) |-> base]
  <2>1. ASSUME NEW s \in D(0) PROVE s = {}
    BY <1>0
  <2>2. g = [s \in D(0) |-> IF s = {} THEN base ELSE st[<<g[s \ {Max(s)}], Max(s)>>]]
    BY <2>1
  <2>3. PartFold(g, st, base, D(0)) /\ g \in [D(0) -> V]
    BY <2>2 DEF PartFold
  <2> QED  BY <2>3
<1>2. ASSUME NEW m \in Nat, m \in T PROVE m + 1 \in T
  <2>1. PICK g \in [D(m) -> V] : PartFold(g, st, base, D(m))  BY <1>2
  <2> DEFINE h == [s \in D(m + 1) |->
                     IF s = {} THEN base ELSE st[<<g[s \ {Max(s)}], Max(s)>>]]
  <2>2. ASSUME NEW s \in D(m) PROVE s \in D(m + 1) /\ h[s] = g[s]
    <3>1. s \in D(m + 1)
      <4>1. Cardinality(s) \in Nat BY <1>0
      <4> QED BY <4>1
    <3>2. g[s] = IF s = {} THEN base ELSE st[<<g[s \ {Max(s)}], Max(s)>>]
      BY <2>1 DEF PartFold
    <3> QED  BY <3>1, <3>2
  <2>3. ASSUME NEW s \in D(m + 1), s # {} PROVE s \ {Max(s)} \in D(m) /\ Max(s) \in S
    <3>1. Max(s) \in s /\ Max(s) \in S BY <2>3, LastIn
    <3>2. Cardinality(s \ {Max(s)}) = Cardinality(s) - 1
      BY <3>1, <1>0, FS_RemoveElement, Zenon
    <3>3. Cardinality(s) \in Nat /\ Cardinality(s) <= m + 1  BY <1>0
    <3>4. Cardinality(s \ {Max(s)}) <= m  BY <3>2, <3>3
    <3> QED  BY <3>1, <3>4
  <2>4. ASSUME NEW s \in D(m + 1), s # {}
        PROVE  h[s \ {Max(s)}] = g[s \ {Max(s)}] /\ h[s] \in V
    <3>1. h[s \ {Max(s)}] = g[s \ {Max(s)}]
      BY <2>2, <2>3, <2>4
    <3>2. g[s \ {Max(s)}] \in V /\ Max(s) \in S
      BY <2>3, <2>4
    <3>3. h[s] = st[<<g[s \ {Max(s)}], Max(s)>>]
      BY <2>4
    <3>4. h[s] \in V
      <4> HIDE DEF h, D
      <4> QED  BY <3>2, <3>3
    <3> QED  BY <3>1, <3>4
  <2>5. h = [s \in D(m + 1) |-> IF s = {} THEN base ELSE st[<<h[s \ {Max(s)}], Max(s)>>]]
    BY <2>4
  <2>6. PartFold(h, st, base, D(m + 1))
    BY <2>5 DEF PartFold
  <2>7. h \in [D(m + 1) -> V]
    <3>1. ASSUME NEW s \in D(m + 1) PROVE h[s] \in V
      BY <2>4
    <3> QED  BY <3>1
  <2> HIDE DEF h
  <2>8. \E e \in [D(m + 1) -> V] : PartFold(e, st, base, D(m + 1))
    BY <2>6, <2>7
  <2>9. m + 1 \in Nat  OBVIOUS
  <2> QED  BY <2>8, <2>9, Zenon
<1>3. Nat \subseteq T
  <2> HIDE DEF T
  <2> QED  BY <1>1, <1>2, NatSetInduction
<1>4. Cardinality(S) \in T
  BY <1>f, <1>3
<1>5. D(Cardinality(S)) = SUBSET S
  BY <1>f, FS_Subset
<1> QED  BY <1>4, <1>5

(* fold takes the step st from a value in V, for every set of indices.     *)
FoldsBy(fold, st, base, V, n) ==
    /\ fold[{}] = base
    /\ \A s \in SUBSET (1..n) : s # {} /\ fold[s \ {Max(s)}] \in V =>
         fold[s] = st[<<fold[s \ {Max(s)}], Max(s)>>]

(* g goes from base to last in n steps.                                    *)
IsChain(g, st, base, V, n, last) ==
    /\ g \in [0..n -> V] /\ g[0] = base /\ g[n] = last
    /\ \A k \in 1..n : g[k] = st[<<g[k - 1], k>>]

(* What a fold over the indices 1..n computes, index by index.             *)
LEMMA FoldChain ==
    ASSUME NEW n \in Nat, NEW V, NEW base \in V, NEW st \in [V \X (1..n) -> V], NEW fold,
           FoldsBy(fold, st, base, V, n)
    PROVE  \E g : IsChain(g, st, base, V, n, fold[1..n])
<1>0. /\ fold[{}] = base
      /\ \A s \in SUBSET (1..n) : s # {} /\ fold[s \ {Max(s)}] \in V =>
           fold[s] = st[<<fold[s \ {Max(s)}], Max(s)>>]
  BY DEF FoldsBy
<1> DEFINE g == [k \in 0..n |-> fold[1..k]]
           T == {k \in Nat : k \in 0..n => g[k] \in V}
<1>1. g[0] = base /\ g[n] = fold[1..n]
  BY <1>0
<1>2. ASSUME NEW k \in 1..n, g[k - 1] \in V PROVE g[k] = st[<<g[k - 1], k>>] /\ g[k] \in V
  <2>1. k \in Nat \ {0} /\ 1 \in 1..k /\ k - 1 \in 0..n
    OBVIOUS
  <2>2. 1..k \in SUBSET (1..n)
    OBVIOUS
  <2>3. Max(1..k) = k /\ (1..k) \ {Max(1..k)} = 1..(k - 1)
    BY <2>1, LastIndex
  <2>4. g[k] = fold[1..k] /\ g[k - 1] = fold[1..(k - 1)]
    BY <2>1
  <2> HIDE DEF g
  <2>5. g[k] = st[<<g[k - 1], k>>]
    BY <1>0, <1>2, <2>1, <2>2, <2>3, <2>4
  <2> QED  BY <1>2, <2>5
<1>3. Nat \subseteq T
  <2>1. 0 \in T
    BY <1>1
  <2>2. ASSUME NEW k \in Nat, k \in T PROVE k + 1 \in T
    <3>1. SUFFICES ASSUME k + 1 \in 0..n PROVE g[k + 1] \in V
      OBVIOUS
    <3>2. k \in 0..n /\ k + 1 \in 1..n /\ (k + 1) - 1 = k
      BY <3>1
    <3> HIDE DEF g
    <3>3. g[k] \in V
      BY <2>2, <3>2
    <3> QED  BY <1>2, <3>2, <3>3
  <2> HIDE DEF T
  <2> QED  BY <2>1, <2>2, NatSetInduction
<1>4. ASSUME NEW k \in 0..n PROVE g[k] \in V
  <2>1. k \in T
    <3> HIDE DEF T
    <3> QED  BY <1>3
  <2> HIDE DEF g
  <2> QED  BY <2>1
<1>5. g \in [0..n -> V] /\ \A k \in 1..n : g[k - 1] \in V
  <2>1. \A k \in 1..n : k - 1 \in 0..n
    OBVIOUS
  <2>2. g = [k \in 0..n |-> g[k]]
    OBVIOUS
  <2> HIDE DEF g
  <2> QED  BY <1>4, <2>1, <2>2
<1> HIDE DEF g
<1> QED  BY <1>1, <1>2, <1>5 DEF IsChain

(* An induction along a fold: its result is in V, in which every step      *)
(* stays, and in W[n], if the i-th step leads from W[i - 1] to W[i].       *)
Follows(st, V, W, n) ==
    \A v \in V, i \in 1..n : v \in W[i - 1] => st[<<v, i>>] \in W[i]

LEMMA FoldFollows ==
    ASSUME NEW n \in Nat, NEW V, NEW base \in V, NEW st \in [V \X (1..n) -> V], NEW fold,
           FoldsBy(fold, st, base, V, n), NEW W, base \in W[0], Follows(st, V, W, n)
    PROVE  fold[1..n] \in V /\ fold[1..n] \in W[n]
<1>1. PICK g : IsChain(g, st, base, V, n, fold[1..n])
  BY FoldChain
<1>2. /\ g \in [0..n -> V] /\ g[0] = base /\ g[n] = fold[1..n]
      /\ \A k \in 1..n : g[k] = st[<<g[k - 1], k>>]
  BY <1>1 DEF IsChain
<1> DEFINE T == {k \in Nat : k \in 0..n => g[k] \in W[k]}
<1>3. Nat \subseteq T
  <2>1. 0 \in T
    BY <1>2
  <2>2. ASSUME NEW k \in Nat, k \in T PROVE k + 1 \in T
    <3>1. SUFFICES ASSUME k + 1 \in 0..n PROVE g[k + 1] \in W[k + 1]
      OBVIOUS
    <3>2. k \in 0..n /\ k + 1 \in 1..n /\ (k + 1) - 1 = k
      BY <3>1
    <3>3. g[k] \in V /\ g[k] \in W[k] /\ g[k + 1] = st[<<g[k], k + 1>>]
      BY <1>2, <2>2, <3>2
    <3> QED  BY <3>2, <3>3 DEF Follows
  <2> HIDE DEF T
  <2> QED  BY <2>1, <2>2, NatSetInduction
<1>4. n \in T
  <2> HIDE DEF T
  <2> QED  BY <1>3
<1> QED  BY <1>2, <1>4

(* A sum of which every term is multiplied by the same number. *)
LEMMA SumScale ==
    ASSUME NEW S, IsFiniteSet(S), NEW n \in Int, NEW f, NEW g,
           \A x \in S : f[x] \in Int /\ g[x] = n * f[x]
    PROVE  SumFunctionOnSet(g, S) = n * SumFunctionOnSet(f, S)
<1> DEFINE F == {s \in SUBSET S : SumFunctionOnSet(g, s) = n * SumFunctionOnSet(f, s)}
<1>1. {} \in F
  BY SumEmpty
<1>2. ASSUME NEW s \in SUBSET S, s # {}, \A x \in s : s \ {x} \in F PROVE s \in F
  <2>1. PICK x \in s : TRUE  BY <1>2
  <2> DEFINE A == SumFunctionOnSet(f, s \ {x})
             y == f[x]
  <2>2. IsFiniteSet(s) /\ IsFiniteSet(s \ {x})  BY FS_Subset, FS_RemoveElement
  <2>3. \A z \in s : f[z] \in Int /\ g[z] \in Int  OBVIOUS
  <2>4. SumFunctionOnSet(f, s) = y + A /\ SumFunctionOnSet(g, s) = g[x] + SumFunctionOnSet(g, s \ {x})
    BY <2>2, <2>3, SumRemove
  <2>5. A \in Int /\ y \in Int /\ g[x] = n * y  BY <2>2, <2>3, SumInt
  <2>6. SumFunctionOnSet(g, s \ {x}) = n * A  BY <1>2
  <2> HIDE DEF A, y
  <2>7. n * y + n * A = n * (y + A)  BY <2>5
  <2> QED  BY <2>4, <2>5, <2>6, <2>7
<1>3. SUBSET S \subseteq F
  <2> HIDE DEF F
  <2> QED  BY <1>1, <1>2, FiniteSetInduction
<1> QED  BY <1>3

(* Shares of a whole add up to no more than the whole: what each x takes,  *)
(* times the sum of the weights, is at most its weight's part of e.        *)
LEMMA SharesOfWhole ==
    ASSUME NEW S, IsFiniteSet(S), NEW T, T \subseteq S, NEW w, \A x \in S : w[x] \in Nat,
           NEW e \in Nat, NEW W \in Nat \ {0}, SumFunctionOnSet(w, S) <= W,
           NEW k, \A x \in T : k[x] \in Int /\ W * k[x] <= e * w[x]
    PROVE  SumFunctionOnSet(k, T) <= e
<1> DEFINE f == [x \in T |-> W * k[x]]
           z == [x \in S |-> 0]
           h == [x \in S |-> e * w[x]]
           A == SumFunctionOnSet(k, T)
           B == SumFunctionOnSet(w, S)
<1>1. IsFiniteSet(T)  BY FS_Subset
<1>2. SumFunctionOnSet(f, T) = W * A /\ A \in Int
  <2>1. \A x \in T : k[x] \in Int /\ f[x] = W * k[x]  OBVIOUS
  <2> HIDE DEF f
  <2> QED  BY <1>1, <2>1, SumScale, SumInt
<1>3. SumFunctionOnSet(h, S) = e * B /\ B \in Nat
  <2>1. \A x \in S : w[x] \in Int /\ h[x] = e * w[x]  OBVIOUS
  <2> HIDE DEF h
  <2> QED  BY <2>1, SumScale, SumNat
<1>4. SumFunctionOnSet(z, S) = 0  BY SumZero
<1>5. /\ \A x \in S : z[x] = 0 /\ h[x] \in Nat
      /\ \A x \in T : f[x] \in Int /\ f[x] <= h[x]
  <2>1. ASSUME NEW x \in S PROVE h[x] \in Nat  OBVIOUS
  <2>2. ASSUME NEW x \in T PROVE f[x] \in Int /\ f[x] <= h[x]  OBVIOUS
  <2> QED  BY <2>1, <2>2
<1> HIDE DEF f, z, h
<1>6. SumFunctionOnSet(f, T) + SumFunctionOnSet(z, S) <= SumFunctionOnSet(h, S)
  <2>1. \A x \in S : z[x] \in Int /\ h[x] \in Int /\ z[x] <= h[x]  BY <1>5
  <2>2. \A x \in T : f[x] \in Int /\ f[x] + z[x] <= h[x]
    <3>1. ASSUME NEW x \in T PROVE f[x] \in Int /\ f[x] + z[x] <= h[x]
      <4>1. z[x] = 0 /\ f[x] \in Int /\ f[x] <= h[x] /\ h[x] \in Nat  BY <1>5
      <4> QED  BY <4>1
    <3> QED  BY <3>1
  <2> QED  BY <2>1, <2>2, SumBound
<1> HIDE DEF A, B
<1>7. W * A <= e * B
  <2>1. W * A \in Int  BY <1>2
  <2> QED  BY <1>2, <1>3, <1>4, <1>6, <2>1
<1>8. e * B <= e * W  BY <1>3 DEF B
<1>9. W * A <= W * e
  <2>1. W * A \in Int /\ e * B \in Int /\ e * W \in Int /\ e * W = W * e  BY <1>2, <1>3
  <2> QED  BY <1>7, <1>8, <2>1
<1>10. A <= e
  <2>1. SUFFICES ASSUME A >= e + 1 PROVE FALSE  BY <1>2
  <2>2. W * A >= W * (e + 1)  BY <1>2, <2>1
  <2>3. W * (e + 1) = W * e + W  OBVIOUS
  <2>4. W * A \in Int /\ W * e \in Int  BY <1>2
  <2> QED  BY <1>9, <2>2, <2>3, <2>4
<1> QED  BY <1>10 DEF A
==============================================================================

----------------------------- MODULE SumLemmas -----------------------------
(***************************************************************************)
(* Lemmas about SumFunction, the sum of a function's values over a finite  *)
(* domain.  SumFunction is recursive over the sets of indices.  That the   *)
(* recursion has a solution, and what it computes, is shown by least       *)
(* counterexamples: a set of bad numbers, if it is not empty, has a least  *)
(* element.                                                                *)
(***************************************************************************)
EXTENDS Integers, FiniteSets, Functions, FiniteSetTheorems,
        WellFoundedInduction, TLAPS

(* A set of natural numbers has a least element. *)
LEMMA NatLeast ==
  ASSUME NEW T \in SUBSET Nat, T # {}
  PROVE  \E x \in T : \A y \in T : x <= y
<1>1. PICK x \in T : \A y \in T : ~ (<<y, x>> \in OpToRel(<, Nat))
  BY NatLessThanWellFounded, WFMin, Zenon
<1>2. \A y \in T : ~(y < x)
  BY <1>1, Zenon DEF OpToRel
<1> QED
  BY <1>2

(* A set that contains 0, and n + 1 with every n, is all of Nat. *)
LEMMA Induction ==
  ASSUME NEW Good, 0 \in Good, \A n \in Nat : n \in Good => n + 1 \in Good
  PROVE  Nat \subseteq Good
<1> SUFFICES ASSUME Nat \ Good # {} PROVE FALSE
  OBVIOUS
<1>1. PICK n \in Nat \ Good : \A m \in Nat \ Good : n <= m
  <2>1. Nat \ Good \in SUBSET Nat
    OBVIOUS
  <2> QED
    BY <2>1, NatLeast
<1>2. n - 1 \in Nat /\ n - 1 \notin Nat \ Good
  BY <1>1
<1> QED
  BY <1>1, <1>2

(* The same for the subsets of a finite set, from smaller to larger ones.  *)
LEMMA SetInduction ==
  ASSUME NEW S, IsFiniteSet(S), NEW Good, {} \in Good,
         \A T \in SUBSET S :
           T # {} /\ (\A x \in T : T \ {x} \in Good) => T \in Good
  PROVE  SUBSET S \subseteq Good
<1> DEFINE All(n) == \A T \in SUBSET S : Cardinality(T) = n => T \in Good
           Ns == {n \in Nat : All(n)}
<1>1. \A T \in SUBSET S : IsFiniteSet(T) /\ Cardinality(T) \in Nat
  BY FS_Subset, FS_CardinalityType
<1>2. 0 \in Ns
  <2>1. \A T \in SUBSET S : Cardinality(T) = 0 => T = {}
    BY <1>1, FS_EmptySet
  <2> QED
    BY <2>1
<1>3. ASSUME NEW n \in Nat, All(n) PROVE All(n + 1)
  <2> SUFFICES ASSUME NEW T \in SUBSET S, Cardinality(T) = n + 1 PROVE T \in Good
    OBVIOUS
  <2>1. T # {}
    BY FS_EmptySet
  <2>2. ASSUME NEW x \in T PROVE T \ {x} \in Good
    <3>1. IsFiniteSet(T)
      BY <1>1
    <3>2. Cardinality(T \ {x}) = Cardinality(T) - 1
      BY <3>1, FS_RemoveElement
    <3>3. Cardinality(T \ {x}) = n /\ T \ {x} \in SUBSET S
      BY <3>2
    <3> QED
      BY <1>3, <3>3
  <2> QED
    BY <2>1, <2>2
<1>4. \A n \in Nat : n \in Ns => n + 1 \in Ns
  <2> HIDE DEF All
  <2> QED
    BY <1>3
<1>5. Nat \subseteq Ns
  <2> HIDE DEF Ns
  <2> QED
    BY <1>2, <1>4, Induction
<1>6. \A n \in Nat : All(n)
  <2> HIDE DEF All
  <2> QED
    BY <1>5
<1> QED
  BY <1>1, <1>6

-----------------------------------------------------------------------------
(* The recursion of SumFunction.                                           *)

Pick(T) == CHOOSE x \in T : TRUE

(* G[T] is the sum of f over T, for the sets T of a family. *)
Sums(G, f, family) ==
  G = [T \in family |-> IF T = {} THEN 0 ELSE f[Pick(T)] + G[T \ {Pick(T)}]]

LEMMA PickType ==
  ASSUME NEW T, T # {}
  PROVE  Pick(T) \in T
  BY DEF Pick

(* SumFunction takes one solution of the recursion. *)
LEMMA SumUnfolds ==
  ASSUME NEW f, NEW S, DOMAIN f = S
  PROVE  SumFunction(f) = (CHOOSE G : Sums(G, f, SUBSET S))[S]
  BY Zenon DEF SumFunction, SumFunctionOnSet, FoldFunctionOnSet, MapThenFoldSet, Sums, Pick

(* There is one. *)
LEMMA SumsExist ==
  ASSUME NEW f, NEW S, IsFiniteSet(S)
  PROVE  \E G : Sums(G, f, SUBSET S)
<1> DEFINE Upto(n) == {T \in SUBSET S : Cardinality(T) <= n}
           Exists(n) == \E G : Sums(G, f, Upto(n))
           Ns == {n \in Nat : Exists(n)}
<1>1. \A T \in SUBSET S : /\ IsFiniteSet(T) /\ Cardinality(T) \in Nat
                          /\ Cardinality(T) <= Cardinality(S)
  BY FS_Subset, FS_CardinalityType
<1>2. \A T \in SUBSET S : \A x \in T : Cardinality(T \ {x}) = Cardinality(T) - 1
  BY <1>1, FS_RemoveElement
<1>3. Exists(0)
  <2>1. \A T \in Upto(0) : T = {}
    BY <1>1, FS_EmptySet
  <2>2. Sums([T \in Upto(0) |-> 0], f, Upto(0))
    BY <2>1 DEF Sums
  <2> QED
    BY <2>2
<1>4. ASSUME NEW n \in Nat, Exists(n) PROVE Exists(n + 1)
  <2>1. PICK G : Sums(G, f, Upto(n))
    BY <1>4
  <2> DEFINE H == [T \in Upto(n + 1) |->
                     IF T = {} THEN 0 ELSE f[Pick(T)] + G[T \ {Pick(T)}]]
  <2>2. \A T \in Upto(n) : G[T] = IF T = {} THEN 0 ELSE f[Pick(T)] + G[T \ {Pick(T)}]
    BY <2>1 DEF Sums
  <2>3. \A T \in Upto(n) : T \in Upto(n + 1)
    BY <1>1
  <2>4. \A T \in Upto(n) : H[T] = G[T]
    BY <2>2, <2>3
  <2>5. \A T \in Upto(n + 1) : T # {} => T \ {Pick(T)} \in Upto(n)
    <3> SUFFICES ASSUME NEW T \in Upto(n + 1), T # {} PROVE T \ {Pick(T)} \in Upto(n)
      OBVIOUS
    <3>1. Pick(T) \in T
      BY PickType
    <3>2. Cardinality(T \ {Pick(T)}) = Cardinality(T) - 1
      BY <1>2, <3>1
    <3> QED
      BY <1>1, <3>2
  <2>6. \A T \in Upto(n + 1) : T # {} => H[T \ {Pick(T)}] = G[T \ {Pick(T)}]
    BY <2>4, <2>5
  <2> HIDE DEF Upto
  <2>7. H = [T \in Upto(n + 1) |->
               IF T = {} THEN 0 ELSE f[Pick(T)] + H[T \ {Pick(T)}]]
    BY <2>6
  <2> QED
    BY <2>7 DEF Sums
<1>5. Nat \subseteq Ns
  <2>1. 0 \in Ns /\ \A n \in Nat : n \in Ns => n + 1 \in Ns
    <3> HIDE DEF Exists
    <3> QED
      BY <1>3, <1>4
  <2> HIDE DEF Ns
  <2> QED
    BY <2>1, Induction
<1>6. Cardinality(S) \in Nat /\ Upto(Cardinality(S)) = SUBSET S
  BY <1>1
<1>7. Exists(Cardinality(S))
  <2> HIDE DEF Exists
  <2> QED
    BY <1>5, <1>6
<1> QED
  BY <1>6, <1>7

(* It is the only one. *)
LEMMA SumsUnique ==
  ASSUME NEW S, IsFiniteSet(S), NEW f, NEW G, NEW H, NEW F1, NEW F2,
         SUBSET S \subseteq F1, SUBSET S \subseteq F2,
         Sums(G, f, F1), Sums(H, f, F2)
  PROVE  G[S] = H[S]
<1> DEFINE Good == {T \in SUBSET S : G[T] = H[T]}
<1>1. \A T \in SUBSET S : G[T] = IF T = {} THEN 0 ELSE f[Pick(T)] + G[T \ {Pick(T)}]
  BY DEF Sums
<1>2. \A T \in SUBSET S : H[T] = IF T = {} THEN 0 ELSE f[Pick(T)] + H[T \ {Pick(T)}]
  BY DEF Sums
<1>3. {} \in Good
  BY <1>1, <1>2
<1>4. ASSUME NEW T \in SUBSET S, T # {}, \A x \in T : T \ {x} \in Good
      PROVE  T \in Good
  <2>1. Pick(T) \in T
    BY <1>4, PickType
  <2>2. G[T \ {Pick(T)}] = H[T \ {Pick(T)}]
    BY <1>4, <2>1
  <2> QED
    BY <1>1, <1>2, <1>4, <2>2
<1> HIDE DEF Good
<1>5. SUBSET S \subseteq Good
  BY <1>3, <1>4, SetInduction
<1> QED
  BY <1>5 DEF Good

(* All sums of parts of f, in one function. *)
Parts(G, f, S) == \A T \in SUBSET S : G[T] = SumFunction([x \in T |-> f[x]])

LEMMA PartSums ==
  ASSUME NEW S, IsFiniteSet(S), NEW f
  PROVE  \E G : Sums(G, f, SUBSET S) /\ Parts(G, f, S)
<1>1. PICK G : Sums(G, f, SUBSET S)
  BY SumsExist
<1>2. ASSUME NEW T \in SUBSET S PROVE G[T] = SumFunction([x \in T |-> f[x]])
  <2> DEFINE h == [x \in T |-> f[x]]
             H == CHOOSE H : Sums(H, h, SUBSET T)
  <2>1. IsFiniteSet(T)
    BY FS_Subset
  <2>2. Sums(H, h, SUBSET T)
    BY <2>1, SumsExist
  <2>3. SumFunction(h) = H[T]
    <3>1. DOMAIN h = T
      OBVIOUS
    <3> HIDE DEF h
    <3> QED
      BY <3>1, SumUnfolds
  <2> HIDE DEF H
  <2>4. \A U \in SUBSET T : U # {} => h[Pick(U)] = f[Pick(U)]
    <3> SUFFICES ASSUME NEW U \in SUBSET T, U # {} PROVE h[Pick(U)] = f[Pick(U)]
      OBVIOUS
    <3>1. Pick(U) \in T
      BY PickType
    <3> QED
      BY <3>1
  <2> HIDE DEF h
  <2>5. Sums(H, f, SUBSET T)
    BY <2>2, <2>4 DEF Sums
  <2>6. G[T] = H[T]
    BY <1>1, <2>1, <2>5, SumsUnique
  <2> QED
    BY <2>3, <2>6 DEF h
<1>3. Parts(G, f, S)
  BY <1>2 DEF Parts
<1> QED
  BY <1>1, <1>3

-----------------------------------------------------------------------------
(* What SumFunction computes.                                              *)

(* Nothing to add up. *)
LEMMA SumEmpty ==
  ASSUME NEW f, DOMAIN f = {}
  PROVE  SumFunction(f) = 0
<1> DEFINE G == CHOOSE G : Sums(G, f, SUBSET {})
<1>1. IsFiniteSet({})
  BY FS_EmptySet
<1>2. Sums(G, f, SUBSET {})
  BY <1>1, SumsExist
<1>3. SumFunction(f) = G[{}]
  BY SumUnfolds
<1> HIDE DEF G
<1> QED
  BY <1>2, <1>3 DEF Sums

(* Sums of integers are integers. *)
LEMMA SumsType ==
  ASSUME NEW S, IsFiniteSet(S), NEW f \in [S -> Int], NEW G, Sums(G, f, SUBSET S)
  PROVE  G \in [SUBSET S -> Int]
<1> DEFINE Good == {T \in SUBSET S : G[T] \in Int}
<1>1. \A T \in SUBSET S : G[T] = IF T = {} THEN 0 ELSE f[Pick(T)] + G[T \ {Pick(T)}]
  BY DEF Sums
<1>2. {} \in Good
  <2>1. G[{}] = 0
    BY <1>1
  <2> QED
    BY <2>1
<1>3. ASSUME NEW T \in SUBSET S, T # {}, \A x \in T : T \ {x} \in Good
      PROVE  T \in Good
  <2>1. Pick(T) \in T
    BY <1>3, PickType
  <2>2. f[Pick(T)] \in Int /\ G[T \ {Pick(T)}] \in Int
    BY <1>3, <2>1
  <2>3. G[T] = f[Pick(T)] + G[T \ {Pick(T)}]
    BY <1>1, <1>3
  <2> QED
    BY <2>2, <2>3
<1> HIDE DEF Good
<1>4. SUBSET S \subseteq Good
  BY <1>2, <1>3, SetInduction
<1>5. \A T \in SUBSET S : G[T] \in Int
  BY <1>4 DEF Good
<1> DEFINE D == [T \in SUBSET S |-> IF T = {} THEN 0 ELSE f[Pick(T)] + G[T \ {Pick(T)}]]
<1>6. G = D
  BY DEF Sums
<1>7. \A T \in SUBSET S : D[T] \in Int
  BY <1>5, <1>6
<1>8. D \in [SUBSET S -> Int]
  BY <1>7
<1> QED
  BY <1>6, <1>8

(* The order of the summands does not matter. *)
AnyOrder(G, f, S) == \A T \in SUBSET S : \A x \in T : G[T] = f[x] + G[T \ {x}]

LEMMA SumsOrder ==
  ASSUME NEW S, IsFiniteSet(S), NEW f \in [S -> Int], NEW G, Sums(G, f, SUBSET S)
  PROVE  AnyOrder(G, f, S)
<1> DEFINE Good == {T \in SUBSET S : \A x \in T : G[T] = f[x] + G[T \ {x}]}
<1>1. \A T \in SUBSET S : T # {} => G[T] = f[Pick(T)] + G[T \ {Pick(T)}]
  BY DEF Sums
<1>2. G \in [SUBSET S -> Int]
  BY SumsType
<1>3. {} \in Good
  OBVIOUS
<1>4. ASSUME NEW T \in SUBSET S, T # {}, \A x \in T : T \ {x} \in Good
      PROVE  T \in Good
  <2> DEFINE p == Pick(T)
  <2>1. p \in T
    BY <1>4, PickType
  <2>2. G[T] = f[p] + G[T \ {p}]
    BY <1>1, <1>4
  <2> HIDE DEF p
  <2>3. ASSUME NEW x \in T, x # p PROVE G[T] = f[x] + G[T \ {x}]
    <3> DEFINE R == (T \ {x}) \ {p}
    <3>1. x \in T \ {p} /\ p \in T \ {x} /\ (T \ {p}) \ {x} = R
      BY <2>1, <2>3
    <3>2. T \ {p} \in Good /\ T \ {x} \in Good
      BY <1>4, <2>1
    <3>3. G[T \ {p}] = f[x] + G[R]
      BY <3>1, <3>2
    <3>4. G[T \ {x}] = f[p] + G[R]
      BY <3>1, <3>2
    <3>5. R \in SUBSET S /\ x \in S /\ p \in S
      BY <2>1
    <3> HIDE DEF R, Good
    <3>6. G[R] \in Int /\ f[x] \in Int /\ f[p] \in Int
      BY <1>2, <3>5
    <3> QED
      BY <2>2, <3>3, <3>4, <3>6
  <2> QED
    BY <2>2, <2>3
<1> HIDE DEF Good
<1>5. SUBSET S \subseteq Good
  BY <1>3, <1>4, SetInduction
<1> QED
  BY <1>5 DEF Good, AnyOrder

-----------------------------------------------------------------------------
(* Tables of partial sums: the lemmas below name a table and read off its   *)
(* last entry.                                                             *)

Adds(H, f, S) == /\ H \in [SUBSET S -> Int]
                 /\ H[{}] = 0
                 /\ AnyOrder(H, f, S)

LEMMA Tables ==
  ASSUME NEW S, IsFiniteSet(S), NEW f \in [S -> Int]
  PROVE  \E H : Adds(H, f, S) /\ Parts(H, f, S)
<1>1. PICK G : Sums(G, f, SUBSET S) /\ Parts(G, f, S)
  BY PartSums
<1>2. G \in [SUBSET S -> Int] /\ AnyOrder(G, f, S)
  BY <1>1, SumsType, SumsOrder
<1>3. G[{}] = 0
  BY <1>1 DEF Sums
<1> QED
  BY <1>1, <1>2, <1>3 DEF Adds

LEMMA TableParts ==
  ASSUME NEW S, IsFiniteSet(S), NEW f \in [S -> Int], NEW H, Adds(H, f, S)
  PROVE  Parts(H, f, S)
<1>1. PICK G : Adds(G, f, S) /\ Parts(G, f, S)
  BY Tables
<1> DEFINE Good == {T \in SUBSET S : G[T] = H[T]}
<1>2. {} \in Good
  BY <1>1 DEF Adds
<1>3. ASSUME NEW T \in SUBSET S, T # {}, \A x \in T : T \ {x} \in Good
      PROVE  T \in Good
  <2>1. PICK x \in T : TRUE
    BY <1>3
  <2>2. G[T \ {x}] = H[T \ {x}]
    BY <1>3, <2>1
  <2>3. G[T] = f[x] + G[T \ {x}] /\ H[T] = f[x] + H[T \ {x}]
    BY <1>1, <2>1 DEF Adds, AnyOrder
  <2> QED
    BY <2>2, <2>3
<1> HIDE DEF Good
<1>4. SUBSET S \subseteq Good
  BY <1>2, <1>3, SetInduction
<1>5. \A T \in SUBSET S : H[T] = G[T]
  BY <1>4 DEF Good
<1>6. \A T \in SUBSET S : G[T] = SumFunction([x \in T |-> f[x]])
  BY <1>1, Zenon DEF Parts
<1> QED
  BY <1>5, <1>6, Zenon DEF Parts

LEMMA Total ==
  ASSUME NEW S, IsFiniteSet(S), NEW f \in [S -> Int], NEW H, Adds(H, f, S)
  PROVE  SumFunction(f) = H[S]
<1>1. Parts(H, f, S)
  BY TableParts
<1>2. S \in SUBSET S /\ f = [x \in S |-> f[x]]
  OBVIOUS
<1> QED
  BY <1>1, <1>2, Zenon DEF Parts

(* The sum of a function is an integer. *)
LEMMA SumType ==
  ASSUME NEW S, IsFiniteSet(S), NEW f \in [S -> Int]
  PROVE  SumFunction(f) \in Int
<1>1. PICK H : Adds(H, f, S)
  BY Tables
<1>2. SumFunction(f) = H[S]
  BY <1>1, Total
<1> QED
  BY <1>1, <1>2 DEF Adds

(* One summand can be taken out. *)
Drops(g, f, x, S) == /\ f \in [S -> Int] /\ x \in S
                     /\ g \in [S \ {x} -> Int]
                     /\ \A y \in S \ {x} : g[y] = f[y]

LEMMA SumRemove ==
  ASSUME NEW S, IsFiniteSet(S), NEW f, NEW x, NEW g, Drops(g, f, x, S)
  PROVE  SumFunction(f) = f[x] + SumFunction(g)
<1> USE DEF Drops
<1>1. PICK H : Adds(H, f, S) /\ Parts(H, f, S)
  BY Tables
<1>2. SumFunction(f) = H[S]
  BY <1>1, Total
<1>3. S \in SUBSET S /\ S \ {x} \in SUBSET S
  OBVIOUS
<1>4. H[S \ {x}] = SumFunction(g)
  <2>1. H[S \ {x}] = SumFunction([y \in S \ {x} |-> f[y]])
    BY <1>1, <1>3, Zenon DEF Parts
  <2>2. g = [y \in S \ {x} |-> f[y]]
    OBVIOUS
  <2> QED
    BY <2>1, <2>2
<1>5. H[S] = f[x] + H[S \ {x}]
  BY <1>1, <1>3 DEF Adds, AnyOrder
<1> QED
  BY <1>2, <1>4, <1>5

(* Zeros add up to zero. *)
LEMMA SumZero ==
  ASSUME NEW S, IsFiniteSet(S), NEW f \in [S -> Int], \A x \in S : f[x] = 0
  PROVE  SumFunction(f) = 0
<1> DEFINE H == [T \in SUBSET S |-> 0]
<1>1. Adds(H, f, S)
  BY DEF Adds, AnyOrder
<1>2. H[S] = 0
  OBVIOUS
<1> HIDE DEF H
<1> QED
  BY <1>1, <1>2, Total

(* A sum of natural numbers is one, and it is zero only if they all are.   *)
LEMMA SumNat ==
  ASSUME NEW S, IsFiniteSet(S), NEW f \in [S -> Nat]
  PROVE  /\ SumFunction(f) \in Nat
         /\ SumFunction(f) = 0 <=> \A x \in S : f[x] = 0
<1>1. PICK H : Adds(H, f, S)
  BY Tables
<1>2. f \in [S -> Int] /\ S \in SUBSET S
  OBVIOUS
<1>3. SumFunction(f) = H[S]
  BY <1>1, <1>2, Total
<1> DEFINE Good == {T \in SUBSET S : /\ H[T] \in Nat
                                     /\ H[T] = 0 <=> \A x \in T : f[x] = 0}
<1>4. {} \in Good
  BY <1>1 DEF Adds
<1>5. ASSUME NEW T \in SUBSET S, T # {}, \A x \in T : T \ {x} \in Good
      PROVE  T \in Good
  <2>1. PICK x \in T : TRUE
    BY <1>5
  <2>2. H[T] = f[x] + H[T \ {x}]
    BY <1>1, <2>1 DEF Adds, AnyOrder
  <2>3. H[T \ {x}] \in Nat /\ (H[T \ {x}] = 0 <=> \A y \in T \ {x} : f[y] = 0)
    BY <1>5, <2>1
  <2>4. f[x] \in Nat
    BY <2>1
  <2>5. H[T] \in Nat
    BY <2>2, <2>3, <2>4
  <2>6. H[T] = 0 <=> f[x] = 0 /\ H[T \ {x}] = 0
    BY <2>2, <2>3, <2>4
  <2>7. (\A y \in T : f[y] = 0) <=> f[x] = 0 /\ \A y \in T \ {x} : f[y] = 0
    BY <2>1
  <2> QED
    BY <2>3, <2>5, <2>6, <2>7
<1> HIDE DEF Good
<1>6. SUBSET S \subseteq Good
  BY <1>4, <1>5, SetInduction
<1> QED
  BY <1>2, <1>3, <1>6 DEF Good

(* A sum can be split into two, point by point. *)
IsPlus(h, f, g, S) == /\ f \in [S -> Int] /\ g \in [S -> Int] /\ h \in [S -> Int]
                      /\ \A x \in S : h[x] = f[x] + g[x]

LEMMA SumPlus ==
  ASSUME NEW S, IsFiniteSet(S), NEW f, NEW g, NEW h, IsPlus(h, f, g, S)
  PROVE  SumFunction(h) = SumFunction(f) + SumFunction(g)
<1> USE DEF IsPlus
<1>1. PICK F : Adds(F, f, S)
  BY Tables
<1>2. PICK G : Adds(G, g, S)
  BY Tables
<1> DEFINE H == [T \in SUBSET S |-> F[T] + G[T]]
<1>3. Adds(H, h, S)
  <2>1. H \in [SUBSET S -> Int]
    BY <1>1, <1>2 DEF Adds
  <2>2. H[{}] = 0
    BY <1>1, <1>2 DEF Adds
  <2>3. ASSUME NEW T \in SUBSET S, NEW x \in T
        PROVE  H[T] = h[x] + H[T \ {x}]
    <3>1. F[T] = f[x] + F[T \ {x}] /\ G[T] = g[x] + G[T \ {x}]
      BY <1>1, <1>2 DEF Adds, AnyOrder
    <3>2. f[x] \in Int /\ g[x] \in Int /\ F[T \ {x}] \in Int /\ G[T \ {x}] \in Int
      BY <1>1, <1>2 DEF Adds
    <3>3. T \ {x} \in SUBSET S /\ h[x] = f[x] + g[x]
      OBVIOUS
    <3>4. H[T] = F[T] + G[T] /\ H[T \ {x}] = F[T \ {x}] + G[T \ {x}]
      BY <3>3
    <3> QED
      BY <3>1, <3>2, <3>3, <3>4
  <2> QED
    BY <2>1, <2>2, <2>3 DEF Adds, AnyOrder
<1>4. H[S] = F[S] + G[S]
  OBVIOUS
<1>5. SumFunction(f) = F[S] /\ SumFunction(g) = G[S]
  BY <1>1, <1>2, Total
<1>6. SumFunction(h) = H[S]
  <2> HIDE DEF H
  <2> QED
    BY <1>3, <1>4, Total
<1> QED
  BY <1>4, <1>5, <1>6

(* A common factor can be taken out. *)
IsTimes(h, f, k, S) == /\ f \in [S -> Int] /\ k \in Int /\ h \in [S -> Int]
                       /\ \A x \in S : h[x] = f[x] * k

LEMMA SumTimes ==
  ASSUME NEW S, IsFiniteSet(S), NEW f, NEW k, NEW h, IsTimes(h, f, k, S)
  PROVE  SumFunction(h) = SumFunction(f) * k
<1> USE DEF IsTimes
<1>1. PICK F : Adds(F, f, S)
  BY Tables
<1> DEFINE H == [T \in SUBSET S |-> F[T] * k]
<1>2. \A a, b \in Int : (a + b) * k = a * k + b * k
  OBVIOUS
<1>3. Adds(H, h, S)
  <2>1. H \in [SUBSET S -> Int]
    BY <1>1 DEF Adds
  <2>2. H[{}] = 0
    BY <1>1 DEF Adds
  <2>3. ASSUME NEW T \in SUBSET S, NEW x \in T
        PROVE  H[T] = h[x] + H[T \ {x}]
    <3>1. F[T] = f[x] + F[T \ {x}]
      BY <1>1 DEF Adds, AnyOrder
    <3>2. f[x] \in Int /\ F[T \ {x}] \in Int
      BY <1>1 DEF Adds
    <3>3. T \ {x} \in SUBSET S /\ h[x] = f[x] * k
      OBVIOUS
    <3>4. H[T] = F[T] * k /\ H[T \ {x}] = F[T \ {x}] * k
      BY <3>3
    <3> QED
      BY <1>2, <3>1, <3>2, <3>3, <3>4
  <2> QED
    BY <2>1, <2>2, <2>3 DEF Adds, AnyOrder
<1>4. H[S] = F[S] * k
  OBVIOUS
<1>5. SumFunction(f) = F[S]
  BY <1>1, Total
<1>6. SumFunction(h) = H[S]
  <2> HIDE DEF H
  <2> QED
    BY <1>3, <1>4, Total
<1> QED
  BY <1>4, <1>5, <1>6

(* Summands that are zero can be left out. *)
Supports(g, f, R, S) == /\ f \in [S -> Int] /\ R \in SUBSET S /\ g \in [R -> Int]
                        /\ \A x \in S : f[x] = IF x \in R THEN g[x] ELSE 0

LEMMA SumSupport ==
  ASSUME NEW S, IsFiniteSet(S), NEW f, NEW R, NEW g, Supports(g, f, R, S)
  PROVE  SumFunction(g) = SumFunction(f)
<1> USE DEF Supports
<1>1. PICK F : Adds(F, f, S) /\ Parts(F, f, S)
  BY Tables
<1> DEFINE Good == {T \in SUBSET S : F[T] = F[T \cap R]}
<1>2. {} \in Good
  <2>1. {} \cap R = {}
    OBVIOUS
  <2> QED
    BY <2>1
<1>3. ASSUME NEW T \in SUBSET S, T # {}, \A x \in T : T \ {x} \in Good
      PROVE  T \in Good
  <2>1. CASE T \subseteq R
    <3>1. T \cap R = T
      BY <2>1
    <3> QED
      BY <3>1
  <2>2. CASE \E x \in T : x \notin R
    <3>1. PICK x \in T : x \notin R
      BY <2>2
    <3>2. F[T] = f[x] + F[T \ {x}] /\ f[x] = 0 /\ F[T \ {x}] \in Int
      BY <1>1, <3>1 DEF Adds, AnyOrder
    <3>3. F[T \ {x}] = F[(T \ {x}) \cap R]
      BY <1>3, <3>1
    <3>4. (T \ {x}) \cap R = T \cap R
      BY <3>1
    <3>5. F[T] = F[T \ {x}]
      BY <3>2
    <3>6. F[T] = F[T \cap R]
      BY <3>3, <3>4, <3>5
    <3> QED
      BY <3>6
  <2> QED
    BY <2>1, <2>2
<1> HIDE DEF Good
<1>4. SUBSET S \subseteq Good
  BY <1>2, <1>3, SetInduction
<1>5. F[S] = F[S \cap R] /\ S \cap R = R
  BY <1>4 DEF Good
<1>6. SumFunction(f) = F[S]
  BY <1>1, Total
<1>7. F[R] = SumFunction(g)
  <2>1. F[R] = SumFunction([x \in R |-> f[x]])
    BY <1>1, Zenon DEF Parts
  <2>2. g = [x \in R |-> f[x]]
    OBVIOUS
  <2> QED
    BY <2>1, <2>2
<1> QED
  BY <1>5, <1>6, <1>7

(* One summand grows. *)
Grows(h, f, y, k, S) == /\ f \in [S -> Int] /\ h \in [S -> Int] /\ y \in S /\ k \in Int
                        /\ h[y] = f[y] + k
                        /\ \A x \in S \ {y} : h[x] = f[x]

LEMMA SumGrows ==
  ASSUME NEW S, IsFiniteSet(S), NEW f, NEW y, NEW k, NEW h, Grows(h, f, y, k, S)
  PROVE  SumFunction(h) = SumFunction(f) + k
<1> USE DEF Grows
<1> DEFINE g == [x \in S \ {y} |-> f[x]]
<1>1. g \in [S \ {y} -> Int] /\ IsFiniteSet(S \ {y})
  BY FS_RemoveElement
<1>2. SumFunction(g) \in Int
  <2> HIDE DEF g
  <2> QED
    BY <1>1, SumType
<1>3. SumFunction(f) = f[y] + SumFunction(g)
  <2>1. \A x \in S \ {y} : g[x] = f[x]
    OBVIOUS
  <2> HIDE DEF g
  <2>2. Drops(g, f, y, S)
    BY <1>1, <2>1 DEF Drops
  <2> QED
    BY <2>2, SumRemove
<1>4. h[y] = f[y] + k /\ f[y] \in Int
  OBVIOUS
<1>5. \A x \in S \ {y} : g[x] = h[x]
  OBVIOUS
<1>6. SumFunction(h) = h[y] + SumFunction(g)
  <2> HIDE DEF g
  <2>1. Drops(g, h, y, S)
    BY <1>1, <1>5 DEF Drops
  <2> QED
    BY <2>1, SumRemove
<1> HIDE DEF g
<1> QED
  BY <1>2, <1>3, <1>4, <1>6

(* A set covered by others has no more elements than they have together.   *)
Covers(M, f, R, S) == /\ f \in [S -> Nat]
                      /\ \A x \in S : IsFiniteSet(R[x]) /\ Cardinality(R[x]) <= f[x]
                      /\ \A m \in M : \E x \in S : m \in R[x]

LEMMA UnionBound ==
  ASSUME NEW S, IsFiniteSet(S), NEW f, NEW R, NEW M, Covers(M, f, R, S)
  PROVE  IsFiniteSet(M) /\ Cardinality(M) <= SumFunction(f)
<1> USE DEF Covers
<1> DEFINE U(T) == UNION {R[x] : x \in T}
<1>0. f \in [S -> Int]
  OBVIOUS
<1>1. PICK H : Adds(H, f, S)
  BY <1>0, Tables
<1> DEFINE Good == {T \in SUBSET S : IsFiniteSet(U(T)) /\ Cardinality(U(T)) <= H[T]}
<1>2. {} \in Good
  <2>1. U({}) = {}
    OBVIOUS
  <2>2. H[{}] = 0 /\ IsFiniteSet({}) /\ Cardinality({}) = 0
    BY <1>1, FS_EmptySet DEF Adds
  <2> HIDE DEF U
  <2> QED
    BY <2>1, <2>2
<1>3. ASSUME NEW T \in SUBSET S, T # {}, \A x \in T : T \ {x} \in Good
      PROVE  T \in Good
  <2>1. PICK x \in T : TRUE
    BY <1>3
  <2>2. H[T] = f[x] + H[T \ {x}] /\ f[x] \in Nat /\ H[T \ {x}] \in Int
    BY <1>1, <2>1 DEF Adds, AnyOrder
  <2>3. IsFiniteSet(U(T \ {x})) /\ Cardinality(U(T \ {x})) <= H[T \ {x}]
    BY <1>3, <2>1
  <2>4. IsFiniteSet(R[x]) /\ Cardinality(R[x]) <= f[x]
    BY <2>1
  <2>5. U(T) = U(T \ {x}) \cup R[x]
    BY <2>1
  <2> HIDE DEF U
  <2>6. /\ IsFiniteSet(U(T \ {x}) \cup R[x])
        /\ Cardinality(U(T \ {x}) \cup R[x]) =
             Cardinality(U(T \ {x})) + Cardinality(R[x]) - Cardinality(U(T \ {x}) \cap R[x])
    BY <2>3, <2>4, FS_Union
  <2>7. /\ Cardinality(U(T \ {x})) \in Nat /\ Cardinality(R[x]) \in Nat
        /\ Cardinality(U(T \ {x}) \cap R[x]) \in Nat
    BY <2>3, <2>4, FS_CardinalityType, FS_Intersection
  <2>8. Cardinality(U(T)) <= H[T]
    BY <2>2, <2>3, <2>4, <2>5, <2>6, <2>7
  <2> QED
    BY <2>5, <2>6, <2>8
<1> HIDE DEF Good
<1>4. SUBSET S \subseteq Good
  BY <1>2, <1>3, SetInduction
<1>5. IsFiniteSet(U(S)) /\ Cardinality(U(S)) <= H[S]
  BY <1>4 DEF Good
<1>6. SumFunction(f) = H[S]
  BY <1>0, <1>1, Total
<1>7. M \subseteq U(S)
  OBVIOUS
<1> HIDE DEF U
<1>8. IsFiniteSet(M) /\ Cardinality(M) <= Cardinality(U(S))
  BY <1>5, <1>7, FS_Subset
<1>9. Cardinality(M) \in Nat /\ Cardinality(U(S)) \in Nat /\ H[S] \in Int
  BY <1>1, <1>5, <1>8, FS_CardinalityType DEF Adds
<1> QED
  BY <1>5, <1>6, <1>8, <1>9

(* A table of numbers can be summed by rows or by columns. *)
RowSums(f, m, A, B)    == f = [a \in A |-> SumFunction([b \in B |-> m[a][b]])]
ColumnSums(f, m, A, B) == f = [b \in B |-> SumFunction([a \in A |-> m[a][b]])]

LEMMA SumSwap ==
  ASSUME NEW A, IsFiniteSet(A), NEW B, IsFiniteSet(B), NEW m \in [A -> [B -> Int]],
         NEW f, RowSums(f, m, A, B), NEW g, ColumnSums(g, m, A, B)
  PROVE  SumFunction(f) = SumFunction(g)
<1> DEFINE Column(T, b) == SumFunction([a \in T |-> m[a][b]])
           Columns(T) == [b \in B |-> Column(T, b)]
           Row(a) == SumFunction([b \in B |-> m[a][b]])
           rows == [a \in A |-> Row(a)]
           H == [T \in SUBSET A |-> SumFunction(Columns(T))]
<1>1. ASSUME NEW T \in SUBSET A, NEW b \in B PROVE Column(T, b) \in Int
  <2> DEFINE c == [a \in T |-> m[a][b]]
  <2>1. c \in [T -> Int] /\ IsFiniteSet(T)
    BY FS_Subset
  <2> HIDE DEF c
  <2>2. SumFunction(c) \in Int
    BY <2>1, SumType
  <2> QED
    BY <2>2 DEF c
<1>2. ASSUME NEW T \in SUBSET A
      PROVE  Columns(T) \in [B -> Int] /\ SumFunction(Columns(T)) \in Int
  <2>1. Columns(T) \in [B -> Int]
    BY <1>1
  <2> HIDE DEF Columns
  <2> QED
    BY <2>1, SumType
<1>3. H[{}] = 0
  <2>1. ASSUME NEW b \in B PROVE Column({}, b) = 0
    <3> DEFINE c == [a \in {} |-> m[a][b]]
    <3>1. DOMAIN c = {}
      OBVIOUS
    <3> HIDE DEF c
    <3>2. SumFunction(c) = 0
      BY <3>1, SumEmpty
    <3> QED
      BY <3>2 DEF c
  <2> HIDE DEF Column
  <2>2. Columns({}) \in [B -> Int] /\ \A b \in B : Columns({})[b] = 0
    BY <2>1
  <2> HIDE DEF Columns
  <2>3. SumFunction(Columns({})) = 0
    BY <2>2, SumZero
  <2> QED
    BY <2>3
<1>4. ASSUME NEW T \in SUBSET A, NEW p \in T
      PROVE  H[T] = rows[p] + H[T \ {p}]
  <2> DEFINE mx == [b \in B |-> m[p][b]]
  <2>1. ASSUME NEW b \in B PROVE Column(T, b) = m[p][b] + Column(T \ {p}, b)
    <3> DEFINE c == [a \in T |-> m[a][b]]
    <3>1. c \in [T -> Int] /\ IsFiniteSet(T) /\ c[p] = m[p][b]
      BY FS_Subset
    <3> DEFINE d == [a \in T \ {p} |-> m[a][b]]
    <3>2. d \in [T \ {p} -> Int] /\ \A a \in T \ {p} : d[a] = c[a]
      OBVIOUS
    <3> HIDE DEF c, d
    <3>3. Drops(d, c, p, T)
      BY <3>1, <3>2 DEF Drops
    <3>4. SumFunction(c) = c[p] + SumFunction(d)
      BY <3>1, <3>3, SumRemove
    <3> QED
      BY <3>1, <3>4 DEF c, d
  <2>2. T \ {p} \in SUBSET A
    OBVIOUS
  <2>3. mx \in [B -> Int] /\ Columns(T \ {p}) \in [B -> Int] /\ Columns(T) \in [B -> Int]
    BY <1>2, <2>2
  <2>4. \A b \in B : Columns(T)[b] = mx[b] + Columns(T \ {p})[b]
    <3> HIDE DEF Column
    <3> QED
      BY <2>1
  <2> HIDE DEF Columns
  <2>5. SumFunction(Columns(T)) = SumFunction(mx) + SumFunction(Columns(T \ {p}))
    <3> HIDE DEF mx
    <3>1. IsPlus(Columns(T), mx, Columns(T \ {p}), B)
      BY <2>3, <2>4 DEF IsPlus
    <3> QED
      BY <3>1, SumPlus
  <2>6. SumFunction(mx) = rows[p]
    OBVIOUS
  <2> QED
    BY <2>2, <2>5, <2>6
<1>5. \A a \in A : Row(a) \in Int
  <2> SUFFICES ASSUME NEW a \in A PROVE Row(a) \in Int
    OBVIOUS
  <2> DEFINE mx == [b \in B |-> m[a][b]]
  <2>1. mx \in [B -> Int]
    OBVIOUS
  <2> HIDE DEF mx
  <2>2. SumFunction(mx) \in Int
    BY <2>1, SumType
  <2> QED
    BY <2>2 DEF mx
<1>6. rows \in [A -> Int]
  <2> HIDE DEF Row
  <2> QED
    BY <1>5
<1>7. H \in [SUBSET A -> Int]
  <2> HIDE DEF Columns
  <2> QED
    BY <1>2
<1> HIDE DEF H, rows
<1>8. Adds(H, rows, A)
  BY <1>3, <1>4, <1>7 DEF Adds, AnyOrder
<1>9. SumFunction(rows) = H[A]
  BY <1>6, <1>8, Total
<1>10. f = rows
  BY DEF RowSums, rows
<1>11. H[A] = SumFunction(g)
  BY DEF ColumnSums, H
<1> QED
  BY <1>9, <1>10, <1>11
=============================================================================

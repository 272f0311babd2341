----------------------------- MODULE SumTheorems -----------------------------
(***************************************************************************)
(* Sums over finite sets.  SumFunctionOnSet of the community modules takes *)
(* the elements in some order, as a recursive function on the subsets; the *)
(* facts here are those that amounts of money need: what an element adds,  *)
(* that the order does not matter, and that more rows do not sum to less.  *)
(*                                                                         *)
(* Induction is over the subsets of a finite set, with the set of those    *)
(* that have the property in the place of the property itself.             *)
(***************************************************************************)
EXTENDS Integers, FiniteSetsExt, FiniteSetTheorems, TLAPS

(* g gives every subset of T the sum of f over it.                         *)
SumsUp(f, T, g) ==
  g = [s \in SUBSET T |-> IF s = {} THEN 0
                          ELSE f[CHOOSE x \in s : TRUE] + g[s \ {CHOOSE x \in s : TRUE}]]

(* A set D that has every subset of S all of whose proper subsets it has,  *)
(* has every subset of S: a subset that it lacks would have a least one    *)
(* below it.                                                               *)
LEMMA SubsetInduction ==
  ASSUME NEW S, IsFiniteSet(S), NEW D,
         \A T \in SUBSET S : (\A U \in SUBSET T : U # T => U \in D) => T \in D
  PROVE  \A T \in SUBSET S : T \in D
<1> DEFINE Bad == {T \in SUBSET S : T \notin D}
<1>1. SUFFICES ASSUME Bad # {} PROVE FALSE
  BY Zenon
<1>2. IsWellFoundedOn(StrictSubsetOrdering(S), SUBSET S)
  BY FS_StrictSubsetOrderingWellFounded, FS_FiniteSubsetsOfFinite, Zenon
<1>3. PICK T \in Bad : \A U \in Bad : <<U, T>> \notin StrictSubsetOrdering(S)
  <2>1. Bad \subseteq SUBSET S
    OBVIOUS
  <2> HIDE DEF Bad
  <2> QED BY <1>1, <1>2, <2>1, WFMin
<1>4. \A U \in SUBSET T : U # T => U \in D
  <2> SUFFICES ASSUME NEW U \in SUBSET T, U # T, U \notin D PROVE FALSE
    OBVIOUS
  <2>1. <<U, T>> \in (SUBSET S) \X (SUBSET S)
    OBVIOUS
  <2>2. <<U, T>> \in StrictSubsetOrdering(S)
    BY <2>1 DEF StrictSubsetOrdering
  <2> QED BY <1>3, <2>2
<1> QED BY <1>4

(* Two functions that sum up f agree where both are defined.               *)
LEMMA OneSum ==
  ASSUME NEW S, IsFiniteSet(S), NEW f, NEW T, NEW U, NEW g, NEW h,
         T \subseteq S, U \subseteq S, SumsUp(f, T, g), SumsUp(f, U, h)
  PROVE  \A s \in SUBSET (T \cap U) : g[s] = h[s]
<1> DEFINE D == {s \in SUBSET S : s \in SUBSET (T \cap U) => g[s] = h[s]}
<1>1. ASSUME NEW s \in SUBSET S, \A u \in SUBSET s : u # s => u \in D, s \in SUBSET (T \cap U)
      PROVE  g[s] = h[s]
  <2>1. CASE s = {}
    <3>1. g[s] = 0
      BY <2>1 DEF SumsUp
    <3>2. h[s] = 0
      BY <2>1 DEF SumsUp
    <3> QED BY <3>1, <3>2
  <2>2. CASE s # {}
    <3> DEFINE x == CHOOSE x \in s : TRUE
    <3>0. x \in s
      BY <2>2
    <3>1. g[s] = f[x] + g[s \ {x}]
      BY <1>1, <2>2 DEF SumsUp
    <3>2. h[s] = f[x] + h[s \ {x}]
      BY <1>1, <2>2 DEF SumsUp
    <3> HIDE DEF x
    <3>3. s \ {x} \in D /\ s \ {x} \in SUBSET (T \cap U)
      <4>1. s \ {x} \in SUBSET s /\ s \ {x} # s
        BY <3>0
      <4> QED BY <1>1, <4>1
    <3>4. g[s \ {x}] = h[s \ {x}]
      BY <3>3
    <3> QED BY <3>1, <3>2, <3>4
  <2> QED BY <2>1, <2>2
<1>2. \A s \in SUBSET S : (\A u \in SUBSET s : u # s => u \in D) => s \in D
  BY <1>1
<1> HIDE DEF D
<1>3. \A s \in SUBSET S : s \in D
  BY <1>2, SubsetInduction
<1> QED BY <1>3 DEF D

(* There is a function that sums up f over the subsets of a finite set:    *)
(* from those of the proper subsets.                                       *)
LEMMA SumExists ==
  ASSUME NEW S, IsFiniteSet(S), NEW f
  PROVE  \E g : SumsUp(f, S, g)
<1> DEFINE D == {T \in SUBSET S : \E g : SumsUp(f, T, g)}
<1>1. ASSUME NEW T \in SUBSET S, \A U \in SUBSET T : U # T => U \in D
      PROVE  T \in D
  <2> DEFINE H(U) == CHOOSE g : SumsUp(f, U, g)
             rest == T \ {CHOOSE x \in T : TRUE}
             G == [s \in SUBSET T |->
                     IF s # T THEN H(s)[s]
                     ELSE IF T = {} THEN 0 ELSE f[CHOOSE x \in T : TRUE] + H(rest)[rest]]
  <2>1. ASSUME NEW U \in SUBSET T, U # T
        PROVE  SumsUp(f, U, H(U))
    <3>1. \E g : SumsUp(f, U, g)
      BY <1>1, <2>1
    <3> QED BY <3>1
  <2> HIDE DEF H
  <2>2. ASSUME NEW s \in SUBSET T
        PROVE  G[s] = IF s = {} THEN 0
                      ELSE f[CHOOSE x \in s : TRUE] + G[s \ {CHOOSE x \in s : TRUE}]
    <3>1. CASE s = {}
      <4>1. CASE T = {}
        BY <3>1, <4>1
      <4>2. CASE T # {}
        <5>1. G[s] = H(s)[s]
          BY <3>1, <4>2
        <5>2. H(s)[s] = 0
          BY <2>1, <3>1, <4>2 DEF SumsUp
        <5> QED BY <5>1, <5>2, <3>1
      <4> QED BY <4>1, <4>2
    <3>2. CASE s # {}
      <4> DEFINE x == CHOOSE x \in s : TRUE
                 r == s \ {x}
      <4>1. x \in s
        BY <3>2
      <4>2. r \in SUBSET T /\ r # T /\ r \in SUBSET s /\ r # s
        BY <4>1
      <4>3. G[r] = H(r)[r]
        BY <4>2
      <4>4. G[s] = f[x] + H(r)[r]
        <5>1. CASE s = T
          BY <5>1, <3>2
        <5>2. CASE s # T
          <6>1. SumsUp(f, s, H(s))
            BY <2>1, <5>2
          <6>2. H(s)[s] = f[x] + H(s)[r]
            BY <6>1, <3>2 DEF SumsUp
          <6>3. SumsUp(f, r, H(r))
            BY <2>1, <4>2
          <6> HIDE DEF G, x, r
          <6>4. s \subseteq S /\ r \subseteq S /\ r \in SUBSET (s \cap r)
            BY <4>2
          <6>5. H(s)[r] = H(r)[r]
            BY <6>1, <6>3, <6>4, OneSum
          <6>6. G[s] = H(s)[s]
            BY <5>2 DEF G
          <6> QED BY <6>2, <6>5, <6>6
        <5> QED BY <5>1, <5>2
      <4> QED BY <4>3, <4>4, <3>2
    <3> QED BY <3>1, <3>2
  <2>3. SumsUp(f, T, G)
    BY <2>2 DEF SumsUp
  <2> HIDE DEF G
  <2> QED BY <2>3
<1> HIDE DEF D
<1>2. \A T \in SUBSET S : T \in D
  BY <1>1, SubsetInduction
<1>3. S \in D
  BY <1>2
<1> QED BY <1>3 DEF D

(* SumFunctionOnSet is what such a function gives.                         *)
LEMMA SumIs ==
  ASSUME NEW f, NEW T, IsFiniteSet(T)
  PROVE  \E g : SumsUp(f, T, g) /\ SumFunctionOnSet(f, T) = g[T]
<1>1. SumFunctionOnSet(f, T) = (CHOOSE g : SumsUp(f, T, g))[T]
  BY DEF SumFunctionOnSet, FoldFunctionOnSet, MapThenFoldSet, SumsUp
<1>2. \E g : SumsUp(f, T, g)
  BY SumExists
<1>3. SumsUp(f, T, CHOOSE g : SumsUp(f, T, g))
  BY <1>2
<1> QED BY <1>1, <1>3

(* Nothing sums to zero.                                                   *)
LEMMA SumOfNone ==
  ASSUME NEW f
  PROVE  SumFunctionOnSet(f, {}) = 0
<1>1. PICK g : SumsUp(f, {}, g) /\ SumFunctionOnSet(f, {}) = g[{}]
  BY SumIs, FS_EmptySet
<1>2. g[{}] = 0
  BY <1>1 DEF SumsUp
<1> QED BY <1>1, <1>2

(* Some element of a set adds its value to the sum of the others.          *)
LEMMA SumOfChosen ==
  ASSUME NEW f, NEW T, IsFiniteSet(T), T # {}
  PROVE  \E x \in T : SumFunctionOnSet(f, T) = f[x] + SumFunctionOnSet(f, T \ {x})
<1> DEFINE x == CHOOSE x \in T : TRUE
           r == T \ {x}
<1>1. x \in T /\ r \subseteq T
  OBVIOUS
<1>2. PICK g : SumsUp(f, T, g) /\ SumFunctionOnSet(f, T) = g[T]
  BY SumIs
<1>3. g[T] = f[x] + g[r]
  BY <1>2 DEF SumsUp
<1> HIDE DEF x, r
<1>4. IsFiniteSet(r)
  BY <1>1, FS_Subset
<1>5. PICK h : SumsUp(f, r, h) /\ SumFunctionOnSet(f, r) = h[r]
  BY <1>4, SumIs
<1>6. g[r] = h[r]
  <2>1. r \in SUBSET (T \cap r) /\ T \subseteq T
    BY <1>1
  <2> QED BY <1>1, <1>2, <1>5, <2>1, OneSum
<1>7. SumFunctionOnSet(f, T) = f[x] + SumFunctionOnSet(f, r)
  BY <1>2, <1>3, <1>5, <1>6
<1> QED BY <1>1, <1>7 DEF r

(* Integers sum to an integer.                                             *)
LEMMA SumIsInt ==
  ASSUME NEW T, IsFiniteSet(T), NEW f, \A x \in T : f[x] \in Int
  PROVE  SumFunctionOnSet(f, T) \in Int
<1> DEFINE D == {s \in SUBSET T : SumFunctionOnSet(f, s) \in Int}
<1>1. ASSUME NEW s \in SUBSET T, \A u \in SUBSET s : u # s => u \in D
      PROVE  s \in D
  <2>1. CASE s = {}
    BY <2>1, SumOfNone
  <2>2. CASE s # {}
    <3>1. PICK x \in s : SumFunctionOnSet(f, s) = f[x] + SumFunctionOnSet(f, s \ {x})
      BY <2>2, SumOfChosen, FS_Subset
    <3>2. s \ {x} \in D
      <4>1. s \ {x} \in SUBSET s /\ s \ {x} # s
        OBVIOUS
      <4> QED BY <1>1, <4>1
    <3> QED BY <3>1, <3>2
  <2> QED BY <2>1, <2>2
<1> HIDE DEF D
<1>2. \A s \in SUBSET T : s \in D
  BY <1>1, SubsetInduction
<1> QED BY <1>2 DEF D

(* Any element adds its value to the sum of the others: the order in which *)
(* they are taken does not matter.                                         *)
LEMMA SumOfAny ==
  ASSUME NEW T, IsFiniteSet(T), NEW f, \A x \in T : f[x] \in Int, NEW y \in T
  PROVE  SumFunctionOnSet(f, T) = f[y] + SumFunctionOnSet(f, T \ {y})
<1> DEFINE D == {s \in SUBSET T : \A z \in s :
                   SumFunctionOnSet(f, s) = f[z] + SumFunctionOnSet(f, s \ {z})}
<1>1. ASSUME NEW s \in SUBSET T, \A u \in SUBSET s : u # s => u \in D, NEW z \in s
      PROVE  SumFunctionOnSet(f, s) = f[z] + SumFunctionOnSet(f, s \ {z})
  <2>1. PICK x \in s : SumFunctionOnSet(f, s) = f[x] + SumFunctionOnSet(f, s \ {x})
    BY SumOfChosen, FS_Subset
  <2>2. CASE x = z
    BY <2>1, <2>2
  <2>3. CASE x # z
    <3> DEFINE both == (s \ {x}) \ {z}
    <3>1. s \ {x} \in D /\ s \ {z} \in D
      <4>1. s \ {x} \in SUBSET s /\ s \ {x} # s /\ s \ {z} \in SUBSET s /\ s \ {z} # s
        OBVIOUS
      <4> QED BY <1>1, <4>1
    <3>2. SumFunctionOnSet(f, s \ {x}) = f[z] + SumFunctionOnSet(f, both)
      BY <3>1, <2>3
    <3>3. (s \ {z}) \ {x} = both
      OBVIOUS
    <3>4. SumFunctionOnSet(f, s \ {z}) = f[x] + SumFunctionOnSet(f, both)
      BY <3>1, <3>3, <2>3
    <3>5. SumFunctionOnSet(f, both) \in Int
      <4>1. both \subseteq T
        OBVIOUS
      <4> HIDE DEF both
      <4> QED BY <4>1, SumIsInt, FS_Subset
    <3>6. f[x] \in Int /\ f[z] \in Int
      OBVIOUS
    <3> QED BY <2>1, <3>2, <3>4, <3>5, <3>6
  <2> QED BY <2>2, <2>3
<1>2. \A s \in SUBSET T : (\A u \in SUBSET s : u # s => u \in D) => s \in D
  BY <1>1
<1> HIDE DEF D
<1>3. \A s \in SUBSET T : s \in D
  BY <1>2, SubsetInduction
<1> QED BY <1>3 DEF D

(* Functions that agree on a set have the same sum over it.                *)
LEMMA SumsAgree ==
  ASSUME NEW T, IsFiniteSet(T), NEW f, NEW g, \A x \in T : f[x] = g[x] /\ f[x] \in Int
  PROVE  SumFunctionOnSet(f, T) = SumFunctionOnSet(g, T)
<1> DEFINE D == {s \in SUBSET T : SumFunctionOnSet(f, s) = SumFunctionOnSet(g, s)}
<1>1. ASSUME NEW s \in SUBSET T, \A u \in SUBSET s : u # s => u \in D
      PROVE  s \in D
  <2>1. CASE s = {}
    BY <2>1, SumOfNone
  <2>2. CASE s # {}
    <3>0. IsFiniteSet(s)
      BY FS_Subset
    <3>1. PICK x \in s : SumFunctionOnSet(f, s) = f[x] + SumFunctionOnSet(f, s \ {x})
      BY <2>2, <3>0, SumOfChosen
    <3>2. SumFunctionOnSet(g, s) = g[x] + SumFunctionOnSet(g, s \ {x})
      <4>1. \A y \in s : g[y] \in Int
        OBVIOUS
      <4> QED BY <3>0, <4>1, SumOfAny
    <3>3. s \ {x} \in D
      <4>1. s \ {x} \in SUBSET s /\ s \ {x} # s
        OBVIOUS
      <4> QED BY <1>1, <4>1
    <3>4. SumFunctionOnSet(f, s \ {x}) = SumFunctionOnSet(g, s \ {x})
      BY <3>3
    <3>5. f[x] = g[x]
      OBVIOUS
    <3>6. SumFunctionOnSet(f, s) = SumFunctionOnSet(g, s)
      BY <3>1, <3>2, <3>4, <3>5
    <3> QED BY <3>6
  <2> QED BY <2>1, <2>2
<1> HIDE DEF D
<1>2. \A s \in SUBSET T : s \in D
  BY <1>1, SubsetInduction
<1> QED BY <1>2 DEF D

(* Natural numbers sum to a natural number.                                *)
LEMMA SumIsNat ==
  ASSUME NEW T, IsFiniteSet(T), NEW f, \A x \in T : f[x] \in Nat
  PROVE  SumFunctionOnSet(f, T) \in Nat
<1> DEFINE D == {s \in SUBSET T : SumFunctionOnSet(f, s) \in Nat}
<1>1. ASSUME NEW s \in SUBSET T, \A u \in SUBSET s : u # s => u \in D
      PROVE  s \in D
  <2>1. CASE s = {}
    BY <2>1, SumOfNone
  <2>2. CASE s # {}
    <3>1. PICK x \in s : SumFunctionOnSet(f, s) = f[x] + SumFunctionOnSet(f, s \ {x})
      BY <2>2, SumOfChosen, FS_Subset
    <3>2. s \ {x} \in D
      <4>1. s \ {x} \in SUBSET s /\ s \ {x} # s
        OBVIOUS
      <4> QED BY <1>1, <4>1
    <3> QED BY <3>1, <3>2
  <2> QED BY <2>1, <2>2
<1> HIDE DEF D
<1>2. \A s \in SUBSET T : s \in D
  BY <1>1, SubsetInduction
<1> QED BY <1>2 DEF D

(* A larger set of natural numbers has no smaller sum.                     *)
LEMMA SumOfMore ==
  ASSUME NEW T, IsFiniteSet(T), NEW f, \A x \in T : f[x] \in Nat, NEW U, U \subseteq T
  PROVE  SumFunctionOnSet(f, U) <= SumFunctionOnSet(f, T)
<1> DEFINE D == {s \in SUBSET T : U \subseteq s =>
                   SumFunctionOnSet(f, U) <= SumFunctionOnSet(f, s)}
<1>0. SumFunctionOnSet(f, U) \in Nat
  <2>1. IsFiniteSet(U) /\ \A x \in U : f[x] \in Nat
    BY FS_Subset
  <2> QED BY <2>1, SumIsNat
<1>1. ASSUME NEW s \in SUBSET T, \A u \in SUBSET s : u # s => u \in D
      PROVE  s \in D
  <2>1. CASE s = U
    BY <2>1, <1>0
  <2>2. CASE ~ U \subseteq s
    BY <2>2
  <2>3. CASE U \subseteq s /\ s # U
    <3>1. PICK x \in s : x \notin U
      BY <2>3
    <3>2. s \ {x} \in D /\ U \subseteq s \ {x}
      <4>1. s \ {x} \in SUBSET s /\ s \ {x} # s
        OBVIOUS
      <4> QED BY <1>1, <4>1, <3>1, <2>3
    <3>3. IsFiniteSet(s) /\ IsFiniteSet(s \ {x}) /\ \A y \in s : f[y] \in Int
      BY FS_Subset
    <3>4. SumFunctionOnSet(f, s) = f[x] + SumFunctionOnSet(f, s \ {x})
      BY <3>3, SumOfAny
    <3>5. SumFunctionOnSet(f, s \ {x}) \in Nat /\ f[x] \in Nat
      BY <3>3, SumIsNat
    <3>6. SumFunctionOnSet(f, U) <= SumFunctionOnSet(f, s \ {x})
      BY <3>2
    <3>7. SumFunctionOnSet(f, U) <= SumFunctionOnSet(f, s)
      BY <3>4, <3>5, <3>6, <1>0
    <3> QED BY <3>7
  <2> QED BY <2>1, <2>2, <2>3
<1> HIDE DEF D
<1>2. \A s \in SUBSET T : s \in D
  BY <1>1, SubsetInduction
<1> QED BY <1>2 DEF D
==============================================================================

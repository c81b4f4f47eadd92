----------------------------- MODULE FiniteSums -----------------------------
(***************************************************************************)
(* Finite sums, as SumFunction and BagCardinality define them: one element *)
(* after the other, in the order CHOOSE picks them.  That there is such a  *)
(* sum, in which numbers it lies, and that the order does not matter.      *)
(*                                                                         *)
(* Each fact is by induction on the size of a set, in the form of a        *)
(* smallest counterexample: a set of sets can be given to a lemma, where   *)
(* a property could not.                                                   *)
(***************************************************************************)
EXTENDS Integers, FiniteSets, FiniteSetTheorems, WellFoundedInduction, TLAPS

Pick(s) == CHOOSE d \in s : TRUE

\* What sum says of the set s of elements of f's domain.
AddsAt(f, sum, s) ==
  sum[s] = IF s = {} THEN 0 ELSE f[Pick(s)] + sum[s \ {Pick(s)}]

Adds(f, sum) ==
  sum = [s \in SUBSET DOMAIN f |->
           IF s = {} THEN 0 ELSE f[Pick(s)] + sum[s \ {Pick(s)}]]

\* The sum of f over the set s, and over all of its domain.
SumOver(f, s) == (CHOOSE sum : Adds(f, sum))[s]
SumOf(f) == SumOver(f, DOMAIN f)

----------------------------------------------------------------------------
(* Sizes. *)

\* A set of numbers that is not empty has a least one.
LEMMA LeastNumber ==
  ASSUME NEW S \in SUBSET Nat, S # {}
  PROVE  \E n \in S : \A m \in S : ~(m < n)
<1> DEFINE R == OpToRel(<, Nat)
<1>1. IsWellFoundedOn(R, Nat)
  BY NatLessThanWellFounded
<1>2. \A x, y \in Nat : <<y, x>> \in R <=> y < x
  BY DEF OpToRel
<1> HIDE DEF R
<1>3. PICK n \in S : \A m \in S : ~(<<m, n>> \in R)
  BY <1>1, WFMin
<1> QED  BY <1>2, <1>3

\* Sets of which every one has a smaller one: there are none.
LEMMA NoSmallest ==
  ASSUME NEW S, IsFiniteSet(S), NEW bad \in SUBSET SUBSET S,
         \A s \in bad : \E u \in bad : Cardinality(u) < Cardinality(s)
  PROVE  bad = {}
<1> SUFFICES ASSUME bad # {} PROVE FALSE
  OBVIOUS
<1>1. PICK sizes : sizes = {Cardinality(s) : s \in bad}
  OBVIOUS
<1>2. sizes \in SUBSET Nat /\ sizes # {}
  BY <1>1, FS_Subset, FS_CardinalityType
<1>3. PICK n \in sizes : \A m \in sizes : ~(m < n)
  BY <1>2, LeastNumber
<1>4. PICK s \in bad : n = Cardinality(s)
  BY <1>1, <1>3
<1> QED  BY <1>1, <1>3, <1>4

\* A set without one of its elements is one smaller.
LEMMA OneLess ==
  ASSUME NEW S, IsFiniteSet(S), NEW s \in SUBSET S, NEW x \in s
  PROVE  /\ x \in S /\ s \ {x} \in SUBSET S
         /\ Cardinality(s) \in Nat /\ Cardinality(s \ {x}) = Cardinality(s) - 1
         /\ Cardinality(s \ {x}) < Cardinality(s)
<1>1. IsFiniteSet(s)
  BY FS_Subset
<1>2. Cardinality(s) \in Nat
  BY <1>1, FS_CardinalityType
<1>3. Cardinality(s \ {x}) = Cardinality(s) - 1
  BY <1>1, FS_RemoveElement
<1> QED  BY <1>2, <1>3

LEMMA PickIsThere == \A s : s # {} => Pick(s) \in s
  BY DEF Pick

----------------------------------------------------------------------------
(* There is a sum: if there is one for the sets of at most n elements,     *)
(* there is one for those of n + 1.                                        *)

AddsUpTo(f, sum, n) == \A s \in SUBSET DOMAIN f : Cardinality(s) <= n => AddsAt(f, sum, s)
HasSum(f, n) == \E sum : AddsUpTo(f, sum, n)

LEMMA SumOfNothing ==
  ASSUME NEW f, IsFiniteSet(DOMAIN f)
  PROVE  HasSum(f, 0)
<1>1. PICK zero : zero = [s \in SUBSET DOMAIN f |-> 0]
  OBVIOUS
<1>2. ASSUME NEW s \in SUBSET DOMAIN f, Cardinality(s) <= 0 PROVE s = {}
  <2>1. IsFiniteSet(s)
    BY FS_Subset
  <2>2. Cardinality(s) \in Nat /\ (Cardinality(s) = 0 <=> s = {})
    BY <2>1, FS_CardinalityType, FS_EmptySet
  <2> QED  BY <1>2, <2>2
<1>3. AddsUpTo(f, zero, 0)
  BY <1>1, <1>2 DEF AddsUpTo, AddsAt
<1> QED  BY <1>3 DEF HasSum

\* The sum of the sets of one element more.
Longer(f, sum) ==
  [s \in SUBSET DOMAIN f |-> IF s = {} THEN 0 ELSE f[Pick(s)] + sum[s \ {Pick(s)}]]

LEMMA SumOfOneMore ==
  ASSUME NEW f, IsFiniteSet(DOMAIN f), NEW n \in Nat, n # 0, HasSum(f, n - 1)
  PROVE  HasSum(f, n)
<1>1. PICK sum : AddsUpTo(f, sum, n - 1)
  BY DEF HasSum
<1>2. \A s \in SUBSET DOMAIN f :
        Longer(f, sum)[s] = IF s = {} THEN 0 ELSE f[Pick(s)] + sum[s \ {Pick(s)}]
  BY DEF Longer
<1>3. ASSUME NEW s \in SUBSET DOMAIN f, Cardinality(s) <= n, s # {}
      PROVE  Longer(f, sum)[s \ {Pick(s)}] = sum[s \ {Pick(s)}]
  <2>1. PICK u : u = s \ {Pick(s)}
    OBVIOUS
  <2>2. u \in SUBSET DOMAIN f /\ Cardinality(u) = Cardinality(s) - 1 /\ Cardinality(s) \in Nat
    BY <1>3, <2>1, PickIsThere, OneLess
  <2>3. u \in SUBSET DOMAIN f /\ Cardinality(u) <= n - 1
    BY <1>3, <2>2
  <2>4. AddsAt(f, sum, u)
    BY <1>1, <2>3 DEF AddsUpTo
  <2> QED  BY <1>2, <2>1, <2>3, <2>4 DEF AddsAt
<1>4. AddsUpTo(f, Longer(f, sum), n)
  BY <1>2, <1>3 DEF AddsUpTo, AddsAt
<1> QED  BY <1>4 DEF HasSum

LEMMA SumExists ==
  ASSUME NEW f, IsFiniteSet(DOMAIN f)
  PROVE  \E sum : Adds(f, sum)
<1>1. PICK fails : fails = {n \in Nat : ~HasSum(f, n)}
  OBVIOUS
<1>2. fails \in SUBSET Nat /\ \A n \in Nat : n \notin fails <=> HasSum(f, n)
  BY <1>1
<1>3. fails = {}
  <2> SUFFICES ASSUME fails # {} PROVE FALSE
    OBVIOUS
  <2>1. PICK n \in fails : \A m \in fails : ~(m < n)
    BY <1>2, LeastNumber
  <2>2. n \in Nat /\ ~HasSum(f, n)
    BY <1>2, <2>1
  <2>3. n # 0
    BY <2>2, SumOfNothing
  <2>4. n - 1 \in Nat /\ n - 1 < n
    BY <2>2, <2>3
  <2>5. HasSum(f, n - 1)
    BY <1>2, <2>1, <2>4
  <2> QED  BY <2>2, <2>3, <2>5, SumOfOneMore
<1>4. Cardinality(DOMAIN f) \in Nat
  BY FS_CardinalityType
<1>5. PICK sum : AddsUpTo(f, sum, Cardinality(DOMAIN f))
  BY <1>2, <1>3, <1>4 DEF HasSum
<1>6. \A s \in SUBSET DOMAIN f : Cardinality(s) <= Cardinality(DOMAIN f)
  BY FS_Subset
<1>7. \A s \in SUBSET DOMAIN f : sum[s] = IF s = {} THEN 0 ELSE f[Pick(s)] + sum[s \ {Pick(s)}]
  BY <1>5, <1>6 DEF AddsUpTo, AddsAt
<1>8. PICK g : g = [s \in SUBSET DOMAIN f |-> sum[s]]
  OBVIOUS
<1>9. g = [s \in SUBSET DOMAIN f |-> IF s = {} THEN 0 ELSE f[Pick(s)] + g[s \ {Pick(s)}]]
  <2>1. \A s \in SUBSET DOMAIN f : g[s \ {Pick(s)}] = sum[s \ {Pick(s)}]
    BY <1>8
  <2> QED  BY <1>7, <1>8, <2>1
<1> QED  BY <1>9 DEF Adds

----------------------------------------------------------------------------
(* What it is. *)

LEMMA SumSteps ==
  ASSUME NEW f, IsFiniteSet(DOMAIN f), NEW s \in SUBSET DOMAIN f
  PROVE  SumOver(f, s) = IF s = {} THEN 0 ELSE f[Pick(s)] + SumOver(f, s \ {Pick(s)})
<1>1. PICK sum : sum = (CHOOSE g : Adds(f, g))
  OBVIOUS
<1>2. Adds(f, sum)
  BY <1>1, SumExists
<1>3. sum[s] = IF s = {} THEN 0 ELSE f[Pick(s)] + sum[s \ {Pick(s)}]
  BY <1>2 DEF Adds
<1> QED  BY <1>1, <1>3 DEF SumOver

\* The sum is of the numbers that are summed: integers, or naturals.
LEMMA SumIsIn ==
  ASSUME NEW f, IsFiniteSet(DOMAIN f),
         NEW N, 0 \in N, \A a, b \in N : a + b \in N, \A d \in DOMAIN f : f[d] \in N
  PROVE  \A s \in SUBSET DOMAIN f : SumOver(f, s) \in N
<1>1. PICK bad \in SUBSET SUBSET DOMAIN f :
        \A s \in SUBSET DOMAIN f : s \in bad <=> SumOver(f, s) \notin N
  <2>1. WITNESS {s \in SUBSET DOMAIN f : SumOver(f, s) \notin N} \in SUBSET SUBSET DOMAIN f
  <2> QED  OBVIOUS
<1>2. ASSUME NEW s \in bad PROVE \E u \in bad : Cardinality(u) < Cardinality(s)
  <2>1. s # {} /\ SumOver(f, s) = f[Pick(s)] + SumOver(f, s \ {Pick(s)})
    BY <1>1, <1>2, SumSteps
  <2>2. /\ Pick(s) \in DOMAIN f /\ s \ {Pick(s)} \in SUBSET DOMAIN f
        /\ Cardinality(s \ {Pick(s)}) < Cardinality(s)
    BY <1>2, <2>1, PickIsThere, OneLess
  <2>3. s \ {Pick(s)} \in bad
    BY <1>1, <1>2, <2>1, <2>2
  <2> QED  BY <2>2, <2>3
<1>3. bad = {}
  BY <1>2, NoSmallest
<1> QED  BY <1>1, <1>3

\* Any element may be the first.
LEMMA SumAnyFirst ==
  ASSUME NEW f, IsFiniteSet(DOMAIN f), \A d \in DOMAIN f : f[d] \in Int
  PROVE  \A s \in SUBSET DOMAIN f : \A x \in s : SumOver(f, s) = f[x] + SumOver(f, s \ {x})
<1>1. PICK bad \in SUBSET SUBSET DOMAIN f :
        \A s \in SUBSET DOMAIN f :
          s \in bad <=> \E x \in s : SumOver(f, s) # f[x] + SumOver(f, s \ {x})
  <2>1. WITNESS {s \in SUBSET DOMAIN f : \E x \in s : SumOver(f, s) # f[x] + SumOver(f, s \ {x})}
                  \in SUBSET SUBSET DOMAIN f
  <2> QED  OBVIOUS
<1>2. \A s \in SUBSET DOMAIN f : SumOver(f, s) \in Int
  BY SumIsIn
<1>3. ASSUME NEW s \in bad PROVE \E u \in bad : Cardinality(u) < Cardinality(s)
  <2>1. PICK x \in s : SumOver(f, s) # f[x] + SumOver(f, s \ {x})
    BY <1>1, <1>3
  <2>2. PICK e \in s : SumOver(f, s) = f[e] + SumOver(f, s \ {e})
    BY <1>3, SumSteps, PickIsThere
  <2>3. e # x
    BY <2>1, <2>2
  <2>4. /\ s \ {e} \in SUBSET DOMAIN f /\ Cardinality(s \ {e}) < Cardinality(s)
        /\ s \ {x} \in SUBSET DOMAIN f /\ Cardinality(s \ {x}) < Cardinality(s)
        /\ (s \ {x}) \ {e} \in SUBSET DOMAIN f /\ e \in DOMAIN f /\ x \in DOMAIN f
    BY <1>3, OneLess
  <2>5. x \in s \ {e} /\ e \in s \ {x} /\ (s \ {e}) \ {x} = (s \ {x}) \ {e}
    BY <2>3
  <2>6. CASE s \ {e} \in bad \/ s \ {x} \in bad
    BY <2>4, <2>6
  <2>7. CASE s \ {e} \notin bad /\ s \ {x} \notin bad
    <3>1. SumOver(f, s \ {e}) = f[x] + SumOver(f, (s \ {e}) \ {x})
      BY <1>1, <2>4, <2>5, <2>7
    <3>2. SumOver(f, s \ {x}) = f[e] + SumOver(f, (s \ {x}) \ {e})
      BY <1>1, <2>4, <2>5, <2>7
    <3>3. PICK rest \in Int : rest = SumOver(f, (s \ {x}) \ {e})
      BY <1>2, <2>4
    <3>4. f[e] \in Int /\ f[x] \in Int
      BY <2>4
    <3>5. f[e] + (f[x] + rest) = f[x] + (f[e] + rest)
      BY <3>3, <3>4
    <3> QED  BY <2>1, <2>2, <2>5, <3>1, <3>2, <3>3, <3>5
  <2> QED  BY <2>6, <2>7
<1>4. bad = {}
  BY <1>3, NoSmallest
<1> QED  BY <1>1, <1>4

\* The sum over a set depends on the values there and on nothing else.
LEMMA SumOfSame ==
  ASSUME NEW f, IsFiniteSet(DOMAIN f), NEW g, IsFiniteSet(DOMAIN g)
  PROVE  \A s \in SUBSET (DOMAIN f \intersect DOMAIN g) :
           (\A d \in s : f[d] = g[d]) => SumOver(f, s) = SumOver(g, s)
<1>1. PICK bad \in SUBSET SUBSET DOMAIN f :
        \A s \in SUBSET DOMAIN f :
          s \in bad <=> /\ s \subseteq DOMAIN g /\ \A d \in s : f[d] = g[d]
                        /\ SumOver(f, s) # SumOver(g, s)
  <2>1. WITNESS {s \in SUBSET DOMAIN f : /\ s \subseteq DOMAIN g /\ \A d \in s : f[d] = g[d]
                                         /\ SumOver(f, s) # SumOver(g, s)}
                  \in SUBSET SUBSET DOMAIN f
  <2> QED  OBVIOUS
<1>2. ASSUME NEW s \in bad PROVE \E u \in bad : Cardinality(u) < Cardinality(s)
  <2>1. /\ s \in SUBSET DOMAIN f /\ s \in SUBSET DOMAIN g /\ \A d \in s : f[d] = g[d]
        /\ SumOver(f, s) # SumOver(g, s)
    BY <1>1, <1>2
  <2>2. /\ SumOver(f, s) = IF s = {} THEN 0 ELSE f[Pick(s)] + SumOver(f, s \ {Pick(s)})
        /\ SumOver(g, s) = IF s = {} THEN 0 ELSE g[Pick(s)] + SumOver(g, s \ {Pick(s)})
    BY <2>1, SumSteps
  <2>3. s # {} /\ Pick(s) \in s
    BY <2>1, <2>2, PickIsThere
  <2>4. s \ {Pick(s)} \in SUBSET DOMAIN f /\ Cardinality(s \ {Pick(s)}) < Cardinality(s)
    BY <2>1, <2>3, OneLess
  <2>5. s \ {Pick(s)} \in bad
    BY <1>1, <2>1, <2>2, <2>3, <2>4
  <2> QED  BY <2>4, <2>5
<1>3. bad = {}
  BY <1>2, NoSmallest
<1> QED  BY <1>1, <1>3

\* Sums over all of two functions that differ at x alone, where f may have no value.
LEMMA SumOneMore ==
  ASSUME NEW f, IsFiniteSet(DOMAIN f), \A d \in DOMAIN f : f[d] \in Nat,
         NEW g, IsFiniteSet(DOMAIN g), \A d \in DOMAIN g : g[d] \in Nat,
         NEW x \in DOMAIN g, DOMAIN g = DOMAIN f \union {x},
         \A d \in DOMAIN g \ {x} : g[d] = f[d],
         g[x] = 1 + IF x \in DOMAIN f THEN f[x] ELSE 0
  PROVE  SumOf(f) \in Nat /\ SumOf(g) = SumOf(f) + 1
<1>1. PICK rest \in SUBSET (DOMAIN f \intersect DOMAIN g) :
        rest = DOMAIN g \ {x} /\ rest = DOMAIN f \ {x}
  OBVIOUS
<1>2. SumOver(f, rest) = SumOver(g, rest)
  BY <1>1, SumOfSame
<1>3. SumOf(g) = g[x] + SumOver(g, rest)
  <2>1. \A d \in DOMAIN g : g[d] \in Int
    OBVIOUS
  <2>2. \A s \in SUBSET DOMAIN g : \A y \in s : SumOver(g, s) = g[y] + SumOver(g, s \ {y})
    BY <2>1, SumAnyFirst
  <2> QED  BY <1>1, <2>2 DEF SumOf
<1>4. SumOver(f, rest) \in Nat
  <2>1. 0 \in Nat /\ \A a, b \in Nat : a + b \in Nat
    OBVIOUS
  <2>2. \A s \in SUBSET DOMAIN f : SumOver(f, s) \in Nat
    BY <2>1, SumIsIn, Zenon
  <2> QED  BY <1>1, <2>2
<1>5. SumOf(f) = (IF x \in DOMAIN f THEN f[x] ELSE 0) + SumOver(f, rest)
  <2>1. \A d \in DOMAIN f : f[d] \in Int
    OBVIOUS
  <2>2. \A s \in SUBSET DOMAIN f : \A y \in s : SumOver(f, s) = f[y] + SumOver(f, s \ {y})
    BY <2>1, SumAnyFirst
  <2>3. CASE x \in DOMAIN f
    BY <1>1, <2>2, <2>3 DEF SumOf
  <2>4. CASE x \notin DOMAIN f
    <3>1. rest = DOMAIN f
      BY <1>1, <2>4
    <3> QED  BY <1>4, <2>4, <3>1 DEF SumOf
  <2> QED  BY <2>3, <2>4
<1>6. (IF x \in DOMAIN f THEN f[x] ELSE 0) \in Nat
  OBVIOUS
<1> QED  BY <1>2, <1>3, <1>4, <1>5, <1>6
=============================================================================

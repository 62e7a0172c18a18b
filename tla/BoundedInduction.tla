--------------------------- MODULE BoundedInduction ---------------------------
(***************************************************************************)
(* Induction up to a number, for sets, and what follows from it of finite  *)
(* sets of numbers.                                                        *)
(***************************************************************************)
EXTENDS Integers, FiniteSets, FiniteSetsExt, FiniteSetTheorems, TLAPS

\* A set with 0 and the successors of its members has every number: if it had
\* a hole, an injection would map what is below it into a smaller set.
LEMMA SetInduction ==
    ASSUME NEW k \in Nat, NEW P, 0 \in P,
           \A n \in 0..(k - 1) : n \in P => n + 1 \in P
    PROVE  k \in P
<1> SUFFICES ASSUME k \notin P PROVE FALSE  OBVIOUS
<1> DEFINE G == (0..k) \cap P
           f == [n \in G |-> n + 1]
<1>1. IsFiniteSet(G) /\ 0 \in G
  <2>1. IsFiniteSet(0..k) /\ G \subseteq 0..k  BY FS_Interval
  <2> QED  BY <2>1, FS_Subset
<1>2. /\ IsFiniteSet(G \ {0}) /\ Cardinality(G) \in Nat
      /\ Cardinality(G \ {0}) = Cardinality(G) - 1
  BY <1>1, FS_RemoveElement, FS_CardinalityType
<1>3. f \in [G -> G \ {0}]  OBVIOUS
<1>4. \E x, y \in G : x # y /\ f[x] = f[y]
  <2> HIDE DEF G, f
  <2>1. Cardinality(G \ {0}) < Cardinality(G)  BY <1>2
  <2> QED  BY <1>1, <1>2, <1>3, <2>1, FS_PigeonHole
<1> QED  BY <1>4

\* A finite set of numbers that is not empty has a largest one, which Max is.
LEMMA MaxOfNumbers ==
    ASSUME NEW S \in SUBSET Nat, IsFiniteSet(S), S # {}
    PROVE  Max(S) \in S /\ \A y \in S : y <= Max(S)
<1> DEFINE P == {n \in Nat : \A T \in SUBSET S : Cardinality(T) = n + 1
                                => \E x \in T : \A y \in T : x >= y}
<1>1. 0 \in P
  <2> SUFFICES ASSUME NEW T \in SUBSET S, Cardinality(T) = 1
               PROVE  \E x \in T : \A y \in T : x >= y
    OBVIOUS
  <2>1. IsFiniteSet(T)  BY FS_Subset
  <2>2. PICK x : T = {x}  BY <2>1, FS_Singleton
  <2> QED  BY <2>2
<1>2. ASSUME NEW n \in Nat, n \in P PROVE n + 1 \in P
  <2> SUFFICES ASSUME NEW T \in SUBSET S, Cardinality(T) = n + 2
               PROVE  \E x \in T : \A y \in T : x >= y
    OBVIOUS
  <2>1. IsFiniteSet(T)  BY FS_Subset
  <2>2. PICK z : z \in T
    <3>1. T # {}
      <4>1. Cardinality({}) = 0  BY FS_EmptySet
      <4> QED  BY <4>1
    <3> QED  BY <3>1
  <2>3. Cardinality(T \ {z}) = n + 1
    <3>1. Cardinality(T \ {z}) = Cardinality(T) - 1  BY <2>1, <2>2, FS_RemoveElement
    <3> QED  BY <3>1
  <2>4. PICK x \in T \ {z} : \A y \in T \ {z} : x >= y
    <3>1. T \ {z} \in SUBSET S  OBVIOUS
    <3> QED  BY <1>2, <2>3, <3>1
  <2> QED  BY <2>4
<1>3. Cardinality(S) \in Nat /\ Cardinality(S) - 1 \in Nat
  BY FS_CardinalityType, FS_EmptySet
<1>4. Cardinality(S) - 1 \in P
  <2> HIDE DEF P
  <2> QED  BY <1>1, <1>2, <1>3, SetInduction
<1>5. \E x \in S : \A y \in S : x >= y
  <2>1. \A T \in SUBSET S : Cardinality(T) = Cardinality(S) => \E x \in T : \A y \in T : x >= y
    <3>1. (Cardinality(S) - 1) + 1 = Cardinality(S)  BY <1>3
    <3> QED  BY <1>4, <3>1
  <2> QED  BY <2>1
<1> QED  BY <1>5 DEF Max

=============================================================================

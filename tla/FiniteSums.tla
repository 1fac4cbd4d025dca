------------------------------- MODULE FiniteSums -------------------------------
(***************************************************************************)
(* Facts about sums over finite sets, for the proofs about points.         *)
(*                                                                         *)
(* SumFunctionOnSet(F, S) adds F[x] for the x of S.  The community module  *)
(* computes it by a recursive function on the subsets of S; the inductions *)
(* are about sets of subsets, so that no fact takes an operator.           *)
(***************************************************************************)
EXTENDS Integers, FiniteSets, Functions, FiniteSetTheorems, TLAPS

(***************************************************************************)
(* Induction on finite sets                                                *)
(***************************************************************************)

(* Of some subsets of a finite set, one contains no other of them.         *)
LEMMA MinimalSubset ==
    ASSUME NEW S, IsFiniteSet(S), NEW B \in SUBSET SUBSET S, B # {}
    PROVE  \E U \in B : \A V \in B : V \subseteq U => V = U
<1>1. IsWellFoundedOn(StrictSubsetOrdering(S), FiniteSubsetsOf(S))
  BY FS_StrictSubsetOrderingWellFounded
<1>2. B \subseteq FiniteSubsetsOf(S)
  BY FS_FiniteSubsetsOfFinite
<1>3. PICK U \in B : \A V \in B : <<V, U>> \notin StrictSubsetOrdering(S)
  BY <1>1, <1>2, WFMin
<1> QED BY <1>3 DEF StrictSubsetOrdering

(* What holds of the empty set, and of a set with one more element when it *)
(* holds of the set, holds of the whole.                                   *)
LEMMA FiniteInduction ==
    ASSUME NEW S, IsFiniteSet(S), NEW G, {} \in G,
           \A T \in SUBSET S : \A x \in S \ T : T \in G => T \cup {x} \in G
    PROVE  S \in G
<1> SUFFICES ASSUME S \notin G PROVE FALSE
  OBVIOUS
<1> DEFINE B == (SUBSET S) \ G
<1>1. B # {} /\ B \in SUBSET SUBSET S
  OBVIOUS
<1>2. PICK U \in B : \A V \in B : V \subseteq U => V = U
  <2> HIDE DEF B
  <2> QED BY <1>1, MinimalSubset
<1>3. PICK x \in U : TRUE
  BY <1>2
<1>4. U \ {x} \in G
  BY <1>2, <1>3
<1>5. (U \ {x}) \cup {x} = U
  BY <1>3
<1> QED BY <1>2, <1>3, <1>4, <1>5

(* The same for the numbers up to a bound.                                 *)
LEMMA NumberInduction ==
    ASSUME NEW n \in Nat, NEW G, 0 \in G, \A i \in 0..(n - 1) : i \in G => i + 1 \in G
    PROVE  n \in G
<1> DEFINE H == {T \in SUBSET (1..n) : Cardinality(T) \in G}
<1>1. IsFiniteSet(1..n) /\ Cardinality(1..n) = n
  BY FS_Interval
<1>2. {} \in H
  BY FS_EmptySet
<1>3. ASSUME NEW T \in SUBSET (1..n), NEW x \in (1..n) \ T, T \in H
      PROVE  T \cup {x} \in H
  <2>1. IsFiniteSet(T) /\ IsFiniteSet(T \cup {x})
    BY <1>1, FS_Subset, FS_AddElement
  <2>2. Cardinality(T \cup {x}) = Cardinality(T) + 1
    BY <1>3, <2>1, FS_AddElement
  <2>3. Cardinality(T) \in Nat /\ Cardinality(T \cup {x}) <= n
    BY <1>1, <2>1, FS_Subset, FS_CardinalityType
  <2>4. Cardinality(T) \in 0..(n - 1)
    BY <2>2, <2>3
  <2> QED BY <1>3, <2>2, <2>4
<1>4. 1..n \in H
  <2> HIDE DEF H
  <2> QED BY <1>1, <1>2, <1>3, FiniteInduction
<1> QED BY <1>1, <1>4

(***************************************************************************)
(* The recursion that computes a sum                                       *)
(***************************************************************************)

First(s) == CHOOSE x \in s : TRUE

(* g gives each set of D the sum of F over it.                             *)
Sums(g, F, D) ==
    g = [s \in D |-> IF s = {} THEN 0
                     ELSE LET x == CHOOSE x \in s : TRUE IN F[x] + g[s \ {x}]]

LEMMA SumsAt ==
    ASSUME NEW g, NEW F, NEW D, Sums(g, F, D), NEW s \in D
    PROVE  /\ s = {} => g[s] = 0
           /\ s # {} => First(s) \in s /\ g[s] = F[First(s)] + g[s \ {First(s)}]
<1>1. g[s] = IF s = {} THEN 0
             ELSE F[CHOOSE x \in s : TRUE] + g[s \ {CHOOSE x \in s : TRUE}]
  BY DEF Sums
<1>2. s # {} => (CHOOSE x \in s : TRUE) \in s
  OBVIOUS
<1> QED BY <1>1, <1>2 DEF First

(* g gives each subset of S the sum of F over it.                          *)
SumsOver(g, F, S) == Sums(g, F, SUBSET S)

(* The recursion has a solution: it is built up by the number of elements. *)
LEMMA SumsExist ==
    ASSUME NEW F, NEW S, IsFiniteSet(S)
    PROVE  \E g : SumsOver(g, F, S)
<1> DEFINE Small(n) == {s \in SUBSET S : Cardinality(s) <= n}
           G == {n \in Nat : \E g : Sums(g, F, Small(n))}
<1>1. \A s \in SUBSET S : IsFiniteSet(s) /\ Cardinality(s) \in Nat
                          /\ Cardinality(s) <= Cardinality(S)
  BY FS_Subset, FS_CardinalityType
<1>2. 0 \in G
  <2> DEFINE g == [s \in Small(0) |-> 0]
  <2>1. \A s \in Small(0) : s = {}
    BY <1>1, FS_EmptySet
  <2>2. Sums(g, F, Small(0))
    BY <2>1 DEF Sums
  <2> QED BY <2>2
<1>3. ASSUME NEW n \in Nat, n \in G
      PROVE  n + 1 \in G
  <2>1. PICK g : Sums(g, F, Small(n))
    BY <1>3
  <2> DEFINE h == [s \in Small(n + 1) |-> IF s = {} THEN 0
                     ELSE LET x == CHOOSE x \in s : TRUE IN F[x] + g[s \ {x}]]
  <2>2. \A s \in Small(n) : s \in Small(n + 1) /\ h[s] = g[s]
    <3> SUFFICES ASSUME NEW s \in Small(n)
                 PROVE  s \in Small(n + 1) /\ h[s] = g[s]
      OBVIOUS
    <3>1. s \in Small(n + 1)
      BY <1>1
    <3>2. g[s] = IF s = {} THEN 0
                 ELSE F[CHOOSE x \in s : TRUE] + g[s \ {CHOOSE x \in s : TRUE}]
      BY <2>1 DEF Sums
    <3> HIDE DEF Small
    <3> QED BY <3>1, <3>2
  <2>3. \A s \in Small(n + 1) : \A x \in s : s \ {x} \in Small(n)
    <3> SUFFICES ASSUME NEW s \in Small(n + 1), NEW x \in s
                 PROVE  s \ {x} \in Small(n)
      OBVIOUS
    <3>1. Cardinality(s \ {x}) = Cardinality(s) - 1
      BY <1>1, FS_RemoveElement
    <3> QED BY <1>1, <3>1
  <2>4. \A s \in Small(n + 1) : s # {} =>
            h[s \ {CHOOSE x \in s : TRUE}] = g[s \ {CHOOSE x \in s : TRUE}]
    <3> HIDE DEF h, Small
    <3> QED BY <2>2, <2>3
  <2>5. h = [s \in Small(n + 1) |-> IF s = {} THEN 0
                ELSE LET x == CHOOSE x \in s : TRUE IN F[x] + h[s \ {x}]]
    <3> DEFINE k == [s \in Small(n + 1) |-> IF s = {} THEN 0
                        ELSE LET x == CHOOSE x \in s : TRUE IN F[x] + h[s \ {x}]]
    <3>1. ASSUME NEW s \in Small(n + 1)
          PROVE  h[s] = k[s]
      <4> HIDE DEF Small
      <4> DEFINE x == CHOOSE x \in s : TRUE
      <4>1. h[s] = IF s = {} THEN 0 ELSE F[x] + g[s \ {x}]
        OBVIOUS
      <4>2. k[s] = IF s = {} THEN 0 ELSE F[x] + h[s \ {x}]
        OBVIOUS
      <4>3. s # {} => h[s \ {x}] = g[s \ {x}]
        BY <2>4
      <4> HIDE DEF h, k, x
      <4> QED BY <4>1, <4>2, <4>3
    <3>2. h = [s \in Small(n + 1) |-> h[s]] /\ k = [s \in Small(n + 1) |-> k[s]]
      OBVIOUS
    <3>3. h = k
      <4> HIDE DEF h, k, Small
      <4> QED BY <3>1, <3>2
    <3> QED BY <3>3
  <2>6. Sums(h, F, Small(n + 1))
    <3> HIDE DEF h, Small
    <3> QED BY <2>5 DEF Sums
  <2> QED BY <2>6
<1>4. Cardinality(S) \in G
  <2> HIDE DEF G
  <2>1. Cardinality(S) \in Nat
    BY <1>1
  <2>2. \A i \in 0..(Cardinality(S) - 1) : i \in G => i + 1 \in G
    BY <1>3
  <2> QED BY <1>2, <2>1, <2>2, NumberInduction
<1>5. Small(Cardinality(S)) = SUBSET S
  BY <1>1
<1> QED
  <2> HIDE DEF Small
  <2> QED BY <1>4, <1>5 DEF SumsOver

(* It has no other: two solutions agree wherever both are defined.         *)
LEMMA SumsAgree ==
    ASSUME NEW F, NEW S, IsFiniteSet(S), NEW T \in SUBSET S,
           NEW g, SumsOver(g, F, S), NEW h, SumsOver(h, F, T)
    PROVE  g[T] = h[T]
<1> SUFFICES ASSUME g[T] # h[T] PROVE FALSE
  OBVIOUS
<1> DEFINE B == {U \in SUBSET T : g[U] # h[U]}
<1>1. IsFiniteSet(T)
  BY FS_Subset
<1>2. B # {} /\ B \in SUBSET SUBSET T
  OBVIOUS
<1>3. PICK U \in B : \A V \in B : V \subseteq U => V = U
  <2> HIDE DEF B
  <2> QED BY <1>1, <1>2, MinimalSubset
<1>4. U \in SUBSET T /\ U \in SUBSET S /\ g[U] # h[U]
  BY <1>3
<1>5. U # {}
  BY <1>4, SumsAt DEF SumsOver
<1> DEFINE x == First(U)
<1>6. x \in U /\ g[U] = F[x] + g[U \ {x}]
  BY <1>4, <1>5, SumsAt DEF SumsOver
<1>7. h[U] = F[x] + h[U \ {x}]
  BY <1>4, <1>5, SumsAt DEF SumsOver
<1> HIDE DEF x
<1>8. g[U \ {x}] = h[U \ {x}]
  BY <1>3, <1>4, <1>6
<1> QED BY <1>4, <1>6, <1>7, <1>8

(* A sum is the solution's value at the whole set.                         *)
LEMMA SumSolves ==
    ASSUME NEW F, NEW S, IsFiniteSet(S)
    PROVE  \E g : SumsOver(g, F, S) /\ SumFunctionOnSet(F, S) = g[S]
<1> DEFINE g == CHOOSE g : SumsOver(g, F, S)
<1>1. SumsOver(g, F, S)
  BY SumsExist
<1>2. SumFunctionOnSet(F, S) = g[S]
  BY DEF SumFunctionOnSet, FoldFunctionOnSet, MapThenFoldSet,
         SumsOver, Sums
<1> QED BY <1>1, <1>2

LEMMA SumEmpty ==
    ASSUME NEW F
    PROVE  SumFunctionOnSet(F, {}) = 0
<1>1. PICK g : SumsOver(g, F, {}) /\ SumFunctionOnSet(F, {}) = g[{}]
  BY SumSolves, FS_EmptySet
<1>2. g[{}] = 0
  BY <1>1, SumsAt DEF SumsOver
<1> QED BY <1>1, <1>2

LEMMA SumFirst ==
    ASSUME NEW F, NEW S, IsFiniteSet(S), S # {}
    PROVE  \E x \in S : SumFunctionOnSet(F, S) = F[x] + SumFunctionOnSet(F, S \ {x})
<1>1. PICK g : SumsOver(g, F, S) /\ SumFunctionOnSet(F, S) = g[S]
  BY SumSolves
<1>2. PICK x \in S : g[S] = F[x] + g[S \ {x}]
  <2>1. S \in SUBSET S
    OBVIOUS
  <2>2. First(S) \in S /\ g[S] = F[First(S)] + g[S \ {First(S)}]
    BY <1>1, <2>1, SumsAt DEF SumsOver
  <2> QED BY <2>2
<1>3. IsFiniteSet(S \ {x})
  BY FS_RemoveElement
<1>4. PICK h : SumsOver(h, F, S \ {x}) /\ SumFunctionOnSet(F, S \ {x}) = h[S \ {x}]
  BY <1>3, SumSolves
<1>5. g[S \ {x}] = h[S \ {x}]
  BY <1>1, <1>4, SumsAgree
<1> QED BY <1>1, <1>2, <1>4, <1>5

(***************************************************************************)
(* Sums of integers                                                        *)
(***************************************************************************)
LEMMA SumInteger ==
    ASSUME NEW S, IsFiniteSet(S), NEW F, \A x \in S : F[x] \in Int
    PROVE  SumFunctionOnSet(F, S) \in Int
<1> SUFFICES ASSUME SumFunctionOnSet(F, S) \notin Int PROVE FALSE
  OBVIOUS
<1> DEFINE B == {U \in SUBSET S : SumFunctionOnSet(F, U) \notin Int}
<1>1. B # {} /\ B \in SUBSET SUBSET S
  OBVIOUS
<1>2. PICK U \in B : \A V \in B : V \subseteq U => V = U
  <2> HIDE DEF B
  <2> QED BY <1>1, MinimalSubset
<1>3. U \in SUBSET S /\ IsFiniteSet(U) /\ SumFunctionOnSet(F, U) \notin Int
  BY <1>2, FS_Subset
<1>4. U # {}
  BY <1>3, SumEmpty
<1>5. PICK x \in U : SumFunctionOnSet(F, U) = F[x] + SumFunctionOnSet(F, U \ {x})
  BY <1>3, <1>4, SumFirst
<1>6. SumFunctionOnSet(F, U \ {x}) \in Int
  BY <1>2, <1>3
<1> QED BY <1>3, <1>5, <1>6

(* Any element may be taken out first.                                     *)
LEMMA SumRemove ==
    ASSUME NEW S, IsFiniteSet(S), NEW F, \A x \in S : F[x] \in Int, NEW x \in S
    PROVE  SumFunctionOnSet(F, S) = F[x] + SumFunctionOnSet(F, S \ {x})
<1> DEFINE Bad(U) == \E y \in U :
                SumFunctionOnSet(F, U) # F[y] + SumFunctionOnSet(F, U \ {y})
           B == {U \in SUBSET S : Bad(U)}
<1> SUFFICES ASSUME Bad(S) PROVE FALSE
  OBVIOUS
<1>1. B # {} /\ B \in SUBSET SUBSET S
  OBVIOUS
<1>2. PICK U \in B : \A V \in B : V \subseteq U => V = U
  <2> HIDE DEF B
  <2> QED BY <1>1, MinimalSubset
<1>3. U \in SUBSET S /\ IsFiniteSet(U)
  BY <1>2, FS_Subset
<1>4. PICK y \in U : SumFunctionOnSet(F, U) # F[y] + SumFunctionOnSet(F, U \ {y})
  BY <1>2
<1>5. PICK z \in U : SumFunctionOnSet(F, U) = F[z] + SumFunctionOnSet(F, U \ {z})
  BY <1>3, <1>4, SumFirst
<1>6. y # z
  BY <1>4, <1>5
<1>7. \A w \in U : U \ {w} \notin B
  BY <1>2
<1>8. \A w \in U : \A v \in U \ {w} :
          SumFunctionOnSet(F, U \ {w}) =
              F[v] + SumFunctionOnSet(F, (U \ {w}) \ {v})
  BY <1>3, <1>7
<1>9. /\ SumFunctionOnSet(F, U \ {z}) = F[y] + SumFunctionOnSet(F, (U \ {z}) \ {y})
      /\ SumFunctionOnSet(F, U \ {y}) = F[z] + SumFunctionOnSet(F, (U \ {y}) \ {z})
  BY <1>6, <1>8
<1>10. (U \ {z}) \ {y} = (U \ {y}) \ {z}
  OBVIOUS
<1>11. IsFiniteSet((U \ {y}) \ {z})
  BY <1>3, FS_Subset
<1>12. SumFunctionOnSet(F, (U \ {y}) \ {z}) \in Int
  BY <1>3, <1>11, SumInteger
<1>13. F[y] \in Int /\ F[z] \in Int
  BY <1>3
<1> DEFINE rest == SumFunctionOnSet(F, (U \ {y}) \ {z})
<1>14. SumFunctionOnSet(F, U) = F[z] + (F[y] + rest)
  BY <1>5, <1>9, <1>10
<1>15. SumFunctionOnSet(F, U) # F[y] + (F[z] + rest)
  BY <1>4, <1>9
<1> HIDE DEF Bad, B, rest
<1>16. rest \in Int
  BY <1>12 DEF rest
<1> QED BY <1>13, <1>14, <1>15, <1>16

LEMMA SumAdd ==
    ASSUME NEW S, IsFiniteSet(S), NEW x, x \notin S, NEW F,
           \A y \in S \cup {x} : F[y] \in Int
    PROVE  /\ SumFunctionOnSet(F, S) \in Int
           /\ SumFunctionOnSet(F, S \cup {x}) = SumFunctionOnSet(F, S) + F[x]
<1>1. IsFiniteSet(S \cup {x}) /\ (S \cup {x}) \ {x} = S
  BY FS_AddElement
<1>2. SumFunctionOnSet(F, S \cup {x}) =
          F[x] + SumFunctionOnSet(F, (S \cup {x}) \ {x})
  BY <1>1, SumRemove
<1>3. SumFunctionOnSet(F, S) \in Int
  BY SumInteger
<1>4. F[x] \in Int
  OBVIOUS
<1> DEFINE sum == SumFunctionOnSet(F, S)
<1>5. SumFunctionOnSet(F, S \cup {x}) = F[x] + sum
  BY <1>1, <1>2
<1> HIDE DEF sum
<1>6. sum \in Int
  BY <1>3 DEF sum
<1>7. SumFunctionOnSet(F, S \cup {x}) = sum + F[x]
  BY <1>4, <1>5, <1>6
<1> QED BY <1>6, <1>7 DEF sum

(***************************************************************************)
(* Comparing sums                                                          *)
(***************************************************************************)
LEMMA SumMonotone ==
    ASSUME NEW S, IsFiniteSet(S), NEW F, NEW H,
           \A x \in S : F[x] \in Int /\ H[x] \in Int /\ F[x] <= H[x]
    PROVE  SumFunctionOnSet(F, S) <= SumFunctionOnSet(H, S)
<1> DEFINE G == {T \in SUBSET S : SumFunctionOnSet(F, T) <= SumFunctionOnSet(H, T)}
<1>1. {} \in G
  BY SumEmpty
<1>2. ASSUME NEW T \in SUBSET S, NEW x \in S \ T, T \in G
      PROVE  T \cup {x} \in G
  <2>1. IsFiniteSet(T) /\ x \notin T
    BY FS_Subset
  <2>2. /\ SumFunctionOnSet(F, T) \in Int
        /\ SumFunctionOnSet(F, T \cup {x}) = SumFunctionOnSet(F, T) + F[x]
    BY <2>1, SumAdd
  <2>3. /\ SumFunctionOnSet(H, T) \in Int
        /\ SumFunctionOnSet(H, T \cup {x}) = SumFunctionOnSet(H, T) + H[x]
    BY <2>1, SumAdd
  <2> QED BY <1>2, <2>2, <2>3
<1>3. S \in G
  <2> HIDE DEF G
  <2> QED BY <1>1, <1>2, FiniteInduction
<1> QED BY <1>3

LEMMA SumSame ==
    ASSUME NEW S, IsFiniteSet(S), NEW F, NEW H,
           \A x \in S : F[x] \in Int /\ F[x] = H[x]
    PROVE  SumFunctionOnSet(F, S) = SumFunctionOnSet(H, S)
<1>1. SumFunctionOnSet(F, S) \in Int /\ SumFunctionOnSet(H, S) \in Int
  BY SumInteger
<1>2. SumFunctionOnSet(F, S) <= SumFunctionOnSet(H, S)
  BY SumMonotone
<1>3. SumFunctionOnSet(H, S) <= SumFunctionOnSet(F, S)
  BY SumMonotone
<1> QED BY <1>1, <1>2, <1>3

(* Sums of sums, term by term.                                             *)
LEMMA SumPlus ==
    ASSUME NEW S, IsFiniteSet(S), NEW F, NEW H, NEW K,
           \A x \in S : F[x] \in Int /\ H[x] \in Int /\ K[x] = F[x] + H[x]
    PROVE  SumFunctionOnSet(K, S) = SumFunctionOnSet(F, S) + SumFunctionOnSet(H, S)
<1> DEFINE G == {T \in SUBSET S : SumFunctionOnSet(K, T) =
                     SumFunctionOnSet(F, T) + SumFunctionOnSet(H, T)}
<1>1. {} \in G
  BY SumEmpty
<1>2. ASSUME NEW T \in SUBSET S, NEW x \in S \ T, T \in G
      PROVE  T \cup {x} \in G
  <2>1. IsFiniteSet(T) /\ x \notin T
    BY FS_Subset
  <2>2. /\ SumFunctionOnSet(F, T) \in Int
        /\ SumFunctionOnSet(F, T \cup {x}) = SumFunctionOnSet(F, T) + F[x]
    BY <2>1, SumAdd
  <2>3. /\ SumFunctionOnSet(H, T) \in Int
        /\ SumFunctionOnSet(H, T \cup {x}) = SumFunctionOnSet(H, T) + H[x]
    BY <2>1, SumAdd
  <2>4. \A y \in S : K[y] \in Int
    OBVIOUS
  <2>5. SumFunctionOnSet(K, T \cup {x}) = SumFunctionOnSet(K, T) + K[x]
    BY <2>1, <2>4, SumAdd
  <2> QED BY <1>2, <2>2, <2>3, <2>5
<1>3. S \in G
  <2> HIDE DEF G
  <2> QED BY <1>1, <1>2, FiniteInduction
<1> QED BY <1>3

(* Terms that are zero need not be added.                                  *)
LEMMA SumSupport ==
    ASSUME NEW S, IsFiniteSet(S), NEW F, NEW R \in SUBSET S,
           \A x \in S : F[x] \in Int, \A x \in S \ R : F[x] = 0
    PROVE  SumFunctionOnSet(F, S) = SumFunctionOnSet(F, R)
<1> DEFINE G == {T \in SUBSET S : SumFunctionOnSet(F, T) = SumFunctionOnSet(F, T \cap R)}
<1>1. {} \in G
  OBVIOUS
<1>2. ASSUME NEW T \in SUBSET S, NEW x \in S \ T, T \in G
      PROVE  T \cup {x} \in G
  <2>1. IsFiniteSet(T) /\ IsFiniteSet(T \cap R) /\ x \notin T /\ x \notin T \cap R
    BY FS_Subset
  <2>2. /\ SumFunctionOnSet(F, T) \in Int
        /\ SumFunctionOnSet(F, T \cup {x}) = SumFunctionOnSet(F, T) + F[x]
    BY <2>1, SumAdd
  <2>3. CASE x \in R
    <3>1. (T \cup {x}) \cap R = (T \cap R) \cup {x}
      BY <2>3
    <3>2. SumFunctionOnSet(F, (T \cap R) \cup {x}) =
              SumFunctionOnSet(F, T \cap R) + F[x]
      BY <2>1, SumAdd
    <3> QED BY <1>2, <2>2, <3>1, <3>2
  <2>4. CASE x \notin R
    <3>1. (T \cup {x}) \cap R = T \cap R /\ F[x] = 0
      BY <2>4
    <3>2. SumFunctionOnSet(F, T \cup {x}) = SumFunctionOnSet(F, T)
      BY <2>2, <3>1
    <3> QED BY <1>2, <3>1, <3>2
  <2> QED BY <2>3, <2>4
<1>3. S \in G
  <2> HIDE DEF G
  <2> QED BY <1>1, <1>2, FiniteInduction
<1>4. S \cap R = R
  OBVIOUS
<1> QED BY <1>3, <1>4

LEMMA SumZero ==
    ASSUME NEW S, IsFiniteSet(S), NEW F, \A x \in S : F[x] = 0
    PROVE  SumFunctionOnSet(F, S) = 0
<1>1. SumFunctionOnSet(F, S) = SumFunctionOnSet(F, {})
  BY SumSupport
<1> QED BY <1>1, SumEmpty

LEMMA SumSingle ==
    ASSUME NEW S, IsFiniteSet(S), NEW F, NEW x \in S, F[x] \in Int,
           \A y \in S \ {x} : F[y] = 0
    PROVE  SumFunctionOnSet(F, S) = F[x]
<1>1. \A y \in S : F[y] \in Int
  OBVIOUS
<1>2. SumFunctionOnSet(F, S) = SumFunctionOnSet(F, {x})
  BY <1>1, SumSupport
<1>3. SumFunctionOnSet(F, {} \cup {x}) = SumFunctionOnSet(F, {}) + F[x]
  BY FS_EmptySet, SumAdd
<1>4. {} \cup {x} = {x}
  OBVIOUS
<1> QED BY <1>2, <1>3, <1>4, SumEmpty

(* Counting is a sum.                                                      *)
LEMMA SumCounts ==
    ASSUME NEW S, IsFiniteSet(S), NEW Q \in SUBSET S, NEW v \in Int, NEW F,
           \A x \in S : F[x] = IF x \in Q THEN v ELSE 0
    PROVE  /\ Cardinality(Q) \in Nat
           /\ SumFunctionOnSet(F, S) = v * Cardinality(Q)
<1>1. IsFiniteSet(Q) /\ Cardinality(Q) \in Nat
  BY FS_Subset, FS_CardinalityType
<1> DEFINE G == {T \in SUBSET Q : SumFunctionOnSet(F, T) = v * Cardinality(T)}
<1>2. {} \in G
  BY SumEmpty, FS_EmptySet
<1>3. ASSUME NEW T \in SUBSET Q, NEW x \in Q \ T, T \in G
      PROVE  T \cup {x} \in G
  <2>1. IsFiniteSet(T) /\ Cardinality(T) \in Nat /\ x \notin T
    BY <1>1, FS_Subset, FS_CardinalityType
  <2>2. SumFunctionOnSet(F, T \cup {x}) = SumFunctionOnSet(F, T) + F[x]
    BY <2>1, SumAdd
  <2>3. Cardinality(T \cup {x}) = Cardinality(T) + 1
    BY <2>1, FS_AddElement
  <2>4. \A n \in Nat : v * (n + 1) = v * n + v
    OBVIOUS
  <2>5. SumFunctionOnSet(F, T) = v * Cardinality(T) /\ F[x] = v
    BY <1>3
  <2> QED BY <2>1, <2>2, <2>3, <2>4, <2>5
<1>4. Q \in G
  <2> HIDE DEF G
  <2> QED BY <1>1, <1>2, <1>3, FiniteInduction
<1>5. SumFunctionOnSet(F, S) = SumFunctionOnSet(F, Q)
  BY SumSupport
<1> QED BY <1>1, <1>4, <1>5

(***************************************************************************)
(* Grouping and renaming terms                                             *)
(***************************************************************************)

(* The elements of S with key k.                                           *)
WithKey(S, key, k) == {x \in S : key[x] = k}

(* The terms of S, grouped by a key of the finite set Keys.                *)
LEMMA SumByKey ==
    ASSUME NEW S, IsFiniteSet(S), NEW F, \A x \in S : F[x] \in Int,
           NEW Keys, IsFiniteSet(Keys), NEW key \in [S -> Keys],
           NEW H, \A k \in Keys : H[k] = SumFunctionOnSet(F, WithKey(S, key, k))
    PROVE  SumFunctionOnSet(H, Keys) = SumFunctionOnSet(F, S)
<1> DEFINE Group(T, k) == {x \in T : key[x] = k}
           Grouped(T) == [k \in Keys |-> SumFunctionOnSet(F, Group(T, k))]
           G == {T \in SUBSET S : SumFunctionOnSet(Grouped(T), Keys) = SumFunctionOnSet(F, T)}
<1>1. {} \in G
  <2>1. \A k \in Keys : Group({}, k) = {}
    OBVIOUS
  <2>2. \A k \in Keys : Grouped({})[k] = 0
    BY <2>1, SumEmpty
  <2>3. SumFunctionOnSet(Grouped({}), Keys) = 0
    <3> HIDE DEF Grouped
    <3> QED BY <2>2, SumZero
  <2> QED BY <2>3, SumEmpty
<1>2. ASSUME NEW T \in SUBSET S, NEW x \in S \ T, T \in G
      PROVE  T \cup {x} \in G
  <2> DEFINE old == Grouped(T)
             new == Grouped(T \cup {x})
             more == [k \in Keys |-> IF k = key[x] THEN F[x] ELSE 0]
  <2>1. IsFiniteSet(T) /\ x \notin T /\ key[x] \in Keys /\ F[x] \in Int
    BY FS_Subset
  <2>2. \A k \in Keys : IsFiniteSet(Group(T, k)) /\ x \notin Group(T, k)
    BY <2>1, FS_Subset
  <2>3. \A k \in Keys : old[k] = SumFunctionOnSet(F, Group(T, k)) /\ old[k] \in Int
    <3> SUFFICES ASSUME NEW k \in Keys
                 PROVE  old[k] = SumFunctionOnSet(F, Group(T, k)) /\ old[k] \in Int
      OBVIOUS
    <3>1. SumFunctionOnSet(F, Group(T, k)) \in Int
      <4>1. \A y \in Group(T, k) : F[y] \in Int
        OBVIOUS
      <4> HIDE DEF Group
      <4> QED BY <2>2, <4>1, SumInteger
    <3> QED BY <3>1
  <2>4. \A k \in Keys : new[k] = old[k] + more[k]
    <3> SUFFICES ASSUME NEW k \in Keys
                 PROVE  new[k] = old[k] + more[k]
      OBVIOUS
    <3>1. CASE k = key[x]
      <4>1. Group(T \cup {x}, k) = Group(T, k) \cup {x}
        BY <3>1
      <4>2. \A y \in Group(T, k) \cup {x} : F[y] \in Int
        OBVIOUS
      <4>3. SumFunctionOnSet(F, Group(T, k) \cup {x}) =
                SumFunctionOnSet(F, Group(T, k)) + F[x]
        <5> HIDE DEF Group
        <5> QED BY <2>2, <4>2, SumAdd
      <4>4. new[k] = SumFunctionOnSet(F, Group(T \cup {x}, k)) /\ more[k] = F[x]
        BY <3>1
      <4> HIDE DEF old, new, more, Group
      <4> QED BY <2>3, <4>1, <4>3, <4>4
    <3>2. CASE k # key[x]
      <4>1. Group(T \cup {x}, k) = Group(T, k)
        BY <3>2
      <4>2. new[k] = SumFunctionOnSet(F, Group(T \cup {x}, k)) /\ more[k] = 0
        BY <3>2
      <4> HIDE DEF old, new, more, Group
      <4> QED BY <2>3, <4>1, <4>2
    <3> QED BY <3>1, <3>2
  <2>5. SumFunctionOnSet(more, Keys) = F[x]
    <3>1. more[key[x]] = F[x] /\ \A k \in Keys \ {key[x]} : more[k] = 0
      BY <2>1
    <3> HIDE DEF more
    <3> QED BY <2>1, <3>1, SumSingle
  <2>6. \A k \in Keys : more[k] \in Int
    BY <2>1
  <2>7. SumFunctionOnSet(new, Keys) =
            SumFunctionOnSet(old, Keys) + SumFunctionOnSet(more, Keys)
    <3>1. \A k \in Keys : old[k] \in Int /\ more[k] \in Int /\ new[k] = old[k] + more[k]
      <4> HIDE DEF old, new, more
      <4> QED BY <2>3, <2>4, <2>6
    <3> HIDE DEF old, new, more
    <3> QED BY <3>1, SumPlus
  <2>8. SumFunctionOnSet(F, T \cup {x}) = SumFunctionOnSet(F, T) + F[x]
    BY <2>1, SumAdd
  <2>9. SumFunctionOnSet(old, Keys) = SumFunctionOnSet(F, T)
    BY <1>2
  <2>10. SumFunctionOnSet(new, Keys) = SumFunctionOnSet(F, T \cup {x})
    <3> HIDE DEF old, new, more
    <3> QED BY <2>5, <2>7, <2>8, <2>9
  <2> QED BY <2>10
<1>3. S \in G
  <2> HIDE DEF G
  <2> QED BY <1>1, <1>2, FiniteInduction
<1>4. \A k \in Keys : Grouped(S)[k] = H[k] /\ Grouped(S)[k] \in Int
  <2> SUFFICES ASSUME NEW k \in Keys
               PROVE  Grouped(S)[k] = H[k] /\ Grouped(S)[k] \in Int
    OBVIOUS
  <2>1. IsFiniteSet(Group(S, k)) /\ \A y \in Group(S, k) : F[y] \in Int
    BY FS_Subset
  <2>2. SumFunctionOnSet(F, Group(S, k)) \in Int
    <3> HIDE DEF Group
    <3> QED BY <2>1, SumInteger
  <2> QED BY <2>2 DEF WithKey
<1>5. SumFunctionOnSet(Grouped(S), Keys) = SumFunctionOnSet(H, Keys)
  <2> HIDE DEF Grouped
  <2> QED BY <1>4, SumSame
<1>6. SumFunctionOnSet(Grouped(S), Keys) = SumFunctionOnSet(F, S)
  BY <1>3
<1> QED
  <2> HIDE DEF Grouped
  <2> QED BY <1>5, <1>6

(* Two sums whose terms are paired off.                                    *)
LEMMA SumRenamed ==
    ASSUME NEW S, IsFiniteSet(S), NEW F, \A x \in S : F[x] \in Int,
           NEW T, IsFiniteSet(T), NEW H, NEW to \in Bijection(S, T),
           \A x \in S : H[to[x]] = F[x]
    PROVE  SumFunctionOnSet(H, T) = SumFunctionOnSet(F, S)
<1>1. to \in [S -> T]
  BY DEF Bijection, Injection
<1>2. ASSUME NEW t \in T
      PROVE  H[t] = SumFunctionOnSet(F, WithKey(S, to, t))
  <2>1. PICK x \in S : to[x] = t
    BY DEF Bijection, Surjection
  <2>2. WithKey(S, to, t) = {x}
    BY <1>1, <2>1 DEF Bijection, Injection, IsInjective, WithKey
  <2>3. SumFunctionOnSet(F, {x}) = F[x]
    <3>1. IsFiniteSet({x}) /\ x \in {x} /\ F[x] \in Int /\ \A y \in {x} \ {x} : F[y] = 0
      BY FS_Singleton
    <3> QED BY <3>1, SumSingle
  <2> QED BY <2>1, <2>2, <2>3
<1> QED BY <1>1, <1>2, SumByKey

RowOf(a, B) == {a} \X B

(* A sum over pairs, row by row.                                           *)
LEMMA SumPairs ==
    ASSUME NEW A, IsFiniteSet(A), NEW B, IsFiniteSet(B),
           NEW F, \A a \in A : \A b \in B : F[<<a, b>>] \in Int,
           NEW H, \A a \in A : H[a] = SumFunctionOnSet(F, RowOf(a, B))
    PROVE  SumFunctionOnSet(H, A) = SumFunctionOnSet(F, A \X B)
<1>1. PICK S : S = A \X B
  OBVIOUS
<1>2. PICK key \in [S -> A] : \A x \in S : key[x] = x[1]
  <2>1. [x \in S |-> x[1]] \in [S -> A]
    BY <1>1
  <2> QED BY <2>1
<1>3. IsFiniteSet(S) /\ \A x \in S : F[x] \in Int
  BY <1>1, FS_Product
<1>4. ASSUME NEW a \in A
      PROVE  H[a] = SumFunctionOnSet(F, WithKey(S, key, a))
  <2>1. WithKey(S, key, a) = RowOf(a, B)
    BY <1>1, <1>2 DEF WithKey, RowOf
  <2> QED BY <2>1
<1>5. SumFunctionOnSet(H, A) = SumFunctionOnSet(F, S)
  BY <1>2, <1>3, <1>4, SumByKey
<1> QED BY <1>1, <1>5
=============================================================================

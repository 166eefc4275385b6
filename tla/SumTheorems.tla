---------------------------- MODULE SumTheorems ----------------------------
(***************************************************************************)
(* Sums over finite sets, for every set and every function: the facts      *)
(* about SumFunctionOnSet that the proofs about levies, payments and       *)
(* quotas need.  A sum is a recursive function, which TLA+ takes to be     *)
(* some function that satisfies the recursive equation; that there is one, *)
(* and that any two agree, is shown by looking at a smallest               *)
(* counterexample.                                                         *)
(***************************************************************************)
EXTENDS FiniteSetsExt, FiniteSetTheorems, TLAPS

First(s) == CHOOSE x \in s: TRUE

Solves(g, f, T) ==
  g = [s \in SUBSET T |-> IF s = {} THEN 0 ELSE f[First(s)] + g[s \ {First(s)}]]

Solution(f, T) == CHOOSE g: Solves(g, f, T)

LEMMA SumIsSolution == \A f, S: SumFunctionOnSet(f, S) = Solution(f, S)[S]
  BY DEF SumFunctionOnSet, FoldFunctionOnSet, MapThenFoldSet, Solution, Solves, First

(* Induction over finite sets, for a set of counterexamples.               *)
LEMMA SmallestSubset ==
  ASSUME NEW S, IsFiniteSet(S), NEW Bad \in SUBSET SUBSET S, Bad # {}
  PROVE  \E T \in Bad: \A U \in SUBSET T: U # T => U \notin Bad
<1>1. IsWellFoundedOn(StrictSubsetOrdering(S), SUBSET S)
  BY FS_StrictSubsetOrderingWellFounded, FS_FiniteSubsetsOfFinite
<1>2. PICK T \in Bad: \A U \in Bad: <<U, T>> \notin StrictSubsetOrdering(S)
  BY <1>1, WFMin
<1>3. ASSUME NEW U \in SUBSET T, U # T, U \in Bad PROVE FALSE
  <2>1. <<U, T>> \in (SUBSET S) \X (SUBSET S)
    BY <1>3
  <2> QED
    BY <2>1, <1>2, <1>3 DEF StrictSubsetOrdering
<1> QED
  BY <1>3

LEMMA FirstIsIn == ASSUME NEW s, s # {} PROVE First(s) \in s
  BY DEF First

LEMMA SolvesAt ==
  ASSUME NEW f, NEW T, NEW g, Solves(g, f, T), NEW s \in SUBSET T
  PROVE  g[s] = IF s = {} THEN 0 ELSE f[First(s)] + g[s \ {First(s)}]
  BY DEF Solves

(* Solutions for two functions agree where the functions do.               *)
AgreeOn(f, h, R) == \A x \in R: f[x] = h[x]

LEMMA SolutionsAgree ==
  ASSUME NEW f, NEW h, NEW S, NEW T, NEW R \in SUBSET S, R \in SUBSET T, IsFiniteSet(R),
         AgreeOn(f, h, R), NEW g, Solves(g, f, S), NEW k, Solves(k, h, T)
  PROVE  g[R] = k[R]
<1> DEFINE Bad == {s \in SUBSET R: g[s] # k[s]}
<1> SUFFICES ASSUME Bad # {} PROVE FALSE
  OBVIOUS
<1>1. PICK s \in Bad: \A u \in SUBSET s: u # s => u \notin Bad
  <2> HIDE DEF Bad
  <2>1. Bad \in SUBSET SUBSET R
    BY DEF Bad
  <2> QED
    BY <2>1, SmallestSubset
<1>2. /\ g[s] = IF s = {} THEN 0 ELSE f[First(s)] + g[s \ {First(s)}]
      /\ k[s] = IF s = {} THEN 0 ELSE h[First(s)] + k[s \ {First(s)}]
  <2>1. s \in SUBSET S /\ s \in SUBSET T
    OBVIOUS
  <2> HIDE DEF Bad
  <2>2. g[s] = IF s = {} THEN 0 ELSE f[First(s)] + g[s \ {First(s)}]
    BY <2>1 DEF Solves
  <2>3. k[s] = IF s = {} THEN 0 ELSE h[First(s)] + k[s \ {First(s)}]
    BY <2>1, SolvesAt
  <2> QED
    BY <2>2, <2>3
<1>3. s # {}
  BY <1>2
<1>4. First(s) \in s
  BY <1>3, FirstIsIn
<1>5. g[s \ {First(s)}] = k[s \ {First(s)}]
  BY <1>1, <1>4
<1> QED
  BY <1>2, <1>3, <1>4, <1>5 DEF AgreeOn

(* There is a solution: the one that takes each value from the solution    *)
(* for a smaller set.                                                      *)
LEMMA SolutionExists ==
  ASSUME NEW f, NEW S, IsFiniteSet(S)
  PROVE  Solves(Solution(f, S), f, S)
<1> DEFINE Bad == {T \in SUBSET S: ~\E g: Solves(g, f, T)}
<1> SUFFICES ASSUME Bad # {} PROVE FALSE
  BY DEF Solution
<1>1. PICK T \in Bad: \A U \in SUBSET T: U # T => U \notin Bad
  <2> HIDE DEF Bad
  <2>1. Bad \in SUBSET SUBSET S
    BY DEF Bad
  <2> QED
    BY <2>1, SmallestSubset
<1>2. \A U \in SUBSET T: IsFiniteSet(U)
  BY FS_Subset
<1>3. \A U \in SUBSET T: U # T => Solves(Solution(f, U), f, U)
  BY <1>1 DEF Solution
<1> DEFINE Less(s) == s \ {First(s)}
           val(s) == IF s = {} THEN 0 ELSE f[First(s)] + Solution(f, Less(s))[Less(s)]
           g == [s \in SUBSET T |-> val(s)]
<1>4. \A s \in SUBSET T: s # {} => Less(s) \in SUBSET T /\ Less(s) # T
  BY FirstIsIn
<1>5. ASSUME NEW s \in SUBSET T, s # {} PROVE Solution(f, Less(s))[Less(s)] = g[Less(s)]
  <2> DEFINE r == Less(s)
  <2>1. r \in SUBSET T /\ r # T
    BY <1>4, <1>5
  <2>2. Solves(Solution(f, r), f, r)
    BY <1>3, <2>1
  <2>3. Solution(f, r)[r] = IF r = {} THEN 0 ELSE f[First(r)] + Solution(f, r)[Less(r)]
    <3>1. r \in SUBSET r
      OBVIOUS
    <3> HIDE DEF r
    <3> QED
      BY <2>2, <3>1, SolvesAt
  <2>4. CASE r = {}
    BY <2>1, <2>3, <2>4
  <2>5. CASE r # {}
    <3>1. Less(r) \in SUBSET T /\ Less(r) # T
      BY <1>4, <2>1, <2>5
    <3>2. Solves(Solution(f, Less(r)), f, Less(r))
      BY <1>3, <3>1
    <3>3. Solution(f, r)[Less(r)] = Solution(f, Less(r))[Less(r)]
      <4>1. IsFiniteSet(Less(r)) /\ Less(r) \in SUBSET r /\ Less(r) \in SUBSET Less(r)
             /\ AgreeOn(f, f, Less(r))
        BY <1>2, <3>1 DEF AgreeOn
      <4> HIDE DEF r, Less
      <4> QED
        BY <2>2, <3>2, <4>1, SolutionsAgree
    <3> QED
      BY <2>1, <2>3, <2>5, <3>3
  <2> QED
    BY <2>4, <2>5
<1>6. \A s \in SUBSET T: val(s) = IF s = {} THEN 0 ELSE f[First(s)] + g[Less(s)]
  BY <1>5
<1>7. Solves(g, f, T)
  BY <1>6 DEF Solves
<1> QED
  BY <1>1, <1>7

-----------------------------------------------------------------------------
(* What the sum is of the empty set, and of a set by its first element.    *)
LEMMA SumOfNothing == \A f: SumFunctionOnSet(f, {}) = 0
  BY SumIsSolution, SolutionExists, SolvesAt, FS_EmptySet

LEMMA SumByFirst ==
  ASSUME NEW f, NEW S, IsFiniteSet(S), S # {}
  PROVE  SumFunctionOnSet(f, S) = f[First(S)] + SumFunctionOnSet(f, S \ {First(S)})
<1> DEFINE R == S \ {First(S)}
<1>1. IsFiniteSet(R) /\ R \in SUBSET S /\ R \in SUBSET R /\ AgreeOn(f, f, R)
  BY FS_Subset DEF AgreeOn
<1>2. Solves(Solution(f, S), f, S) /\ Solves(Solution(f, R), f, R)
  BY <1>1, SolutionExists
<1>3. Solution(f, S)[R] = Solution(f, R)[R]
  BY <1>1, <1>2, SolutionsAgree
<1>4. Solution(f, S)[S] = f[First(S)] + Solution(f, S)[R]
  BY <1>2, SolvesAt
<1> QED
  BY <1>3, <1>4, SumIsSolution

(* Functions that agree on a set have one sum over it.                     *)
LEMMA SumAgrees ==
  ASSUME NEW f, NEW h, NEW S, IsFiniteSet(S), \A x \in S: f[x] = h[x]
  PROVE  SumFunctionOnSet(f, S) = SumFunctionOnSet(h, S)
<1>1. Solves(Solution(f, S), f, S) /\ Solves(Solution(h, S), h, S) /\ S \in SUBSET S
      /\ AgreeOn(f, h, S)
  BY SolutionExists DEF AgreeOn
<1>2. Solution(f, S)[S] = Solution(h, S)[S]
  BY <1>1, SolutionsAgree
<1> QED
  BY <1>2, SumIsSolution

(* A sum of integers is one, and of naturals too.                          *)
LEMMA SumIsInt ==
  ASSUME NEW f, NEW S, IsFiniteSet(S), \A x \in S: f[x] \in Int
  PROVE  SumFunctionOnSet(f, S) \in Int
<1> DEFINE Bad == {T \in SUBSET S: SumFunctionOnSet(f, T) \notin Int}
<1> SUFFICES ASSUME Bad # {} PROVE FALSE
  OBVIOUS
<1>1. PICK T \in Bad: \A U \in SUBSET T: U # T => U \notin Bad
  <2> HIDE DEF Bad
  <2>1. Bad \in SUBSET SUBSET S
    BY DEF Bad
  <2> QED
    BY <2>1, SmallestSubset
<1>2. T # {}
  BY SumOfNothing
<1>3. First(T) \in T /\ IsFiniteSet(T)
  BY <1>2, FirstIsIn, FS_Subset
<1>4. SumFunctionOnSet(f, T) = f[First(T)] + SumFunctionOnSet(f, T \ {First(T)})
  BY <1>2, <1>3, SumByFirst
<1>5. SumFunctionOnSet(f, T \ {First(T)}) \in Int
  BY <1>1, <1>3
<1> QED
  BY <1>3, <1>4, <1>5

LEMMA SumIsNat ==
  ASSUME NEW f, NEW S, IsFiniteSet(S), \A x \in S: f[x] \in Nat
  PROVE  SumFunctionOnSet(f, S) \in Nat
<1> DEFINE Bad == {T \in SUBSET S: SumFunctionOnSet(f, T) \notin Nat}
<1> SUFFICES ASSUME Bad # {} PROVE FALSE
  OBVIOUS
<1>1. PICK T \in Bad: \A U \in SUBSET T: U # T => U \notin Bad
  <2> HIDE DEF Bad
  <2>1. Bad \in SUBSET SUBSET S
    BY DEF Bad
  <2> QED
    BY <2>1, SmallestSubset
<1>2. T # {}
  BY SumOfNothing
<1>3. First(T) \in T /\ IsFiniteSet(T)
  BY <1>2, FirstIsIn, FS_Subset
<1>4. SumFunctionOnSet(f, T) = f[First(T)] + SumFunctionOnSet(f, T \ {First(T)})
  BY <1>2, <1>3, SumByFirst
<1>5. SumFunctionOnSet(f, T \ {First(T)}) \in Nat
  BY <1>1, <1>3
<1> QED
  BY <1>3, <1>4, <1>5

(* Any element may be taken out first.                                     *)
LEMMA SumWithout ==
  ASSUME NEW f, NEW S, IsFiniteSet(S), \A x \in S: f[x] \in Int, NEW y \in S
  PROVE  SumFunctionOnSet(f, S) = f[y] + SumFunctionOnSet(f, S \ {y})
<1> DEFINE Sum(T) == SumFunctionOnSet(f, T)
           Bad == {T \in SUBSET S: \E z \in T: Sum(T) # f[z] + Sum(T \ {z})}
<1> SUFFICES ASSUME Bad # {} PROVE FALSE
  OBVIOUS
<1>1. PICK T \in Bad: \A U \in SUBSET T: U # T => U \notin Bad
  <2> HIDE DEF Bad
  <2>1. Bad \in SUBSET SUBSET S
    BY DEF Bad
  <2> QED
    BY <2>1, SmallestSubset
<1>2. PICK z \in T: Sum(T) # f[z] + Sum(T \ {z})
  BY <1>1
<1> DEFINE w == First(T)
<1>3. w \in T /\ IsFiniteSet(T)
  BY FirstIsIn, FS_Subset
<1>4. Sum(T) = f[w] + Sum(T \ {w})
  BY <1>3, SumByFirst
<1>5. z # w
  BY <1>2, <1>4
<1>6. T \ {w} \in SUBSET T /\ T \ {w} # T /\ z \in T \ {w}
  BY <1>3, <1>5
<1>7. Sum(T \ {w}) = f[z] + Sum((T \ {w}) \ {z})
  BY <1>1, <1>6
<1>8. T \ {z} \in SUBSET T /\ T \ {z} # T /\ w \in T \ {z}
  BY <1>3, <1>5
<1>9. Sum(T \ {z}) = f[w] + Sum((T \ {z}) \ {w})
  BY <1>1, <1>8
<1>10. (T \ {z}) \ {w} = (T \ {w}) \ {z}
  OBVIOUS
<1>11. Sum((T \ {w}) \ {z}) \in Int /\ f[z] \in Int /\ f[w] \in Int
  <2>1. IsFiniteSet((T \ {w}) \ {z})
    BY <1>3, FS_Subset
  <2> QED
    BY <2>1, <1>3, SumIsInt
<1>12. Sum(T) = f[w] + (f[z] + Sum((T \ {w}) \ {z}))
  BY <1>4, <1>7
<1>13. Sum(T \ {z}) = f[w] + Sum((T \ {w}) \ {z})
  BY <1>9, <1>10
<1> HIDE DEF Sum, w, Bad
<1>14. Sum(T) = f[z] + (f[w] + Sum((T \ {w}) \ {z}))
  BY <1>11, <1>12
<1> QED
  BY <1>2, <1>13, <1>14

LEMMA SumWithOneMore ==
  ASSUME NEW f, NEW S, IsFiniteSet(S), NEW y, y \notin S, \A x \in S \cup {y}: f[x] \in Int
  PROVE  SumFunctionOnSet(f, S \cup {y}) = SumFunctionOnSet(f, S) + f[y]
<1>1. IsFiniteSet(S \cup {y}) /\ (S \cup {y}) \ {y} = S
  BY FS_AddElement
<1>2. SumFunctionOnSet(f, S \cup {y}) = f[y] + SumFunctionOnSet(f, S)
  BY <1>1, SumWithout
<1>3. SumFunctionOnSet(f, S) \in Int
  BY SumIsInt
<1> QED
  BY <1>2, <1>3

(* More naturals do not add up to less.                                    *)
LEMMA SumOfMore ==
  ASSUME NEW f, NEW S, IsFiniteSet(S), \A x \in S: f[x] \in Nat, NEW R \in SUBSET S
  PROVE  SumFunctionOnSet(f, R) <= SumFunctionOnSet(f, S)
<1> DEFINE Sum(T) == SumFunctionOnSet(f, T)
           Bad == {T \in SUBSET S: R \subseteq T /\ ~(Sum(R) <= Sum(T))}
<1> SUFFICES ASSUME Bad # {} PROVE FALSE
  OBVIOUS
<1>1. PICK T \in Bad: \A U \in SUBSET T: U # T => U \notin Bad
  <2> HIDE DEF Bad
  <2>1. Bad \in SUBSET SUBSET S
    BY DEF Bad
  <2> QED
    BY <2>1, SmallestSubset
<1>2. IsFiniteSet(T) /\ \A x \in T: f[x] \in Nat
  BY FS_Subset
<1>3. Sum(R) \in Nat
  BY <1>2, FS_Subset, SumIsNat
<1>4. T # R
  BY <1>3
<1>5. PICK z \in T: z \notin R
  BY <1>4
<1>6. Sum(T) = f[z] + Sum(T \ {z})
  BY <1>2, SumWithout
<1>7. Sum(R) <= Sum(T \ {z})
  BY <1>1, <1>5
<1>8. Sum(T \ {z}) \in Nat
  BY <1>2, FS_Subset, SumIsNat
<1> HIDE DEF Sum
<1> QED
  BY <1>1, <1>2, <1>3, <1>6, <1>7, <1>8
=============================================================================

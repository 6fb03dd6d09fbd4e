----------------------------- MODULE WindowSums -----------------------------
(***************************************************************************)
(* Facts about the sum of the entries of a function over a finite set of   *)
(* indices, the reference every running sum of the detectors is compared   *)
(* with: the sum of a window of suspected intervals, of the receipt times  *)
(* a detector averages, of the changes in a retraining history.            *)
(*                                                                         *)
(* SumFunctionOnSet is a recursive function on the subsets of its index    *)
(* set.  Its defining equation, and every fact that holds for each size of *)
(* the set, comes from one argument: among the subsets that violate the    *)
(* fact there is one none of whose proper subsets does.                    *)
(***************************************************************************)
EXTENDS Integers, FiniteSetsExt, FiniteSetTheorems, WellFoundedInduction, TLAPS

\* A set of subsets of a finite set that is not empty has a member that is
\* minimal for inclusion.
LEMMA SmallestSubset ==
  ASSUME NEW S, IsFiniteSet(S), NEW T \in SUBSET SUBSET S, T # {}
  PROVE  \E m \in T : \A t \in SUBSET m : t # m => t \notin T
<1>1. IsWellFoundedOn(StrictSubsetOrdering(S), FiniteSubsetsOf(S))
  BY FS_StrictSubsetOrderingWellFounded
<1>2. T \subseteq FiniteSubsetsOf(S)
  BY FS_FiniteSubsetsOfFinite
<1>3. PICK m \in T : \A t \in T : ~(<<t, m>> \in StrictSubsetOrdering(S))
  BY <1>1, <1>2, WFMin
<1>4. SUFFICES ASSUME NEW t \in SUBSET m, t # m, t \in T PROVE FALSE
  BY <1>3
<1>5. <<t, m>> \in StrictSubsetOrdering(S)
  BY <1>4 DEF StrictSubsetOrdering
<1> QED
  BY <1>3, <1>4, <1>5

-----------------------------------------------------------------------------
(***************************************************************************)
(* The defining equation.                                                  *)
(***************************************************************************)

\* The index a sum takes first.
First(s) == CHOOSE x \in s : TRUE

\* One unfolding of the recursive function below SumFunctionOnSet.
Unfolded(f, S, g) ==
  [s \in SUBSET S |-> IF s = {} THEN 0 ELSE f[First(s)] + g[s \ {First(s)}]]

Partial(f, S) == CHOOSE g : g = Unfolded(f, S, g)

LEMMA FirstIsMember == \A s : s # {} => First(s) \in s
BY DEF First

LEMMA SumIsPartial ==
  ASSUME NEW f, NEW S PROVE SumFunctionOnSet(f, S) = Partial(f, S)[S]
BY DEF SumFunctionOnSet, FoldFunctionOnSet, MapThenFoldSet, Partial, Unfolded, First

\* Two solutions agree on the subsets both are about.
LEMMA PartialsAgree ==
  ASSUME NEW f, NEW S, IsFiniteSet(S), NEW R \in SUBSET S,
         NEW g, g = Unfolded(f, S, g), NEW h, h = Unfolded(f, R, h)
  PROVE  g[R] = h[R]
<1> DEFINE Differ == {s \in SUBSET R : g[s] # h[s]}
<1>1. SUFFICES ASSUME Differ # {} PROVE FALSE
  OBVIOUS
<1>2. IsFiniteSet(R)
  BY FS_Subset
<1>8. Differ \in SUBSET SUBSET R
  OBVIOUS
<1> HIDE DEF Differ
<1>3. PICK m \in Differ : \A t \in SUBSET m : t # m => t \notin Differ
  BY <1>1, <1>2, <1>8, SmallestSubset
<1> USE DEF Differ
<1>4. g[m] = IF m = {} THEN 0 ELSE f[First(m)] + g[m \ {First(m)}]
  BY DEF Unfolded
<1>5. h[m] = IF m = {} THEN 0 ELSE f[First(m)] + h[m \ {First(m)}]
  BY DEF Unfolded
<1>6. CASE m = {}
  BY <1>4, <1>5, <1>6
<1>7. CASE m # {}
  <2>1. First(m) \in m
    BY <1>7, FirstIsMember
  <2>2. g[m \ {First(m)}] = h[m \ {First(m)}]
    BY <1>3, <2>1
  <2> QED BY <1>4, <1>5, <1>7, <2>2
<1> QED BY <1>6, <1>7

\* Every finite set has a solution.
LEMMA PartialExists ==
  ASSUME NEW f, NEW S, IsFiniteSet(S)
  PROVE  Partial(f, S) = Unfolded(f, S, Partial(f, S))
<1> DEFINE Without == {s \in SUBSET S : Partial(f, s) # Unfolded(f, s, Partial(f, s))}
<1>1. SUFFICES ASSUME Without # {} PROVE FALSE
  OBVIOUS
<1>0. Without \in SUBSET SUBSET S
  OBVIOUS
<1> HIDE DEF Without
<1>2. PICK m \in Without : \A t \in SUBSET m : t # m => t \notin Without
  BY <1>0, <1>1, SmallestSubset
<1>3. \A t \in SUBSET m : t # m => Partial(f, t) = Unfolded(f, t, Partial(f, t))
  BY <1>2 DEF Without
<1> DEFINE Below(s) == Partial(f, s \ {First(s)})[s \ {First(s)}]
           h == [s \in SUBSET m |-> IF s = {} THEN 0 ELSE f[First(s)] + Below(s)]
<1>4. IsFiniteSet(m)
  BY <1>2, FS_Subset DEF Without
<1>5. ASSUME NEW s \in SUBSET m, s # {}
      PROVE  h[s \ {First(s)}] = Below(s)
  <2> DEFINE t == s \ {First(s)}
             u == t \ {First(t)}
  <2>1. First(s) \in s
    BY <1>5, FirstIsMember
  <2>2. t \in SUBSET m /\ t # m
    BY <2>1
  <2>3. Partial(f, t) = Unfolded(f, t, Partial(f, t))
    BY <1>3, <2>2
  <2>4. Partial(f, t)[t] = IF t = {} THEN 0 ELSE f[First(t)] + Partial(f, t)[u]
    BY <2>3 DEF Unfolded
  <2>5. CASE t = {}
    BY <2>2, <2>4, <2>5
  <2>6. CASE t # {}
    <3>1. First(t) \in t
      BY <2>6, FirstIsMember
    <3>2. u \in SUBSET m /\ u # m /\ u \in SUBSET t
      BY <2>2, <3>1
    <3>3. Partial(f, u) = Unfolded(f, u, Partial(f, u))
      BY <1>3, <3>2
    <3>4. IsFiniteSet(t)
      BY <1>4, <2>2, FS_Subset
    <3>5. Partial(f, t)[u] = Partial(f, u)[u]
      <4> DEFINE g == Partial(f, t)
                 k == Partial(f, u)
      <4>1. g = Unfolded(f, t, g) /\ k = Unfolded(f, u, k)
        BY <2>3, <3>3
      <4> HIDE DEF g, k, t, u
      <4>2. g[u] = k[u]
        BY <3>2, <3>4, <4>1, PartialsAgree
      <4> QED BY <4>2 DEF g, k
    <3>6. h[t] = f[First(t)] + Below(t)
      BY <2>2, <2>6
    <3> QED BY <2>4, <2>6, <3>5, <3>6
  <2> QED BY <2>5, <2>6
<1>6. h = Unfolded(f, m, h)
  BY <1>5 DEF Unfolded
<1>7. Partial(f, m) = Unfolded(f, m, Partial(f, m))
  BY <1>6 DEF Partial
<1> QED BY <1>2, <1>7 DEF Without

\* What the sum computes, whichever index it takes first.
LEMMA SumEquation ==
  ASSUME NEW f, NEW S, IsFiniteSet(S)
  PROVE  SumFunctionOnSet(f, S)
           = IF S = {} THEN 0
             ELSE f[First(S)] + SumFunctionOnSet(f, S \ {First(S)})
<1>1. Partial(f, S) = Unfolded(f, S, Partial(f, S))
  BY PartialExists
<1>2. Partial(f, S)[S] = IF S = {} THEN 0
                         ELSE f[First(S)] + Partial(f, S)[S \ {First(S)}]
  BY <1>1 DEF Unfolded
<1>3. CASE S = {}
  BY <1>2, <1>3, SumIsPartial
<1>4. CASE S # {}
  <2> DEFINE R == S \ {First(S)}
  <2>1. R \in SUBSET S /\ IsFiniteSet(R)
    BY FS_Subset
  <2>2. Partial(f, R) = Unfolded(f, R, Partial(f, R))
    BY <2>1, PartialExists
  <2>3. Partial(f, S)[R] = Partial(f, R)[R]
    BY <1>1, <2>1, <2>2, PartialsAgree
  <2> QED BY <1>2, <1>4, <2>3, SumIsPartial
<1> QED BY <1>3, <1>4

-----------------------------------------------------------------------------
(***************************************************************************)
(* What follows from it for sums of integers.                              *)
(***************************************************************************)

LEMMA SumEmpty == ASSUME NEW f PROVE SumFunctionOnSet(f, {}) = 0
BY FS_EmptySet, SumEquation

LEMMA SumType ==
  ASSUME NEW S, IsFiniteSet(S), NEW f, \A i \in S : f[i] \in Int
  PROVE  SumFunctionOnSet(f, S) \in Int
<1> DEFINE Bad == {s \in SUBSET S : SumFunctionOnSet(f, s) \notin Int}
<1>1. SUFFICES ASSUME Bad # {} PROVE FALSE
  OBVIOUS
<1>2. Bad \in SUBSET SUBSET S
  OBVIOUS
<1> HIDE DEF Bad
<1>3. PICK m \in Bad : \A t \in SUBSET m : t # m => t \notin Bad
  BY <1>1, <1>2, SmallestSubset
<1> USE DEF Bad
<1>4. IsFiniteSet(m)
  BY FS_Subset
<1>5. m # {}
  BY SumEmpty
<1>6. First(m) \in m
  BY <1>5, FirstIsMember
<1>7. SumFunctionOnSet(f, m) = f[First(m)] + SumFunctionOnSet(f, m \ {First(m)})
  BY <1>4, <1>5, SumEquation
<1>8. SumFunctionOnSet(f, m \ {First(m)}) \in Int
  BY <1>3, <1>6
<1> QED BY <1>6, <1>7, <1>8

\* The order in which the entries are added does not matter.
LEMMA SumRemove ==
  ASSUME NEW S, IsFiniteSet(S), NEW f, \A i \in S : f[i] \in Int, NEW x \in S
  PROVE  SumFunctionOnSet(f, S) = f[x] + SumFunctionOnSet(f, S \ {x})
<1> DEFINE Sum(s) == SumFunctionOnSet(f, s)
           Bad == {s \in SUBSET S : \E y \in s : Sum(s) # f[y] + Sum(s \ {y})}
<1>1. SUFFICES ASSUME Bad # {} PROVE FALSE
  OBVIOUS
<1>2. Bad \in SUBSET SUBSET S
  OBVIOUS
<1> HIDE DEF Bad
<1>3. PICK m \in Bad : \A t \in SUBSET m : t # m => t \notin Bad
  BY <1>1, <1>2, SmallestSubset
<1> USE DEF Bad
<1>4. IsFiniteSet(m)
  BY FS_Subset
<1>5. PICK y \in m : Sum(m) # f[y] + Sum(m \ {y})
  OBVIOUS
<1> DEFINE p == First(m)
           both == m \ {y, p}
<1>6. p \in m
  BY FirstIsMember
<1>7. Sum(m) = f[p] + Sum(m \ {p})
  BY <1>4, SumEquation
<1>8. y # p
  BY <1>5, <1>7
<1>9. Sum(m \ {p}) = f[y] + Sum(both)
  <2>1. m \ {p} \in SUBSET m /\ m \ {p} # m /\ m \ {p} \in SUBSET S /\ y \in m \ {p}
    BY <1>6, <1>8
  <2>2. Sum(m \ {p}) = f[y] + Sum((m \ {p}) \ {y})
    BY <1>3, <2>1
  <2>3. (m \ {p}) \ {y} = both
    OBVIOUS
  <2> QED BY <2>2, <2>3
<1>10. Sum(m \ {y}) = f[p] + Sum(both)
  <2>1. m \ {y} \in SUBSET m /\ m \ {y} # m /\ m \ {y} \in SUBSET S /\ p \in m \ {y}
    BY <1>6, <1>8
  <2>2. Sum(m \ {y}) = f[p] + Sum((m \ {y}) \ {p})
    BY <1>3, <2>1
  <2>3. (m \ {y}) \ {p} = both
    OBVIOUS
  <2> QED BY <2>2, <2>3
<1>11. Sum(both) \in Int
  <2>1. IsFiniteSet(both) /\ \A i \in both : f[i] \in Int
    BY <1>4, FS_Subset
  <2> HIDE DEF both, p
  <2> QED BY <2>1, SumType
<1>12. f[p] \in Int /\ f[y] \in Int
  BY <1>6
<1> HIDE DEF both, p, Sum
<1> QED BY <1>5, <1>7, <1>9, <1>10, <1>11, <1>12

\* Only the entries the sum takes matter.
LEMMA SumSame ==
  ASSUME NEW S, IsFiniteSet(S), NEW f, NEW g, \A i \in S : f[i] = g[i]
  PROVE  SumFunctionOnSet(f, S) = SumFunctionOnSet(g, S)
<1> DEFINE Bad == {s \in SUBSET S : SumFunctionOnSet(f, s) # SumFunctionOnSet(g, s)}
<1>1. SUFFICES ASSUME Bad # {} PROVE FALSE
  OBVIOUS
<1>2. Bad \in SUBSET SUBSET S
  OBVIOUS
<1> HIDE DEF Bad
<1>3. PICK m \in Bad : \A t \in SUBSET m : t # m => t \notin Bad
  BY <1>1, <1>2, SmallestSubset
<1> USE DEF Bad
<1>4. IsFiniteSet(m)
  BY FS_Subset
<1>5. m # {}
  BY SumEmpty
<1>6. First(m) \in m
  BY <1>5, FirstIsMember
<1>7. /\ SumFunctionOnSet(f, m) = f[First(m)] + SumFunctionOnSet(f, m \ {First(m)})
      /\ SumFunctionOnSet(g, m) = g[First(m)] + SumFunctionOnSet(g, m \ {First(m)})
  BY <1>4, <1>5, SumEquation
<1>8. SumFunctionOnSet(f, m \ {First(m)}) = SumFunctionOnSet(g, m \ {First(m)})
  BY <1>3, <1>6
<1> QED BY <1>6, <1>7, <1>8

\* Replacing one entry.
LEMMA SumExcept ==
  ASSUME NEW S, IsFiniteSet(S), NEW f, \A i \in S : f[i] \in Int,
         DOMAIN f = S, f = [i \in S |-> f[i]], NEW x \in S, NEW v \in Int
  PROVE  SumFunctionOnSet([f EXCEPT ![x] = v], S)
           = SumFunctionOnSet(f, S) - f[x] + v
<1> DEFINE g == [f EXCEPT ![x] = v]
           R == S \ {x}
<1>1. IsFiniteSet(R) /\ (\A i \in R : f[i] \in Int) /\ (\A i \in R : g[i] = f[i])
  BY FS_Subset
<1>2. (\A i \in S : g[i] \in Int) /\ g[x] = v
  OBVIOUS
<1> HIDE DEF g
<1>3. SumFunctionOnSet(f, S) = f[x] + SumFunctionOnSet(f, R)
  BY SumRemove
<1>4. SumFunctionOnSet(g, S) = g[x] + SumFunctionOnSet(g, R)
  BY <1>2, SumRemove
<1> HIDE DEF R
<1>5. SumFunctionOnSet(g, R) = SumFunctionOnSet(f, R)
  BY <1>1, SumSame
<1>6. SumFunctionOnSet(f, R) \in Int
  BY <1>1, SumType
<1>7. SumFunctionOnSet(g, S) = SumFunctionOnSet(f, S) - f[x] + v
  BY <1>2, <1>3, <1>4, <1>5, <1>6
<1> QED BY <1>7 DEF g

\* Equal entries.
LEMMA SumConstant ==
  ASSUME NEW S, IsFiniteSet(S), NEW f, NEW c \in Int, \A i \in S : f[i] = c
  PROVE  SumFunctionOnSet(f, S) = c * Cardinality(S)
<1> DEFINE Bad == {s \in SUBSET S : SumFunctionOnSet(f, s) # c * Cardinality(s)}
<1>1. SUFFICES ASSUME Bad # {} PROVE FALSE
  OBVIOUS
<1>2. Bad \in SUBSET SUBSET S
  OBVIOUS
<1> HIDE DEF Bad
<1>3. PICK m \in Bad : \A t \in SUBSET m : t # m => t \notin Bad
  BY <1>1, <1>2, SmallestSubset
<1> USE DEF Bad
<1>4. IsFiniteSet(m)
  BY FS_Subset
<1>5. m # {}
  BY SumEmpty, FS_EmptySet
<1>6. First(m) \in m
  BY <1>5, FirstIsMember
<1>7. SumFunctionOnSet(f, m) = f[First(m)] + SumFunctionOnSet(f, m \ {First(m)})
  BY <1>4, <1>5, SumEquation
<1>8. SumFunctionOnSet(f, m \ {First(m)}) = c * Cardinality(m \ {First(m)})
  BY <1>3, <1>6
<1>9. Cardinality(m \ {First(m)}) = Cardinality(m) - 1 /\ Cardinality(m) \in Nat
  BY <1>4, <1>6, FS_RemoveElement, FS_CardinalityType
<1>10. SumFunctionOnSet(f, m) # c * Cardinality(m) /\ f[First(m)] = c
  BY <1>6
<1> HIDE DEF Bad
<1> DEFINE k == Cardinality(m)
<1>11. k \in Nat /\ SumFunctionOnSet(f, m) = c + c * (k - 1)
  BY <1>7, <1>8, <1>9, <1>10
<1>12. c + c * (k - 1) = c * k
  BY <1>11
<1> QED BY <1>10, <1>11, <1>12

\* Bounded entries.
LEMMA SumBounds ==
  ASSUME NEW S, IsFiniteSet(S), NEW f, NEW lo \in Int, NEW hi \in Int,
         \A i \in S : f[i] \in Int /\ lo <= f[i] /\ f[i] <= hi
  PROVE  /\ lo * Cardinality(S) <= SumFunctionOnSet(f, S)
         /\ SumFunctionOnSet(f, S) <= hi * Cardinality(S)
<1> DEFINE Sum(s) == SumFunctionOnSet(f, s)
           Within(s) == lo * Cardinality(s) <= Sum(s) /\ Sum(s) <= hi * Cardinality(s)
           Bad == {s \in SUBSET S : ~Within(s)}
<1>1. SUFFICES ASSUME Bad # {} PROVE FALSE
  OBVIOUS
<1>2. Bad \in SUBSET SUBSET S
  OBVIOUS
<1> HIDE DEF Bad
<1>3. PICK m \in Bad : \A t \in SUBSET m : t # m => t \notin Bad
  BY <1>1, <1>2, SmallestSubset
<1>4. m \in SUBSET S /\ ~Within(m)
  BY DEF Bad
<1>5. IsFiniteSet(m) /\ \A i \in m : f[i] \in Int
  BY <1>4, FS_Subset
<1>6. m # {}
  <2> SUFFICES ASSUME m = {} PROVE FALSE
    OBVIOUS
  <2>1. Sum({}) = 0 /\ Cardinality({}) = 0
    BY SumEmpty, FS_EmptySet
  <2> QED BY <1>4, <2>1
<1> DEFINE x == First(m)
           R == m \ {x}
<1>7. x \in m
  BY <1>6, FirstIsMember
<1>8. Sum(m) = f[x] + Sum(R)
  BY <1>5, <1>6, SumEquation
<1>9. Within(R)
  <2>1. R \in SUBSET m /\ R # m /\ R \in SUBSET S
    BY <1>4, <1>7
  <2> QED BY <1>3, <2>1 DEF Bad
<1>10. Cardinality(R) = Cardinality(m) - 1 /\ Cardinality(m) \in Nat
  BY <1>5, <1>7, FS_RemoveElement, FS_CardinalityType
<1>11. f[x] \in Int /\ lo <= f[x] /\ f[x] <= hi
  BY <1>4, <1>7
<1>12. Sum(R) \in Int
  <2>1. IsFiniteSet(R) /\ \A i \in R : f[i] \in Int
    BY <1>5, FS_Subset
  <2> HIDE DEF R
  <2> QED BY <2>1, SumType
<1> DEFINE k == Cardinality(m)
           s == Sum(R)
<1>13. k \in Nat /\ s \in Int /\ lo * (k - 1) <= s /\ s <= hi * (k - 1)
  BY <1>9, <1>10, <1>12
<1>14. ~(lo * k <= f[x] + s /\ f[x] + s <= hi * k)
  BY <1>4, <1>8
<1> HIDE DEF k, s, x, R, Sum
<1>15. lo * (k - 1) = lo * k - lo /\ hi * (k - 1) = hi * k - hi
       /\ lo * k \in Int /\ hi * k \in Int
  BY <1>13
<1> QED BY <1>11, <1>13, <1>14, <1>15

\* One entry more at the end of an interval of indices.
LEMMA SumUpTo ==
  ASSUME NEW a \in Int, NEW b \in Int, a <= b + 1, NEW f,
         \A i \in a .. b + 1 : f[i] \in Int
  PROVE  SumFunctionOnSet(f, a .. b + 1) = SumFunctionOnSet(f, a .. b) + f[b + 1]
<1>1. IsFiniteSet(a .. b + 1) /\ b + 1 \in a .. b + 1
  BY FS_Interval
<1>2. (a .. b + 1) \ {b + 1} = a .. b
  OBVIOUS
<1>3. SumFunctionOnSet(f, a .. b + 1)
        = f[b + 1] + SumFunctionOnSet(f, (a .. b + 1) \ {b + 1})
  BY <1>1, SumRemove
<1>4. IsFiniteSet(a .. b) /\ \A i \in a .. b : f[i] \in Int
  BY FS_Interval
<1>5. SumFunctionOnSet(f, a .. b) \in Int
  BY <1>4, SumType
<1>6. f[b + 1] \in Int
  BY <1>1
<1>7. SumFunctionOnSet(f, (a .. b + 1) \ {b + 1}) = SumFunctionOnSet(f, a .. b)
  BY <1>2, Zenon
<1> QED BY <1>3, <1>5, <1>6, <1>7

\* A window of fixed length that moves on by one entry.
LEMMA WindowSlides ==
  ASSUME NEW a \in Int, NEW b \in Int, a <= b, NEW f, NEW g,
         \A i \in a .. b : f[i] \in Int,
         \A i \in a + 1 .. b : g[i] = f[i],
         g[b + 1] \in Int
  PROVE  SumFunctionOnSet(g, a + 1 .. b + 1)
           = SumFunctionOnSet(f, a .. b) - f[a] + g[b + 1]
<1>1. \A i \in a + 1 .. b + 1 : g[i] \in Int
  <2> SUFFICES ASSUME NEW i \in a + 1 .. b + 1 PROVE g[i] \in Int
    OBVIOUS
  <2>1. i = b + 1 \/ (i \in a + 1 .. b /\ i \in a .. b)
    OBVIOUS
  <2> QED BY <2>1
<1>2. SumFunctionOnSet(g, a + 1 .. b + 1) = SumFunctionOnSet(g, a + 1 .. b) + g[b + 1]
  <2> DEFINE c == a + 1
  <2>1. c \in Int /\ c <= b + 1 /\ \A i \in c .. b + 1 : g[i] \in Int
    BY <1>1
  <2> HIDE DEF c
  <2>2. SumFunctionOnSet(g, c .. b + 1) = SumFunctionOnSet(g, c .. b) + g[b + 1]
    BY <2>1, SumUpTo
  <2> QED BY <2>2 DEF c
<1>3. /\ IsFiniteSet(a .. b) /\ a \in a .. b /\ (a .. b) \ {a} = a + 1 .. b
      /\ IsFiniteSet(a + 1 .. b)
  <2>1. a + 1 \in Int
    OBVIOUS
  <2>2. IsFiniteSet(a .. b) /\ IsFiniteSet(a + 1 .. b)
    BY <2>1, FS_Interval
  <2>3. a \in a .. b /\ (a .. b) \ {a} = a + 1 .. b
    OBVIOUS
  <2> QED BY <2>2, <2>3
<1>4. SumFunctionOnSet(f, a .. b) = f[a] + SumFunctionOnSet(f, a + 1 .. b)
  <2>1. SumFunctionOnSet(f, a .. b) = f[a] + SumFunctionOnSet(f, (a .. b) \ {a})
    BY <1>3, SumRemove
  <2>2. SumFunctionOnSet(f, (a .. b) \ {a}) = SumFunctionOnSet(f, a + 1 .. b)
    BY <1>3, Zenon
  <2> QED BY <2>1, <2>2
<1>5. SumFunctionOnSet(g, a + 1 .. b) = SumFunctionOnSet(f, a + 1 .. b)
  BY <1>3, SumSame
<1>6. SumFunctionOnSet(f, a + 1 .. b) \in Int
  <2>1. \A i \in a + 1 .. b : f[i] \in Int
    BY <1>3
  <2> QED BY <1>3, <2>1, SumType
<1>7. f[a] \in Int
  BY <1>3
<1> QED BY <1>2, <1>4, <1>5, <1>6, <1>7

\* A set of naturals that is not empty has a least member.
LEMMA LeastNatural ==
  ASSUME NEW T, T \subseteq Nat, T # {}
  PROVE  \E m \in T : \A k \in Nat : k < m => k \notin T
<1>1. PICK t \in T : TRUE
  OBVIOUS
<1>2. t \in Nat /\ IsFiniteSet(0 .. t)
  BY <1>1, FS_Interval
<1> DEFINE Up == {s \in SUBSET (0 .. t) : \E k \in T : k <= t /\ s = 0 .. k}
<1>3. Up \in SUBSET SUBSET (0 .. t)
  OBVIOUS
<1>4. 0 .. t \in Up
  BY <1>2
<1>5. Up # {}
  BY <1>4
<1> HIDE DEF Up
<1>6. PICK u \in Up : \A s \in SUBSET u : s # u => s \notin Up
  BY <1>2, <1>3, <1>5, SmallestSubset
<1>7. PICK m \in T : m <= t /\ u = 0 .. m
  BY <1>6 DEF Up
<1>8. ASSUME NEW k \in Nat, k < m, k \in T PROVE FALSE
  <2>1. k <= t /\ m \in 0 .. m /\ m \notin 0 .. k /\ m \in Nat
    BY <1>2, <1>7, <1>8
  <2>2. 0 .. k \in SUBSET (0 .. t) /\ 0 .. k \in SUBSET (0 .. m)
    BY <1>2, <1>8, <2>1
  <2>3. 0 .. k \in Up
    BY <1>8, <2>1, <2>2 DEF Up
  <2>4. 0 .. k \in SUBSET u
    BY <1>7, <2>2
  <2>5. m \in u
    BY <1>7, <2>1
  <2> DEFINE s == 0 .. k
  <2>6. s \in SUBSET u /\ s \in Up /\ m \notin s
    BY <2>1, <2>3, <2>4
  <2> HIDE DEF s
  <2> QED BY <1>6, <2>5, <2>6
<1> QED BY <1>8

\* f is g with an entry shifted by h for each place from d to its own.
IsShifted(f, g, n, h, d) == \A i \in 0 .. n - 1 : f[i] = g[i + 1] - (i + 1 - d) * h

\* Entries shifted by their place: the sum of 1 .. n, twice, is n * (n + 1).
LEMMA ShiftedSum ==
  ASSUME NEW n \in Nat, NEW g, NEW f, NEW h \in Int, NEW d \in Int,
         \A k \in 1 .. n : g[k] \in Int, IsShifted(f, g, n, h, d)
  PROVE  2 * SumFunctionOnSet(f, 0 .. n - 1)
           = 2 * SumFunctionOnSet(g, 1 .. n) - h * (n * (n + 1) - 2 * n * d)
<1> DEFINE F(k) == SumFunctionOnSet(f, 0 .. k - 1)
           G(k) == SumFunctionOnSet(g, 1 .. k)
           Holds(k) == 2 * F(k) = 2 * G(k) - h * (k * (k + 1) - 2 * k * d)
           Bad == {k \in 0 .. n : ~Holds(k)}
<1> USE DEF IsShifted
<1>0. SUFFICES Holds(n)
  OBVIOUS
<1>1. SUFFICES ASSUME Bad # {} PROVE FALSE
  <2> HIDE DEF Holds
  <2> QED BY n \in 0 .. n
<1>2. Bad \subseteq Nat
  <2> HIDE DEF Holds
  <2> QED OBVIOUS
<1> HIDE DEF Bad
<1>3. PICK m \in Bad : \A k \in Nat : k < m => k \notin Bad
  BY <1>1, <1>2, LeastNatural
<1>4. m \in 0 .. n /\ ~Holds(m)
  BY DEF Bad
<1>5. m # 0
  <2> SUFFICES ASSUME m = 0 PROVE FALSE
    OBVIOUS
  <2>1. 0 .. 0 - 1 = {} /\ 1 .. 0 = {}
    OBVIOUS
  <2>2. F(0) = 0 /\ G(0) = 0
    BY <2>1, SumEmpty
  <2> QED BY <1>4, <2>2
<1> DEFINE k == m - 1
<1>6. k \in Nat /\ k + 1 = m /\ k \in 0 .. n - 1 /\ k \in 0 .. n /\ k + 1 \in 1 .. n
  BY <1>4, <1>5
<1>7. Holds(k)
  BY <1>3, <1>4, <1>6 DEF Bad
<1> HIDE DEF k
<1>8. G(k + 1) = G(k) + g[k + 1]
  <2>1. \A i \in 1 .. k + 1 : g[i] \in Int
    BY <1>6
  <2> QED BY <1>6, <2>1, SumUpTo
<1>9. F(k + 1) = F(k) + f[k]
  <2> DEFINE b == k - 1
  <2>1. b \in Int /\ 0 <= b + 1 /\ b + 1 = k
    BY <1>6
  <2>2. ASSUME NEW i \in 0 .. b + 1 PROVE f[i] \in Int
    <3>1. i \in 0 .. n - 1 /\ i + 1 \in 1 .. n
      BY <1>6, <2>1
    <3> QED BY <3>1
  <2>3. (k + 1) - 1 = b + 1 /\ k - 1 = b
    BY <1>6, <2>1
  <2> HIDE DEF b
  <2>4. SumFunctionOnSet(f, 0 .. b + 1) = SumFunctionOnSet(f, 0 .. b) + f[b + 1]
    BY <2>1, <2>2, SumUpTo
  <2> QED BY <2>1, <2>3, <2>4
<1>10. F(k) \in Int /\ G(k) \in Int
  <2>1. \A i \in 1 .. k : g[i] \in Int
    BY <1>6
  <2>2. ASSUME NEW i \in 0 .. k - 1 PROVE f[i] \in Int
    <3>1. i \in 0 .. n - 1 /\ i + 1 \in 1 .. n
      BY <1>6
    <3> QED BY <3>1
  <2>3. IsFiniteSet(0 .. k - 1) /\ IsFiniteSet(1 .. k)
    BY <1>6, FS_Interval
  <2> QED BY <2>1, <2>2, <2>3, SumType
<1>11. f[k] = g[k + 1] - (k + 1 - d) * h /\ g[k + 1] \in Int
  BY <1>6
<1>12. 2 * F(k) = 2 * G(k) - h * (k * (k + 1) - 2 * k * d)
  BY <1>7
<1>13. F(m) = F(k) + f[k] /\ G(m) = G(k) + g[k + 1]
  BY <1>6, <1>8, <1>9
<1>14. 2 * F(m) # 2 * G(m) - h * (m * (m + 1) - 2 * m * d)
  BY <1>4
<1> DEFINE x == F(k)
           y == G(k)
           e == g[k + 1]
<1>15. /\ x \in Int /\ y \in Int /\ e \in Int
       /\ 2 * x = 2 * y - h * (k * (k + 1) - 2 * k * d)
       /\ 2 * (x + (e - (k + 1 - d) * h))
            # 2 * (y + e) - h * ((k + 1) * (k + 2) - 2 * (k + 1) * d)
  <2>1. m + 1 = k + 2 /\ m = k + 1
    BY <1>6
  <2> QED BY <1>10, <1>11, <1>12, <1>13, <1>14, <2>1
<1> HIDE DEF x, y, e, F, G, Holds
<1>16. h * ((k + 1) * (k + 2) - 2 * (k + 1) * d)
         = h * (k * (k + 1) - 2 * k * d) + 2 * ((k + 1 - d) * h)
  BY <1>6
<1>17. /\ h * (k * (k + 1) - 2 * k * d) \in Int
       /\ (k + 1 - d) * h \in Int
  BY <1>6
<1> QED BY <1>15, <1>16, <1>17

\* Entries above a line that rises by h from place to place.
LEMMA SumAboveLine ==
  ASSUME NEW n \in Nat, NEW a \in Int, NEW f, NEW lo \in Int, NEW h \in Int,
         \A i \in a + 1 .. a + n : f[i] \in Int /\ lo + (i - a) * h <= f[i]
  PROVE  2 * (n * lo) + h * (n * (n + 1)) <= 2 * SumFunctionOnSet(f, a + 1 .. a + n)
<1> DEFINE F(k) == SumFunctionOnSet(f, a + 1 .. a + k)
           Holds(k) == 2 * (k * lo) + h * (k * (k + 1)) <= 2 * F(k)
           Bad == {k \in 0 .. n : ~Holds(k)}
<1>0. SUFFICES Holds(n)
  OBVIOUS
<1>1. SUFFICES ASSUME Bad # {} PROVE FALSE
  <2> HIDE DEF Holds
  <2> QED BY n \in 0 .. n
<1>2. Bad \subseteq Nat
  <2> HIDE DEF Holds
  <2> QED OBVIOUS
<1> HIDE DEF Bad
<1>3. PICK m \in Bad : \A k \in Nat : k < m => k \notin Bad
  BY <1>1, <1>2, LeastNatural
<1>4. m \in 0 .. n /\ ~Holds(m)
  BY DEF Bad
<1>5. m # 0
  <2> SUFFICES ASSUME m = 0 PROVE FALSE
    OBVIOUS
  <2>1. a + 1 .. a + 0 = {}
    OBVIOUS
  <2>2. F(0) = 0
    BY <2>1, SumEmpty
  <2>3. 2 * (0 * lo) + h * (0 * (0 + 1)) = 0
    OBVIOUS
  <2> QED BY <1>4, <2>2, <2>3
<1> DEFINE k == m - 1
<1>6. k \in Nat /\ k + 1 = m /\ k \in 0 .. n /\ k + 1 <= n
  BY <1>4, <1>5
<1>7. Holds(k)
  <2> HIDE DEF Holds, k
  <2>1. k < m
    BY <1>4, <1>6
  <2>2. k \notin Bad
    BY <1>3, <1>6, <2>1
  <2> QED BY <1>6, <2>2 DEF Bad
<1> HIDE DEF k
<1> DEFINE b == a + k
<1>8. b \in Int /\ a + 1 <= b + 1 /\ b + 1 = a + (k + 1) /\ b + 1 \in a + 1 .. a + n
  BY <1>6
<1>9. \A i \in a + 1 .. b + 1 : f[i] \in Int
  BY <1>6
<1>10. f[b + 1] \in Int /\ lo + (k + 1) * h <= f[b + 1]
  <2>1. (b + 1) - a = k + 1
    BY <1>6
  <2>2. f[b + 1] \in Int /\ lo + ((b + 1) - a) * h <= f[b + 1]
    BY <1>8
  <2> QED BY <2>1, <2>2
<1>11. F(k) \in Int
  <2>1. IsFiniteSet(a + 1 .. a + k) /\ \A i \in a + 1 .. a + k : f[i] \in Int
    BY <1>6, FS_Interval
  <2> QED BY <2>1, SumType
<1>12. F(m) = F(k) + f[b + 1]
  <2>1. a + 1 \in Int
    OBVIOUS
  <2>2. SumFunctionOnSet(f, a + 1 .. b) = F(k) /\ a + m = b + 1
    BY <1>6, <1>8
  <2> DEFINE c == a + 1
  <2>3. c \in Int /\ c <= b + 1 /\ \A i \in c .. b + 1 : f[i] \in Int
    BY <1>8, <1>9
  <2> HIDE DEF c, b
  <2>4. SumFunctionOnSet(f, c .. b + 1) = SumFunctionOnSet(f, c .. b) + f[b + 1]
    BY <1>8, <2>3, SumUpTo
  <2> QED BY <2>2, <2>4 DEF c
<1> DEFINE x == F(k)
           e == f[b + 1]
<1>13. /\ x \in Int /\ e \in Int /\ lo + (k + 1) * h <= e
       /\ 2 * (k * lo) + h * (k * (k + 1)) <= 2 * x
       /\ ~(2 * ((k + 1) * lo) + h * ((k + 1) * (k + 2)) <= 2 * (x + e))
  <2>1. m = k + 1 /\ m + 1 = k + 2
    BY <1>6
  <2> QED BY <1>4, <1>7, <1>10, <1>11, <1>12, <2>1
<1> HIDE DEF x, e, F, Holds, b
<1>14. h * ((k + 1) * (k + 2)) = h * (k * (k + 1)) + 2 * ((k + 1) * h)
  BY <1>6
<1>15. (k + 1) * lo = k * lo + lo
  BY <1>6
<1>16. h * (k * (k + 1)) \in Int /\ (k + 1) * h \in Int /\ k * lo \in Int
  BY <1>6
<1> QED BY <1>13, <1>14, <1>15, <1>16

-----------------------------------------------------------------------------
(***************************************************************************)
(* Remainders, for sums that are kept in a word of memory.                 *)
(***************************************************************************)

LEMMA QuotientAndRest ==
  ASSUME NEW n \in Nat \ {0}, NEW x \in Int
  PROVE  x \div n \in Int /\ x % n \in 0 .. n - 1 /\ x = n * (x \div n) + (x % n)
OBVIOUS

LEMMA RestOfSum ==
  ASSUME NEW n \in Nat \ {0}, NEW q \in Int, NEW r \in 0 .. n - 1
  PROVE  (n * q + r) % n = r
OBVIOUS

\* Reducing one summand first changes nothing.
LEMMA RestAbsorbed ==
  ASSUME NEW n \in Nat \ {0}, NEW x \in Int, NEW d \in Int
  PROVE  ((x % n) + d) % n = (x + d) % n
<1> DEFINE q == x \div n
           r == x % n
           u == r + d
           p == u \div n
           s == u % n
<1>1. q \in Int /\ r \in Int /\ x = n * q + r
  BY QuotientAndRest
<1>2. u \in Int
  BY <1>1
<1>3. p \in Int /\ s \in 0 .. n - 1 /\ u = n * p + s
  <2> HIDE DEF u
  <2> QED BY <1>2, QuotientAndRest
<1>4. (x % n) + d = u /\ r + d = u
  OBVIOUS
<1> HIDE DEF q, r, u, p, s
<1>5. x + d = n * (q + p) + s
  <2>1. x + d = n * q + u
    BY <1>1, <1>2, <1>4
  <2>2. n * (q + p) = n * q + n * p
    BY <1>1, <1>3
  <2> QED BY <1>1, <1>3, <2>1, <2>2
<1>6. (n * (q + p) + s) % n = s
  <2>1. q + p \in Int
    BY <1>1, <1>3
  <2> QED BY <1>3, <2>1, RestOfSum
<1> QED BY <1>4, <1>5, <1>6 DEF s

=============================================================================

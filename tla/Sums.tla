-------------------------------- MODULE Sums --------------------------------
(***************************************************************************)
(* Finite sums.  Stock, points and order items are added up with           *)
(* SumFunctionOnSet of the community modules, which is a CHOOSE of a       *)
(* function that recurs over the subsets of the set.  The lemmas here say  *)
(* what the proofs need of it: a sum of integers is an integer, any        *)
(* element may be set apart, a sum changes by what one term does, and a    *)
(* sum over more and greater terms is greater.                             *)
(*                                                                         *)
(* They rest on one principle, instead of induction: among the subsets of  *)
(* a finite set that break a claim, if there are any, one breaks it that   *)
(* contains no other (LeastSubset).                                        *)
(***************************************************************************)
EXTENDS Integers, FiniteSets, Functions, FiniteSetTheorems,
        WellFoundedInduction, TLAPS

\* The recursion: the element CHOOSE picks, and the sum of the others.
Picked(s) == CHOOSE x \in s : TRUE

Rec(g, f, s) == IF s = {} THEN 0 ELSE f[Picked(s)] + g[s \ {Picked(s)}]

Unfolds(g, f, D) == g = [s \in D |-> Rec(g, f, s)]

Iter(f, S) == CHOOSE g : g = [s \in SUBSET S |-> Rec(g, f, s)]

\* The library's operator is that recursion, as a function of the subsets.
LEMMA SumIsIter ==
  ASSUME NEW f, NEW S
  PROVE  SumFunctionOnSet(f, S) = Iter(f, S)[S]
  BY DEF SumFunctionOnSet, FoldFunctionOnSet, MapThenFoldSet, Iter, Rec, Picked

\* A set of subsets of a finite set that is not empty has a least element.
LEMMA LeastSubset ==
  ASSUME NEW S, IsFiniteSet(S), NEW T \in SUBSET SUBSET S, T # {}
  PROVE  \E s \in T : \A u \in T : u \subseteq s => u = s
<1> DEFINE R == StrictSubsetOrdering(S)
<1>1. IsWellFoundedOn(R, SUBSET S)
  BY FS_StrictSubsetOrderingWellFounded, FS_FiniteSubsetsOfFinite
<1>2. PICK s \in T : \A u \in T : ~ (<<u, s>> \in R)
  <2> HIDE DEF R
  <2> QED
    BY <1>1, WFMin
<1> QED
  BY <1>2 DEF StrictSubsetOrdering

\* A set of naturals that is not empty has a least element.
LEMMA LeastNatural ==
  ASSUME NEW T \in SUBSET Nat, T # {}
  PROVE  \E n \in T : \A m \in T : n <= m
<1>1. PICK k \in T : TRUE
  OBVIOUS
<1> DEFINE K == 1 .. k
           D == {s \in SUBSET K : \E n \in T : s = 1 .. n}
<1>2. 1 .. k \in D
  OBVIOUS
<1>3. IsFiniteSet(K)
  BY FS_Interval
<1>4. PICK s \in D : \A u \in D : u \subseteq s => u = s
  <2>1. D \in SUBSET SUBSET K /\ D # {}
    BY <1>2
  <2> HIDE DEF D, K
  <2> QED
    BY <1>3, <2>1, LeastSubset
<1>5. PICK n \in T : s = 1 .. n
  BY <1>4
<1>6. n <= k
  BY <1>5
<1>7. SUFFICES ASSUME NEW m \in T, m < n
               PROVE  FALSE
  BY <1>5
<1>8. 1 .. m \in D /\ 1 .. m \subseteq s
  BY <1>5, <1>6, <1>7
<1>9. 1 .. m = 1 .. n
  BY <1>4, <1>5, <1>8
<1>10. n \in 1 .. n /\ n \notin 1 .. m
  BY <1>7
<1> QED
  BY <1>9, <1>10

\* What CHOOSE picks is an element.
LEMMA PickedIn ==
  ASSUME NEW s, s # {}
  PROVE  Picked(s) \in s
  BY DEF Picked

\* The subsets with up to n elements.
Level(S, n) == {s \in SUBSET S : Cardinality(s) <= n}

\* There is a function that recurs over the subsets with up to n elements: each
\* level is defined by the one below.
LEMMA LevelsUnfold ==
  ASSUME NEW S, IsFiniteSet(S), NEW f
  PROVE  \A n \in Nat : \E g : Unfolds(g, f, Level(S, n))
<1> SUFFICES ASSUME NEW k \in Nat, ~ \E g : Unfolds(g, f, Level(S, k))
             PROVE  FALSE
  OBVIOUS
<1> DEFINE Bad == {n \in Nat : ~ \E g : Unfolds(g, f, Level(S, n))}
<1>1. PICK n \in Bad : \A m \in Bad : n <= m
  BY LeastNatural
<1>2. \A s \in SUBSET S : IsFiniteSet(s) /\ Cardinality(s) \in Nat
  BY FS_Subset, FS_CardinalityType
<1>3. CASE n = 0
  <2>1. \A s \in Level(S, 0) : s = {}
    BY <1>2, FS_EmptySet DEF Level
  <2>2. Unfolds([s \in Level(S, 0) |-> 0], f, Level(S, 0))
    BY <2>1 DEF Unfolds, Rec
  <2> QED
    BY <1>3, <2>2
<1>4. CASE n # 0
  <2>1. n - 1 \in Nat /\ n - 1 \notin Bad
    BY <1>1, <1>4
  <2>2. PICK g : Unfolds(g, f, Level(S, n - 1))
    BY <2>1
  <2> DEFINE L == Level(S, n - 1)
             h == [s \in Level(S, n) |-> IF s \in L THEN g[s] ELSE Rec(g, f, s)]
  <2>3. \A s \in Level(S, n) : s # {} => s \ {Picked(s)} \in L /\ s \ {Picked(s)} \in Level(S, n)
    BY <1>2, <2>1, PickedIn, FS_RemoveElement DEF Level
  <2>4. \A s \in L : s \in Level(S, n)
    BY <1>2, <2>1 DEF Level
  <2>5. \A s \in Level(S, n) : Rec(h, f, s) = Rec(g, f, s)
    BY <2>3 DEF Rec
  <2>6. \A s \in L : g[s] = Rec(g, f, s)
    BY <2>2 DEF Unfolds
  <2>7. Unfolds(h, f, Level(S, n))
    <3>1. \A s \in Level(S, n) : h[s] = Rec(h, f, s)
      BY <2>5, <2>6
    <3>2. h = [s \in Level(S, n) |-> h[s]]
      OBVIOUS
    <3> HIDE DEF h
    <3> QED
      BY <3>1, <3>2 DEF Unfolds
  <2> QED
    BY <2>7
<1> QED
  BY <1>3, <1>4

\* So the function the library chooses exists, and recurs.
LEMMA IterUnfolds ==
  ASSUME NEW S, IsFiniteSet(S), NEW f
  PROVE  Unfolds(Iter(f, S), f, SUBSET S)
<1>1. Cardinality(S) \in Nat /\ Level(S, Cardinality(S)) = SUBSET S
  BY FS_Subset, FS_CardinalityType DEF Level
<1>2. \E g : Unfolds(g, f, Level(S, Cardinality(S)))
  BY <1>1, LevelsUnfold
<1> QED
  BY <1>1, <1>2 DEF Unfolds, Iter

-----------------------------------------------------------------------------
\* The sum of nothing.
LEMMA SumEmpty ==
  ASSUME NEW f
  PROVE  SumFunctionOnSet(f, {}) = 0
<1>1. Unfolds(Iter(f, {}), f, SUBSET {})
  BY IterUnfolds, FS_EmptySet
<1> QED
  BY <1>1, SumIsIter DEF Unfolds, Rec

\* The function chosen for a set agrees with the ones chosen for its subsets.
LEMMA IterAgrees ==
  ASSUME NEW S, IsFiniteSet(S), NEW f, NEW T \in SUBSET S
  PROVE  Iter(f, S)[T] = SumFunctionOnSet(f, T)
<1> DEFINE g == Iter(f, S)
           h == Iter(f, T)
           D == {s \in SUBSET T : g[s] # h[s]}
<1>1. IsFiniteSet(T)
  BY FS_Subset
<1>2. Unfolds(g, f, SUBSET S) /\ Unfolds(h, f, SUBSET T)
  BY <1>1, IterUnfolds
<1>3. D = {}
  <2> SUFFICES ASSUME D # {} PROVE FALSE
    OBVIOUS
  <2>1. PICK s \in D : \A u \in D : u \subseteq s => u = s
    <3>1. D \in SUBSET SUBSET T
      OBVIOUS
    <3> HIDE DEF D
    <3> QED
      BY <1>1, <3>1, LeastSubset
  <2>2. s \in SUBSET T /\ s \in SUBSET S /\ g[s] # h[s]
    BY <2>1
  <2>3. g[s] = Rec(g, f, s) /\ h[s] = Rec(h, f, s)
    BY <1>2, <2>2 DEF Unfolds
  <2>4. s # {}
    BY <2>2, <2>3 DEF Rec
  <2>5. s \ {Picked(s)} \notin D
    BY <2>1, <2>4, PickedIn
  <2>6. g[s \ {Picked(s)}] = h[s \ {Picked(s)}]
    BY <2>2, <2>5
  <2> QED
    BY <2>2, <2>3, <2>4, <2>6 DEF Rec
<1> QED
  BY <1>3, SumIsIter

\* The element CHOOSE picks may be set apart.
LEMMA SumPicked ==
  ASSUME NEW S, IsFiniteSet(S), NEW f, S # {}
  PROVE  SumFunctionOnSet(f, S) =
           f[Picked(S)] + SumFunctionOnSet(f, S \ {Picked(S)})
<1>1. Unfolds(Iter(f, S), f, SUBSET S)
  BY IterUnfolds
<1>2. Iter(f, S)[S] = f[Picked(S)] + Iter(f, S)[S \ {Picked(S)}]
  BY <1>1 DEF Unfolds, Rec
<1> QED
  BY <1>2, IterAgrees

\* A sum of integers is one.
LEMMA SumIsInt ==
  ASSUME NEW S, IsFiniteSet(S), NEW f, \A x \in S : f[x] \in Int
  PROVE  SumFunctionOnSet(f, S) \in Int
<1> DEFINE D == {s \in SUBSET S : SumFunctionOnSet(f, s) \notin Int}
<1>1. CASE D = {}
  BY <1>1
<1>2. CASE D # {}
  <2>1. PICK s \in D : \A u \in D : u \subseteq s => u = s
    <3>1. D \in SUBSET SUBSET S
      OBVIOUS
    <3> HIDE DEF D
    <3> QED
      BY <1>2, <3>1, LeastSubset
  <2>2. IsFiniteSet(s) /\ s \in SUBSET S
    BY FS_Subset
  <2>3. s # {}
    BY SumEmpty
  <2>4. s \ {Picked(s)} \notin D
    BY <2>1, <2>3, PickedIn
  <2>5. SumFunctionOnSet(f, s \ {Picked(s)}) \in Int
    BY <2>4
  <2>6. f[Picked(s)] \in Int
    BY <2>2, <2>3, PickedIn
  <2>7. SumFunctionOnSet(f, s) \notin Int
    BY <2>1
  <2> HIDE DEF D
  <2>8. SumFunctionOnSet(f, s)
          = f[Picked(s)] + SumFunctionOnSet(f, s \ {Picked(s)})
    BY <2>2, <2>3, SumPicked
  <2> QED
    BY <2>5, <2>6, <2>7, <2>8
<1> QED
  BY <1>1, <1>2

\* Any element may be set apart, not only the one CHOOSE picks.
LEMMA SumApart ==
  ASSUME NEW S, IsFiniteSet(S), NEW f, \A x \in S : f[x] \in Int, NEW y \in S
  PROVE  SumFunctionOnSet(f, S) = f[y] + SumFunctionOnSet(f, S \ {y})
<1> DEFINE D == {s \in SUBSET S : \E z \in s :
                   SumFunctionOnSet(f, s) # f[z] + SumFunctionOnSet(f, s \ {z})}
<1>1. CASE D = {}
  BY <1>1
<1>2. CASE D # {}
  <2>1. PICK s \in D : \A u \in D : u \subseteq s => u = s
    <3>1. D \in SUBSET SUBSET S
      OBVIOUS
    <3> HIDE DEF D
    <3> QED
      BY <1>2, <3>1, LeastSubset
  <2>2. PICK z \in s :
          SumFunctionOnSet(f, s) # f[z] + SumFunctionOnSet(f, s \ {z})
    BY <2>1
  <2>3. IsFiniteSet(s) /\ s \in SUBSET S /\ s # {}
    BY FS_Subset
  <2> DEFINE x == Picked(s)
  <2>4. x \in s
    BY <2>3, PickedIn
  <2>5. SumFunctionOnSet(f, s) = f[x] + SumFunctionOnSet(f, s \ {x})
    BY <2>3, SumPicked
  <2> HIDE DEF x
  <2>6. x # z
    BY <2>2, <2>5
  <2>7. s \ {x} \notin D /\ s \ {z} \notin D
    BY <2>1, <2>2, <2>4
  <2>8. /\ SumFunctionOnSet(f, s \ {x})
             = f[z] + SumFunctionOnSet(f, (s \ {x}) \ {z})
        /\ SumFunctionOnSet(f, s \ {z})
             = f[x] + SumFunctionOnSet(f, (s \ {z}) \ {x})
    BY <2>2, <2>3, <2>4, <2>6, <2>7
  <2>9. (s \ {x}) \ {z} = (s \ {z}) \ {x}
    OBVIOUS
  <2>10. SumFunctionOnSet(f, (s \ {z}) \ {x}) \in Int
    <3>1. IsFiniteSet((s \ {z}) \ {x})
      BY <2>3, FS_RemoveElement
    <3>2. \A v \in (s \ {z}) \ {x} : f[v] \in Int
      OBVIOUS
    <3> HIDE DEF D
    <3> QED
      BY <3>1, <3>2, SumIsInt
  <2>11. f[x] \in Int /\ f[z] \in Int
    BY <2>2, <2>3, <2>4
  <2> HIDE DEF D
  <2> DEFINE whole == SumFunctionOnSet(f, s)
             noX == SumFunctionOnSet(f, s \ {x})
             noZ == SumFunctionOnSet(f, s \ {z})
             rest == SumFunctionOnSet(f, (s \ {z}) \ {x})
             fx == f[x]
             fz == f[z]
  <2>12. /\ whole = fx + noX /\ noX = fz + rest /\ noZ = fx + rest
         /\ fx \in Int /\ fz \in Int /\ rest \in Int
    BY <2>5, <2>8, <2>9, <2>10, <2>11
  <2>13. whole # fz + noZ
    BY <2>2
  <2> HIDE DEF whole, noX, noZ, rest, fx, fz
  <2> QED
    BY <2>12, <2>13
<1> QED
  BY <1>1, <1>2

\* Sums of functions that agree on the set are one.
LEMMA SumAgrees ==
  ASSUME NEW S, IsFiniteSet(S), NEW f, NEW g, \A x \in S : f[x] = g[x]
  PROVE  SumFunctionOnSet(f, S) = SumFunctionOnSet(g, S)
<1> DEFINE D == {s \in SUBSET S :
                   SumFunctionOnSet(f, s) # SumFunctionOnSet(g, s)}
<1>1. CASE D = {}
  BY <1>1
<1>2. CASE D # {}
  <2>1. PICK s \in D : \A u \in D : u \subseteq s => u = s
    <3>1. D \in SUBSET SUBSET S
      OBVIOUS
    <3> HIDE DEF D
    <3> QED
      BY <1>2, <3>1, LeastSubset
  <2>2. IsFiniteSet(s) /\ s \in SUBSET S
    BY FS_Subset
  <2>3. s # {}
    BY SumEmpty
  <2>4. s \ {Picked(s)} \notin D
    BY <2>1, <2>3, PickedIn
  <2>5. SumFunctionOnSet(f, s \ {Picked(s)}) = SumFunctionOnSet(g, s \ {Picked(s)})
    BY <2>4
  <2>6. f[Picked(s)] = g[Picked(s)]
    BY <2>2, <2>3, PickedIn
  <2> HIDE DEF D
  <2>7. SumFunctionOnSet(f, s) = SumFunctionOnSet(g, s)
    BY <2>2, <2>3, <2>5, <2>6, SumPicked
  <2> QED
    BY <2>7 DEF D
<1> QED
  BY <1>1, <1>2

\* A sum of zeros is zero.
LEMMA SumOfZeros ==
  ASSUME NEW S, IsFiniteSet(S), NEW f, \A x \in S : f[x] = 0
  PROVE  SumFunctionOnSet(f, S) = 0
<1> DEFINE D == {s \in SUBSET S : SumFunctionOnSet(f, s) # 0}
<1>1. CASE D = {}
  BY <1>1
<1>2. CASE D # {}
  <2>1. PICK s \in D : \A u \in D : u \subseteq s => u = s
    <3>1. D \in SUBSET SUBSET S
      OBVIOUS
    <3> HIDE DEF D
    <3> QED
      BY <1>2, <3>1, LeastSubset
  <2>2. IsFiniteSet(s) /\ s \in SUBSET S
    BY FS_Subset
  <2>3. s # {}
    BY SumEmpty
  <2>4. s \ {Picked(s)} \notin D
    BY <2>1, <2>3, PickedIn
  <2>5. SumFunctionOnSet(f, s \ {Picked(s)}) = 0 /\ f[Picked(s)] = 0
    BY <2>2, <2>3, <2>4, PickedIn
  <2>6. SumFunctionOnSet(f, s) # 0
    BY <2>1
  <2> HIDE DEF D
  <2>7. SumFunctionOnSet(f, s)
          = f[Picked(s)] + SumFunctionOnSet(f, s \ {Picked(s)})
    BY <2>2, <2>3, SumPicked
  <2> QED
    BY <2>5, <2>6, <2>7
<1> QED
  BY <1>1, <1>2

\* One element changes: so does the sum, by as much.
LEMMA SumChanges ==
  ASSUME NEW S, IsFiniteSet(S), NEW f, NEW g, NEW y \in S,
         \A x \in S : f[x] \in Int /\ g[x] \in Int,
         \A x \in S \ {y} : f[x] = g[x]
  PROVE  SumFunctionOnSet(g, S) = SumFunctionOnSet(f, S) - f[y] + g[y]
<1>1. IsFiniteSet(S \ {y})
  BY FS_RemoveElement
<1>2. SumFunctionOnSet(f, S \ {y}) = SumFunctionOnSet(g, S \ {y})
  BY <1>1, SumAgrees
<1>3. SumFunctionOnSet(f, S \ {y}) \in Int
  BY <1>1, SumIsInt
<1>4. /\ SumFunctionOnSet(f, S) = f[y] + SumFunctionOnSet(f, S \ {y})
      /\ SumFunctionOnSet(g, S) = g[y] + SumFunctionOnSet(g, S \ {y})
  BY SumApart
<1> QED
  BY <1>2, <1>3, <1>4

\* A sum is at least the sum of lesser terms, over a part of the set.
LEMMA SumGrows ==
  ASSUME NEW S, IsFiniteSet(S), NEW T \in SUBSET S, NEW f, NEW g,
         \A x \in S : f[x] \in Int /\ g[x] \in Int,
         \A x \in T : f[x] <= g[x],
         \A x \in S \ T : 0 <= g[x]
  PROVE  SumFunctionOnSet(f, T) <= SumFunctionOnSet(g, S)
<1> DEFINE D == {s \in SUBSET S :
              ~ SumFunctionOnSet(f, s \cap T) <= SumFunctionOnSet(g, s)}
<1>1. CASE D = {}
  <2>1. S \cap T = T
    OBVIOUS
  <2> QED
    BY <1>1, <2>1
<1>2. CASE D # {}
  <2>1. PICK s \in D : \A u \in D : u \subseteq s => u = s
    <3>1. D \in SUBSET SUBSET S
      OBVIOUS
    <3> HIDE DEF D
    <3> QED
      BY <1>2, <3>1, LeastSubset
  <2>2. s \in SUBSET S /\ ~ SumFunctionOnSet(f, s \cap T) <= SumFunctionOnSet(g, s)
    BY <2>1
  <2>3. IsFiniteSet(s)
    BY <2>2, FS_Subset
  <2>4. s # {}
    <3>1. CASE s = {}
      <4>1. s \cap T = {}
        BY <3>1
      <4>2. SumFunctionOnSet(f, s \cap T) = 0 /\ SumFunctionOnSet(g, s) = 0
        BY <3>1, <4>1, SumEmpty
      <4> QED
        BY <2>2, <4>2
    <3> QED
      BY <3>1
  <2>5. PICK y \in s : TRUE
    BY <2>4
  <2> DEFINE r == s \ {y}
  <2>6. SumFunctionOnSet(f, r \cap T) <= SumFunctionOnSet(g, r)
    BY <2>1, <2>2, <2>5
  <2>7. /\ IsFiniteSet(r) /\ IsFiniteSet(r \cap T) /\ IsFiniteSet(s \cap T)
        /\ r \subseteq S
    BY <2>2, <2>3, FS_RemoveElement, FS_Intersection
  <2> HIDE DEF D
  <2>8. /\ SumFunctionOnSet(f, r \cap T) \in Int
        /\ SumFunctionOnSet(g, r) \in Int
    BY <2>7, SumIsInt
  <2>9. SumFunctionOnSet(g, s) = g[y] + SumFunctionOnSet(g, r)
    BY <2>2, <2>3, <2>5, SumApart
  <2>10. CASE y \in T
    <3>1. (s \cap T) \ {y} = r \cap T
      OBVIOUS
    <3>2. SumFunctionOnSet(f, s \cap T) = f[y] + SumFunctionOnSet(f, (s \cap T) \ {y})
      BY <2>2, <2>7, <2>10, SumApart
    <3>3. f[y] \in Int /\ g[y] \in Int /\ f[y] <= g[y]
      BY <2>10
    <3> HIDE DEF r
    <3>4. SumFunctionOnSet(f, s \cap T) <= SumFunctionOnSet(g, s)
      BY <2>6, <2>8, <2>9, <3>1, <3>2, <3>3
    <3> QED
      BY <2>2, <3>4
  <2>11. CASE y \notin T
    <3>1. s \cap T = r \cap T
      BY <2>11
    <3>2. g[y] \in Int /\ 0 <= g[y]
      BY <2>2, <2>5, <2>11
    <3> DEFINE left == SumFunctionOnSet(f, r \cap T)
               right == SumFunctionOnSet(g, r)
               gy == g[y]
    <3>3. /\ left <= right /\ left \in Int /\ right \in Int
          /\ gy \in Int /\ 0 <= gy
      BY <2>6, <2>8, <3>2
    <3>4. SumFunctionOnSet(f, s \cap T) = left /\ SumFunctionOnSet(g, s) = gy + right
      BY <2>9, <3>1
    <3> HIDE DEF left, right, gy
    <3>5. left <= gy + right
      BY <3>3
    <3> QED
      BY <2>2, <3>4, <3>5
  <2> QED
    BY <2>10, <2>11
<1> QED
  BY <1>1, <1>2
\* A sum of what is not negative is not either.
LEMMA SumNotNegative ==
  ASSUME NEW S, IsFiniteSet(S), NEW f, \A x \in S : f[x] \in Int /\ 0 <= f[x]
  PROVE  0 <= SumFunctionOnSet(f, S)
<1> DEFINE none == {}
<1>1. none \in SUBSET S /\ \A x \in none : f[x] <= f[x]
  OBVIOUS
<1>2. SumFunctionOnSet(f, none) = 0
  BY SumEmpty
<1> HIDE DEF none
<1>3. SumFunctionOnSet(f, none) <= SumFunctionOnSet(f, S)
  BY <1>1, SumGrows
<1> QED
  BY <1>2, <1>3

=============================================================================

----------------------------- MODULE SumLemmas ------------------------------
(***************************************************************************)
(* Facts about SumFunctionOnSet, the finite sum f[x1] + ... + f[xn] of the *)
(* community module Functions, that the accounting proofs of the contracts *)
(* rest on.  Nothing here is about the application.                        *)
(*                                                                         *)
(* The library's induction rules take a predicate as a parameter; the      *)
(* induction used here is first order: a set of "bad" subsets of a finite  *)
(* set has a minimal element (MinimalSubset), because strict inclusion is  *)
(* well founded on them.                                                   *)
(***************************************************************************)
EXTENDS Integers, Functions, FiniteSetTheorems, TLAPS

IntValued(f, S) == \A x \in S : f[x] \in Int
NatValued(f, S) == \A x \in S : f[x] \in Nat

(***************************************************************************)
(* The recursive function inside SumFunctionOnSet, named.                  *)
(***************************************************************************)
Pick(s) == CHOOSE x \in s : TRUE

Partial(f, S) ==
  CHOOSE iter : iter =
    [s \in SUBSET S |-> IF s = {} THEN 0 ELSE f[Pick(s)] + iter[s \ {Pick(s)}]]

(* g sums f over every subset of S, whichever element is taken out first. *)
Sums(g, f, S) ==
  /\ g \in [SUBSET S -> Int]
  /\ g[{}] = 0
  /\ \A T \in SUBSET S : \A x \in T : g[T] = f[x] + g[T \ {x}]

-----------------------------------------------------------------------------
(* Among the subsets of a finite set that belong to B, one has no smaller   *)
(* neighbour in B.                                                          *)
LEMMA MinimalSubset ==
  ASSUME NEW S, IsFiniteSet(S), NEW B \in SUBSET SUBSET S, B # {}
  PROVE  \E T \in B : \A x \in T : T \ {x} \notin B
<1>1. FiniteSubsetsOf(S) = SUBSET S
  BY FS_FiniteSubsetsOfFinite
<1>2. IsWellFoundedOn(StrictSubsetOrdering(S), SUBSET S)
  BY <1>1, FS_StrictSubsetOrderingWellFounded
<1>3. PICK T \in B : \A y \in B : ~ (<<y, T>> \in StrictSubsetOrdering(S))
  BY <1>2, WFMin
<1>4. ASSUME NEW x \in T, T \ {x} \in B
      PROVE  FALSE
  <2>1. <<T \ {x}, T>> \in (SUBSET S) \X (SUBSET S)
    BY <1>4
  <2>2. <<T \ {x}, T>> \in StrictSubsetOrdering(S)
    BY <2>1, <1>4 DEF StrictSubsetOrdering
  <2>. QED  BY <2>2, <1>3, <1>4
<1>. QED  BY <1>4

(* Induction over the subsets of a finite set, for a set G of good ones.    *)
LEMMA SubsetInduction ==
  ASSUME NEW S, IsFiniteSet(S), NEW G, {} \in G,
         \A T \in SUBSET S : T # {} /\ (\A x \in T : T \ {x} \in G) => T \in G
  PROVE  \A T \in SUBSET S : T \in G
<1>. DEFINE B == {T \in SUBSET S : T \notin G}
<1>1. CASE B = {}
  BY <1>1
<1>2. CASE B # {}
  <2>0. B \in SUBSET SUBSET S
    OBVIOUS
  <2>1. PICK T \in B : \A x \in T : T \ {x} \notin B
    <3>. HIDE DEF B
    <3>. QED  BY <1>2, <2>0, MinimalSubset
  <2>2. \A x \in T : T \ {x} \in G
    BY <2>1
  <2>. QED  BY <2>1, <2>2
<1>. QED  BY <1>1, <1>2

(* A summing function exists for every finite set.                          *)
LEMMA SumsExists ==
  ASSUME NEW f, NEW S, IsFiniteSet(S), IntValued(f, S)
  PROVE  \E g : Sums(g, f, S)
<1>. DEFINE G == {T \in SUBSET S : \E g : Sums(g, f, T)}
<1>1. {} \in G
  <2>1. Sums([T \in SUBSET {} |-> 0], f, {})
    BY DEF Sums
  <2>. QED  BY <2>1
<1>2. ASSUME NEW T \in SUBSET S, T # {}, \A x \in T : T \ {x} \in G
      PROVE  T \in G
  <2>1. PICK x \in T : TRUE
    BY <1>2
  <2>2. PICK h : Sums(h, f, T \ {x})
    BY <1>2, <2>1
  <2>. DEFINE g == [U \in SUBSET T |->
                      IF x \in U THEN f[x] + h[U \ {x}] ELSE h[U]]
  <2>3. f[x] \in Int
    BY <2>1 DEF IntValued
  <2>4. \A U \in SUBSET T : U \ {x} \in SUBSET (T \ {x})
    OBVIOUS
  <2>5. g \in [SUBSET T -> Int]
    <3>1. ASSUME NEW U \in SUBSET T
          PROVE  (IF x \in U THEN f[x] + h[U \ {x}] ELSE h[U]) \in Int
      <4>1. h[U \ {x}] \in Int
        BY <2>2, <2>4 DEF Sums
      <4>2. CASE x \in U
        BY <4>1, <4>2, <2>3
      <4>3. CASE x \notin U
        <5>1. U \ {x} = U
          BY <4>3
        <5>. QED  BY <5>1, <4>1, <4>3
      <4>. QED  BY <4>2, <4>3
    <3>. QED  BY <3>1
  <2>6. g[{}] = 0
    BY <2>2 DEF Sums
  <2>7. ASSUME NEW U \in SUBSET T, NEW y \in U
        PROVE  g[U] = f[y] + g[U \ {y}]
    <3>1. CASE y = x
      <4>1. g[U] = f[x] + h[U \ {x}]
        BY <2>7, <3>1
      <4>2. g[U \ {x}] = h[U \ {x}]
        OBVIOUS
      <4>. QED  BY <4>1, <4>2, <3>1
    <3>2. CASE y # x /\ x \notin U
      <4>1. U \in SUBSET (T \ {x})
        BY <3>2
      <4>2. h[U] = f[y] + h[U \ {y}]
        BY <4>1, <2>2, <2>7 DEF Sums
      <4>. QED  BY <4>2, <3>2
    <3>3. CASE y # x /\ x \in U
      <4>. DEFINE V == U \ {x}
      <4>1. V \in SUBSET (T \ {x}) /\ y \in V /\ V \ {y} \in SUBSET (T \ {x})
        BY <3>3, <2>7
      <4>2. h[V] = f[y] + h[V \ {y}]
        BY <4>1, <2>2 DEF Sums
      <4>3. h[V] \in Int /\ h[V \ {y}] \in Int
        BY <4>1, <2>2 DEF Sums
      <4>4. f[y] \in Int
        BY <2>7 DEF IntValued
      <4>5. g[U] = f[x] + h[V]
        BY <3>3
      <4>6. (U \ {y}) \ {x} = V \ {y}
        OBVIOUS
      <4>7. g[U \ {y}] = f[x] + h[V \ {y}]
        BY <3>3, <4>6
      <4>. HIDE DEF V, g
      <4>. QED  BY <4>2, <4>3, <4>4, <4>5, <4>7, <2>3
    <3>. QED  BY <3>1, <3>2, <3>3
  <2>8. Sums(g, f, T)
    <3>. HIDE DEF g
    <3>. QED  BY <2>5, <2>6, <2>7 DEF Sums
  <2>. QED  BY <2>8
<1>. HIDE DEF G
<1>3. S \in G
  <2>1. \A T \in SUBSET S : T # {} /\ (\A x \in T : T \ {x} \in G) => T \in G
    BY ONLY <1>2
  <2>2. \A T \in SUBSET S : T \in G
    BY ONLY <1>1, <2>1, IsFiniteSet(S), SubsetInduction
  <2>. QED  BY <2>2
<1>. QED  BY <1>3 DEF G

(* Any summing function gives the value of SumFunctionOnSet.                *)
LEMMA SumsUnique ==
  ASSUME NEW f, NEW S, IsFiniteSet(S), IntValued(f, S), NEW g, Sums(g, f, S)
  PROVE  SumFunctionOnSet(f, S) = g[S]
<1>. DEFINE Body(i) == [s \in SUBSET S |->
                  IF s = {} THEN 0 ELSE f[Pick(s)] + i[s \ {Pick(s)}]]
            p == Partial(f, S)
<1>1. SumFunctionOnSet(f, S) = p[S]
  BY DEF SumFunctionOnSet, FoldFunctionOnSet, MapThenFoldSet, Partial, Pick
<1>2. \A s \in SUBSET S : s # {} => Pick(s) \in s
  BY DEF Pick
<1>3. g = Body(g)
  <2>1. \A s \in SUBSET S :
          g[s] = IF s = {} THEN 0 ELSE f[Pick(s)] + g[s \ {Pick(s)}]
    BY <1>2 DEF Sums
  <2>. QED  BY <2>1 DEF Sums
<1>4. p = Body(p)
  BY <1>3 DEF Partial
<1>5. \A s \in SUBSET S :
        p[s] = IF s = {} THEN 0 ELSE f[Pick(s)] + p[s \ {Pick(s)}]
  <2>. HIDE DEF p
  <2>. QED  BY <1>4
<1>. HIDE DEF p, Body
<1>. DEFINE G == {T \in SUBSET S : p[T] = g[T]}
<1>6. {} \in G
  BY <1>5 DEF Sums
<1>7. ASSUME NEW T \in SUBSET S, T # {}, \A x \in T : T \ {x} \in G
      PROVE  T \in G
  <2>1. Pick(T) \in T
    BY <1>2, <1>7
  <2>2. p[T \ {Pick(T)}] = g[T \ {Pick(T)}]
    BY <2>1, <1>7
  <2>3. p[T] = f[Pick(T)] + p[T \ {Pick(T)}]
    BY <1>5, <1>7
  <2>4. g[T] = f[Pick(T)] + g[T \ {Pick(T)}]
    BY <2>1 DEF Sums
  <2>. QED  BY <2>2, <2>3, <2>4
<1>. HIDE DEF G
<1>8. \A T \in SUBSET S : T # {} /\ (\A x \in T : T \ {x} \in G) => T \in G
  BY ONLY <1>7
<1>9. \A T \in SUBSET S : T \in G
  BY ONLY <1>6, <1>8, IsFiniteSet(S), SubsetInduction
<1>. QED  BY <1>9, <1>1 DEF G

-----------------------------------------------------------------------------
(* The sum over no elements.                                                *)
LEMMA SumEmpty ==
  ASSUME NEW f
  PROVE  SumFunctionOnSet(f, {}) = 0
<1>1. IsFiniteSet({}) /\ IntValued(f, {})
  BY FS_EmptySet DEF IntValued
<1>2. PICK g : Sums(g, f, {})
  BY <1>1, SumsExists
<1>. QED  BY <1>1, <1>2, SumsUnique DEF Sums

(* A finite sum of integers is an integer, and any element can be split off.*)
LEMMA SumStep ==
  ASSUME NEW f, NEW S, IsFiniteSet(S), IntValued(f, S)
  PROVE  /\ SumFunctionOnSet(f, S) \in Int
         /\ \A x \in S : /\ SumFunctionOnSet(f, S \ {x}) \in Int
                         /\ SumFunctionOnSet(f, S) =
                              f[x] + SumFunctionOnSet(f, S \ {x})
<1>1. PICK g : Sums(g, f, S)
  BY SumsExists
<1>2. SumFunctionOnSet(f, S) = g[S]
  BY <1>1, SumsUnique
<1>3. ASSUME NEW x \in S
      PROVE  /\ SumFunctionOnSet(f, S \ {x}) = g[S \ {x}]
             /\ g[S \ {x}] \in Int
  <2>. DEFINE T == S \ {x}
              h == [U \in SUBSET T |-> g[U]]
  <2>1. IsFiniteSet(T) /\ IntValued(f, T)
    BY FS_RemoveElement DEF IntValued
  <2>2. Sums(h, f, T)
    <3>1. h \in [SUBSET T -> Int] /\ h[{}] = 0
      BY <1>1 DEF Sums
    <3>2. ASSUME NEW U \in SUBSET T, NEW y \in U
          PROVE  h[U] = f[y] + h[U \ {y}]
      <4>1. U \in SUBSET S /\ U \ {y} \in SUBSET T
        OBVIOUS
      <4>. QED  BY <4>1, <1>1 DEF Sums
    <3>. HIDE DEF h, T
    <3>. QED  BY <3>1, <3>2 DEF Sums
  <2>3. SumFunctionOnSet(f, T) = h[T]
    <3>. HIDE DEF h, T
    <3>. QED  BY <2>1, <2>2, SumsUnique
  <2>. QED  BY <2>3, <1>1 DEF Sums
<1>4. \A x \in S : g[S] = f[x] + g[S \ {x}]
  BY <1>1 DEF Sums
<1>5. g[S] \in Int
  BY <1>1 DEF Sums
<1>. QED  BY <1>2, <1>3, <1>4, <1>5

(* Functions that agree on a set have the same sum over it.                 *)
LEMMA SumAgree ==
  ASSUME NEW f, NEW g, NEW S, IsFiniteSet(S), IntValued(f, S),
         \A x \in S : f[x] = g[x]
  PROVE  SumFunctionOnSet(f, S) = SumFunctionOnSet(g, S)
<1>1. IntValued(g, S)
  BY DEF IntValued
<1>2. PICK h : Sums(h, f, S)
  BY SumsExists
<1>3. Sums(h, g, S)
  BY <1>2 DEF Sums
<1>. QED  BY <1>1, <1>2, <1>3, SumsUnique

(* Changing a function at one element changes its sum by the difference.    *)
LEMMA SumUpdate ==
  ASSUME NEW f, NEW g, NEW S, IsFiniteSet(S), IntValued(f, S), IntValued(g, S),
         NEW x \in S, \A y \in S \ {x} : g[y] = f[y]
  PROVE  SumFunctionOnSet(g, S) = SumFunctionOnSet(f, S) - f[x] + g[x]
<1>1. IsFiniteSet(S \ {x}) /\ IntValued(f, S \ {x})
  BY FS_RemoveElement DEF IntValued
<1>2. SumFunctionOnSet(f, S \ {x}) = SumFunctionOnSet(g, S \ {x})
  BY <1>1, SumAgree
<1>3. /\ SumFunctionOnSet(f, S \ {x}) \in Int
      /\ SumFunctionOnSet(f, S) = f[x] + SumFunctionOnSet(f, S \ {x})
      /\ SumFunctionOnSet(g, S) = g[x] + SumFunctionOnSet(g, S \ {x})
  BY SumStep
<1>4. f[x] \in Int /\ g[x] \in Int
  BY DEF IntValued
<1>. QED  BY <1>2, <1>3, <1>4

(* The sum is linear.                                                       *)
LEMMA SumPlus ==
  ASSUME NEW f, NEW g, NEW h, NEW S, IsFiniteSet(S),
         IntValued(f, S), IntValued(g, S), \A x \in S : h[x] = f[x] + g[x]
  PROVE  SumFunctionOnSet(h, S) = SumFunctionOnSet(f, S) + SumFunctionOnSet(g, S)
<1>1. IntValued(h, S)
  BY DEF IntValued
<1>2. PICK F : Sums(F, f, S)
  BY SumsExists
<1>3. PICK G : Sums(G, g, S)
  BY SumsExists
<1>. DEFINE H == [T \in SUBSET S |-> F[T] + G[T]]
<1>4. Sums(H, h, S)
  <2>1. H \in [SUBSET S -> Int] /\ H[{}] = 0
    BY <1>2, <1>3 DEF Sums
  <2>2. ASSUME NEW T \in SUBSET S, NEW x \in T
        PROVE  H[T] = h[x] + H[T \ {x}]
    <3>1. T \ {x} \in SUBSET S /\ x \in S
      OBVIOUS
    <3>2. /\ F[T] = f[x] + F[T \ {x}] /\ G[T] = g[x] + G[T \ {x}]
          /\ F[T \ {x}] \in Int /\ G[T \ {x}] \in Int
          /\ f[x] \in Int /\ g[x] \in Int
      BY <1>2, <1>3, <3>1 DEF Sums, IntValued
    <3>3. H[T] = F[T] + G[T] /\ H[T \ {x}] = F[T \ {x}] + G[T \ {x}]
      BY <3>1
    <3>4. h[x] = f[x] + g[x]
      BY <3>1
    <3>. HIDE DEF H
    <3>. QED  BY <3>2, <3>3, <3>4
  <2>. HIDE DEF H
  <2>. QED  BY <2>1, <2>2 DEF Sums
<1>5. H[S] = F[S] + G[S]
  OBVIOUS
<1>. HIDE DEF H
<1>6. SumFunctionOnSet(f, S) = F[S] /\ SumFunctionOnSet(g, S) = G[S]
  BY <1>2, <1>3, SumsUnique
<1>7. SumFunctionOnSet(h, S) = H[S]
  BY <1>1, <1>4, SumsUnique
<1>. QED  BY <1>5, <1>6, <1>7

(* A sum of naturals is a natural, and none of its terms exceeds it.        *)
LEMMA SumNat ==
  ASSUME NEW f, NEW S, IsFiniteSet(S), NatValued(f, S)
  PROVE  /\ SumFunctionOnSet(f, S) \in Nat
         /\ \A x \in S : f[x] <= SumFunctionOnSet(f, S)
<1>1. IntValued(f, S)
  BY DEF NatValued, IntValued
<1>2. PICK g : Sums(g, f, S)
  BY <1>1, SumsExists
<1>. DEFINE G == {T \in SUBSET S : g[T] \in Nat}
<1>3. {} \in G
  BY <1>2 DEF Sums
<1>4. ASSUME NEW T \in SUBSET S, T # {}, \A x \in T : T \ {x} \in G
      PROVE  T \in G
  <2>1. PICK x \in T : TRUE
    BY <1>4
  <2>2. g[T] = f[x] + g[T \ {x}] /\ g[T \ {x}] \in Nat
    BY <1>2, <1>4, <2>1 DEF Sums
  <2>3. f[x] \in Nat
    BY <2>1 DEF NatValued
  <2>. QED  BY <2>2, <2>3
<1>. HIDE DEF G
<1>5. \A T \in SUBSET S : T \in G
  <2>1. \A T \in SUBSET S : T # {} /\ (\A x \in T : T \ {x} \in G) => T \in G
    BY ONLY <1>4
  <2>. QED  BY ONLY <1>3, <2>1, IsFiniteSet(S), SubsetInduction
<1>6. g[S] \in Nat /\ \A x \in S : g[S \ {x}] \in Nat
  BY <1>5 DEF G
<1>7. ASSUME NEW x \in S
      PROVE  f[x] <= g[S]
  <2>1. g[S] = f[x] + g[S \ {x}]
    BY <1>2 DEF Sums
  <2>2. f[x] \in Nat
    BY DEF NatValued
  <2>. QED  BY <2>1, <2>2, <1>6
<1>. QED  BY <1>6, <1>7, <1>1, <1>2, SumsUnique

(* Larger terms have a larger sum.                                          *)
LEMMA SumLeq ==
  ASSUME NEW f, NEW g, NEW S, IsFiniteSet(S), IntValued(f, S), IntValued(g, S),
         \A x \in S : f[x] <= g[x]
  PROVE  SumFunctionOnSet(f, S) <= SumFunctionOnSet(g, S)
<1>. DEFINE d == [x \in S |-> g[x] - f[x]]
<1>1. NatValued(d, S) /\ IntValued(d, S)
  BY DEF NatValued, IntValued
<1>2. \A x \in S : g[x] = f[x] + d[x]
  BY DEF IntValued
<1>. HIDE DEF d
<1>3. SumFunctionOnSet(g, S) = SumFunctionOnSet(f, S) + SumFunctionOnSet(d, S)
  BY <1>1, <1>2, SumPlus
<1>4. SumFunctionOnSet(d, S) \in Nat
  BY <1>1, SumNat
<1>5. SumFunctionOnSet(f, S) \in Int
  BY SumStep
<1>. QED  BY <1>3, <1>4, <1>5

(* A sum of zeros.                                                          *)
LEMMA SumZero ==
  ASSUME NEW f, NEW S, IsFiniteSet(S), \A x \in S : f[x] = 0
  PROVE  SumFunctionOnSet(f, S) = 0
<1>1. Sums([T \in SUBSET S |-> 0], f, S) /\ IntValued(f, S)
  BY DEF Sums, IntValued
<1>2. SumFunctionOnSet(f, S) = [T \in SUBSET S |-> 0][S]
  BY <1>1, SumsUnique
<1>. QED  BY <1>2

(* Summing class by class: o assigns each index to a class in M.            *)
LEMMA SumByClass ==
  ASSUME NEW r, NEW I, IsFiniteSet(I), IntValued(r, I),
         NEW M, IsFiniteSet(M), NEW o, \A i \in I : o[i] \in M
  PROVE  LET ofClass == [m \in M |-> SumFunctionOnSet(r, {i \in I : o[i] = m})]
         IN  /\ IntValued(ofClass, M)
             /\ SumFunctionOnSet(ofClass, M) = SumFunctionOnSet(r, I)
<1>. DEFINE Cls(J, m) == {i \in J : o[i] = m}
            By(J) == [m \in M |-> SumFunctionOnSet(r, Cls(J, m))]
            G == {J \in SUBSET I : /\ IntValued(By(J), M)
                                   /\ SumFunctionOnSet(By(J), M)
                                        = SumFunctionOnSet(r, J)}
<1>0. ASSUME NEW J \in SUBSET I
      PROVE  /\ IsFiniteSet(J) /\ IntValued(r, J) /\ IntValued(By(J), M)
             /\ \A m \in M : IsFiniteSet(Cls(J, m)) /\ IntValued(r, Cls(J, m))
  <2>1. IsFiniteSet(J) /\ IntValued(r, J)
    BY FS_Subset DEF IntValued
  <2>2. ASSUME NEW m \in M
        PROVE  IsFiniteSet(Cls(J, m)) /\ IntValued(r, Cls(J, m))
    <3>1. Cls(J, m) \in SUBSET I
      OBVIOUS
    <3>. HIDE DEF Cls
    <3>. QED  BY <3>1, FS_Subset DEF IntValued
  <2>3. \A m \in M : SumFunctionOnSet(r, Cls(J, m)) \in Int
    <3>. HIDE DEF Cls
    <3>. QED  BY <2>2, SumStep
  <2>4. IntValued(By(J), M)
    BY <2>3 DEF IntValued
  <2>. QED  BY <2>1, <2>2, <2>4
<1>1. {} \in G
  <2>1. \A m \in M : By({})[m] = 0
    <3>1. \A m \in M : Cls({}, m) = {}
      OBVIOUS
    <3>. HIDE DEF Cls
    <3>. QED  BY <3>1, SumEmpty
  <2>2. IntValued(By({}), M)
    BY <1>0
  <2>. HIDE DEF By
  <2>3. SumFunctionOnSet(By({}), M) = 0
    BY <2>1, SumZero
  <2>. QED  BY <2>2, <2>3, SumEmpty
<1>2. ASSUME NEW J \in SUBSET I, J # {}, \A x \in J : J \ {x} \in G
      PROVE  J \in G
  <2>1. PICK j \in J : TRUE
    BY <1>2
  <2>. DEFINE K == J \ {j}
  <2>2. K \in SUBSET I /\ K \in G /\ o[j] \in M /\ r[j] \in Int
    BY <1>2, <2>1 DEF IntValued
  <2>3. \A m \in M \ {o[j]} : Cls(J, m) = Cls(K, m)
    OBVIOUS
  <2>4. j \in Cls(J, o[j]) /\ Cls(K, o[j]) = Cls(J, o[j]) \ {j}
    BY <2>1
  <2>5. \A m \in M \ {o[j]} : By(J)[m] = By(K)[m]
    BY <2>3
  <2>6. By(J)[o[j]] = r[j] + By(K)[o[j]]
    <3>1. By(J)[o[j]] = SumFunctionOnSet(r, Cls(J, o[j]))
      BY <2>2
    <3>2. By(K)[o[j]] = SumFunctionOnSet(r, Cls(K, o[j]))
      BY <2>2
    <3>3. IsFiniteSet(Cls(J, o[j])) /\ IntValued(r, Cls(J, o[j]))
      BY <1>0, <2>2
    <3>. HIDE DEF Cls, By, K
    <3>. QED  BY <3>1, <3>2, <3>3, <2>4, SumStep
  <2>7. IntValued(By(J), M) /\ IntValued(By(K), M)
    BY <1>0, <2>2
  <2>8. SumFunctionOnSet(r, J) = r[j] + SumFunctionOnSet(r, K)
    <3>1. IsFiniteSet(J) /\ IntValued(r, J)
      BY <1>0
    <3>. HIDE DEF Cls, By
    <3>. QED  BY <3>1, <2>1, SumStep
  <2>9. SumFunctionOnSet(By(K), M) = SumFunctionOnSet(r, K)
    BY <2>2
  <2>10. SumFunctionOnSet(r, K) \in Int
    BY <1>0, <2>2, SumStep
  <2>11. By(K)[o[j]] \in Int
    BY <2>7, <2>2 DEF IntValued
  <2>. HIDE DEF By, K
  <2>12. SumFunctionOnSet(By(J), M)
           = SumFunctionOnSet(By(K), M) - By(K)[o[j]] + By(J)[o[j]]
    BY <2>2, <2>5, <2>7, SumUpdate
  <2>13. SumFunctionOnSet(By(J), M) = SumFunctionOnSet(r, J)
    BY <2>2, <2>6, <2>8, <2>9, <2>10, <2>11, <2>12
  <2>. QED  BY <2>7, <2>13
<1>3. I \in G
  <2>. HIDE DEF Cls, By, G
  <2>1. \A J \in SUBSET I : J # {} /\ (\A x \in J : J \ {x} \in G) => J \in G
    BY <1>2
  <2>2. \A J \in SUBSET I : J \in G
    BY ONLY <1>1, <2>1, SubsetInduction, IsFiniteSet(I)
  <2>. QED  BY <2>2
<1>. QED  BY <1>3 DEF G

-----------------------------------------------------------------------------
(* A total and transitive relation has a greatest element in every finite   *)
(* set that is not empty.                                                   *)
LEMMA BestExists ==
  ASSUME NEW D, IsFiniteSet(D), D # {}, NEW R \in SUBSET (D \X D),
         \A i, j \in D : <<i, j>> \in R \/ <<j, i>> \in R,
         \A i, j, k \in D : <<i, j>> \in R /\ <<j, k>> \in R => <<i, k>> \in R
  PROVE  \E i \in D : \A j \in D : <<i, j>> \in R
<1>. DEFINE G == {J \in SUBSET D : J # {} => \E i \in J : \A j \in J : <<i, j>> \in R}
<1>1. ASSUME NEW J \in SUBSET D, J # {}, \A x \in J : J \ {x} \in G
      PROVE  J \in G
  <2>1. PICK x \in J : TRUE
    BY <1>1
  <2>2. CASE J \ {x} = {}
    BY <2>1, <2>2
  <2>3. CASE J \ {x} # {}
    <3>1. PICK i \in J \ {x} : \A j \in J \ {x} : <<i, j>> \in R
      BY <1>1, <2>1, <2>3
    <3>2. CASE <<i, x>> \in R
      BY <3>1, <3>2
    <3>3. CASE <<x, i>> \in R
      <4>1. \A j \in J : <<x, j>> \in R
        BY <3>1, <3>3
      <4>. QED  BY <4>1, <2>1
    <3>. QED  BY <3>1, <3>2, <3>3, <2>1
  <2>. QED  BY <2>2, <2>3
<1>2. {} \in G
  OBVIOUS
<1>. HIDE DEF G
<1>3. D \in G
  <2>1. \A J \in SUBSET D : J # {} /\ (\A x \in J : J \ {x} \in G) => J \in G
    BY ONLY <1>1
  <2>2. \A J \in SUBSET D : J \in G
    BY ONLY <1>2, <2>1, SubsetInduction, IsFiniteSet(D)
  <2>. QED  BY <2>2
<1>. QED  BY <1>3 DEF G

(* A sum over one more element.                                             *)
LEMMA SumOneMore ==
  ASSUME NEW S, IsFiniteSet(S), NEW x, x \notin S, NEW f, NEW g,
         IntValued(g, S \cup {x}), \A v \in S : g[v] = f[v]
  PROVE  SumFunctionOnSet(g, S \cup {x}) = SumFunctionOnSet(f, S) + g[x]
<1> DEFINE T == S \cup {x}
<1>1. IsFiniteSet(T) /\ IntValued(g, T) /\ x \in T
  BY FS_AddElement
<1>2. T \ {x} = S /\ g[x] \in Int /\ IntValued(g, S)
  BY DEF IntValued
<1> HIDE DEF T
<1>3. /\ SumFunctionOnSet(g, T) = g[x] + SumFunctionOnSet(g, T \ {x})
      /\ SumFunctionOnSet(g, T \ {x}) \in Int
  BY <1>1, SumStep
<1>4. SumFunctionOnSet(g, S) = SumFunctionOnSet(f, S)
  BY <1>2, SumAgree
<1>5. SumFunctionOnSet(g, T) = SumFunctionOnSet(f, S) + g[x]
  <2>1. SumFunctionOnSet(g, T \ {x}) = SumFunctionOnSet(f, S)
    BY <1>2, <1>4
  <2> QED BY <1>2, <1>3, <2>1
<1> QED BY <1>5 DEF T

(* A sum over two sets that have no element in common.                      *)
LEMMA SumApart ==
  ASSUME NEW S, IsFiniteSet(S), NEW T, IsFiniteSet(T), S \cap T = {},
         NEW f, IntValued(f, S \cup T)
  PROVE  SumFunctionOnSet(f, S \cup T) = SumFunctionOnSet(f, S) + SumFunctionOnSet(f, T)
<1>. DEFINE G == {U \in SUBSET T : SumFunctionOnSet(f, S \cup U)
                                    = SumFunctionOnSet(f, S) + SumFunctionOnSet(f, U)}
<1>0. /\ IntValued(f, S) /\ SumFunctionOnSet(f, S) \in Int
      /\ \A U \in SUBSET T : /\ IsFiniteSet(U) /\ IsFiniteSet(S \cup U)
                            /\ IntValued(f, S \cup U) /\ IntValued(f, U)
                            /\ SumFunctionOnSet(f, U) \in Int
  <2>1. IntValued(f, S)
    BY DEF IntValued
  <2>2. ASSUME NEW U \in SUBSET T
        PROVE  /\ IsFiniteSet(U) /\ IsFiniteSet(S \cup U)
               /\ IntValued(f, S \cup U) /\ IntValued(f, U)
    BY FS_Subset, FS_Union DEF IntValued
  <2>. QED  BY <2>1, <2>2, SumStep
<1>1. {} \in G
  <2>1. S \cup {} = S
    OBVIOUS
  <2>2. SumFunctionOnSet(f, {}) = 0
    BY SumEmpty
  <2>. QED  BY <1>0, <2>1, <2>2
<1>2. ASSUME NEW U \in SUBSET T, U # {}, \A x \in U : U \ {x} \in G
      PROVE  U \in G
  <2>1. PICK x \in U : TRUE
    BY <1>2
  <2>2. /\ (S \cup U) \ {x} = S \cup (U \ {x}) /\ U \ {x} \in SUBSET T
        /\ f[x] \in Int
    <3>1. x \in T /\ x \notin S
      BY <2>1
    <3>. QED  BY <3>1 DEF IntValued
  <2>3. SumFunctionOnSet(f, S \cup (U \ {x}))
          = SumFunctionOnSet(f, S) + SumFunctionOnSet(f, U \ {x})
    BY <1>2, <2>1
  <2>4. SumFunctionOnSet(f, S \cup U) = f[x] + SumFunctionOnSet(f, S \cup (U \ {x}))
    <3>1. x \in S \cup U
      BY <2>1
    <3>2. SumFunctionOnSet(f, S \cup U) = f[x] + SumFunctionOnSet(f, (S \cup U) \ {x})
      BY <1>0, <3>1, SumStep
    <3>3. (S \cup U) \ {x} = S \cup (U \ {x})
      BY <2>2
    <3>. HIDE DEF G
    <3>. QED  BY ONLY <3>2, <3>3, Zenon
  <2>5. SumFunctionOnSet(f, U) = f[x] + SumFunctionOnSet(f, U \ {x})
    <3>1. IsFiniteSet(U) /\ IntValued(f, U)
      BY <1>0
    <3>. QED  BY ONLY <3>1, <2>1, x \in U, SumStep
  <2>6. SumFunctionOnSet(f, U \ {x}) \in Int
    BY <1>0, <2>2
  <2>. QED  BY <1>0, <2>2, <2>3, <2>4, <2>5, <2>6
<1>3. T \in G
  <2>. HIDE DEF G
  <2>1. \A U \in SUBSET T : U # {} /\ (\A x \in U : U \ {x} \in G) => U \in G
    BY <1>2
  <2>2. \A U \in SUBSET T : U \in G
    BY ONLY <1>1, <2>1, SubsetInduction, IsFiniteSet(T)
  <2>. QED  BY <2>2
<1>. QED  BY <1>3

(* Every set of natural numbers that is not empty has a least one.          *)
LEMMA LeastExists ==
  ASSUME NEW N \in Nat, NEW B \in SUBSET (0..N), B # {}
  PROVE  \E n \in B : \A k \in B : n <= k
<1>. DEFINE R == {p \in B \X B : p[1] <= p[2]}
<1>1. IsFiniteSet(B)
  <2>1. IsFiniteSet(0..N)
    BY FS_Interval
  <2>. QED  BY <2>1, FS_Subset
<1>2. \A i, j \in B : <<i, j>> \in R <=> i <= j
  OBVIOUS
<1>3. \A i, j \in B : i \in Int /\ j \in Int
  OBVIOUS
<1>4. R \in SUBSET (B \X B)
  OBVIOUS
<1>. HIDE DEF R
<1>5. \A i, j \in B : <<i, j>> \in R \/ <<j, i>> \in R
  <2>. SUFFICES ASSUME NEW i \in B, NEW j \in B
                PROVE  <<i, j>> \in R \/ <<j, i>> \in R
    OBVIOUS
  <2>1. i \in Int /\ j \in Int
    BY <1>3
  <2>2. i <= j \/ j <= i
    BY <2>1
  <2>. QED  BY <2>2, <1>2
<1>6. \A i, j, k \in B : <<i, j>> \in R /\ <<j, k>> \in R => <<i, k>> \in R
  BY <1>2, <1>3
<1>7. \E i \in B : \A j \in B : <<i, j>> \in R
  BY <1>1, <1>4, <1>5, <1>6, BestExists
<1>. QED  BY <1>2, <1>7

(* Induction up to N, for a set G of good numbers.                          *)
LEMMA UpTo ==
  ASSUME NEW N \in Nat, NEW G, 0 \in G, \A n \in 1..N : n - 1 \in G => n \in G
  PROVE  \A n \in 0..N : n \in G
<1>. DEFINE B == {n \in 0..N : n \notin G}
<1>1. CASE B = {}
  BY <1>1
<1>2. CASE B # {}
  <2>1. B \in SUBSET (0..N)
    OBVIOUS
  <2>2. PICK n \in B : \A k \in B : n <= k
    <3>. HIDE DEF B
    <3>. QED  BY <1>2, <2>1, LeastExists
  <2>3. n \in 1..N /\ n - 1 \in 0..N /\ ~(n <= n - 1)
    BY <2>2
  <2>. QED  BY <2>2, <2>3
<1>. QED  BY <1>1, <1>2

(* Moving every place by one leaves the sum.                                *)
LEMMA SumShift ==
  ASSUME NEW S \in SUBSET Nat, IsFiniteSet(S), NEW f, NEW g, IntValued(f, S),
         \A k \in S : g[k + 1] = f[k]
  PROVE  SumFunctionOnSet(g, {k + 1 : k \in S}) = SumFunctionOnSet(f, S)
<1>. DEFINE Up(T)   == {k + 1 : k \in T}
            Down(T) == {k \in S : k + 1 \in T}
<1>1. IsFiniteSet(Up(S))
  <2>1. PICK h : h = [k \in S |-> k + 1]
    OBVIOUS
  <2>2. h \in Surjection(S, Up(S))
    BY <2>1 DEF Surjection
  <2> QED BY <2>2, FS_Surjection
<1>2. IntValued(g, Up(S))
  BY DEF IntValued
<1>3. PICK F : Sums(F, f, S)
  BY SumsExists
<1>4. PICK H : H = [T \in SUBSET Up(S) |-> F[Down(T)]]
  OBVIOUS
<1>5. Down(Up(S)) = S /\ Down({}) = {}
  OBVIOUS
<1>6. \A T \in SUBSET Up(S) : H[T] = F[Down(T)] /\ Down(T) \in SUBSET S
  BY <1>4
<1>7. H \in [SUBSET Up(S) -> Int] /\ H[{}] = 0
  <2>1. \A T \in SUBSET Up(S) : H[T] \in Int
    BY <1>3, <1>6 DEF Sums
  <2>2. H[{}] = F[{}]
    BY <1>5, <1>6
  <2> QED BY <1>3, <1>4, <2>1, <2>2 DEF Sums
<1>8. ASSUME NEW T \in SUBSET Up(S), NEW x \in T
      PROVE  H[T] = g[x] + H[T \ {x}]
  <2>1. PICK k \in S : x = k + 1
    OBVIOUS
  <2>2. k \in Down(T) /\ Down(T \ {x}) = Down(T) \ {k}
    <3>1. \A j \in S : j + 1 \in T \ {x} <=> j + 1 \in T /\ j # k
      BY <2>1
    <3>2. k \in Down(T)
      BY <2>1
    <3> QED BY <3>1, <3>2
  <2>3. F[Down(T)] = f[k] + F[Down(T) \ {k}]
    BY <1>3, <1>6, <2>2 DEF Sums
  <2>4. T \ {x} \in SUBSET Up(S)
    OBVIOUS
  <2> QED BY <1>6, <2>1, <2>2, <2>3, <2>4
<1>9. Sums(H, g, Up(S))
  BY <1>7, <1>8 DEF Sums
<1>10. SumFunctionOnSet(g, Up(S)) = H[Up(S)]
  BY <1>1, <1>2, <1>9, SumsUnique
<1>11. SumFunctionOnSet(f, S) = F[S]
  BY <1>3, SumsUnique
<1> QED BY <1>5, <1>6, <1>10, <1>11
=============================================================================

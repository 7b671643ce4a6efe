------------------------------ MODULE SumLemmas ------------------------------
(***************************************************************************)
(* What SumFunction of the community modules computes, for the sums of the *)
(* order lifecycle: over the items of a body and over the payments.  A sum *)
(* is defined there by recursion on the subsets of its indices.  Induction *)
(* takes the form of a least counterexample, which needs a set of numbers  *)
(* and no predicate.                                                       *)
(***************************************************************************)
EXTENDS Integers, FiniteSets, Functions, FiniteSetTheorems, WellFoundedInduction, TLAPS

\* The index whose value a sum adds next.
Pick(s) == CHOOSE x \in s : TRUE

\* The recursion of a sum, as an equation for the function of all its partial sums.
Recurs(iter, fun, D) ==
    \A s \in D : iter[s] = IF s = {} THEN 0 ELSE fun[Pick(s)] + iter[s \ {Pick(s)}]

PartialSums(fun, S) ==
    CHOOSE iter : iter = [s \in SUBSET S |->
        IF s = {} THEN 0 ELSE fun[Pick(s)] + iter[s \ {Pick(s)}]]

\* The library's definition of a sum is the last of its partial sums.
LEMMA SumUnfolds ==
    ASSUME NEW fun, NEW S
    PROVE  SumFunctionOnSet(fun, S) = PartialSums(fun, S)[S]
  BY Zenon DEF SumFunctionOnSet, FoldFunctionOnSet, MapThenFoldSet, PartialSums, Pick

\* Every set of natural numbers that is not empty has a least element.
LEMMA LeastNumber ==
    ASSUME NEW T \in SUBSET Nat, T # {}
    PROVE  \E n \in T : \A m \in T : n <= m
<1>1. PICK n \in T : \A m \in T : ~(<<m, n>> \in OpToRel(<, Nat))
  BY WFMin, NatLessThanWellFounded, Zenon
<1>2. \A m \in T : ~(m < n)
  BY <1>1 DEF OpToRel
<1>. QED  BY <1>2

\* The index taken next is one of those left, and fewer are left after it.
LEMMA PickIsLeft ==
    ASSUME NEW s, IsFiniteSet(s), s # {}
    PROVE  /\ Pick(s) \in s
           /\ IsFiniteSet(s \ {Pick(s)})
           /\ Cardinality(s \ {Pick(s)}) = Cardinality(s) - 1
           /\ Cardinality(s) \in Nat \ {0}
<1>1. Pick(s) \in s
  BY Zenon DEF Pick
<1>2. Cardinality(s) \in Nat
  BY FS_CardinalityType
<1>3. Cardinality(s) # 0
  BY FS_EmptySet
<1>4. IsFiniteSet(s \ {Pick(s)}) /\ Cardinality(s \ {Pick(s)}) = Cardinality(s) - 1
  BY <1>1, FS_RemoveElement
<1>. QED  BY <1>1, <1>2, <1>3, <1>4

\* The subsets of S with at most n elements.
UpTo(S, n) == {s \in SUBSET S : Cardinality(s) <= n}

\* On the subsets of a finite set the recursion has a solution: it takes values at
\* the subsets with at most n elements from those with fewer.
LEMMA SumsExist ==
    ASSUME NEW S, IsFiniteSet(S), NEW fun \in [S -> Int]
    PROVE  \E g \in [SUBSET S -> Int] : Recurs(g, fun, SUBSET S)
<1>. DEFINE Solved(n) == \E g \in [UpTo(S, n) -> Int] : Recurs(g, fun, UpTo(S, n))
            Open == {n \in Nat : ~Solved(n)}
<1>1. \A s \in SUBSET S : IsFiniteSet(s) /\ Cardinality(s) \in Nat
  BY FS_Subset, FS_CardinalityType
<1>2. Solved(0)
  <2>. DEFINE g == [s \in UpTo(S, 0) |-> 0]
  <2>1. \A s \in UpTo(S, 0) : s = {}
    BY <1>1, FS_EmptySet DEF UpTo
  <2>2. g \in [UpTo(S, 0) -> Int]
    OBVIOUS
  <2>3. Recurs(g, fun, UpTo(S, 0))
    BY <2>1 DEF Recurs
  <2>. QED  BY <2>2, <2>3
<1>3. ASSUME NEW n \in Nat, Solved(n)
      PROVE  Solved(n + 1)
  <2>1. PICK g \in [UpTo(S, n) -> Int] : Recurs(g, fun, UpTo(S, n))
    BY <1>3
  <2>. DEFINE h == [s \in UpTo(S, n + 1) |->
                      IF s = {} THEN 0 ELSE fun[Pick(s)] + g[s \ {Pick(s)}]]
  <2>2. ASSUME NEW s \in UpTo(S, n + 1), s # {}
        PROVE  s \ {Pick(s)} \in UpTo(S, n) /\ fun[Pick(s)] \in Int
    <3>1. s \in SUBSET S /\ IsFiniteSet(s) /\ Cardinality(s) <= n + 1
      BY <1>1 DEF UpTo
    <3>2. Pick(s) \in s /\ Cardinality(s \ {Pick(s)}) = Cardinality(s) - 1 /\ Cardinality(s) \in Nat
      BY <2>2, <3>1, PickIsLeft
    <3>3. s \ {Pick(s)} \in SUBSET S /\ Pick(s) \in S
      BY <3>1, <3>2
    <3>4. Cardinality(s \ {Pick(s)}) <= n
      BY <3>1, <3>2
    <3>. QED  BY <3>3, <3>4 DEF UpTo
  <2>3. h \in [UpTo(S, n + 1) -> Int]
    BY <2>2
  <2>4. \A t \in UpTo(S, n) : t \in UpTo(S, n + 1) /\ h[t] = g[t]
    <3>1. \A t \in UpTo(S, n) : t \in UpTo(S, n + 1)
      BY <1>1 DEF UpTo
    <3>. QED  BY <3>1, <2>1 DEF Recurs
  <2>5. Recurs(h, fun, UpTo(S, n + 1))
    BY <2>2, <2>4 DEF Recurs
  <2>. QED  BY <2>3, <2>5
<1>4. Open = {}
  <2>1. SUFFICES ASSUME Open # {} PROVE FALSE
    OBVIOUS
  <2>2. PICK n \in Open : \A m \in Open : n <= m
    <3>. HIDE DEF Solved
    <3>. QED  BY <2>1, LeastNumber
  <2>3. n # 0
    BY <1>2, <2>2
  <2>4. n - 1 \in Nat /\ n - 1 \notin Open
    <3>. HIDE DEF Solved
    <3>. QED  BY <2>2, <2>3
  <2>5. Solved(n - 1)
    BY <2>4
  <2>6. Solved((n - 1) + 1)
    <3>. HIDE DEF Solved
    <3>. QED  BY <1>3, <2>4, <2>5
  <2>7. (n - 1) + 1 = n
    OBVIOUS
  <2>. QED  BY <2>2, <2>6, <2>7
<1>5. Cardinality(S) \in Nat
  BY <1>1
<1>6. Solved(Cardinality(S))
  BY <1>4, <1>5
<1>7. UpTo(S, Cardinality(S)) = SUBSET S
  BY FS_Subset DEF UpTo
<1>. QED  BY <1>6, <1>7

\* Induction: a set of subsets that contains the empty one and, with what is left
\* after the next index, each subset itself, contains them all.
LEMMA SubsetInduction ==
    ASSUME NEW S, IsFiniteSet(S), NEW G \in SUBSET SUBSET S, {} \in G,
           \A s \in SUBSET S : (s # {} /\ s \ {Pick(s)} \in G) => s \in G
    PROVE  G = SUBSET S
<1>. DEFINE Sizes == {n \in Nat : \E s \in SUBSET S : Cardinality(s) = n /\ s \notin G}
<1>1. \A s \in SUBSET S : IsFiniteSet(s) /\ Cardinality(s) \in Nat
  BY FS_Subset, FS_CardinalityType
<1>2. Sizes = {}
  <2>1. SUFFICES ASSUME Sizes # {} PROVE FALSE
    OBVIOUS
  <2>2. PICK n \in Sizes : \A m \in Sizes : n <= m
    BY <2>1, LeastNumber
  <2>3. PICK s \in SUBSET S : Cardinality(s) = n /\ s \notin G
    BY <2>2
  <2>4. s # {}
    BY <2>3
  <2>5. Pick(s) \in s /\ Cardinality(s \ {Pick(s)}) = n - 1 /\ n \in Nat \ {0}
    BY <1>1, <2>3, <2>4, PickIsLeft
  <2>6. s \ {Pick(s)} \in SUBSET S /\ n - 1 \notin Sizes /\ n - 1 \in Nat
    BY <2>2, <2>5
  <2>7. s \ {Pick(s)} \in G
    BY <2>5, <2>6
  <2>. QED  BY <2>3, <2>4, <2>7
<1>. QED  BY <1>1, <1>2

\* iter gives the sum of fun over every subset of S.
AddUp(iter, fun, S) ==
    /\ iter \in [SUBSET S -> Int]
    /\ iter[{}] = 0
    /\ \A s \in SUBSET S : s # {} =>
          /\ Pick(s) \in s
          /\ s \ {Pick(s)} \in SUBSET S
          /\ iter[s] = fun[Pick(s)] + iter[s \ {Pick(s)}]

\* So the partial sums of the definition are integers that follow the recursion.
LEMMA PartialSumsRecur ==
    ASSUME NEW S, IsFiniteSet(S), NEW fun \in [S -> Int]
    PROVE  AddUp(PartialSums(fun, S), fun, S)
<1>. DEFINE Eq(iter) == iter = [s \in SUBSET S |->
                IF s = {} THEN 0 ELSE fun[Pick(s)] + iter[s \ {Pick(s)}]]
            sums == PartialSums(fun, S)
<1>1. PICK g \in [SUBSET S -> Int] : Recurs(g, fun, SUBSET S)
  BY SumsExist
<1>2. Eq(g)
  BY <1>1 DEF Recurs
<1>3. Eq(sums)
  <2>1. \E iter : Eq(iter)
    BY <1>2
  <2>. HIDE DEF Eq
  <2>2. Eq(CHOOSE iter : Eq(iter))
    BY <2>1, Zenon
  <2>3. sums = CHOOSE iter : Eq(iter)
    BY DEF PartialSums, Eq
  <2>. QED  BY <2>2, <2>3
<1>. HIDE DEF sums
<1>4. {} \in SUBSET S
  OBVIOUS
<1>5. sums[{}] = 0
  BY <1>3, <1>4
<1>6. \A s \in SUBSET S : s # {} => sums[s] = fun[Pick(s)] + sums[s \ {Pick(s)}]
  BY <1>3
<1>7. \A s \in SUBSET S : s # {} => Pick(s) \in s /\ s \ {Pick(s)} \in SUBSET S
  BY FS_Subset, PickIsLeft
<1>8. \A s \in SUBSET S : sums[s] \in Int
  <2>. DEFINE G == {s \in SUBSET S : sums[s] \in Int}
  <2>1. {} \in G
    BY <1>4, <1>5
  <2>2. ASSUME NEW s \in SUBSET S, s # {}, s \ {Pick(s)} \in G
        PROVE  s \in G
    <3>1. fun[Pick(s)] \in Int /\ sums[s \ {Pick(s)}] \in Int
      BY <1>7, <2>2
    <3>2. sums[s] = fun[Pick(s)] + sums[s \ {Pick(s)}]
      BY <1>6, <2>2
    <3>. QED  BY <3>1, <3>2
  <2>3. G \in SUBSET SUBSET S
    OBVIOUS
  <2>. HIDE DEF G
  <2>4. G = SUBSET S
    BY <2>1, <2>2, <2>3, SubsetInduction
  <2>. QED  BY <2>4 DEF G
<1>9. sums \in [SUBSET S -> Int]
  BY <1>3, <1>8
<1>. QED  BY <1>5, <1>6, <1>7, <1>9 DEF sums, AddUp

\* A sum is the last of its partial sums.
LEMMA SumIsLast ==
    ASSUME NEW S, NEW fun, DOMAIN fun = S
    PROVE  SumFunction(fun) = PartialSums(fun, S)[S]
  BY SumUnfolds DEF SumFunction

\* A sum of natural numbers over a finite set is a natural number.
LEMMA SumNat ==
    ASSUME NEW S, IsFiniteSet(S), NEW fun \in [S -> Nat]
    PROVE  SumFunction(fun) \in Nat
<1>. DEFINE sums == PartialSums(fun, S)
            G == {s \in SUBSET S : sums[s] \in Nat}
<1>1. fun \in [S -> Int]
  OBVIOUS
<1>2. AddUp(sums, fun, S)
  BY <1>1, PartialSumsRecur
<1>. HIDE DEF sums
<1>3. {} \in G
  BY <1>2 DEF AddUp
<1>4. \A s \in SUBSET S : (s # {} /\ s \ {Pick(s)} \in G) => s \in G
  BY <1>2 DEF AddUp
<1>5. G \in SUBSET SUBSET S
  OBVIOUS
<1>. HIDE DEF G
<1>6. G = SUBSET S
  BY <1>3, <1>4, <1>5, SubsetInduction
<1>7. sums[S] \in Nat
  BY <1>6 DEF G
<1>8. SumFunction(fun) = sums[S]
  BY <1>1, SumIsLast DEF sums
<1>. QED  BY <1>7, <1>8

\* A sum of zeros is zero.
LEMMA SumZero ==
    ASSUME NEW S, IsFiniteSet(S), NEW fun \in [S -> Int]
    PROVE  (\A y \in S : fun[y] = 0) => SumFunction(fun) = 0
<1>. DEFINE sums == PartialSums(fun, S)
            G == {s \in SUBSET S : sums[s] = 0}
<1>1. AddUp(sums, fun, S)
  BY PartialSumsRecur
<1>. HIDE DEF sums
<1>. HAVE \A y \in S : fun[y] = 0
<1>2. {} \in G
  BY <1>1 DEF AddUp
<1>3. \A s \in SUBSET S : (s # {} /\ s \ {Pick(s)} \in G) => s \in G
  BY <1>1 DEF AddUp
<1>4. G \in SUBSET SUBSET S
  OBVIOUS
<1>. HIDE DEF G
<1>5. G = SUBSET S
  BY <1>2, <1>3, <1>4, SubsetInduction
<1>6. sums[S] = 0
  BY <1>5 DEF G
<1>7. SumFunction(fun) = sums[S]
  BY SumIsLast DEF sums
<1>. QED  BY <1>6, <1>7

\* When one index gets another value, the sum changes by the difference: the
\* indices are added up in the same order.
LEMMA SumChange ==
    ASSUME NEW S, IsFiniteSet(S), NEW fun \in [S -> Int], NEW new \in [S -> Int],
           NEW x \in S, \A y \in S \ {x} : new[y] = fun[y]
    PROVE  SumFunction(new) = SumFunction(fun) + (new[x] - fun[x])
<1>. DEFINE old == PartialSums(fun, S)
            sums == PartialSums(new, S)
            Change(s) == IF x \in s THEN new[x] - fun[x] ELSE 0
            G == {s \in SUBSET S : sums[s] = old[s] + Change(s)}
<1>1. AddUp(old, fun, S)
  BY PartialSumsRecur
<1>2. AddUp(sums, new, S)
  BY PartialSumsRecur
<1>. HIDE DEF old, sums
<1>3. {} \in G
  BY <1>1, <1>2 DEF AddUp
<1>4. ASSUME NEW s \in SUBSET S, s # {}, s \ {Pick(s)} \in G
      PROVE  s \in G
  <2>. DEFINE rest == s \ {Pick(s)}
  <2>1. Pick(s) \in s /\ Pick(s) \in S /\ rest \in SUBSET S
    BY <1>1, <1>4 DEF AddUp
  <2>2. old[s] = fun[Pick(s)] + old[rest] /\ sums[s] = new[Pick(s)] + sums[rest]
    BY <1>1, <1>2, <1>4 DEF AddUp
  <2>3. sums[rest] = old[rest] + Change(rest)
    BY <1>4
  <2>4. /\ old[rest] \in Int /\ sums[rest] \in Int /\ new[x] \in Int /\ fun[x] \in Int
        /\ fun[Pick(s)] \in Int /\ new[Pick(s)] \in Int
    BY <1>1, <1>2, <2>1 DEF AddUp
  <2>5. CASE Pick(s) = x
    BY <2>1, <2>2, <2>3, <2>4, <2>5
  <2>6. CASE Pick(s) # x
    <3>1. new[Pick(s)] = fun[Pick(s)] /\ (x \in s <=> x \in rest)
      BY <2>1, <2>6
    <3>2. Change(s) = Change(rest) /\ Change(rest) \in Int
      BY <2>4, <3>1
    <3>. HIDE DEF Change, rest
    <3>3. sums[s] = old[s] + Change(s)
      BY <2>2, <2>3, <2>4, <3>1, <3>2
    <3>. QED  BY <3>3
  <2>. QED  BY <2>5, <2>6
<1>5. G \in SUBSET SUBSET S
  OBVIOUS
<1>6. G = SUBSET S
  <2>. HIDE DEF G
  <2>. QED  BY <1>3, <1>4, <1>5, SubsetInduction
<1>7. sums[S] = old[S] + (new[x] - fun[x])
  BY <1>6
<1>8. SumFunction(fun) = old[S] /\ SumFunction(new) = sums[S]
  BY SumIsLast DEF old, sums
<1>. QED  BY <1>7, <1>8

=============================================================================

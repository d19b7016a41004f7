---------------------------- MODULE SumTheorems -----------------------------
(* Sums of natural numbers over finite sets, as SumFunctionOnSet computes  *)
(* them: the bytes a user stores, the events a limiter key has let pass.   *)
(* A sum is a fold, the value the only solution of its recursion has at    *)
(* the set; that solution counts a set, Units, and what cardinalities obey *)
(* the sums obey.                                                          *)
EXTENDS Integers, FiniteSetsExt, FiniteSetTheorems, TLAPS

-----------------------------------------------------------------------------
(* What a sum counts.                                                      *)

\* f[s] units for each s: their number is the sum of f over S.
Units(f, S) == UNION {{s} \X (1 .. f[s]) : s \in S}

\* The units of one element.
Column(f, s) == {s} \X (1 .. f[s])

\* An element has as many units as f says.
LEMMA ColumnSize ==
    ASSUME NEW f, NEW s, f[s] \in Nat
    PROVE  IsFiniteSet(Column(f, s)) /\ Cardinality(Column(f, s)) = f[s]
<1>1. IsFiniteSet({s}) /\ Cardinality({s}) = 1
  BY FS_Singleton
<1>2. IsFiniteSet(1 .. f[s]) /\ Cardinality(1 .. f[s]) = f[s]
  BY FS_Interval
<1>3. /\ IsFiniteSet({s} \X (1 .. f[s]))
      /\ Cardinality({s} \X (1 .. f[s])) = Cardinality({s}) * Cardinality(1 .. f[s])
  BY <1>1, <1>2, FS_Product
<1>4. Cardinality({s} \X (1 .. f[s])) = f[s]
  BY <1>1, <1>2, <1>3
<1> QED
  BY <1>3, <1>4 DEF Column

\* The sizes of disjoint sets add up.
LEMMA DisjointCardinality ==
    ASSUME NEW A, NEW B, IsFiniteSet(A), IsFiniteSet(B), A \cap B = {}
    PROVE  Cardinality(A \cup B) = Cardinality(A) + Cardinality(B)
<1>1. Cardinality(A \cup B) = Cardinality(A) + Cardinality(B) - Cardinality(A \cap B)
  BY FS_Union
<1>2. Cardinality(A \cap B) = 0
  BY FS_EmptySet
<1>3. Cardinality(A) \in Nat /\ Cardinality(B) \in Nat
  BY FS_CardinalityType
<1> QED
  BY <1>1, <1>2, <1>3

\* Finitely many numbers have finitely many units.
LEMMA UnitsFinite ==
    ASSUME NEW f, NEW S, IsFiniteSet(S), \A s \in S : f[s] \in Nat
    PROVE  IsFiniteSet(Units(f, S)) /\ Cardinality(Units(f, S)) \in Nat
<1> DEFINE C == {Column(f, s) : s \in S}
           c == [s \in S |-> Column(f, s)]
<1>1. c \in Surjection(S, C)
  BY DEF Surjection
<1>2. IsFiniteSet(C)
  BY <1>1, FS_Surjection
<1>3. \A T \in C : IsFiniteSet(T)
  BY ColumnSize
<1>4. IsFiniteSet(UNION C)
  BY <1>2, <1>3, FS_UNION
<1>5. UNION C = Units(f, S)
  BY DEF Column, Units
<1> QED
  BY <1>4, <1>5, FS_CardinalityType

\* The units of disjoint sets add up.
LEMMA UnitsDisjoint ==
    ASSUME NEW f, NEW S, NEW T, IsFiniteSet(S), IsFiniteSet(T), S \cap T = {},
           \A s \in S \cup T : f[s] \in Nat
    PROVE  Cardinality(Units(f, S \cup T)) = Cardinality(Units(f, S)) + Cardinality(Units(f, T))
<1>1. Units(f, S \cup T) = Units(f, S) \cup Units(f, T)
  BY DEF Units
<1>2. Units(f, S) \cap Units(f, T) = {}
  BY DEF Units
<1>3. /\ IsFiniteSet(Units(f, S)) /\ Cardinality(Units(f, S)) \in Nat
      /\ IsFiniteSet(Units(f, T)) /\ Cardinality(Units(f, T)) \in Nat
  BY UnitsFinite
<1> QED
  BY <1>1, <1>2, <1>3, DisjointCardinality

\* The units of a singleton.
LEMMA UnitsOfOne ==
    ASSUME NEW f, NEW s, f[s] \in Nat
    PROVE  Cardinality(Units(f, {s})) = f[s]
<1>1. Units(f, {s}) = Column(f, s)
  BY DEF Units, Column
<1> QED
  BY <1>1, ColumnSize

\* The units of one element and of the others make the units of a set.
LEMMA UnitsRemove ==
    ASSUME NEW f, NEW S, IsFiniteSet(S), \A s \in S : f[s] \in Nat, NEW x \in S
    PROVE  Cardinality(Units(f, S)) = f[x] + Cardinality(Units(f, S \ {x}))
<1>1. IsFiniteSet({x}) /\ IsFiniteSet(S \ {x})
  BY FS_Singleton, FS_Subset
<1>2. Cardinality(Units(f, {x} \cup (S \ {x})))
          = Cardinality(Units(f, {x})) + Cardinality(Units(f, S \ {x}))
  BY <1>1, UnitsDisjoint
<1>3. {x} \cup (S \ {x}) = S
  OBVIOUS
<1> QED
  BY <1>2, <1>3, UnitsOfOne

-----------------------------------------------------------------------------
(* The recursion of the fold, and its only solution.                       *)

\* The element the fold takes next.
Pick(T) == CHOOSE x \in T : TRUE

\* g satisfies the equation of the fold of f on the subsets of S.
Solves(g, f, S) ==
    g = [T \in SUBSET S |-> IF T = {} THEN 0 ELSE f[Pick(T)] + g[T \ {Pick(T)}]]

\* The library's fold is a solution of the equation, taken at S.
LEMMA SumIsSolution ==
    ASSUME NEW f, NEW S
    PROVE  SumFunctionOnSet(f, S) = (CHOOSE g : Solves(g, f, S))[S]
BY DEF SumFunctionOnSet, FoldFunctionOnSet, MapThenFoldSet, Solves, Pick

\* Counting units solves the equation.
LEMMA SolutionExists ==
    ASSUME NEW f, NEW S, IsFiniteSet(S), \A s \in S : f[s] \in Nat
    PROVE  Solves([T \in SUBSET S |-> Cardinality(Units(f, T))], f, S)
<1> DEFINE g == [T \in SUBSET S |-> Cardinality(Units(f, T))]
<1>1. Cardinality(Units(f, {})) = 0
  BY FS_EmptySet DEF Units
<1>2. ASSUME NEW T \in SUBSET S, T # {}
      PROVE  g[T] = f[Pick(T)] + g[T \ {Pick(T)}]
  <2>1. Pick(T) \in T
    BY <1>2 DEF Pick
  <2>2. IsFiniteSet(T)
    BY FS_Subset
  <2>3. Cardinality(Units(f, T)) = f[Pick(T)] + Cardinality(Units(f, T \ {Pick(T)}))
    BY <2>1, <2>2, UnitsRemove
  <2> QED
    BY <2>3
<1>3. \A T \in SUBSET S : g[T] = IF T = {} THEN 0 ELSE f[Pick(T)] + g[T \ {Pick(T)}]
  BY <1>1, <1>2
<1> HIDE DEF g
<1>4. g = [T \in SUBSET S |-> g[T]]
  BY DEF g
<1>5. Solves(g, f, S)
  BY <1>3, <1>4 DEF Solves
<1> QED
  BY <1>5 DEF g

\* Two solutions agree at S: a smallest subset on which they differ would be
\* empty or differ without one of its elements.
LEMMA SolutionUnique ==
    ASSUME NEW f, NEW S, IsFiniteSet(S), NEW g, NEW h, Solves(g, f, S), Solves(h, f, S)
    PROVE  g[S] = h[S]
<1> DEFINE D == {T \in SUBSET S : g[T] # h[T]}
<1>1. SUFFICES ASSUME D # {} PROVE FALSE
  BY DEF D
<1>2. IsWellFoundedOn(StrictSubsetOrdering(S), SUBSET S)
  BY FS_StrictSubsetOrderingWellFounded, FS_FiniteSubsetsOfFinite
<1>3. PICK T \in D : \A U \in D : ~ (<<U, T>> \in StrictSubsetOrdering(S))
  BY <1>1, <1>2, WFMin
<1>4. T # {}
  BY DEF Solves
<1>5. Pick(T) \in T
  BY <1>4 DEF Pick
<1>6. <<T \ {Pick(T)}, T>> \in StrictSubsetOrdering(S)
  BY <1>5 DEF StrictSubsetOrdering
<1>7. g[T \ {Pick(T)}] = h[T \ {Pick(T)}]
  BY <1>3, <1>6
<1>8. g[T] = h[T]
  BY <1>4, <1>7 DEF Solves
<1> QED
  BY <1>8

\* A sum of natural numbers over a finite set is the number of its units.
THEOREM SumIsCardinality ==
    ASSUME NEW f, NEW S, IsFiniteSet(S), \A s \in S : f[s] \in Nat
    PROVE  SumFunctionOnSet(f, S) = Cardinality(Units(f, S))
<1> DEFINE c == [T \in SUBSET S |-> Cardinality(Units(f, T))]
           g == CHOOSE g : Solves(g, f, S)
<1>1. Solves(c, f, S)
  BY SolutionExists
<1>2. Solves(g, f, S)
  BY <1>1
<1>3. g[S] = c[S]
  BY <1>1, <1>2, SolutionUnique
<1> QED
  BY <1>3, SumIsSolution

-----------------------------------------------------------------------------
(* What the proofs about storage and the limiter use.                      *)

\* A sum of natural numbers is one.
LEMMA SumType ==
    ASSUME NEW f, NEW S, IsFiniteSet(S), \A s \in S : f[s] \in Nat
    PROVE  SumFunctionOnSet(f, S) \in Nat
BY SumIsCardinality, UnitsFinite

\* Nothing sums to 0.
LEMMA SumEmpty ==
    ASSUME NEW f
    PROVE  SumFunctionOnSet(f, {}) = 0
<1>1. Units(f, {}) = {} /\ IsFiniteSet({})
  BY FS_EmptySet DEF Units
<1>2. Cardinality({}) = 0
  BY FS_EmptySet
<1>3. SumFunctionOnSet(f, {}) = Cardinality(Units(f, {}))
  BY <1>1, SumIsCardinality
<1> QED
  BY <1>1, <1>2, <1>3

\* The sums over disjoint sets add up.
LEMMA SumDisjoint ==
    ASSUME NEW f, NEW S, NEW T, IsFiniteSet(S), IsFiniteSet(T), S \cap T = {},
           \A s \in S \cup T : f[s] \in Nat
    PROVE  SumFunctionOnSet(f, S \cup T) = SumFunctionOnSet(f, S) + SumFunctionOnSet(f, T)
<1>1. IsFiniteSet(S \cup T)
  BY FS_Union
<1> QED
  BY <1>1, SumIsCardinality, UnitsDisjoint

\* One term taken out of a sum.
LEMMA SumRemove ==
    ASSUME NEW f, NEW S, IsFiniteSet(S), \A s \in S : f[s] \in Nat, NEW x \in S
    PROVE  SumFunctionOnSet(f, S) = f[x] + SumFunctionOnSet(f, S \ {x})
<1>1. IsFiniteSet(S \ {x})
  BY FS_Subset
<1> QED
  BY <1>1, SumIsCardinality, UnitsRemove

\* A sum grows with its set and with its terms.
LEMMA SumMonotonic ==
    ASSUME NEW f, NEW g, NEW T, NEW S \in SUBSET T, IsFiniteSet(T),
           \A s \in S : f[s] \in Nat, \A s \in T : g[s] \in Nat,
           \A s \in S : f[s] <= g[s]
    PROVE  SumFunctionOnSet(f, S) <= SumFunctionOnSet(g, T)
<1>1. IsFiniteSet(S)
  BY FS_Subset
<1>2. Units(f, S) \subseteq Units(g, T)
  BY DEF Units
<1>3. IsFiniteSet(Units(g, T))
  BY UnitsFinite
<1>4. Cardinality(Units(f, S)) <= Cardinality(Units(g, T))
  BY <1>2, <1>3, FS_Subset
<1> QED
  BY <1>1, <1>4, SumIsCardinality

\* Only the terms matter.
LEMMA SumEqual ==
    ASSUME NEW f, NEW g, NEW S, IsFiniteSet(S), \A s \in S : f[s] \in Nat /\ g[s] = f[s]
    PROVE  SumFunctionOnSet(g, S) = SumFunctionOnSet(f, S)
<1>1. Units(g, S) = Units(f, S)
  BY DEF Units
<1> QED
  BY <1>1, SumIsCardinality

\* Terms of at most m sum to at most m for each of them.
LEMMA SumBounded ==
    ASSUME NEW f, NEW S, IsFiniteSet(S), NEW m \in Nat,
           \A s \in S : f[s] \in Nat /\ f[s] <= m
    PROVE  SumFunctionOnSet(f, S) <= Cardinality(S) * m
<1>1. Units(f, S) \subseteq S \X (1 .. m)
  BY DEF Units
<1>2. IsFiniteSet(1 .. m) /\ Cardinality(1 .. m) = m
  BY FS_Interval
<1>3. /\ IsFiniteSet(S \X (1 .. m))
      /\ Cardinality(S \X (1 .. m)) = Cardinality(S) * Cardinality(1 .. m)
  BY <1>2, FS_Product
<1>4. Cardinality(Units(f, S)) <= Cardinality(S \X (1 .. m))
  BY <1>1, <1>3, FS_Subset
<1>5. SumFunctionOnSet(f, S) = Cardinality(Units(f, S))
  BY SumIsCardinality
<1>6. Cardinality(S \X (1 .. m)) = Cardinality(S) * m
  BY <1>2, <1>3
<1> QED
  BY <1>4, <1>5, <1>6

\* The terms may be numbered otherwise.
LEMMA SumRenumbered ==
    ASSUME NEW f, NEW g, NEW S, NEW T, IsFiniteSet(S), IsFiniteSet(T),
           NEW p \in Bijection(S, T),
           \A s \in S : f[s] \in Nat /\ g[p[s]] = f[s]
    PROVE  SumFunctionOnSet(g, T) = SumFunctionOnSet(f, S)
<1> DEFINE F == Units(f, S)
           G == Units(g, T)
           move == [x \in F |-> <<p[x[1]], x[2]>>]
<1>1. /\ p \in [S -> T] /\ \A t \in T : \E s \in S : p[s] = t
      /\ \A s, t \in S : p[s] = p[t] => s = t
  BY DEF Bijection, Injection, Surjection, IsInjective
<1>2. \A t \in T : g[t] \in Nat
  BY <1>1
<1>3. IsFiniteSet(F)
  BY UnitsFinite
<1>4. \A x : x \in F <=> \E s \in S : \E n \in 1 .. f[s] : x = <<s, n>>
  BY DEF Units
<1>5. \A x : x \in G <=> \E t \in T : \E n \in 1 .. g[t] : x = <<t, n>>
  BY DEF Units
<1> HIDE DEF F, G
<1>6. \A x \in F : move[x] \in G
  <2> TAKE x \in F
  <2>1. PICK s \in S : \E k \in 1 .. f[s] : x = <<s, k>>
    BY <1>4
  <2> PICK n \in 1 .. f[s] : x = <<s, n>>
    BY <2>1
  <2>2. p[s] \in T /\ n \in 1 .. g[p[s]]
    BY <1>1
  <2> QED
    BY <1>5, <2>2
<1>7. \A x, y \in F : move[x] = move[y] => x = y
  BY <1>1, <1>4
<1>8. \A y \in G : \E x \in F : move[x] = y
  <2> TAKE y \in G
  <2>1. PICK t \in T : \E k \in 1 .. g[t] : y = <<t, k>>
    BY <1>5
  <2> PICK n \in 1 .. g[t] : y = <<t, n>>
    BY <2>1
  <2>2. PICK s \in S : p[s] = t
    BY <1>1
  <2>3. <<s, n>> \in F
    BY <1>4, <2>2
  <2> QED
    BY <2>2, <2>3
<1>9. move \in Bijection(F, G)
  <2>1. move \in [F -> G]
    BY <1>6
  <2> HIDE DEF move
  <2>2. IsInjective(move)
    BY <1>7, <2>1 DEF IsInjective
  <2> QED
    BY <1>8, <2>1, <2>2 DEF Bijection, Injection, Surjection
<1> HIDE DEF move
<1>10. Cardinality(G) = Cardinality(F)
  <2>1. ExistsBijection(F, G)
    BY <1>9 DEF ExistsBijection
  <2> QED
    BY <1>3, <2>1, FS_Bijection
<1>11. SumFunctionOnSet(f, S) = Cardinality(F)
  BY SumIsCardinality DEF F
<1>12. SumFunctionOnSet(g, T) = Cardinality(G)
  BY <1>2, SumIsCardinality DEF G
<1> QED
  BY <1>10, <1>11, <1>12

-----------------------------------------------------------------------------
(* The largest of finitely many numbers.                                   *)

\* A finite set of numbers that is not empty has a largest one, which Max is:
\* otherwise take the smallest subset without one, and an element off it.
LEMMA MaxIsLargest ==
    ASSUME NEW S \in SUBSET Nat, IsFiniteSet(S), S # {}
    PROVE  Max(S) \in S /\ \A x \in S : x <= Max(S)
<1> DEFINE D == {T \in SUBSET S : T # {} /\ ~ \E m \in T : \A x \in T : m >= x}
<1>1. D = {}
  <2> SUFFICES ASSUME D # {} PROVE FALSE
    OBVIOUS
  <2>1. IsWellFoundedOn(StrictSubsetOrdering(S), SUBSET S)
    BY FS_StrictSubsetOrderingWellFounded, FS_FiniteSubsetsOfFinite
  <2>2. PICK T \in D : \A U \in D : ~ (<<U, T>> \in StrictSubsetOrdering(S))
    BY <2>1, WFMin
  <2>3. PICK e \in T : TRUE
    OBVIOUS
  <2>4. <<T \ {e}, T>> \in StrictSubsetOrdering(S)
    BY DEF StrictSubsetOrdering
  <2>5. T \ {e} \notin D
    BY <2>2, <2>4
  <2>6. CASE T \ {e} = {}
    BY <2>6
  <2>7. CASE T \ {e} # {}
    <3>1. PICK m \in T \ {e} : \A x \in T \ {e} : m >= x
      BY <2>5, <2>7
    <3>2. CASE m >= e
      BY <3>1, <3>2
    <3>3. CASE ~(m >= e)
      <4>1. \A x \in T : x = e \/ m >= x
        BY <3>1
      <4>2. \A x \in T : e >= x
        BY <3>1, <3>3, <4>1
      <4> QED
        BY <4>2
    <3> QED
      BY <3>2, <3>3
  <2> QED
    BY <2>6, <2>7
<1>2. \E m \in S : \A x \in S : m >= x
  BY <1>1
<1>3. Max(S) \in S /\ \A x \in S : Max(S) >= x
  BY <1>2 DEF Max
<1> QED
  BY <1>3
=============================================================================

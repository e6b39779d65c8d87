------------------------- MODULE PlanEvolutionProofs -------------------------
(***************************************************************************)
(* What the evolution of a plan guarantees for books of any size, any      *)
(* lock and any way the model shares out weights: type correctness, that   *)
(* no plan touches what is locked, that planning a volume moves no words,  *)
(* that the words are shared out exactly and that a replan closes in       *)
(* volumes and words.                                                      *)
(*                                                                         *)
(* Sums and the allocation are recursive functions on the subsets of a     *)
(* finite set.  What they compute is proved by the least subset something  *)
(* would fail for: strict inclusion of finite sets is well founded.        *)
(***************************************************************************)
EXTENDS PlanEvolution, FiniteSetTheorems, WellFoundedInduction, TLAPS

-----------------------------------------------------------------------------
(* Induction and recursion over the subsets of a finite set *)

\* A family of subsets of a finite set has one that is least: it contains no
\* other of the family.  (The form the induction over subsets takes below: the
\* family is that of the subsets something fails for.)
LEMMA LeastSubset ==
    ASSUME NEW S, IsFiniteSet(S), NEW F, F \subseteq SUBSET S, F # {}
    PROVE  \E U \in F : \A V \in F : V \subseteq U => V = U
<1>1. IsWellFoundedOn(StrictSubsetOrdering(S), FiniteSubsetsOf(S))
  BY FS_StrictSubsetOrderingWellFounded
<1>2. F \subseteq FiniteSubsetsOf(S)
  BY FS_Subset DEF FiniteSubsetsOf
<1>3. PICK U \in F : \A V \in F : ~(<<V, U>> \in StrictSubsetOrdering(S))
  BY <1>1, <1>2, WFMin
<1> QED
  BY <1>2, <1>3 DEF StrictSubsetOrdering, FiniteSubsetsOf

\* What g is, defined by recursion on the subsets of S.
Recursive(S, stop, base, next, step, g) ==
    \A s \in SUBSET S : g[s] = IF s \in stop THEN base[s] ELSE step[<<s, g[next[s]]>>]

\* A definition by recursion on the subsets of a finite set defines a function,
\* if what it calls itself for is a strict subset.
LEMMA RecursionOnSubsets ==
    ASSUME NEW S, IsFiniteSet(S), NEW V, NEW stop, NEW base \in [SUBSET S -> V],
           NEW next \in [SUBSET S -> SUBSET S], NEW step \in [(SUBSET S) \X V -> V],
           \A s \in SUBSET S : s \notin stop => next[s] \subseteq s /\ next[s] # s
    PROVE  \E g \in [SUBSET S -> V] : Recursive(S, stop, base, next, step, g)
<1> DEFINE value(g, s) == IF s \in stop THEN base[s] ELSE step[<<s, g[next[s]]>>]
           Solves(D, g) == \A s \in D : g[s] = value(g, s)
           Closed(D) == \A s \in D : \A t \in SUBSET s : t \in D
           Good(D) == Closed(D) /\ \E g \in [SUBSET S -> V] : Solves(D, g)
           F == {U \in SUBSET SUBSET S : Good((SUBSET S) \ U)}
<1>1. SUBSET S \in F
  <2>1. base \in [SUBSET S -> V] /\ Solves({}, base) /\ Closed({})
    OBVIOUS
  <2>2. (SUBSET S) \ (SUBSET S) = {}
    OBVIOUS
  <2> QED
    BY <2>1, <2>2
<1>2. IsFiniteSet(SUBSET S)
  BY FS_SUBSET
<1>3. PICK U \in F : \A W \in F : W \subseteq U => W = U
  <2> HIDE DEF Good
  <2>1. F \subseteq SUBSET SUBSET S /\ F # {}
    BY <1>1
  <2> HIDE DEF F
  <2> QED
    BY <1>2, <2>1, LeastSubset
<1> DEFINE D == (SUBSET S) \ U
<1>4. U \in SUBSET SUBSET S /\ Good(D)
  <2> HIDE DEF Good
  <2> QED
    BY <1>3
<1>5. U = {}
  <2> SUFFICES ASSUME U # {} PROVE FALSE
    OBVIOUS
  <2>1. PICK s \in U : \A t \in U : t \subseteq s => t = s
    <3> HIDE DEF F, D, Good
    <3> QED
      BY <1>4, LeastSubset
  <2>2. PICK g \in [SUBSET S -> V] : Solves(D, g)
    BY <1>4
  <2> DEFINE W == U \ {s}
             h == [g EXCEPT ![s] = value(g, s)]
  <2>3. s \in SUBSET S /\ (SUBSET S) \ W = D \union {s} /\ s \notin D
    BY <1>4
  <2>4. Closed(D \union {s})
    BY <1>4, <2>1, <2>3
  <2>5. value(g, s) \in V
    <3>1. CASE s \in stop
      BY <2>3, <3>1
    <3>2. CASE s \notin stop
      <4>1. <<s, g[next[s]]>> \in (SUBSET S) \X V
        BY <2>3
      <4> QED
        BY <3>2, <4>1
    <3> QED
      BY <3>1, <3>2
  <2>6. /\ h \in [SUBSET S -> V] /\ h[s] = value(g, s)
        /\ \A t \in SUBSET S : t # s => h[t] = g[t]
    <3> HIDE DEF value
    <3> QED
      BY <2>3, <2>5
  <2> HIDE DEF h
  <2>7. \A t \in D \union {s} : /\ t \in SUBSET S
                               /\ t \notin stop => next[t] \in SUBSET S /\ next[t] # s
    <3> SUFFICES ASSUME NEW t \in D \union {s}, t \notin stop PROVE next[t] # s
      BY <2>3
    <3>1. next[t] \subseteq t /\ next[t] # t
      BY <2>3
    <3>2. CASE t = s
      BY <3>1, <3>2
    <3>3. CASE t \in D
      BY <1>4, <2>3, <3>1, <3>3
    <3> QED
      BY <3>2, <3>3
  <2>8. Solves(D \union {s}, h)
    <3> SUFFICES ASSUME NEW t \in D \union {s} PROVE h[t] = value(h, t)
      OBVIOUS
    <3>1. value(h, t) = value(g, t)
      BY <2>6, <2>7
    <3>2. CASE t = s
      BY <2>6, <3>1, <3>2
    <3>3. CASE t # s
      BY <2>2, <2>6, <2>7, <3>1, <3>3
    <3> QED
      BY <3>2, <3>3
  <2>9. W \in F /\ W \subseteq U /\ W # U
    <3>1. Good(D \union {s})
      BY <2>4, <2>6, <2>8
    <3> HIDE DEF Good, D
    <3> QED
      BY <1>4, <2>1, <2>3, <3>1
  <2> HIDE DEF F, W
  <2> QED
    BY <1>3, <2>9
<1>6. D = SUBSET S
  BY <1>5
<1> QED
  BY <1>4, <1>6 DEF Recursive

-----------------------------------------------------------------------------
(* Sums over finite sets *)

\* The function SumOver is computed by.
Summing(f, S, g) ==
    g = [s \in SUBSET S |-> IF s = {} THEN 0
                            ELSE LET x == CHOOSE x \in s : TRUE IN f[x] + g[s \ {x}]]

\* A sum is what that function gives for the whole set.
LEMMA SumBySumming ==
    ASSUME NEW f, NEW S
    PROVE  SumOver(f, S) = (CHOOSE g : Summing(f, S, g))[S]
BY DEF SumOver, MapThenSumSet, MapThenFoldSet, Summing

\* There is such a function, and its values are integers.
LEMMA SummingExists ==
    ASSUME NEW f, NEW S, IsFiniteSet(S), \A x \in S : f[x] \in Int
    PROVE  \E g \in [SUBSET S -> Int] : Summing(f, S, g)
<1> DEFINE one(s) == CHOOSE x \in s : TRUE
           stop == {{}}
           base == [s \in SUBSET S |-> 0]
           next == [s \in SUBSET S |-> s \ {one(s)}]
           step == [p \in (SUBSET S) \X Int |->
                      IF p[1] = {} THEN 0 ELSE f[one(p[1])] + p[2]]
<1>1. \A s \in SUBSET S : s # {} => one(s) \in s
  OBVIOUS
<1> HIDE DEF one
<1>2. base \in [SUBSET S -> Int] /\ next \in [SUBSET S -> SUBSET S]
  OBVIOUS
<1>3. step \in [(SUBSET S) \X Int -> Int]
  <2> SUFFICES ASSUME NEW p \in (SUBSET S) \X Int
               PROVE  (IF p[1] = {} THEN 0 ELSE f[one(p[1])] + p[2]) \in Int
    OBVIOUS
  <2>1. p[1] \in SUBSET S /\ p[2] \in Int
    OBVIOUS
  <2>2. p[1] # {} => f[one(p[1])] \in Int
    BY <1>1, <2>1
  <2> QED
    BY <2>1, <2>2
<1>4. \A s \in SUBSET S : s \notin stop => next[s] \subseteq s /\ next[s] # s
  BY <1>1
<1>5. PICK g \in [SUBSET S -> Int] : Recursive(S, stop, base, next, step, g)
  <2> HIDE DEF stop, base, next, step
  <2> QED
    BY <1>2, <1>3, <1>4, RecursionOnSubsets
<1>6. \A s \in SUBSET S :
        g[s] = IF s = {} THEN 0 ELSE f[one(s)] + g[s \ {one(s)}]
  <2> SUFFICES ASSUME NEW s \in SUBSET S
               PROVE  g[s] = IF s = {} THEN 0 ELSE f[one(s)] + g[s \ {one(s)}]
    OBVIOUS
  <2>1. g[s] = IF s \in stop THEN base[s] ELSE step[<<s, g[next[s]]>>]
    BY <1>5 DEF Recursive
  <2>2. base[s] = 0 /\ next[s] = s \ {one(s)} /\ s \ {one(s)} \in SUBSET S
    OBVIOUS
  <2>3. CASE s = {}
    BY <2>1, <2>2, <2>3
  <2>4. CASE s # {}
    <3>1. <<s, g[next[s]]>> \in (SUBSET S) \X Int
      BY <2>2
    <3>2. step[<<s, g[next[s]]>>] = f[one(s)] + g[next[s]]
      BY <2>4, <3>1
    <3> QED
      BY <2>1, <2>2, <2>4, <3>2
  <2> QED
    BY <2>3, <2>4
<1>7. g = [s \in SUBSET S |-> IF s = {} THEN 0 ELSE f[one(s)] + g[s \ {one(s)}]]
  <2> HIDE DEF base, next, step
  <2> QED
    BY <1>6
<1>8. Summing(f, S, g)
  BY <1>7 DEF Summing, one
<1> QED
  BY <1>8

\* What the two sides of a choice have in common they sum alike.
LEMMA SummingAgrees ==
    ASSUME NEW f, NEW S, IsFiniteSet(S), NEW T, NEW g, NEW h,
           Summing(f, S, g), Summing(f, T, h), NEW U \in SUBSET (S \cap T)
    PROVE  g[U] = h[U]
<1> DEFINE F == {W \in SUBSET S : W \subseteq T /\ g[W] # h[W]}
<1>1. SUFFICES ASSUME F # {} PROVE FALSE
  BY U \in SUBSET S, U \subseteq T
<1>2. PICK W \in F : \A X \in F : X \subseteq W => X = W
  <2>1. F \subseteq SUBSET S
    OBVIOUS
  <2> HIDE DEF F
  <2> QED
    BY <1>1, <2>1, LeastSubset
<1> DEFINE x == CHOOSE x \in W : TRUE
<1>3. /\ g[W] = IF W = {} THEN 0 ELSE f[x] + g[W \ {x}]
      /\ h[W] = IF W = {} THEN 0 ELSE f[x] + h[W \ {x}]
  <2>1. W \in SUBSET S /\ W \in SUBSET T
    BY <1>2
  <2> HIDE DEF F
  <2>2. g = [s \in SUBSET S |-> IF s = {} THEN 0
               ELSE f[CHOOSE y \in s : TRUE] + g[s \ {CHOOSE y \in s : TRUE}]]
    BY DEF Summing
  <2>3. h = [s \in SUBSET T |-> IF s = {} THEN 0
               ELSE f[CHOOSE y \in s : TRUE] + h[s \ {CHOOSE y \in s : TRUE}]]
    BY DEF Summing
  <2> QED
    BY <2>1, <2>2, <2>3, Zenon
<1>4. W # {}
  BY <1>2, <1>3
<1>5. x \in W
  BY <1>4
<1> HIDE DEF x
<1>6. W \ {x} \notin F
  BY <1>2, <1>5
<1> QED
  BY <1>2, <1>3, <1>4, <1>6

\* The empty sum, and the sum with the chosen element first.
LEMMA SumChosen ==
    ASSUME NEW f, NEW S, IsFiniteSet(S), \A x \in S : f[x] \in Int
    PROVE  /\ SumOver(f, S) \in Int
           /\ S = {} => SumOver(f, S) = 0
           /\ S # {} => LET x == CHOOSE x \in S : TRUE
                        IN  SumOver(f, S) = f[x] + SumOver(f, S \ {x})
<1> DEFINE x == CHOOSE x \in S : TRUE
           T == S \ {x}
           g == CHOOSE k : Summing(f, S, k)
           h == CHOOSE k : Summing(f, T, k)
<1>1. IsFiniteSet(T) /\ T \in SUBSET S
  BY FS_Subset
<1>2. PICK g0 \in [SUBSET S -> Int] : Summing(f, S, g0)
  BY SummingExists
<1>3. Summing(f, S, g)
  BY <1>2
<1>4. Summing(f, T, h)
  <2>1. \A y \in T : f[y] \in Int
    OBVIOUS
  <2> HIDE DEF T
  <2>2. \E g1 \in [SUBSET T -> Int] : Summing(f, T, g1)
    BY <1>1, <2>1, SummingExists
  <2> QED
    BY <2>2
<1>5. SumOver(f, S) = g[S] /\ SumOver(f, T) = h[T]
  BY SumBySumming
<1> HIDE DEF g, h
<1>6. g[S] = g0[S]
  BY <1>2, <1>3, SummingAgrees
<1>7. g[T] = h[T]
  BY <1>1, <1>3, <1>4, SummingAgrees
<1>8. g[S] = IF S = {} THEN 0 ELSE f[x] + g[T]
  <2>1. g = [s \in SUBSET S |-> IF s = {} THEN 0
               ELSE f[CHOOSE y \in s : TRUE] + g[s \ {CHOOSE y \in s : TRUE}]]
    BY <1>3 DEF Summing
  <2>2. S \in SUBSET S
    OBVIOUS
  <2> QED
    BY <2>1, <2>2, Zenon
<1>9. SumOver(f, S) \in Int
  BY <1>2, <1>5, <1>6
<1> HIDE DEF T, x
<1>10. S # {} => SumOver(f, S) = f[x] + SumOver(f, T)
  BY <1>5, <1>7, <1>8
<1>11. S = {} => SumOver(f, S) = 0
  BY <1>5, <1>8
<1> QED
  BY <1>9, <1>10, <1>11 DEF T, x

LEMMA SumType ==
    ASSUME NEW f, NEW S, IsFiniteSet(S), \A x \in S : f[x] \in Int
    PROVE  SumOver(f, S) \in Int
BY SumChosen

LEMMA SumEmpty == ASSUME NEW f PROVE SumOver(f, {}) = 0
BY SumChosen, FS_EmptySet

\* Any element may come first.
LEMMA SumRemove ==
    ASSUME NEW f, NEW S, IsFiniteSet(S), \A x \in S : f[x] \in Int, NEW y \in S
    PROVE  SumOver(f, S) = f[y] + SumOver(f, S \ {y})
<1> DEFINE F == {U \in SUBSET S : \E z \in U : SumOver(f, U) # f[z] + SumOver(f, U \ {z})}
<1>1. SUFFICES ASSUME F # {} PROVE FALSE
  BY S \in SUBSET S
<1>2. PICK U \in F : \A X \in F : X \subseteq U => X = U
  <2>1. F \subseteq SUBSET S
    OBVIOUS
  <2> HIDE DEF F
  <2> QED
    BY <1>1, <2>1, LeastSubset
<1>3. PICK z \in U : SumOver(f, U) # f[z] + SumOver(f, U \ {z})
  BY <1>2
<1> DEFINE x == CHOOSE x \in U : TRUE
<1>4. U \in SUBSET S /\ IsFiniteSet(U)
  BY <1>2, FS_Subset
<1>5. x \in U
  BY <1>3
<1>6. SumOver(f, U) = f[x] + SumOver(f, U \ {x})
  BY <1>3, <1>4, SumChosen
<1> HIDE DEF x
<1>7. x # z
  BY <1>3, <1>6
<1>8. U \ {x} \notin F /\ U \ {z} \notin F
  BY <1>2, <1>3, <1>5
<1>9. /\ SumOver(f, U \ {x}) = f[z] + SumOver(f, (U \ {x}) \ {z})
      /\ SumOver(f, U \ {z}) = f[x] + SumOver(f, (U \ {z}) \ {x})
  BY <1>3, <1>4, <1>5, <1>7, <1>8
<1>10. (U \ {x}) \ {z} = (U \ {z}) \ {x} /\ (U \ {x}) \ {z} \in SUBSET S
  BY <1>4
<1>11. SumOver(f, (U \ {x}) \ {z}) \in Int /\ f[x] \in Int /\ f[z] \in Int
  BY <1>3, <1>4, <1>5, <1>10, FS_Subset, SumType
<1> HIDE DEF F
<1>12. SumOver(f, U) = f[x] + (f[z] + SumOver(f, (U \ {x}) \ {z}))
  BY <1>6, <1>9
<1>13. SumOver(f, U \ {z}) = f[x] + SumOver(f, (U \ {x}) \ {z})
  BY <1>9, <1>10
<1> QED
  BY <1>3, <1>11, <1>12, <1>13

\* A sum of values that are at least some number.
LEMMA SumAtLeast ==
    ASSUME NEW S, IsFiniteSet(S), NEW f, \A x \in S : f[x] \in Int,
           NEW low \in Int, \A x \in S : f[x] >= low
    PROVE  SumOver(f, S) >= low * Cardinality(S)
<1> DEFINE F == {U \in SUBSET S : ~(SumOver(f, U) >= low * Cardinality(U))}
<1>1. SUFFICES ASSUME F # {} PROVE FALSE
  BY S \in SUBSET S
<1>2. PICK U \in F : \A X \in F : X \subseteq U => X = U
  <2>1. F \subseteq SUBSET S
    OBVIOUS
  <2> HIDE DEF F
  <2> QED
    BY <1>1, <2>1, LeastSubset
<1>3. U \in SUBSET S /\ IsFiniteSet(U)
  BY <1>2, FS_Subset
<1>4. CASE U = {}
  BY <1>2, <1>4, SumEmpty, FS_EmptySet
<1>5. ASSUME NEW y \in U PROVE FALSE
  <2>1. /\ U \ {y} \in SUBSET S /\ IsFiniteSet(U \ {y})
        /\ Cardinality(U \ {y}) = Cardinality(U) - 1
        /\ Cardinality(U) \in Nat
    BY <1>3, <1>5, FS_RemoveElement, FS_CardinalityType
  <2>2. SumOver(f, U \ {y}) >= low * Cardinality(U \ {y})
    BY <1>2, <2>1
  <2>3. SumOver(f, U) = f[y] + SumOver(f, U \ {y})
    BY <1>3, <1>5, SumRemove
  <2>4. SumOver(f, U \ {y}) \in Int /\ f[y] \in Int /\ f[y] >= low
    BY <1>3, <1>5, <2>1, SumType
  <2>5. SumOver(f, U) >= low + low * (Cardinality(U) - 1)
    BY <2>1, <2>2, <2>3, <2>4
  <2>6. low + low * (Cardinality(U) - 1) = low * Cardinality(U)
    BY <2>1
  <2> QED
    BY <1>2, <2>5, <2>6
<1> QED
  BY <1>4, <1>5

\* The values of h are linear combinations of those of f and g.
Combines(S, k, f, m, g, h) ==
    \A x \in S : f[x] \in Int /\ g[x] \in Int /\ h[x] = k * f[x] + m * g[x]

\* A sum of linear combinations.
LEMMA SumLinear ==
    ASSUME NEW S, IsFiniteSet(S), NEW f, NEW g, NEW h, NEW k \in Int, NEW m \in Int,
           Combines(S, k, f, m, g, h)
    PROVE  SumOver(h, S) = k * SumOver(f, S) + m * SumOver(g, S)
<1> DEFINE F == {U \in SUBSET S : ~(SumOver(h, U) = k * SumOver(f, U) + m * SumOver(g, U))}
<1>1. SUFFICES ASSUME F # {} PROVE FALSE
  BY S \in SUBSET S
<1>2. PICK U \in F : \A X \in F : X \subseteq U => X = U
  <2>1. F \subseteq SUBSET S
    OBVIOUS
  <2> HIDE DEF F
  <2> QED
    BY <1>1, <2>1, LeastSubset
<1>3. U \in SUBSET S /\ IsFiniteSet(U)
  BY <1>2, FS_Subset
<1>0. \A x \in S : /\ f[x] \in Int /\ g[x] \in Int /\ h[x] \in Int
                   /\ h[x] = k * f[x] + m * g[x]
  BY DEF Combines
<1>4. CASE U = {}
  BY <1>2, <1>4, SumEmpty
<1>5. ASSUME NEW y \in U PROVE FALSE
  <2> DEFINE W == U \ {y}
  <2>1. W \in SUBSET S /\ IsFiniteSet(W)
    BY <1>3, <1>5, FS_Subset
  <2>2. SumOver(h, W) = k * SumOver(f, W) + m * SumOver(g, W)
    BY <1>2, <1>5, <2>1
  <2>3. /\ SumOver(f, U) = f[y] + SumOver(f, W)
        /\ SumOver(g, U) = g[y] + SumOver(g, W)
        /\ SumOver(h, U) = h[y] + SumOver(h, W)
    <3>1. \A x \in U : f[x] \in Int /\ g[x] \in Int /\ h[x] \in Int
      BY <1>0, <1>3
    <3> QED
      BY <1>3, <1>5, <3>1, SumRemove
  <2>4. /\ SumOver(f, W) \in Int /\ SumOver(g, W) \in Int
        /\ f[y] \in Int /\ g[y] \in Int /\ h[y] = k * f[y] + m * g[y]
    <3>1. \A x \in W : f[x] \in Int /\ g[x] \in Int
      BY <1>0, <2>1
    <3>2. y \in S
      BY <1>3, <1>5
    <3> HIDE DEF W
    <3> QED
      BY <1>0, <2>1, <3>1, <3>2, SumType
  <2> HIDE DEF W, F
  <2>5. /\ k * (f[y] + SumOver(f, W)) = k * f[y] + k * SumOver(f, W)
        /\ m * (g[y] + SumOver(g, W)) = m * g[y] + m * SumOver(g, W)
    BY <2>4
  <2>6. /\ k * f[y] \in Int /\ k * SumOver(f, W) \in Int
        /\ m * g[y] \in Int /\ m * SumOver(g, W) \in Int
    BY <2>4
  <2>7. SumOver(h, U) = k * SumOver(f, U) + m * SumOver(g, U)
    BY <2>2, <2>3, <2>4, <2>5, <2>6
  <2> QED
    BY <1>2, <2>7 DEF F
<1> QED
  BY <1>4, <1>5

\* The same values under other indexes.
LEMMA SumOfImage ==
    ASSUME NEW S, IsFiniteSet(S), NEW f, NEW g, NEW h,
           \A x \in S : f[x] \in Int /\ f[x] = g[h[x]],
           \A x, y \in S : h[x] = h[y] => x = y
    PROVE  SumOver(f, S) = SumOver(g, {h[x] : x \in S})
<1> DEFINE F == {U \in SUBSET S : ~(SumOver(f, U) = SumOver(g, {h[x] : x \in U}))}
<1>1. SUFFICES ASSUME F # {} PROVE FALSE
  BY S \in SUBSET S
<1>2. PICK U \in F : \A X \in F : X \subseteq U => X = U
  <2>1. F \subseteq SUBSET S
    OBVIOUS
  <2> HIDE DEF F
  <2> QED
    BY <1>1, <2>1, LeastSubset
<1>3. U \in SUBSET S /\ IsFiniteSet(U)
  BY <1>2, FS_Subset
<1>4. CASE U = {}
  <2>1. {h[x] : x \in U} = {}
    BY <1>4
  <2> QED
    BY <1>2, <1>4, <2>1, SumEmpty
<1>5. ASSUME NEW y \in U PROVE FALSE
  <2> DEFINE W == U \ {y}
             image == {h[x] : x \in U}
  <2>1. W \in SUBSET S /\ IsFiniteSet(W)
    BY <1>3, <1>5, FS_Subset
  <2>2. SumOver(f, W) = SumOver(g, {h[x] : x \in W})
    BY <1>2, <1>5, <2>1
  <2>3. SumOver(f, U) = f[y] + SumOver(f, W)
    BY <1>3, <1>5, SumRemove
  <2>4. {h[x] : x \in W} = image \ {h[y]} /\ h[y] \in image
    BY <1>3, <1>5
  <2>5. IsFiniteSet(image)
    <3>1. [x \in U |-> h[x]] \in Surjection(U, image)
      BY DEF Surjection
    <3> QED
      BY <1>3, <3>1, FS_Surjection
  <2>6. \A z \in image : g[z] \in Int
    BY <1>3
  <2> HIDE DEF image, W, F
  <2>7. SumOver(g, image) = g[h[y]] + SumOver(g, image \ {h[y]})
    BY <2>4, <2>5, <2>6, SumRemove
  <2>8. f[y] = g[h[y]]
    BY <1>3, <1>5
  <2>9. SumOver(f, U) = SumOver(g, image)
    BY <2>2, <2>3, <2>4, <2>7, <2>8
  <2> QED
    BY <1>2, <2>9 DEF F, image
<1> QED
  BY <1>4, <1>5

\* Only the values at the elements count.
LEMMA SumSame ==
    ASSUME NEW S, IsFiniteSet(S), NEW f, NEW g, \A x \in S : f[x] \in Int /\ f[x] = g[x]
    PROVE  SumOver(f, S) = SumOver(g, S)
<1>1. SumOver(g, S) = 1 * SumOver(f, S) + 0 * SumOver(f, S)
  <2>1. Combines(S, 1, f, 0, f, g)
    BY DEF Combines
  <2> QED
    BY <2>1, SumLinear
<1> QED
  BY <1>1, SumType

LEMMA SumAtMost ==
    ASSUME NEW S, IsFiniteSet(S), NEW f, \A x \in S : f[x] \in Int,
           NEW high \in Int, \A x \in S : f[x] <= high
    PROVE  SumOver(f, S) <= high * Cardinality(S)
<1> DEFINE g == [x \in S |-> -f[x]]
<1>1. SumOver(g, S) = (-1) * SumOver(f, S) + 0 * SumOver(f, S)
  <2>1. Combines(S, -1, f, 0, f, g)
    BY DEF Combines
  <2> HIDE DEF g
  <2> QED
    BY <2>1, SumLinear
<1>2. SumOver(g, S) >= (-high) * Cardinality(S)
  <2>1. \A x \in S : g[x] \in Int /\ g[x] >= -high
    OBVIOUS
  <2> HIDE DEF g
  <2> QED
    BY <2>1, SumAtLeast
<1>3. SumOver(f, S) \in Int /\ Cardinality(S) \in Nat
  BY SumType, FS_CardinalityType
<1>4. (-high) * Cardinality(S) = -(high * Cardinality(S)) /\ high * Cardinality(S) \in Int
  BY <1>3
<1> HIDE DEF g
<1> QED
  BY <1>1, <1>2, <1>3, <1>4

\* A sum in two parts.
LEMMA SumSplit ==
    ASSUME NEW S, IsFiniteSet(S), NEW f, \A x \in S : f[x] \in Int, NEW T \in SUBSET S
    PROVE  SumOver(f, S) = SumOver(f, T) + SumOver(f, S \ T)
<1> DEFINE F == {U \in SUBSET S : /\ T \subseteq U
                                  /\ SumOver(f, U) # SumOver(f, T) + SumOver(f, U \ T)}
<1>1. SUFFICES ASSUME F # {} PROVE FALSE
  BY S \in SUBSET S, T \subseteq S
<1>2. PICK U \in F : \A X \in F : X \subseteq U => X = U
  <2>1. F \subseteq SUBSET S
    OBVIOUS
  <2> HIDE DEF F
  <2> QED
    BY <1>1, <2>1, LeastSubset
<1>3. /\ U \in SUBSET S /\ IsFiniteSet(U)
      /\ U \ T \in SUBSET S /\ IsFiniteSet(U \ T) /\ IsFiniteSet(T)
  BY <1>2, FS_Subset
<1>4. CASE U = T
  <2>1. SumOver(f, U \ T) = 0
    <3>1. U \ T = {}
      BY <1>4
    <3> QED
      BY <3>1, SumEmpty
  <2>2. SumOver(f, T) \in Int
    BY <1>3, SumType
  <2> QED
    BY <1>2, <1>4, <2>1, <2>2
<1>5. ASSUME NEW y \in U, y \notin T PROVE FALSE
  <2> DEFINE W == U \ {y}
  <2>1. W \in SUBSET S /\ W \notin F /\ T \subseteq W /\ W \ T = (U \ T) \ {y}
    BY <1>2, <1>5
  <2>2. SumOver(f, W) = SumOver(f, T) + SumOver(f, W \ T)
    BY <2>1
  <2>3. SumOver(f, U) = f[y] + SumOver(f, W)
    BY <1>3, <1>5, SumRemove
  <2>4. SumOver(f, U \ T) = f[y] + SumOver(f, W \ T)
    BY <1>3, <1>5, <2>1, SumRemove
  <2>5. IsFiniteSet(W \ T) /\ \A x \in W \ T : f[x] \in Int
    BY <1>3, <2>1, FS_Subset
  <2> HIDE DEF W
  <2>6. SumOver(f, W \ T) \in Int
    BY <2>5, SumType
  <2>7. f[y] \in Int /\ SumOver(f, T) \in Int
    BY <1>3, <1>5, SumType
  <2> QED
    <3> HIDE DEF F
    <3>1. SumOver(f, U) = SumOver(f, T) + SumOver(f, U \ T)
      BY <2>2, <2>3, <2>4, <2>6, <2>7
    <3> QED
      BY <1>2, <3>1 DEF F
<1> QED
  BY <1>2, <1>4, <1>5

LEMMA SumReindexed ==
    ASSUME NEW S, IsFiniteSet(S), NEW T, NEW h \in Bijection(S, T), NEW f, NEW g,
           \A x \in S : f[x] \in Int /\ f[x] = g[h[x]]
    PROVE  SumOver(f, S) = SumOver(g, T)
<1>1. \A x, y \in S : h[x] = h[y] => x = y
  BY DEF Bijection, Injection, IsInjective
<1>2. {h[x] : x \in S} = T
  BY DEF Bijection, Surjection
<1>3. SumOver(f, S) = SumOver(g, {h[x] : x \in S})
  BY <1>1, SumOfImage
<1> QED
  BY <1>2, <1>3

-----------------------------------------------------------------------------
(* Sharing out the words *)

\* Of a finite set in which everybody has some others ahead, as in a ranking, as
\* many are among the first k as k says.
LEMMA FirstOfARanking ==
    ASSUME NEW A, IsFiniteSet(A), NEW ahead \in [A -> SUBSET A],
           \A i \in A : i \notin ahead[i],
           \A i, j \in A : i = j \/ i \in ahead[j] \/ j \in ahead[i],
           \A i \in A : \A j \in ahead[i] : ahead[j] \subseteq ahead[i],
           NEW k \in 0 .. Cardinality(A)
    PROVE  Cardinality({i \in A : Cardinality(ahead[i]) < k}) = k
<1> DEFINE n == Cardinality(A)
           rank == [i \in A |-> Cardinality(ahead[i])]
           first == {i \in A : rank[i] < k}
<1>1. \A i \in A : /\ IsFiniteSet(ahead[i])
                   /\ rank[i] \in 0 .. n - 1
  <2> SUFFICES ASSUME NEW i \in A
               PROVE  IsFiniteSet(ahead[i]) /\ Cardinality(ahead[i]) \in 0 .. n - 1
    OBVIOUS
  <2>1. ahead[i] \in SUBSET A /\ ahead[i] # A
    OBVIOUS
  <2>2. /\ IsFiniteSet(ahead[i]) /\ Cardinality(ahead[i]) <= n
        /\ n # Cardinality(ahead[i])
    BY <2>1, FS_Subset
  <2>3. n \in Nat /\ Cardinality(ahead[i]) \in Nat
    BY <2>2, FS_CardinalityType
  <2> QED
    BY <2>2, <2>3
<1>2. \A i \in A : \A j \in ahead[i] : rank[j] < rank[i]
  <2> SUFFICES ASSUME NEW i \in A, NEW j \in ahead[i]
               PROVE  Cardinality(ahead[j]) < Cardinality(ahead[i])
    OBVIOUS
  <2>1. /\ j \in A /\ ahead[j] \in SUBSET ahead[i] /\ ahead[j] # ahead[i]
        /\ IsFiniteSet(ahead[i]) /\ IsFiniteSet(ahead[j])
    BY <1>1
  <2>2. /\ Cardinality(ahead[j]) <= Cardinality(ahead[i])
        /\ Cardinality(ahead[i]) # Cardinality(ahead[j])
    BY <2>1, FS_Subset
  <2>3. Cardinality(ahead[j]) \in Nat /\ Cardinality(ahead[i]) \in Nat
    BY <2>1, FS_CardinalityType
  <2> QED
    BY <2>2, <2>3
<1>3. \A i, j \in A : rank[i] = rank[j] => i = j
  <2> SUFFICES ASSUME NEW i \in A, NEW j \in A, i # j PROVE rank[i] # rank[j]
    OBVIOUS
  <2>1. rank[i] \in Int /\ rank[j] \in Int
    BY <1>1
  <2>2. rank[i] < rank[j] \/ rank[j] < rank[i]
    BY <1>2
  <2> HIDE DEF rank
  <2> QED
    BY <2>1, <2>2
<1>4. n \in Nat /\ IsFiniteSet(0 .. n - 1) /\ Cardinality(0 .. n - 1) = n
  <2>1. n \in Nat
    BY FS_CardinalityType
  <2> HIDE DEF n
  <2> QED
    BY <2>1, FS_Interval
<1> HIDE DEF n
<1>5. rank \in Injection(A, 0 .. n - 1)
  BY <1>1, <1>3 DEF Injection, IsInjective
<1>6. rank \in Surjection(A, 0 .. n - 1)
  <2> HIDE DEF rank
  <2> QED
    BY <1>4, <1>5, FS_Injection DEF n
<1> DEFINE nth == [i \in first |-> rank[i]]
<1>7. k \in Nat /\ k <= n /\ IsFiniteSet(0 .. k - 1) /\ Cardinality(0 .. k - 1) = k
  <2>1. k \in Nat /\ k <= n
    BY <1>4 DEF n
  <2> QED
    BY <2>1, FS_Interval
<1>8. nth \in Injection(first, 0 .. k - 1)
  <2>1. \A i \in first : rank[i] \in 0 .. k - 1
    BY <1>1, <1>7
  <2> HIDE DEF rank
  <2> QED
    BY <1>3, <2>1 DEF Injection, IsInjective
<1>9. nth \in Surjection(first, 0 .. k - 1)
  <2> SUFFICES ASSUME NEW r \in 0 .. k - 1 PROVE \E i \in first : nth[i] = r
    BY <1>8 DEF Injection, Surjection
  <2>1. r \in 0 .. n - 1 /\ r < k
    BY <1>4, <1>7
  <2>2. PICK i \in A : rank[i] = r
    BY <1>6, <2>1 DEF Surjection
  <2> HIDE DEF rank
  <2> QED
    BY <2>1, <2>2
<1> HIDE DEF nth
<1>10. Cardinality(first) = k
  <2> HIDE DEF first
  <2> QED
    BY <1>7, <1>8, <1>9, FS_Injection
<1>11. first = {i \in A : Cardinality(ahead[i]) < k}
  OBVIOUS
<1> QED
  BY <1>10, <1>11

LEMMA Division ==
    ASSUME NEW a \in Nat, NEW b \in Nat, b > 0
    PROVE  /\ a \div b \in Nat /\ a % b \in 0 .. b - 1
           /\ a = b * (a \div b) + (a % b)
OBVIOUS

\* What a product of naturals says about its factors.
LEMMA FactorsCompare ==
    ASSUME NEW a \in Int, NEW b \in Int, NEW c \in Int, c > 0
    PROVE  /\ c * a <= c * b <=> a <= b
           /\ c * a < c * b <=> a < b
<1>1. /\ a < b => c * a < c * b
      /\ b < a => c * b < c * a
  OBVIOUS
<1>2. c * a \in Int /\ c * b \in Int
  OBVIOUS
<1> QED
  BY <1>1, <1>2

\* Among some whose shares are below the capacity, the largest remainders give
\* nobody more than the capacity, nobody a whole word more or less than its
\* share, who weighs more no less, and all of the words.
LEMMA RemaindersAreShared ==
    ASSUME NEW A, IsFiniteSet(A), A # {}, A \subseteq Int,
           NEW w, \A i \in A : w[i] \in Nat /\ w[i] > 0,
           NEW rest \in Nat, rest > 0, NEW capacity \in Nat,
           \A i \in A : rest * w[i] < capacity * SumOver(w, A)
    PROVE  LET r == ByRemainder(rest, w, A)
               weight == SumOver(w, A)
           IN  /\ \A i \in A : /\ r[i] \in 0 .. capacity
                               /\ r[i] * weight - rest * w[i] \in 1 - weight .. weight - 1
               /\ SumOver(r, A) = rest
               /\ \A i, j \in A : w[i] > w[j] => r[i] >= r[j]
<1> DEFINE n == Cardinality(A)
           weight == SumOver(w, A)
           share(i) == rest * w[i]
           whole == [i \in A |-> (rest * w[i]) \div weight]
           part == [i \in A |-> (rest * w[i]) % weight]
           left == rest - SumOver(whole, A)
           ahead == [i \in A |-> {j \in A : \/ part[j] > part[i]
                                            \/ part[j] = part[i] /\ j < i}]
           first == {i \in A : Cardinality(ahead[i]) < left}
           r == [i \in A |-> IF Cardinality(ahead[i]) < left THEN whole[i] + 1 ELSE whole[i]]
<1>1. r = ByRemainder(rest, w, A)
  BY DEF ByRemainder
<1>2. n \in Nat /\ n > 0
  BY FS_CardinalityType, FS_EmptySet
<1>3. weight \in Nat /\ weight > 0
  <2>1. weight \in Int /\ weight >= 1 * n
    <3>1. 1 \in Int /\ \A i \in A : w[i] \in Int /\ w[i] >= 1
      OBVIOUS
    <3> QED
      BY <3>1, SumAtLeast, SumType, Zenon
  <2> HIDE DEF weight, n
  <2> QED
    BY <1>2, <2>1
<1>4. \A i \in A : /\ whole[i] \in Nat /\ part[i] \in 0 .. weight - 1
                   /\ share(i) \in Nat
                   /\ share(i) = weight * whole[i] + part[i]
  <2> SUFFICES ASSUME NEW i \in A
               PROVE  /\ whole[i] \in Nat /\ part[i] \in 0 .. weight - 1
                      /\ share(i) \in Nat
                      /\ share(i) = weight * whole[i] + part[i]
    OBVIOUS
  <2> HIDE DEF weight
  <2>1. rest * w[i] \in Nat
    OBVIOUS
  <2> QED
    BY <1>3, <2>1, Division
<1>5. \A i \in A : ahead[i] = {j \in A : \/ part[j] > part[i]
                                         \/ part[j] = part[i] /\ j < i}
  OBVIOUS
<1>6. ahead \in [A -> SUBSET A]
  OBVIOUS
<1>7. \A i \in A : r[i] = IF i \in first THEN whole[i] + 1 ELSE whole[i]
  OBVIOUS
<1>8. part = [i \in A |-> part[i]] /\ whole = [i \in A |-> whole[i]]
  OBVIOUS
<1>9. \A i \in A : share(i) < capacity * weight
  OBVIOUS
<1> HIDE DEF r, ahead, part, whole, n
\* The words that are left, as a sum of the remainders.
<1>10. SumOver(whole, A) \in Int /\ SumOver(part, A) \in Int
  <2>1. \A i \in A : whole[i] \in Int /\ part[i] \in Int
    BY <1>3, <1>4
  <2> QED
    BY <2>1, SumType
<1>11. weight * left = SumOver(part, A)
  <2>1. SumOver(part, A) = rest * SumOver(w, A) + (-weight) * SumOver(whole, A)
    <3>1. Combines(A, rest, w, -weight, whole, part)
      <4> HIDE DEF weight
      <4> QED
        BY <1>3, <1>4 DEF Combines
    <3>2. -weight \in Int
      BY <1>3
    <3> HIDE DEF weight
    <3> QED
      BY <3>1, <3>2, SumLinear
  <2> HIDE DEF weight
  <2>2. rest * weight + (-weight) * SumOver(whole, A) = weight * left
    BY <1>3, <1>10
  <2> QED
    BY <2>1, <2>2 DEF weight
<1>12. left \in 0 .. n
  <2>1. SumOver(part, A) >= 0 * n /\ SumOver(part, A) <= (weight - 1) * n
    <3>1. \A i \in A : part[i] \in Int /\ part[i] >= 0 /\ part[i] <= weight - 1
      BY <1>3, <1>4
    <3>2. weight - 1 \in Int
      BY <1>3
    <3> HIDE DEF weight
    <3>3. 0 \in Int
      OBVIOUS
    <3> QED
      BY <3>1, <3>2, <3>3, SumAtLeast, SumAtMost, Zenon DEF n
  <2> HIDE DEF weight
  <2>2. left \in Int
    BY <1>10
  <2> HIDE DEF left
  <2>3. weight * 0 <= weight * left
    BY <1>2, <1>3, <1>11, <2>1
  <2>4. weight * left <= weight * n
    <3>1. (weight - 1) * n = weight * n - n /\ weight * n \in Int
      BY <1>2, <1>3
    <3> QED
      BY <1>2, <1>10, <1>11, <2>1, <3>1
  <2> QED
    BY <1>2, <1>3, <2>2, <2>3, <2>4, FactorsCompare
\* Who is first.
<1>13. \A i \in A : i \notin ahead[i]
  BY <1>4, <1>5
<1>14. \A i, j \in A : i = j \/ i \in ahead[j] \/ j \in ahead[i]
  BY <1>4, <1>5
<1>15. \A i \in A : \A j \in ahead[i] : ahead[j] \subseteq ahead[i]
  <2> SUFFICES ASSUME NEW i \in A, NEW j \in ahead[i], NEW k \in ahead[j] PROVE k \in ahead[i]
    OBVIOUS
  <2>1. i \in Int /\ j \in A /\ j \in Int /\ k \in A /\ k \in Int
    BY <1>6
  <2>2. part[i] \in Int /\ part[j] \in Int /\ part[k] \in Int
    BY <1>3, <1>4, <2>1
  <2>3. /\ part[j] > part[i] \/ (part[j] = part[i] /\ j < i)
        /\ part[k] > part[j] \/ (part[k] = part[j] /\ k < j)
    BY <1>5, <2>1
  <2>4. part[k] > part[i] \/ (part[k] = part[i] /\ k < i)
    BY <2>1, <2>2, <2>3
  <2> QED
    BY <1>5, <2>1, <2>4
<1>16. Cardinality(first) = left
  <2> HIDE DEF left
  <2> QED
    BY <1>6, <1>12, <1>13, <1>14, <1>15, FirstOfARanking DEF n
<1>17. \A i \in first : part[i] > 0
  <2> SUFFICES ASSUME NEW i \in first, part[i] = 0 PROVE FALSE
    BY <1>4
  <2> DEFINE P == {j \in A : part[j] > 0}
  <2>1. P \subseteq ahead[i] /\ ahead[i] \in SUBSET A /\ i \in A
    BY <1>5, <1>6
  <2>2. /\ IsFiniteSet(P) /\ IsFiniteSet(A \ P) /\ IsFiniteSet(ahead[i])
        /\ P \in SUBSET A /\ P \in SUBSET ahead[i]
    BY <2>1, FS_Subset
  <2>3. Cardinality(P) < left /\ Cardinality(P) \in Nat
    <3>1. Cardinality(P) <= Cardinality(ahead[i]) /\ Cardinality(ahead[i]) < left
      BY <2>2, FS_Subset
    <3>2. Cardinality(P) \in Nat /\ Cardinality(ahead[i]) \in Nat /\ left \in Int
      BY <1>12, <2>2, FS_CardinalityType
    <3> HIDE DEF P, left
    <3> QED
      BY <3>1, <3>2
  <2>4. SumOver(part, A) = SumOver(part, P) + SumOver(part, A \ P)
    <3>1. \A j \in A : part[j] \in Int
      BY <1>3, <1>4
    <3> HIDE DEF P
    <3> QED
      BY <2>2, <3>1, SumSplit
  <2>5. SumOver(part, P) \in Int /\ SumOver(part, P) <= (weight - 1) * Cardinality(P)
    <3>1. \A j \in P : part[j] \in Int /\ part[j] <= weight - 1
      BY <1>3, <1>4
    <3>2. weight - 1 \in Int
      BY <1>3
    <3> HIDE DEF P, weight
    <3> QED
      BY <2>2, <3>1, <3>2, SumAtMost, SumType
  <2>6. SumOver(part, A \ P) \in Int /\ SumOver(part, A \ P) <= 0 * Cardinality(A \ P)
    <3> DEFINE U == A \ P
    <3>1. \A j \in U : part[j] \in Int /\ part[j] <= 0
      BY <1>3, <1>4
    <3>2. IsFiniteSet(U) /\ 0 \in Int
      BY <2>2
    <3> HIDE DEF U, part
    <3>3. SumOver(part, U) \in Int /\ SumOver(part, U) <= 0 * Cardinality(U)
      BY <3>1, <3>2, SumAtMost, SumType
    <3> QED
      BY <3>3 DEF U
  <2>7. Cardinality(A \ P) \in Nat
    BY <2>2, FS_CardinalityType
  <2> HIDE DEF P, weight, first
  <2>8. weight * left <= (weight - 1) * Cardinality(P)
    <3>1. (weight - 1) * Cardinality(P) \in Int
      BY <1>3, <2>3
    <3> HIDE DEF left
    <3> QED
      BY <1>11, <2>4, <2>5, <2>6, <2>7, <3>1
  <2>9. /\ (weight - 1) * Cardinality(P) = weight * Cardinality(P) - Cardinality(P)
        /\ weight * Cardinality(P) \in Int
    BY <1>3, <2>3
  <2>10. left \in Int
    BY <1>12
  <2> HIDE DEF left
  <2>11. weight * Cardinality(P) < weight * left
    BY <1>3, <2>3, <2>10, FactorsCompare
  <2>12. weight * left \in Int
    BY <1>3, <2>10
  <2> QED
    BY <2>3, <2>8, <2>9, <2>11, <2>12
\* What everybody gets.
<1>18. \A i \in A : /\ r[i] \in 0 .. capacity
                    /\ r[i] * weight - rest * w[i] \in 1 - weight .. weight - 1
  <2> SUFFICES ASSUME NEW i \in A
               PROVE  /\ r[i] \in 0 .. capacity
                      /\ r[i] * weight - rest * w[i] \in 1 - weight .. weight - 1
    OBVIOUS
  <2>1. /\ whole[i] \in Nat /\ part[i] \in 0 .. weight - 1
        /\ rest * w[i] \in Nat /\ rest * w[i] = weight * whole[i] + part[i]
        /\ rest * w[i] < capacity * weight
    BY <1>4, <1>9
  <2> HIDE DEF weight
  <2>2. weight * whole[i] < weight * capacity
    <3>1. capacity * weight = weight * capacity /\ weight * capacity \in Int
          /\ weight * whole[i] \in Int
      BY <1>3, <2>1
    <3> QED
      BY <1>3, <2>1, <3>1
  <2>3. whole[i] < capacity
    BY <1>3, <2>1, <2>2, FactorsCompare
  <2>4. /\ (whole[i] + 1) * weight = weight * whole[i] + weight
        /\ whole[i] * weight = weight * whole[i] /\ weight * whole[i] \in Int
    BY <1>3, <2>1
  <2>5. CASE i \in first
    <3>1. r[i] = whole[i] + 1 /\ part[i] > 0
      BY <1>7, <1>17, <2>5
    <3>2. r[i] * weight - rest * w[i] = weight - part[i]
      BY <1>3, <2>1, <2>4, <3>1
    <3> QED
      BY <1>3, <2>1, <2>3, <3>1, <3>2
  <2>6. CASE i \notin first
    <3>1. r[i] = whole[i]
      BY <1>7, <2>6
    <3>2. r[i] * weight - rest * w[i] = -part[i]
      BY <1>3, <2>1, <2>4, <3>1
    <3> QED
      BY <1>3, <2>1, <2>3, <3>1, <3>2
  <2> QED
    BY <2>5, <2>6
<1>19. SumOver(r, A) = rest
  <2> DEFINE bonus == [i \in A |-> IF i \in first THEN 1 ELSE 0]
  <2>1. first \in SUBSET A /\ IsFiniteSet(first) /\ IsFiniteSet(A \ first)
    BY FS_Subset
  <2> HIDE DEF first
  <2>2. SumOver(bonus, A) = SumOver(bonus, first) + SumOver(bonus, A \ first)
    <3>1. \A i \in A : bonus[i] \in Int
      OBVIOUS
    <3> HIDE DEF bonus
    <3> QED
      BY <2>1, <3>1, SumSplit
  <2>3. \A i \in first : bonus[i] \in Int /\ bonus[i] >= 1 /\ bonus[i] <= 1
    BY <2>1
  <2>4. \A i \in A \ first : bonus[i] \in Int /\ bonus[i] >= 0 /\ bonus[i] <= 0
    OBVIOUS
  <2>5. Combines(A, 1, whole, 1, bonus, r)
    BY <1>4, <1>7 DEF Combines
  <2> HIDE DEF bonus
  <2>6. /\ SumOver(bonus, first) \in Int /\ SumOver(bonus, A \ first) \in Int
        /\ SumOver(bonus, first) >= 1 * Cardinality(first)
        /\ SumOver(bonus, first) <= 1 * Cardinality(first)
        /\ SumOver(bonus, A \ first) >= 0 * Cardinality(A \ first)
        /\ SumOver(bonus, A \ first) <= 0 * Cardinality(A \ first)
    <3>1. 0 \in Int /\ 1 \in Int
      OBVIOUS
    <3> QED
      BY <2>1, <2>3, <2>4, <3>1, SumAtLeast, SumAtMost, SumType, Zenon
  <2>7. Cardinality(first) = left /\ left \in Int /\ Cardinality(A \ first) \in Nat
    BY <1>12, <1>16, <2>1, FS_CardinalityType
  <2>8. SumOver(bonus, A) = left
    <3> HIDE DEF left
    <3> QED
      BY <2>2, <2>6, <2>7
  <2>9. SumOver(r, A) = 1 * SumOver(whole, A) + 1 * SumOver(bonus, A)
    BY <2>5, SumLinear
  <2> QED
    BY <1>10, <2>8, <2>9
<1>20. \A i, j \in A : w[i] > w[j] => r[i] >= r[j]
  <2> SUFFICES ASSUME NEW i \in A, NEW j \in A, w[i] > w[j] PROVE r[i] >= r[j]
    OBVIOUS
  <2>1. rest * w[j] < rest * w[i]
    BY FactorsCompare
  <2>2. /\ whole[i] \in Nat /\ part[i] \in 0 .. weight - 1
        /\ whole[j] \in Nat /\ part[j] \in 0 .. weight - 1
        /\ weight * whole[j] + part[j] < weight * whole[i] + part[i]
    BY <1>4, <2>1
  <2>3. whole[i] >= whole[j]
    <3> HIDE DEF weight
    <3> SUFFICES ASSUME whole[i] + 1 <= whole[j] PROVE FALSE
      BY <2>2
    <3>1. weight * (whole[i] + 1) <= weight * whole[j]
      BY <1>3, <2>2, FactorsCompare
    <3>2. /\ weight * (whole[i] + 1) = weight * whole[i] + weight
          /\ weight * whole[i] \in Int /\ weight * whole[j] \in Int
      BY <1>3, <2>2
    <3> QED
      BY <1>3, <2>2, <3>1, <3>2
  <2>4. CASE whole[i] > whole[j]
    BY <1>7, <2>2, <2>4
  <2>5. CASE whole[i] = whole[j]
    <3>1. part[i] > part[j]
      <4> HIDE DEF weight
      <4>1. weight * whole[i] \in Int
        BY <1>3, <2>2
      <4> QED
        BY <1>3, <2>2, <2>5, <4>1
    <3>2. i \in ahead[j]
      BY <1>5, <3>1
    <3>3. ahead[i] \in SUBSET ahead[j] /\ IsFiniteSet(ahead[j]) /\ IsFiniteSet(ahead[i])
      <4>1. ahead[j] \in SUBSET A /\ ahead[i] \in SUBSET A
        BY <1>6
      <4> QED
        BY <1>15, <3>2, <4>1, FS_Subset
    <3>4. j \in first => i \in first
      <4>1. Cardinality(ahead[i]) <= Cardinality(ahead[j])
        BY <3>3, FS_Subset
      <4>2. Cardinality(ahead[i]) \in Nat /\ Cardinality(ahead[j]) \in Nat /\ left \in Int
        BY <1>12, <3>3, FS_CardinalityType
      <4> HIDE DEF left
      <4> QED
        BY <4>1, <4>2
    <3> HIDE DEF first
    <3> QED
      BY <1>7, <2>2, <2>5, <3>4
  <2> QED
    BY <2>2, <2>3, <2>4, <2>5
<1> QED
  BY <1>1, <1>18, <1>19, <1>20

\* What is left for the active of I when all the others have the capacity.
Rest(excess, I, capacity, active) == excess - capacity * Cardinality(I \ active)

\* The active that would get the capacity or more.
Saturated(excess, weights, I, capacity, active) ==
    {i \in active : Rest(excess, I, capacity, active) * weights[i]
                      >= capacity * SumOver(weights, active)}

\* What the rounds that end the allocation give everybody.
LastRound(excess, weights, I, capacity, active) ==
    IF active = {} \/ Rest(excess, I, capacity, active) = 0
    THEN [i \in I |-> IF i \in active THEN 0 ELSE capacity]
    ELSE [i \in I |-> IF i \in active
                      THEN ByRemainder(Rest(excess, I, capacity, active), weights, active)[i]
                      ELSE capacity]

\* The function AllocateExcess is computed by.
Filling(excess, weights, I, capacity, g) ==
    \A active \in SUBSET I :
        g[active] = IF \/ active = {}
                       \/ Rest(excess, I, capacity, active) = 0
                       \/ Saturated(excess, weights, I, capacity, active) = {}
                    THEN LastRound(excess, weights, I, capacity, active)
                    ELSE g[active \ Saturated(excess, weights, I, capacity, active)]

OnSubsets(I, g) == g = [active \in SUBSET I |-> g[active]]

LEMMA FillingExists ==
    ASSUME NEW excess, NEW weights, NEW I, IsFiniteSet(I), NEW capacity
    PROVE  \E g : /\ Filling(excess, weights, I, capacity, g)
                  /\ OnSubsets(I, g)
<1> DEFINE rest(active) == Rest(excess, I, capacity, active)
           saturated(active) == Saturated(excess, weights, I, capacity, active)
           last(active) == LastRound(excess, weights, I, capacity, active)
           V == {last(active) : active \in SUBSET I}
           stop == {active \in SUBSET I :
                      active = {} \/ rest(active) = 0 \/ saturated(active) = {}}
           base == [active \in SUBSET I |-> last(active)]
           next == [active \in SUBSET I |-> active \ saturated(active)]
           step == [p \in (SUBSET I) \X V |-> p[2]]
<1>1. \A active \in SUBSET I : saturated(active) \subseteq active
  BY DEF Saturated
<1> HIDE DEF rest, saturated, last
<1>2. base \in [SUBSET I -> V] /\ next \in [SUBSET I -> SUBSET I]
  BY <1>1
<1>3. step \in [(SUBSET I) \X V -> V]
  <2> HIDE DEF V
  <2> QED
    OBVIOUS
<1>4. \A s \in SUBSET I : s \notin stop => next[s] \subseteq s /\ next[s] # s
  BY <1>1
<1>5. PICK g \in [SUBSET I -> V] : Recursive(I, stop, base, next, step, g)
  <2> HIDE DEF V, stop, base, next, step
  <2> QED
    BY <1>2, <1>3, <1>4, RecursionOnSubsets
<1>6. \A active \in SUBSET I :
        g[active] = IF active = {} \/ rest(active) = 0 \/ saturated(active) = {}
                    THEN last(active) ELSE g[active \ saturated(active)]
  <2> SUFFICES ASSUME NEW active \in SUBSET I
               PROVE  g[active] = IF active = {} \/ rest(active) = 0 \/ saturated(active) = {}
                                  THEN last(active) ELSE g[active \ saturated(active)]
    OBVIOUS
  <2>1. g[active] = IF active \in stop THEN base[active] ELSE step[<<active, g[next[active]]>>]
    <3> HIDE DEF stop, base, next, step
    <3> QED
      BY <1>5 DEF Recursive
  <2>2. base[active] = last(active) /\ next[active] = active \ saturated(active)
    OBVIOUS
  <2>3. step[<<active, g[next[active]]>>] = g[next[active]]
    <3> HIDE DEF V, next
    <3>1. g[next[active]] \in V
      BY <1>2
    <3> QED
      BY <3>1
  <2>4. active \in stop <=> active = {} \/ rest(active) = 0 \/ saturated(active) = {}
    OBVIOUS
  <2> HIDE DEF stop, base, next, step
  <2> QED
    BY <2>1, <2>2, <2>3, <2>4
<1>7. Filling(excess, weights, I, capacity, g)
  BY <1>6 DEF Filling, rest, saturated, last
<1>8. OnSubsets(I, g)
  BY <1>5 DEF OnSubsets
<1> QED
  BY <1>7, <1>8

\* The allocation is what such a function gives for all of them.
LEMMA AllocatedByFilling ==
    ASSUME NEW excess, NEW weights, IsFiniteSet(DOMAIN weights), NEW capacity
    PROVE  \E g : /\ Filling(excess, weights, DOMAIN weights, capacity, g)
                  /\ AllocateExcess(excess, weights, capacity) = g[DOMAIN weights]
<1> DEFINE I == DOMAIN weights
           rest(active) == excess - capacity * Cardinality(I \ active)
           saturated(active) == {i \in active :
                       rest(active) * weights[i] >= capacity * SumOver(weights, active)}
           value(g, active) ==
              IF active = {} \/ rest(active) = 0
              THEN [i \in I |-> IF i \in active THEN 0 ELSE capacity]
              ELSE IF saturated(active) # {} THEN g[active \ saturated(active)]
              ELSE [i \in I |-> IF i \in active
                                THEN ByRemainder(rest(active), weights, active)[i]
                                ELSE capacity]
           Fills(g) == g = [active \in SUBSET I |-> value(g, active)]
           fill == CHOOSE g : Fills(g)
<1>1. AllocateExcess(excess, weights, capacity) = fill[I]
  BY Zenon DEF AllocateExcess
<1>2. \A g : \A active \in SUBSET I :
        value(g, active) = IF \/ active = {}
                              \/ Rest(excess, I, capacity, active) = 0
                              \/ Saturated(excess, weights, I, capacity, active) = {}
                           THEN LastRound(excess, weights, I, capacity, active)
                           ELSE g[active \ Saturated(excess, weights, I, capacity, active)]
  <2> SUFFICES ASSUME NEW g, NEW active \in SUBSET I
      PROVE value(g, active) = IF \/ active = {}
                              \/ Rest(excess, I, capacity, active) = 0
                              \/ Saturated(excess, weights, I, capacity, active) = {}
                           THEN LastRound(excess, weights, I, capacity, active)
                           ELSE g[active \ Saturated(excess, weights, I, capacity, active)]
    OBVIOUS
  <2>1. /\ Rest(excess, I, capacity, active) = rest(active)
        /\ Saturated(excess, weights, I, capacity, active) = saturated(active)
    BY DEF Rest, Saturated
  <2>2. LastRound(excess, weights, I, capacity, active) =
          IF active = {} \/ rest(active) = 0
          THEN [i \in I |-> IF i \in active THEN 0 ELSE capacity]
          ELSE [i \in I |-> IF i \in active
                            THEN ByRemainder(rest(active), weights, active)[i]
                            ELSE capacity]
    BY <2>1 DEF LastRound
  <2> HIDE DEF rest, saturated, I
  <2>3. CASE active = {} \/ rest(active) = 0
    BY <2>1, <2>2, <2>3, Zenon
  <2>4. CASE ~(active = {} \/ rest(active) = 0) /\ saturated(active) = {}
    BY <2>1, <2>2, <2>4, Zenon
  <2>5. CASE ~(active = {} \/ rest(active) = 0) /\ saturated(active) # {}
    BY <2>1, <2>5, Zenon
  <2> HIDE DEF value
  <2> QED
    BY <2>3, <2>4, <2>5
<1> HIDE DEF value, I
<1>3. PICK g0 : Filling(excess, weights, I, capacity, g0) /\ OnSubsets(I, g0)
  BY FillingExists DEF I
<1>4. Fills(g0)
  <2>1. \A active \in SUBSET I : g0[active] = value(g0, active)
    BY <1>2, <1>3 DEF Filling
  <2> QED
    BY <1>3, <2>1 DEF OnSubsets
<1>5. Fills(fill)
  <2> HIDE DEF Fills
  <2> QED
    BY <1>4
<1> HIDE DEF fill
<1>6. \A active \in SUBSET I : fill[active] = value(fill, active)
  BY <1>5
<1>7. Filling(excess, weights, I, capacity, fill)
  BY <1>2, <1>6 DEF Filling
<1> QED
  BY <1>1, <1>7 DEF I

\* What an allocation of the excess is to be: the words add up, nobody gets more
\* than the capacity, who weighs more gets no less, and but for some who have the
\* capacity and would share in more, the words are shared by weight to less than
\* a word.
Exact(excess, weights, I, capacity, r) ==
    /\ SumOver(r, I) = excess
    /\ \A i \in I : r[i] \in 0 .. capacity
    /\ \A i, j \in I : weights[i] > weights[j] => r[i] >= r[j]
    /\ \E open \in SUBSET I :
         /\ \A i \in I \ open :
              /\ r[i] = capacity
              /\ SumOver(r, open) * weights[i] >= r[i] * SumOver(weights, open)
         /\ \A i \in open :
              r[i] * SumOver(weights, open) - SumOver(r, open) * weights[i]
                \in 1 - SumOver(weights, open) .. SumOver(weights, open) - 1

\* What every round finds: the active can take the rest, and the others would
\* get the capacity or more if they shared in it.
Fair(excess, weights, I, capacity, active) ==
    /\ Rest(excess, I, capacity, active) >= 0
    /\ Rest(excess, I, capacity, active) <= capacity * Cardinality(active)
    /\ \A j \in I \ active : Rest(excess, I, capacity, active) * weights[j]
                               >= capacity * SumOver(weights, active)

Indexed(I, weights) ==
    IsFiniteSet(I) /\ I \subseteq Int /\ \A i \in I : weights[i] \in Nat /\ weights[i] > 0

LEMMA WeightsAddUp ==
    ASSUME NEW I, NEW weights, Indexed(I, weights), NEW active \in SUBSET I
    PROVE  /\ IsFiniteSet(active) /\ IsFiniteSet(I \ active)
           /\ Cardinality(active) \in Nat /\ Cardinality(I \ active) \in Nat
           /\ SumOver(weights, active) \in Nat
           /\ active # {} => SumOver(weights, active) > 0 /\ Cardinality(active) > 0
<1>1. IsFiniteSet(active) /\ IsFiniteSet(I \ active)
  BY FS_Subset DEF Indexed
<1>2. Cardinality(active) \in Nat /\ Cardinality(I \ active) \in Nat
  BY <1>1, FS_CardinalityType
<1>3. active # {} => Cardinality(active) > 0
  BY <1>1, <1>2, FS_EmptySet
<1>4. SumOver(weights, active) \in Int /\ SumOver(weights, active) >= 1 * Cardinality(active)
  <2>1. 1 \in Int /\ \A i \in active : weights[i] \in Int /\ weights[i] >= 1
    BY DEF Indexed
  <2> QED
    BY <1>1, <2>1, SumAtLeast, SumType, Zenon
<1> QED
  BY <1>1, <1>2, <1>3, <1>4

\* When those that are not active have the capacity and the active what is left,
\* the words add up.
LEMMA RestAddsUp ==
    ASSUME NEW I, NEW weights, Indexed(I, weights), NEW active \in SUBSET I,
           NEW excess \in Int, NEW capacity \in Nat, NEW r,
           \A i \in I : r[i] \in Int, \A i \in I \ active : r[i] = capacity,
           SumOver(r, active) = Rest(excess, I, capacity, active)
    PROVE  SumOver(r, I) = excess
<1>1. /\ IsFiniteSet(I) /\ IsFiniteSet(active) /\ IsFiniteSet(I \ active)
      /\ Cardinality(I \ active) \in Nat
  BY WeightsAddUp DEF Indexed
<1>2. SumOver(r, I) = SumOver(r, active) + SumOver(r, I \ active)
  BY <1>1, SumSplit
<1>3. /\ SumOver(r, I \ active) \in Int
      /\ SumOver(r, I \ active) >= capacity * Cardinality(I \ active)
      /\ SumOver(r, I \ active) <= capacity * Cardinality(I \ active)
  <2>1. \A i \in I \ active : r[i] \in Int /\ r[i] >= capacity /\ r[i] <= capacity
    OBVIOUS
  <2>2. capacity \in Int
    OBVIOUS
  <2> QED
    BY <1>1, <2>1, <2>2, SumAtLeast, SumAtMost, SumType, Zenon
<1>4. capacity * Cardinality(I \ active) \in Int
  BY <1>1
<1> QED
  BY <1>2, <1>3, <1>4 DEF Rest

\* A round that leaves nothing ends exact.
LEMMA NothingLeft ==
    ASSUME NEW I, NEW weights, Indexed(I, weights), NEW active \in SUBSET I,
           NEW excess \in Int, NEW capacity \in Nat,
           Fair(excess, weights, I, capacity, active),
           Rest(excess, I, capacity, active) = 0
    PROVE  Exact(excess, weights, I, capacity, [i \in I |-> IF i \in active THEN 0 ELSE capacity])
<1> DEFINE r == [i \in I |-> IF i \in active THEN 0 ELSE capacity]
           weight == SumOver(weights, active)
<1>1. /\ IsFiniteSet(active) /\ Cardinality(active) \in Nat /\ weight \in Nat
      /\ active # {} => weight > 0
  BY WeightsAddUp
<1>2. \A i \in I : r[i] \in 0 .. capacity /\ r[i] = IF i \in active THEN 0 ELSE capacity
  OBVIOUS
<1> HIDE DEF r
<1>3. SumOver(r, active) = 0
  <2>1. \A i \in active : r[i] \in Int /\ r[i] >= 0 /\ r[i] <= 0
    BY <1>2
  <2>2. 0 \in Int
    OBVIOUS
  <2>3. /\ SumOver(r, active) \in Int
        /\ SumOver(r, active) >= 0 * Cardinality(active)
        /\ SumOver(r, active) <= 0 * Cardinality(active)
    BY <1>1, <2>1, <2>2, SumAtLeast, SumAtMost, SumType, Zenon
  <2> QED
    BY <1>1, <2>3
<1>4. SumOver(r, I) = excess
  <2>1. \A i \in I : r[i] \in Int
    BY <1>2
  <2>2. \A i \in I \ active : r[i] = capacity
    BY <1>2
  <2> QED
    BY <1>3, <2>1, <2>2, RestAddsUp
<1>5. \A j \in I \ active : capacity * weight <= 0
  <2> SUFFICES ASSUME NEW j \in I \ active PROVE capacity * weight <= 0
    OBVIOUS
  <2>1. 0 * weights[j] >= capacity * weight
    BY DEF Fair
  <2>2. weights[j] \in Nat /\ capacity * weight \in Int
    BY <1>1 DEF Indexed
  <2> HIDE DEF weight
  <2> QED
    BY <2>1, <2>2
<1>6. \A i, j \in I : weights[i] > weights[j] => r[i] >= r[j]
  <2> SUFFICES ASSUME NEW i \in I, NEW j \in I, r[i] < r[j] PROVE FALSE
    <3>1. \A i \in I : r[i] \in Int
      BY <1>2
    <3> QED
      BY <3>1
  <2>1. i \in active /\ j \in I \ active /\ capacity > 0
    BY <1>2
  <2>2. weight > 0 /\ capacity * weight <= 0
    BY <1>1, <1>5, <2>1
  <2> HIDE DEF weight
  <2>3. capacity * 0 < capacity * weight
    BY <1>1, <2>1, <2>2, FactorsCompare
  <2> QED
    BY <1>1, <2>2, <2>3
<1>7. \A i \in I \ active : r[i] = capacity /\ SumOver(r, active) * weights[i] >= r[i] * weight
  <2> SUFFICES ASSUME NEW i \in I \ active
               PROVE  r[i] = capacity /\ SumOver(r, active) * weights[i] >= r[i] * weight
    OBVIOUS
  <2>1. r[i] = capacity /\ capacity * weight <= 0 /\ weights[i] \in Nat
    BY <1>2, <1>5 DEF Indexed
  <2>2. capacity * weight \in Int
    BY <1>1
  <2> HIDE DEF weight
  <2> QED
    BY <1>3, <2>1, <2>2
<1>8. \A i \in active :
        r[i] * weight - SumOver(r, active) * weights[i] \in 1 - weight .. weight - 1
  <2> SUFFICES ASSUME NEW i \in active
               PROVE  r[i] * weight - SumOver(r, active) * weights[i] \in 1 - weight .. weight - 1
    OBVIOUS
  <2>1. r[i] = 0 /\ weight > 0 /\ weights[i] \in Nat
    BY <1>1, <1>2 DEF Indexed
  <2> HIDE DEF weight
  <2> QED
    BY <1>1, <1>3, <2>1
<1>9. Exact(excess, weights, I, capacity, r)
  BY <1>2, <1>4, <1>6, <1>7, <1>8 DEF Exact
<1> QED
  BY <1>9 DEF r

\* So does one in which nobody is saturated.
LEMMA NobodySaturated ==
    ASSUME NEW I, NEW weights, Indexed(I, weights), NEW active \in SUBSET I, active # {},
           NEW excess \in Int, NEW capacity \in Nat,
           Fair(excess, weights, I, capacity, active),
           Rest(excess, I, capacity, active) # 0,
           Saturated(excess, weights, I, capacity, active) = {}
    PROVE  Exact(excess, weights, I, capacity,
                 [i \in I |-> IF i \in active
                              THEN ByRemainder(Rest(excess, I, capacity, active),
                                               weights, active)[i]
                              ELSE capacity])
<1> DEFINE rest == Rest(excess, I, capacity, active)
           shares == ByRemainder(rest, weights, active)
           r == [i \in I |-> IF i \in active THEN shares[i] ELSE capacity]
           weight == SumOver(weights, active)
<1>1. /\ IsFiniteSet(active) /\ Cardinality(active) \in Nat /\ weight \in Nat
      /\ weight > 0 /\ Cardinality(I \ active) \in Nat
  BY WeightsAddUp
<1>2. rest \in Nat /\ rest > 0
  <2>1. capacity * Cardinality(I \ active) \in Int
    BY <1>1
  <2>2. rest \in Int
    BY <2>1 DEF Rest
  <2> QED
    BY <2>2 DEF Fair
<1>3. \A i \in active : rest * weights[i] < capacity * weight
  <2> SUFFICES ASSUME NEW i \in active PROVE rest * weights[i] < capacity * weight
    OBVIOUS
  <2>1. ~(rest * weights[i] >= capacity * weight)
    BY DEF Saturated
  <2>2. rest * weights[i] \in Int /\ capacity * weight \in Int
    BY <1>1, <1>2 DEF Indexed
  <2> HIDE DEF rest, weight
  <2> QED
    BY <2>1, <2>2
<1>4. /\ \A i \in active : /\ shares[i] \in 0 .. capacity
                           /\ shares[i] * weight - rest * weights[i]
                                \in 1 - weight .. weight - 1
      /\ SumOver(shares, active) = rest
      /\ \A i, j \in active : weights[i] > weights[j] => shares[i] >= shares[j]
  <2>1. active \subseteq Int /\ \A i \in active : weights[i] \in Nat /\ weights[i] > 0
    BY DEF Indexed
  <2> HIDE DEF rest
  <2> QED
    BY <1>1, <1>2, <1>3, <2>1, RemaindersAreShared
<1> HIDE DEF shares
<1>5. \A i \in I : /\ r[i] \in 0 .. capacity
                   /\ i \in active => r[i] = shares[i]
                   /\ i \notin active => r[i] = capacity
  BY <1>4
<1> HIDE DEF r
<1>6. SumOver(r, active) = rest
  <2>1. \A i \in active : r[i] \in Int /\ r[i] = shares[i]
    BY <1>5
  <2>2. SumOver(r, active) = SumOver(shares, active)
    BY <1>1, <2>1, SumSame
  <2> QED
    BY <1>4, <2>2
<1>7. SumOver(r, I) = excess
  <2>1. \A i \in I : r[i] \in Int
    BY <1>5
  <2>2. \A i \in I \ active : r[i] = capacity
    BY <1>5
  <2> QED
    BY <1>6, <2>1, <2>2, RestAddsUp
<1>8. \A j \in I \ active : rest * weights[j] >= capacity * weight
  BY DEF Fair
<1> HIDE DEF rest, weight
<1>9. \A i, j \in I : weights[i] > weights[j] => r[i] >= r[j]
  <2> SUFFICES ASSUME NEW i \in I, NEW j \in I, weights[i] > weights[j] PROVE r[i] >= r[j]
    OBVIOUS
  <2>1. CASE i \notin active
    BY <1>5, <2>1
  <2>2. CASE i \in active /\ j \in active
    BY <1>4, <1>5, <2>2
  <2>3. ASSUME i \in active, j \notin active PROVE FALSE
    <3>1. rest * weights[i] < capacity * weight /\ rest * weights[j] >= capacity * weight
      BY <1>3, <1>8, <2>3
    <3>2. weights[i] \in Int /\ weights[j] \in Int
      BY DEF Indexed
    <3>3. rest * weights[j] < rest * weights[i]
      BY <1>2, <3>2, FactorsCompare
    <3>4. /\ rest * weights[i] \in Int /\ rest * weights[j] \in Int
          /\ capacity * weight \in Int
      BY <1>1, <1>2, <3>2
    <3> QED
      BY <3>1, <3>3, <3>4
  <2> QED
    BY <2>1, <2>2, <2>3
<1>10. \A i \in I \ active : r[i] = capacity /\ SumOver(r, active) * weights[i] >= r[i] * weight
  BY <1>5, <1>6, <1>8
<1>11. \A i \in active :
         r[i] * weight - SumOver(r, active) * weights[i] \in 1 - weight .. weight - 1
  BY <1>4, <1>5, <1>6
<1>12. Exact(excess, weights, I, capacity, r)
  BY <1>5, <1>7, <1>9, <1>10, <1>11 DEF Exact, weight
<1> QED
  BY <1>12 DEF r, shares, rest

\* Whoever is saturated gets the capacity, and the next round is fair again.
LEMMA RoundsStayFair ==
    ASSUME NEW I, NEW weights, Indexed(I, weights), NEW active \in SUBSET I, active # {},
           NEW excess \in Int, NEW capacity \in Nat,
           Fair(excess, weights, I, capacity, active)
    PROVE  Fair(excess, weights, I, capacity,
                active \ Saturated(excess, weights, I, capacity, active))
<1> DEFINE full == Saturated(excess, weights, I, capacity, active)
           others == active \ full
           rest == Rest(excess, I, capacity, active)
           less == Rest(excess, I, capacity, others)
           weight == SumOver(weights, active)
           light == SumOver(weights, others)
           heavy == SumOver(weights, full)
           m == Cardinality(full)
<1>1. full \in SUBSET active /\ others \in SUBSET I /\ full \in SUBSET I
  BY DEF Saturated
<1>2. \A i \in full : rest * weights[i] >= capacity * weight
  BY DEF Saturated
<1> HIDE DEF full
<1>3. /\ weight \in Nat /\ weight > 0 /\ light \in Nat /\ heavy \in Nat
      /\ m \in Nat /\ Cardinality(others) \in Nat /\ Cardinality(active) \in Nat
      /\ Cardinality(I \ active) \in Nat /\ Cardinality(I \ others) \in Nat
      /\ IsFiniteSet(full) /\ IsFiniteSet(active) /\ IsFiniteSet(I)
  <2> HIDE DEF others
  <2> QED
    BY <1>1, WeightsAddUp DEF Indexed
<1>4. weight = heavy + light
  <2>1. \A i \in active : weights[i] \in Int
    BY DEF Indexed
  <2> QED
    BY <1>1, <1>3, <2>1, SumSplit
<1>5. /\ Cardinality(others) = Cardinality(active) - m
      /\ Cardinality(I \ others) = Cardinality(I \ active) + m
  <2>1. Cardinality(others) = Cardinality(active) - m
    <3>1. active \cap full = full
      BY <1>1
    <3> QED
      BY <1>3, <3>1, FS_Difference
  <2>2. Cardinality(I \ others) = Cardinality(I) - Cardinality(others)
    <3>1. I \cap others = others
      BY <1>1
    <3> HIDE DEF others
    <3> QED
      BY <1>3, <3>1, FS_Difference
  <2>3. Cardinality(I \ active) = Cardinality(I) - Cardinality(active)
    <3>1. I \cap active = active
      OBVIOUS
    <3> QED
      BY <1>3, <3>1, FS_Difference
  <2>4. Cardinality(I) \in Nat
    BY <1>3, FS_CardinalityType
  <2> QED
    BY <1>3, <2>1, <2>2, <2>3, <2>4
<1>6. /\ rest \in Nat /\ less = rest - capacity * m
      /\ rest <= capacity * Cardinality(active)
      /\ \A j \in I \ active : rest * weights[j] >= capacity * weight
  <2>1. /\ capacity * Cardinality(I \ others) = capacity * Cardinality(I \ active) + capacity * m
        /\ capacity * Cardinality(I \ active) \in Int /\ capacity * m \in Int
    BY <1>3, <1>5
  <2>2. rest \in Int /\ less = rest - capacity * m
    <3> DEFINE a == capacity * Cardinality(I \ active)
               b == capacity * m
    <3>1. rest = excess - a /\ less = excess - (a + b) /\ a \in Int /\ b \in Int
      BY <2>1 DEF Rest
    <3> HIDE DEF a, b, rest, less
    <3>2. rest \in Int /\ less = rest - b
      BY <3>1
    <3> QED
      BY <3>2 DEF b
  <2>3. /\ rest >= 0 /\ rest <= capacity * Cardinality(active)
        /\ \A j \in I \ active : rest * weights[j] >= capacity * weight
    BY Zenon DEF Fair
  <2> HIDE DEF rest, less, weight
  <2> QED
    BY <2>2, <2>3
<1>7. capacity * m \in Nat /\ less \in Int
  BY <1>3, <1>6
<1> HIDE DEF others, rest, less, light, weight, heavy, m
\* The saturated would have had no less than they get.
<1>8. rest * heavy >= (capacity * weight) * m
  <2> DEFINE share == [i \in full |-> rest * weights[i]]
  <2>1. /\ capacity * weight \in Int
        /\ \A i \in full : share[i] \in Int /\ share[i] >= capacity * weight
    <3>1. capacity * weight \in Int
      BY <1>3
    <3>2. \A i \in full : rest * weights[i] \in Int
      BY <1>1, <1>6 DEF Indexed
    <3> QED
      BY <1>2, <3>1, <3>2
  <2>2. Combines(full, rest, weights, 0, weights, share)
    <3>1. \A i \in full : weights[i] \in Int
      BY <1>1 DEF Indexed
    <3> QED
      BY <1>6, <3>1 DEF Combines
  <2> HIDE DEF share
  <2>3. SumOver(share, full) >= (capacity * weight) * m
    BY <1>3, <2>1, SumAtLeast, Zenon DEF m
  <2>4. SumOver(share, full) = rest * heavy + 0 * heavy
    BY <1>3, <1>6, <2>2, SumLinear DEF heavy
  <2> QED
    BY <1>3, <1>6, <2>3, <2>4
<1>9. weight * less >= rest * light
  <2>1. weight * less = weight * rest - (capacity * weight) * m
    BY <1>3, <1>6
  <2>2. weight * rest = rest * heavy + rest * light
    BY <1>3, <1>4, <1>6
  <2>3. /\ weight * rest \in Int /\ (capacity * weight) * m \in Int
        /\ rest * heavy \in Int /\ rest * light \in Int
    BY <1>3, <1>6
  <2> QED
    BY <1>8, <2>1, <2>2, <2>3
<1>10. rest * light \in Nat /\ weight * less \in Int
  BY <1>3, <1>6, <1>7
<1>11. less >= 0
  <2>1. weight * 0 <= weight * less
    BY <1>3, <1>9, <1>10
  <2> QED
    BY <1>3, <1>7, <2>1, FactorsCompare
<1>12. less <= capacity * Cardinality(others)
  <2>1. /\ capacity * Cardinality(others) = capacity * Cardinality(active) - capacity * m
        /\ capacity * Cardinality(active) \in Int
    BY <1>3, <1>5
  <2> QED
    BY <1>6, <1>7, <2>1
<1>13. \A j \in I \ others : less * weights[j] >= capacity * light
  <2> SUFFICES ASSUME NEW j \in I \ others PROVE less * weights[j] >= capacity * light
    OBVIOUS
  <2>1. rest * weights[j] >= capacity * weight
    BY <1>2, <1>6 DEF others
  <2>2. weights[j] \in Nat /\ weights[j] > 0
    BY DEF Indexed
  <2> DEFINE u == weights[j]
  <2> HIDE DEF u
  <2>3. (weight * less) * u >= (rest * light) * u
    <3>1. u \in Int /\ u > 0
      BY <2>2 DEF u
    <3>2. u * (rest * light) <= u * (weight * less)
      BY <1>9, <1>10, <3>1, FactorsCompare
    <3>3. /\ (weight * less) * u = u * (weight * less)
          /\ (rest * light) * u = u * (rest * light)
      BY <1>10, <3>1
    <3> QED
      BY <3>2, <3>3
  <2>4. light * (rest * u) >= light * (capacity * weight)
    <3>1. rest * u \in Int /\ capacity * weight \in Int /\ rest * u >= capacity * weight
      BY <1>3, <1>6, <2>1, <2>2 DEF u
    <3>2. CASE light = 0
      BY <3>1, <3>2
    <3>3. CASE light > 0
      BY <1>3, <3>1, <3>3, FactorsCompare
    <3> QED
      BY <1>3, <3>2, <3>3
  <2>5. /\ (rest * light) * u = light * (rest * u)
        /\ light * (capacity * weight) = weight * (capacity * light)
        /\ (weight * less) * u = weight * (less * u)
        /\ less * u \in Int /\ capacity * light \in Int
        /\ weight * (less * u) \in Int /\ weight * (capacity * light) \in Int
        /\ light * (rest * u) \in Int
    BY <1>3, <1>6, <1>7, <2>2 DEF u
  <2>6. weight * (capacity * light) <= weight * (less * u)
    BY <2>3, <2>4, <2>5
  <2> QED
    BY <1>3, <2>5, <2>6, FactorsCompare DEF u
<1> QED
  BY <1>11, <1>12, <1>13 DEF Fair, full, others, less, light

\* The allocation is exact, for any weights.
LEMMA AllocateExcessIsExact ==
    ASSUME NEW weights, Indexed(DOMAIN weights, weights), NEW excess \in Nat, NEW capacity \in Nat,
           excess <= capacity * Cardinality(DOMAIN weights)
    PROVE  Exact(excess, weights, DOMAIN weights, capacity,
                 AllocateExcess(excess, weights, capacity))
<1> DEFINE I == DOMAIN weights
<1>1. PICK g : /\ Filling(excess, weights, I, capacity, g)
               /\ AllocateExcess(excess, weights, capacity) = g[I]
  BY AllocatedByFilling DEF Indexed
<1> HIDE DEF I
<1> DEFINE F == {active \in SUBSET I : /\ Fair(excess, weights, I, capacity, active)
                                       /\ ~Exact(excess, weights, I, capacity, g[active])}
<1>2. Fair(excess, weights, I, capacity, I)
  <2>1. Cardinality(I \ I) = 0 /\ capacity * Cardinality(I \ I) = 0
    <3>1. I \ I = {}
      OBVIOUS
    <3> QED
      BY <3>1, FS_EmptySet
  <2> QED
    BY <2>1 DEF Fair, Rest, I
<1>3. F = {}
  <2> SUFFICES ASSUME F # {} PROVE FALSE
    OBVIOUS
  <2>1. PICK active \in F : \A a \in F : a \subseteq active => a = active
    <3>1. F \subseteq SUBSET I /\ IsFiniteSet(I)
      BY DEF Indexed, I
    <3> HIDE DEF F
    <3> QED
      BY <3>1, LeastSubset
  <2>2. /\ active \in SUBSET I /\ Fair(excess, weights, I, capacity, active)
        /\ ~Exact(excess, weights, I, capacity, g[active])
        /\ Indexed(I, weights)
    BY <2>1 DEF I
  <2> DEFINE rest == Rest(excess, I, capacity, active)
             full == Saturated(excess, weights, I, capacity, active)
  <2>3. g[active] = IF active = {} \/ rest = 0 \/ full = {}
                    THEN LastRound(excess, weights, I, capacity, active)
                    ELSE g[active \ full]
    BY <1>1, <2>2 DEF Filling
  <2> HIDE DEF full, F
  <2>4. CASE rest = 0
    <3>1. g[active] = [i \in I |-> IF i \in active THEN 0 ELSE capacity]
      BY <2>3, <2>4 DEF LastRound
    <3> QED
      BY <2>2, <2>4, <3>1, NothingLeft
  <2>5. CASE active = {}
    <3>1. rest >= 0 /\ rest <= capacity * 0
      BY <2>2, <2>5, FS_EmptySet DEF Fair
    <3>2. Cardinality(I \ active) \in Nat
      BY <2>2, WeightsAddUp
    <3>3. capacity * Cardinality(I \ active) \in Int
      BY <3>2
    <3>4. rest = 0
      BY <3>1, <3>3 DEF Rest
    <3> QED
      BY <2>4, <3>4
  <2>6. CASE active # {} /\ rest # 0 /\ full = {}
    <3>1. g[active] = [i \in I |-> IF i \in active
                                   THEN ByRemainder(rest, weights, active)[i] ELSE capacity]
      BY <2>3, <2>6 DEF LastRound
    <3> QED
      BY <2>2, <2>6, <3>1, NobodySaturated DEF full
  <2>7. CASE active # {} /\ rest # 0 /\ full # {}
    <3>1. g[active] = g[active \ full]
      BY <2>3, <2>7
    <3>2. Fair(excess, weights, I, capacity, active \ full)
      BY <2>2, <2>7, RoundsStayFair DEF full
    <3>3. active \ full # active
      BY <2>7 DEF full, Saturated
    <3>4. active \ full \in F
      BY <2>2, <3>1, <3>2 DEF F
    <3> QED
      BY <2>1, <3>3, <3>4
  <2> QED
    BY <2>4, <2>5, <2>6, <2>7
<1>4. Exact(excess, weights, I, capacity, g[I])
  BY <1>2, <1>3
<1> QED
  BY <1>1, <1>4 DEF I

\* So are the targets of some chapters whose words can be allocated.
LEMMA TargetsAreExact ==
    ASSUME NEW weights, Indexed(DOMAIN weights, weights), NEW words \in Int,
           Allocatable(words, Cardinality(DOMAIN weights))
    PROVE  LET I == DOMAIN weights
               more == [i \in I |-> Targets(words, weights)[i] - MinWords]
           IN  /\ SumOver(Targets(words, weights), I) = words
               /\ \A i \in I : Targets(words, weights)[i] \in MinWords .. MaxWords
               /\ Exact(words - Cardinality(I) * MinWords, weights, I, MaxWords - MinWords, more)
<1> DEFINE I == DOMAIN weights
           n == Cardinality(I)
           capacity == MaxWords - MinWords
           excess == words - n * MinWords
           r == AllocateExcess(excess, weights, capacity)
           targets == [i \in I |-> MinWords + r[i]]
           more == [i \in I |-> targets[i] - MinWords]
<1>1. targets = Targets(words, weights)
  BY DEF Targets
<1>2. n \in Nat /\ IsFiniteSet(I)
  BY FS_CardinalityType DEF Indexed
<1>3. capacity \in Nat /\ MinWords \in Nat /\ MaxWords \in Nat
  BY PlanAssumption
<1>4. excess \in Nat /\ excess <= capacity * n
  <2>1. words >= n * MinWords /\ words <= n * MaxWords
    BY <1>2, <1>3 DEF Allocatable
  <2> HIDE DEF n
  <2>2. /\ n * MinWords \in Int /\ n * MaxWords \in Int
        /\ capacity * n = n * MaxWords - n * MinWords
    BY <1>2, <1>3
  <2> HIDE DEF capacity
  <2> QED
    BY <2>1, <2>2
<1>5. Exact(excess, weights, I, capacity, r)
  <2> HIDE DEF excess, capacity
  <2> QED
    BY <1>3, <1>4, AllocateExcessIsExact
<1> HIDE DEF r, excess, capacity
<1>6. \A i \in I : r[i] \in 0 .. capacity /\ r[i] \in Int
  BY <1>3, <1>5 DEF Exact
<1>7. \A i \in I : /\ targets[i] = MinWords + r[i] /\ targets[i] \in MinWords .. MaxWords
                   /\ more[i] = r[i]
  BY <1>3, <1>6 DEF capacity
<1>8. \A open \in SUBSET I : SumOver(more, open) = SumOver(r, open)
  <2> SUFFICES ASSUME NEW open \in SUBSET I PROVE SumOver(more, open) = SumOver(r, open)
    OBVIOUS
  <2>1. IsFiniteSet(open) /\ \A i \in open : more[i] \in Int /\ more[i] = r[i]
    BY <1>2, <1>6, <1>7, FS_Subset
  <2> HIDE DEF more
  <2> QED
    BY <2>1, SumSame
<1> HIDE DEF more, targets, I
<1>9. Exact(excess, weights, I, capacity, more)
  <2>1. SumOver(more, I) = excess
    BY <1>5, <1>8 DEF Exact
  <2>2. \A i \in I : more[i] \in 0 .. capacity
    BY <1>6, <1>7
  <2>3. \A i, j \in I : weights[i] > weights[j] => more[i] >= more[j]
    BY <1>5, <1>7 DEF Exact
  <2>4. \E open \in SUBSET I :
         /\ \A i \in I \ open :
              /\ more[i] = capacity
              /\ SumOver(more, open) * weights[i] >= more[i] * SumOver(weights, open)
         /\ \A i \in open :
              more[i] * SumOver(weights, open) - SumOver(more, open) * weights[i]
                \in 1 - SumOver(weights, open) .. SumOver(weights, open) - 1
    <3>1. PICK open \in SUBSET I :
         /\ \A i \in I \ open :
              /\ r[i] = capacity
              /\ SumOver(r, open) * weights[i] >= r[i] * SumOver(weights, open)
         /\ \A i \in open :
              r[i] * SumOver(weights, open) - SumOver(r, open) * weights[i]
                \in 1 - SumOver(weights, open) .. SumOver(weights, open) - 1
      BY <1>5 DEF Exact
    <3> WITNESS open \in SUBSET I
    <3>2. SumOver(more, open) = SumOver(r, open)
      BY <1>8
    <3> QED
      BY <1>7, <3>1, <3>2
  <2> QED
    BY <2>1, <2>2, <2>3, <2>4 DEF Exact
<1>10. SumOver(targets, I) = words
  <2> DEFINE ones == [i \in I |-> 1]
  <2>1. Combines(I, 1, r, MinWords, ones, targets)
    BY <1>3, <1>6, <1>7 DEF Combines
  <2>2. \A i \in I : ones[i] \in Int /\ ones[i] >= 1 /\ ones[i] <= 1
    OBVIOUS
  <2> HIDE DEF ones
  <2>3. SumOver(targets, I) = 1 * SumOver(r, I) + MinWords * SumOver(ones, I)
    BY <1>2, <1>3, <2>1, SumLinear
  <2>4. /\ SumOver(ones, I) \in Int /\ SumOver(ones, I) >= 1 * n /\ SumOver(ones, I) <= 1 * n
    <3>1. 1 \in Int
      OBVIOUS
    <3> QED
      BY <1>2, <2>2, <3>1, SumAtLeast, SumAtMost, SumType, Zenon
  <2>5. SumOver(r, I) = excess
    BY <1>5 DEF Exact
  <2> HIDE DEF n
  <2>6. SumOver(ones, I) = n /\ MinWords * n \in Int /\ MinWords * n = n * MinWords
    BY <1>2, <1>3, <2>4
  <2> QED
    BY <2>3, <2>5, <2>6 DEF excess
<1>11. /\ SumOver(targets, I) = words
       /\ \A i \in I : targets[i] \in MinWords .. MaxWords
       /\ Exact(words - Cardinality(I) * MinWords, weights, I, MaxWords - MinWords, more)
  BY <1>7, <1>9, <1>10 DEF excess, capacity, n
<1> QED
  BY <1>1, <1>11 DEF I, more

LEMMA AllocationExact == AllocationIsExact
<1> SUFFICES ASSUME NEW n \in Sizes, NEW count \in 1 .. n,
                    NEW weights \in [1 .. count -> Weights \union {w + 1 : w \in Weights}],
                    NEW words \in count * MinWords .. count * MaxWords
             PROVE  LET all == 1 .. count
                        targets == Targets(words, weights)
                        more == [i \in all |-> targets[i] - MinWords]
                    IN  /\ SumOver(targets, all) = words
                        /\ \A i \in all : targets[i] \in MinWords .. MaxWords
                        /\ \A i, j \in all : weights[i] > weights[j] => targets[i] >= targets[j]
                        /\ \E open \in SUBSET all :
                             LET weight == SumOver(weights, open)
                                 shared == SumOver(more, open)
                             IN  /\ \A i \in all \ open :
                                      /\ targets[i] = MaxWords
                                      /\ shared * weights[i] >= more[i] * weight
                                 /\ \A i \in open : more[i] * weight - shared * weights[i]
                                                      \in 1 - weight .. weight - 1
  BY Zenon DEF AllocationIsExact
<1> DEFINE all == 1 .. count
           targets == Targets(words, weights)
           more == [i \in all |-> targets[i] - MinWords]
<1>1. /\ n \in Nat /\ count \in Nat /\ DOMAIN weights = all
      /\ MinWords \in Nat /\ MaxWords \in Nat /\ Weights \subseteq Nat \ {0}
  BY PlanAssumption
<1>2. Indexed(all, weights) /\ Cardinality(all) = count
  <2>1. IsFiniteSet(all) /\ Cardinality(all) = count /\ all \subseteq Int
    BY <1>1, FS_Interval
  <2>2. \A i \in all : weights[i] \in Nat /\ weights[i] > 0
    <3> SUFFICES ASSUME NEW i \in all PROVE weights[i] \in Nat /\ weights[i] > 0
      OBVIOUS
    <3>1. weights[i] \in Weights \/ \E w \in Weights : weights[i] = w + 1
      OBVIOUS
    <3>2. \A w \in Weights : w \in Nat /\ w > 0
      BY PlanAssumption
    <3>3. CASE weights[i] \in Weights
      BY <3>2, <3>3
    <3>4. CASE \E w \in Weights : weights[i] = w + 1
      <4>1. PICK w \in Weights : weights[i] = w + 1
        BY <3>4
      <4>2. w \in Nat
        BY <3>2
      <4> QED
        BY <4>1, <4>2
    <3> QED
      BY <3>1, <3>3, <3>4
  <2> QED
    BY <2>1, <2>2 DEF Indexed
<1>3. words \in Int /\ Allocatable(words, Cardinality(all))
  <2>1. count * MinWords \in Int /\ count * MaxWords \in Int
    BY <1>1
  <2> QED
    BY <1>2, <2>1 DEF Allocatable
<1>4. /\ SumOver(targets, all) = words
      /\ \A i \in all : targets[i] \in MinWords .. MaxWords
      /\ Exact(words - Cardinality(all) * MinWords, weights, all, MaxWords - MinWords, more)
  <2> HIDE DEF all
  <2> QED
    BY <1>1, <1>2, <1>3, TargetsAreExact
<1>5. \A i \in all : more[i] = targets[i] - MinWords
  OBVIOUS
<1> HIDE DEF targets, all, more
<1>6. \A i, j \in all : weights[i] > weights[j] => targets[i] >= targets[j]
  BY <1>1, <1>4, <1>5 DEF Exact
<1>7. PICK open \in SUBSET all :
         /\ \A i \in all \ open :
              /\ more[i] = MaxWords - MinWords
              /\ SumOver(more, open) * weights[i] >= more[i] * SumOver(weights, open)
         /\ \A i \in open :
              more[i] * SumOver(weights, open) - SumOver(more, open) * weights[i]
                \in 1 - SumOver(weights, open) .. SumOver(weights, open) - 1
  BY <1>4 DEF Exact
<1>8. \A i \in all \ open : targets[i] = MaxWords
  BY <1>1, <1>4, <1>5, <1>7
<1> QED
  BY <1>4, <1>6, <1>7, <1>8, Zenon DEF targets, all, more

-----------------------------------------------------------------------------
(* The shape of a plan *)

Fields == {"volume", "words", "detailed", "made", "refs"}

\* The shape of a plan: no plan has no chapters, and a plan has a slot with all
\* its fields for every chapter.
PlanShape ==
    /\ plan = [version |-> plan.version, scale |-> plan.scale,
               blueprint |-> plan.blueprint, slots |-> plan.slots]
    /\ plan.version \in 0 .. MaxVersion
    /\ plan.scale.chapters \in Nat
    /\ ~Exists => plan.scale.chapters = 0
    /\ DOMAIN plan.slots = Chapters(plan)
    /\ \A c \in Chapters(plan) : DOMAIN plan.slots[c] = Fields

PlanInv == completed \in Nat /\ PlanShape /\ TypeOK /\ LockIsKept

USE DEF Exists, Chapters

-----------------------------------------------------------------------------
(* A plan that is built *)

LEMMA ScalesHaveChapters == \A scale \in Scales : scale.chapters \in Nat \ {0}
<1> SUFFICES ASSUME NEW scale \in Scales PROVE scale.chapters \in Nat \ {0}
  OBVIOUS
<1>1. PICK n \in Sizes, average \in Averages :
        scale = [chapters |-> n, words |-> n * average]
  BY DEF Scales
<1>2. scale.chapters = n
  BY <1>1
<1> QED
  BY <1>2, PlanAssumption

LEMMA AnOutcome ==
    ASSUME NEW p, NEW raw, NEW preserve
    PROVE  /\ Outcome(p, raw, preserve) \in Outcomes
           /\ Outcome(p, raw, preserve) = "valid" => IsValid(p) /\ KeepsTheLock(p)
           /\ Outcome(p, raw, preserve) = "touches the lock" => ~KeepsTheLock(p)
BY DEF Outcome, Verdict, IsValid, Outcomes

LEMMA SlotsAsMaterialized ==
    ASSUME NEW scale, NEW raw, NEW preserve, NEW c \in 1 .. scale.chapters
    PROVE  /\ DOMAIN Materialized(scale, raw, preserve) = 1 .. scale.chapters
           /\ IsLocked(c) => Materialized(scale, raw, preserve)[c] = plan.slots[c]
           /\ ~IsLocked(c) => DOMAIN Materialized(scale, raw, preserve)[c] = Fields
BY DEF Materialized, Fields

\* The slots of the lock are in the plan that is built as they were, as long as
\* it has chapters for them.
LEMMA TheLockIsTakenOver ==
    ASSUME NEW scale, NEW raw, NEW preserve, NEW candidate, PlanShape, completed \in Nat,
           scale.chapters \in Nat,
           scale.chapters >= plan.scale.chapters \/ scale.chapters >= completed + LockWindow,
           candidate.slots = Materialized(scale, raw, preserve), candidate.scale = scale
    PROVE  KeepsTheLock(candidate)
<1> SUFFICES ASSUME NEW c \in Chapters(plan), c <= completed + LockWindow
             PROVE  c \in Chapters(candidate) /\ candidate.slots[c] = plan.slots[c]
  BY DEF KeepsTheLock
<1>1. c \in 1 .. scale.chapters
  BY PlanAssumption DEF PlanShape
<1>2. IsLocked(c)
  BY DEF IsLocked, LockedThrough
<1> QED
  BY <1>1, <1>2, SlotsAsMaterialized

-----------------------------------------------------------------------------
(* The invariant is kept *)

\* A generation that passes is typed, and none touches the lock.
LEMMA BuildKeeps ==
    ASSUME PlanInv, NEW kind \in Kinds, NEW scale \in Scales,
           NEW blueprint \in AnyBlueprint(scale.chapters), NEW raw, NEW preserve,
           completed <= scale.chapters,
           scale.chapters >= plan.scale.chapters \/ scale.chapters >= completed + LockWindow,
           Build(kind, scale, blueprint, raw, preserve)
    PROVE  PlanInv'
<1> DEFINE slots == Materialized(scale, raw, preserve)
           candidate == [version |-> plan.version + 1, scale |-> scale,
                         blueprint |-> blueprint, slots |-> slots]
           outcome == Outcome(candidate, raw, preserve)
<1>1. /\ plan.version < MaxVersion
      /\ build' = [kind |-> kind, chapter |-> completed + 1,
                   fits |-> FitsTheLock(blueprint), outcome |-> outcome]
      /\ plan' = IF outcome = "valid" THEN candidate ELSE plan
      /\ completed' = completed
  BY DEF Build
<1>2. scale.chapters \in Nat \ {0}
  BY ScalesHaveChapters
<1>3. KeepsTheLock(candidate)
  <2> HIDE DEF slots
  <2>1. candidate.slots = slots /\ candidate.scale = scale
    OBVIOUS
  <2> QED
    BY <1>2, <2>1, TheLockIsTakenOver DEF PlanInv, slots
<1>4. /\ outcome \in Outcomes \ {"touches the lock"}
      /\ outcome = "valid" => IsValid(candidate)
  <2> HIDE DEF candidate
  <2> QED
    BY <1>3, AnOutcome
<1>5. DOMAIN slots = 1 .. scale.chapters
  BY SlotsAsMaterialized, <1>2
<1>6. \A c \in 1 .. scale.chapters : DOMAIN slots[c] = Fields
  <2> SUFFICES ASSUME NEW c \in 1 .. scale.chapters PROVE DOMAIN slots[c] = Fields
    OBVIOUS
  <2> HIDE DEF slots
  <2>1. CASE IsLocked(c)
    BY <2>1, SlotsAsMaterialized DEF PlanInv, PlanShape, IsLocked, slots
  <2>2. CASE ~IsLocked(c)
    BY <2>2, SlotsAsMaterialized DEF slots
  <2> QED
    BY <2>1, <2>2
<1> HIDE DEF slots, outcome
<1>7. build' \in [kind : Kinds, chapter : Nat, fits : BOOLEAN, outcome : Outcomes]
  <2>1. FitsTheLock(blueprint) \in BOOLEAN
    BY DEF FitsTheLock
  <2>2. completed + 1 \in Nat
    BY DEF PlanInv
  <2> HIDE DEF candidate
  <2> QED
    BY <1>1, <1>4, <2>1, <2>2
<1>8. LockIsKept'
  BY <1>1, <1>4 DEF LockIsKept
<1>9. CASE outcome = "valid"
  <2>1. plan' = candidate
    BY <1>1, <1>9
  <2>2. IsValid(plan)'
    BY <1>4, <1>9, <2>1 DEF IsValid
  <2>3. PlanShape'
    BY <1>1, <1>2, <1>5, <1>6, <2>1, PlanAssumption DEF PlanInv, PlanShape
  <2>4. TypeOK'
    BY <1>1, <1>2, <1>5, <1>7, <2>1, <2>2, <2>3 DEF PlanInv, TypeOK, PlanShape
  <2> QED
    BY <1>1, <1>8, <2>3, <2>4 DEF PlanInv
<1>10. CASE outcome # "valid"
  <2>1. plan' = plan
    BY <1>1, <1>10
  <2> QED
    BY <1>1, <1>7, <1>8, <2>1 DEF PlanInv, PlanShape, TypeOK, IsValid
<1> QED
  BY <1>9, <1>10

\* A shift of events touches one slot, and that is beyond the lock.
LEMMA DriftKeeps ==
    ASSUME PlanInv, MinorDrift
    PROVE  /\ PlanInv'
           /\ plan' # plan =>
                /\ plan'.scale = plan.scale
                /\ \A c \in Chapters(plan) : plan'.slots[c].words = plan.slots[c].words
<1> DEFINE next == completed + LockWindow + 1
           moved == [version |-> plan.version + 1, scale |-> plan.scale,
                     blueprint |-> plan.blueprint,
                     slots |-> [plan.slots EXCEPT ![next].made = plan.version + 1]]
           outcome == Verdict(moved)
<1>1. /\ plan.version < MaxVersion /\ completed' = completed
      /\ build' = [kind |-> "drift", chapter |-> completed + 1, fits |-> TRUE, outcome |-> outcome]
      /\ plan' = IF outcome = "valid" THEN moved ELSE plan
  BY DEF MinorDrift
<1>2. next \in Chapters(plan)
  <2>1. /\ completed \in Nat /\ LockWindow \in Nat /\ plan.scale.chapters \in Nat
        /\ completed + LockWindow < plan.scale.chapters
    BY PlanAssumption DEF MinorDrift, PlanInv, PlanShape
  <2> QED
    BY <2>1
<1>3. /\ moved.version = plan.version + 1 /\ moved.scale = plan.scale
      /\ moved.blueprint = plan.blueprint
      /\ moved.slots = [plan.slots EXCEPT ![next].made = plan.version + 1]
      /\ moved = [version |-> moved.version, scale |-> moved.scale,
                  blueprint |-> moved.blueprint, slots |-> moved.slots]
      /\ DOMAIN moved.slots = Chapters(plan)
  BY DEF PlanInv, PlanShape
<1>4. \A c \in Chapters(plan) : /\ DOMAIN moved.slots[c] = Fields
                                /\ moved.slots[c].words = plan.slots[c].words
                                /\ c # next => moved.slots[c] = plan.slots[c]
  BY <1>2, <1>3 DEF PlanInv, PlanShape, Fields
<1> HIDE DEF moved
<1>5. KeepsTheLock(moved)
  BY <1>3, <1>4, PlanAssumption DEF KeepsTheLock, PlanInv, PlanShape
<1>6. outcome \in Outcomes \ {"touches the lock"} /\ (outcome = "valid" => IsValid(moved))
  BY <1>5 DEF Verdict, IsValid, Outcomes
<1> HIDE DEF outcome
<1>7. build' \in [kind : Kinds, chapter : Nat, fits : BOOLEAN, outcome : Outcomes]
  <2>1. completed + 1 \in Nat /\ "drift" \in Kinds
    BY DEF PlanInv, Kinds
  <2> QED
    BY <1>1, <1>6, <2>1
<1>8. LockIsKept'
  BY <1>1, <1>6 DEF LockIsKept
<1>9. CASE outcome = "valid"
  <2>1. plan' = moved
    BY <1>1, <1>9
  <2>2. IsValid(plan)'
    BY <1>6, <1>9, <2>1 DEF IsValid
  <2>3. PlanShape'
    <3>1. /\ plan.version + 1 \in 0 .. MaxVersion /\ plan.version + 1 > 0
          /\ plan.scale.chapters \in Nat
      BY <1>1, PlanAssumption DEF PlanInv, PlanShape
    <3>2. /\ plan' = [version |-> plan'.version, scale |-> plan'.scale,
                       blueprint |-> plan'.blueprint, slots |-> plan'.slots]
          /\ plan'.version = plan.version + 1 /\ plan'.scale = plan.scale
          /\ DOMAIN plan'.slots = Chapters(plan)
      BY <1>3, <2>1
    <3> QED
      BY <1>4, <2>1, <3>1, <3>2 DEF PlanShape
  <2>4. TypeOK'
    BY <1>1, <1>3, <1>7, <2>1, <2>2, <2>3 DEF PlanInv, TypeOK, PlanShape, MinorDrift
  <2> QED
    BY <1>1, <1>3, <1>4, <1>8, <2>1, <2>3, <2>4 DEF PlanInv
<1>10. CASE outcome # "valid"
  <2>1. plan' = plan
    BY <1>1, <1>10
  <2> QED
    BY <1>1, <1>7, <1>8, <2>1 DEF PlanInv, PlanShape, TypeOK, IsValid
<1> QED
  BY <1>9, <1>10

LEMMA PlanInitially == Init => PlanInv
<1> SUFFICES ASSUME Init PROVE PlanInv
  OBVIOUS
<1>1. completed \in Nat
  BY PlanAssumption DEF Init
<1>2. build \in [kind : Kinds, chapter : Nat, fits : BOOLEAN, outcome : Outcomes]
  BY DEF Init, Kinds, Outcomes
<1>3. PlanShape
  BY PlanAssumption DEF Init, PlanShape, NoPlan
<1> QED
  BY <1>1, <1>2, <1>3 DEF Init, PlanInv, TypeOK, NoPlan, LockIsKept, PlanShape

\* Planning the volume of the next chapter keeps the invariant.
LEMMA VolumeKeeps ==
    ASSUME PlanInv, NEW kind \in Kinds, Exists, completed < plan.scale.chapters, PlanVolume(kind)
    PROVE  PlanInv'
<1>1. /\ plan.scale \in Scales /\ plan.blueprint \in AnyBlueprint(plan.scale.chapters)
      /\ plan.scale.chapters \in Nat /\ completed \in Nat
  BY DEF PlanInv, TypeOK, PlanShape
<1>2. completed <= plan.scale.chapters /\ plan.scale.chapters >= plan.scale.chapters
  BY <1>1
<1>3. PICK raw : Build(kind, plan.scale, plan.blueprint, raw, TRUE)
  BY DEF PlanVolume
<1> QED
  BY <1>1, <1>2, <1>3, BuildKeeps

\* So does drawing the volumes anew.
LEMMA RedrawKeeps ==
    ASSUME PlanInv, NEW kind \in Kinds, NEW scale \in Scales, completed <= scale.chapters,
           scale.chapters >= plan.scale.chapters \/ scale.chapters >= completed + LockWindow,
           Redraw(kind, scale)
    PROVE  PlanInv'
<1>1. PICK blueprint \in AnyBlueprint(scale.chapters) :
        \E raw : Build(kind, scale, blueprint, raw, FALSE)
  BY DEF Redraw
<1> QED
  BY <1>1, BuildKeeps

LEMMA PlanStep == PlanInv /\ [Next]_vars => PlanInv'
<1> SUFFICES ASSUME PlanInv, [Next]_vars PROVE PlanInv'
  OBVIOUS
<1>0. completed \in Nat /\ plan.scale.chapters \in Nat /\ LockWindow \in Nat
  BY PlanAssumption DEF PlanInv, PlanShape
<1>1. CASE FirstPlan
  <2>0. PICK scale \in Scales :
          /\ completed < scale.chapters
          /\ \E blueprint \in Blueprints(scale.chapters) :
               \E raw : Build("first", scale, blueprint, raw, FALSE)
    BY <1>1 DEF FirstPlan
  <2>1. PICK blueprint \in Blueprints(scale.chapters) :
          completed < scale.chapters /\ \E raw : Build("first", scale, blueprint, raw, FALSE)
    BY <2>0
  <2>2. scale.chapters \in Nat /\ plan.scale.chapters = 0
    BY <1>1, ScalesHaveChapters DEF FirstPlan, PlanInv, PlanShape
  <2>3. completed <= scale.chapters /\ scale.chapters >= plan.scale.chapters
    BY <1>0, <2>1, <2>2
  <2>4. blueprint \in AnyBlueprint(scale.chapters)
    BY <2>1 DEF AnyBlueprint
  <2> QED
    BY <2>1, <2>3, <2>4, BuildKeeps DEF Kinds
<1>2. CASE Complete
  <2>1. /\ completed' \in Nat /\ completed' <= plan.scale.chapters
        /\ plan' = plan /\ build' = build
    BY <1>0, <1>2 DEF Complete
  <2> QED
    BY <2>1 DEF PlanInv, PlanShape, TypeOK, LockIsKept, IsValid
<1>3. CASE Rewind
  <2>1. completed <= plan.scale.chapters
    BY <1>3 DEF Rewind, PlanInv, TypeOK
  <2>2. /\ completed' \in Nat /\ completed' <= plan.scale.chapters
        /\ plan' = plan /\ build' = build
    BY <1>0, <1>3, <2>1 DEF Rewind
  <2> QED
    BY <2>2 DEF PlanInv, PlanShape, TypeOK, LockIsKept, IsValid
<1>4. CASE VolumeDetail
  BY <1>4, VolumeKeeps DEF VolumeDetail, Kinds
<1>5. CASE ReplanVolume
  BY <1>5, VolumeKeeps DEF ReplanVolume, Kinds
<1>6. CASE ReplanFuture
  <2>1. plan.scale \in Scales /\ completed <= plan.scale.chapters
        /\ plan.scale.chapters >= plan.scale.chapters
    BY <1>0, <1>6 DEF ReplanFuture, PlanInv, TypeOK
  <2> QED
    BY <1>6, <2>1, RedrawKeeps DEF ReplanFuture, Kinds
<1>7. CASE ReplanScale
  <2>1. PICK scale \in Scales : ScaleFits(scale) /\ Redraw("scale", scale)
    BY <1>7 DEF ReplanScale
  <2>2. completed <= scale.chapters /\ scale.chapters >= completed + LockWindow
    BY <1>0, <2>1, ScalesHaveChapters DEF ScaleFits
  <2> QED
    BY <2>1, <2>2, RedrawKeeps DEF Kinds
<1>8. CASE MinorDrift
  BY <1>8, DriftKeeps
<1>9. CASE UNCHANGED vars
  BY <1>9 DEF vars, PlanInv, PlanShape, TypeOK, LockIsKept, IsValid
<1> QED
  BY <1>1, <1>2, <1>3, <1>4, <1>5, <1>6, <1>7, <1>8, <1>9 DEF Next

LEMMA PlanAlways == Spec => []PlanInv
BY PlanInitially, PlanStep, PTL DEF Spec

\* A plan of a volume keeps the words of every chapter, of those in the volume too.
LEMMA VolumeMovesNoWords ==
    ASSUME PlanInv, NEW kind, PlanVolume(kind), plan' # plan
    PROVE  /\ plan'.scale = plan.scale
           /\ \A c \in Chapters(plan) : plan'.slots[c].words = plan.slots[c].words
<1>1. PICK raw : /\ Build(kind, plan.scale, plan.blueprint, raw, TRUE)
                 /\ \A r \in raw : r.chapter \in Chapters(plan)
  <2> DEFINE volume == {VolumeOf(plan.blueprint, completed + 1)}
             slots(weight, refs) ==
               Written(plan.blueprint, volume, [c \in Chapters(plan) |-> weight], refs)
                 \union Retained(volume)
  <2>1. PICK weight \in Weights, refs \in Referrings(plan.scale.chapters, plan.blueprint) :
          Build(kind, plan.scale, plan.blueprint, slots(weight, refs), TRUE)
    BY DEF PlanVolume
  <2> HIDE DEF volume
  <2>2. \A r \in Written(plan.blueprint, volume, [c \in Chapters(plan) |-> weight], refs) :
           r.chapter \in Chapters(plan)
    BY DEF Written
  <2>3. \A r \in Retained(volume) : r.chapter \in Chapters(plan)
    BY DEF Retained
  <2>4. \A r \in slots(weight, refs) : r.chapter \in Chapters(plan)
    BY <2>2, <2>3
  <2> HIDE DEF slots
  <2> QED
    BY <2>1, <2>4
<1>2. Free(raw, TRUE) = {}
  BY <1>1 DEF Free, KeepsWords
<1>3. /\ plan'.scale = plan.scale
      /\ plan'.slots = Materialized(plan.scale, raw, TRUE)
  BY <1>1 DEF Build
<1>4. \A c \in Chapters(plan) :
         Materialized(plan.scale, raw, TRUE)[c].words = plan.slots[c].words
  <2> SUFFICES ASSUME NEW c \in Chapters(plan)
               PROVE  Materialized(plan.scale, raw, TRUE)[c].words = plan.slots[c].words
    OBVIOUS
  <2>1. CASE IsLocked(c)
    <3>1. Materialized(plan.scale, raw, TRUE)[c] = plan.slots[c]
      BY <2>1 DEF Materialized
    <3> QED
      BY <3>1
  <2>2. CASE ~IsLocked(c)
    <3>1. Materialized(plan.scale, raw, TRUE)[c].words =
            IF c \in {r.chapter : r \in Free(raw, TRUE)}
            THEN Targets(FreeWords(plan.scale, raw, TRUE),
                         [d \in {r.chapter : r \in Free(raw, TRUE)} |->
                            (CHOOSE r \in raw : r.chapter = d).weight])[c]
            ELSE plan.slots[c].words
      BY <2>2 DEF Materialized
    <3>2. c \notin {r.chapter : r \in Free(raw, TRUE)}
      BY <1>2
    <3> QED
      BY <3>1, <3>2, Zenon
  <2> QED
    BY <2>1, <2>2
<1> QED
  BY <1>3, <1>4

LEMMA WordsStep ==
    ASSUME PlanInv, [Next]_vars, build'.kind \in {"volume_detail", "volume", "drift"}, plan' # plan
    PROVE  /\ plan'.scale = plan.scale
           /\ \A c \in Chapters(plan) : plan'.slots[c].words = plan.slots[c].words
<1>1. ASSUME FirstPlan \/ ReplanFuture \/ ReplanScale PROVE FALSE
  <2>1. PICK kind \in {"first", "future", "scale"} :
          \E scale, blueprint, raw : Build(kind, scale, blueprint, raw, FALSE)
    BY <1>1 DEF FirstPlan, ReplanFuture, ReplanScale, Redraw
  <2> QED
    BY <2>1 DEF Build
<1>2. CASE VolumeDetail \/ ReplanVolume
  BY <1>2, VolumeMovesNoWords DEF VolumeDetail, ReplanVolume
<1>3. CASE MinorDrift
  BY <1>3, DriftKeeps
<1>4. ASSUME Complete \/ Rewind \/ UNCHANGED vars PROVE FALSE
  BY <1>4 DEF Complete, Rewind, vars
<1> QED
  BY <1>1, <1>2, <1>3, <1>4 DEF Next

-----------------------------------------------------------------------------
(* A plan whose words close *)

\* Every chapter of a book is in a volume of its blueprint.
LEMMA VolumeIsNamed ==
    ASSUME NEW chapters \in Nat \ {0}, NEW blueprint \in AnyBlueprint(chapters),
           NEW c \in 1 .. chapters
    PROVE  VolumeOf(blueprint, c) \in Names(blueprint)
<1> DEFINE count == Ceiling(chapters, MaxVolume)
           ends == blueprint.ends
           Here(i) == c <= ends[i] /\ \A j \in 1 .. i - 1 : ends[j] < c
<1>1. /\ ends \in [1 .. count -> 1 .. chapters] /\ ends[count] = chapters
      /\ DOMAIN blueprint.ids = 1 .. count
  BY DEF AnyBlueprint, Blueprints, Renamed
<1>2. count \in Nat /\ count > 0
  <2>1. MaxVolume \in Nat /\ MaxVolume > 0
    BY PlanAssumption
  <2>2. chapters + MaxVolume - 1 \in Nat
    BY <2>1
  <2> DEFINE a == chapters + MaxVolume - 1
  <2>3. /\ a \div MaxVolume \in Nat /\ a % MaxVolume \in 0 .. MaxVolume - 1
        /\ a = MaxVolume * (a \div MaxVolume) + (a % MaxVolume)
    <3> HIDE DEF a
    <3> QED
      BY <2>1, <2>2, Division DEF a
  <2>4. a \div MaxVolume # 0
    BY <2>1, <2>3
  <2> QED
    BY <2>3, <2>4 DEF Ceiling
<1> HIDE DEF count, ends
<1> DEFINE F == {U \in SUBSET (1 .. count) : \E k \in 1 .. count : c <= ends[k] /\ U = 1 .. k}
<1>3. PICK i \in 1 .. count : c <= ends[i] /\ \A k \in 1 .. count :
         c <= ends[k] /\ 1 .. k \subseteq 1 .. i => 1 .. k = 1 .. i
  <2>1. 1 .. count \in F
    BY <1>1, <1>2
  <2>2. F \subseteq SUBSET (1 .. count) /\ IsFiniteSet(1 .. count)
    BY <1>2, FS_Interval
  <2>3. PICK U \in F : \A W \in F : W \subseteq U => W = U
    <3> DEFINE S == 1 .. count
    <3>1. F \subseteq SUBSET S /\ F # {} /\ IsFiniteSet(S)
      BY <2>1, <2>2
    <3> HIDE DEF F, S
    <3> QED
      BY <3>1, LeastSubset
  <2>4. PICK k \in 1 .. count : c <= ends[k] /\ U = 1 .. k
    BY <2>3
  <2>5. \A m \in 1 .. count : c <= ends[m] /\ 1 .. m \subseteq 1 .. k => 1 .. m = 1 .. k
    <3> SUFFICES ASSUME NEW m \in 1 .. count, c <= ends[m], 1 .. m \subseteq 1 .. k
                 PROVE  1 .. m = 1 .. k
      OBVIOUS
    <3>1. 1 .. m \in F
      BY <1>2
    <3> QED
      BY <2>3, <2>4, <3>1
  <2> QED
    BY <2>4, <2>5
<1>4. Here(i)
  <2> SUFFICES ASSUME NEW j \in 1 .. i - 1, ~(ends[j] < c) PROVE FALSE
    BY <1>3
  <2>1. j \in 1 .. count /\ c <= ends[j] /\ 1 .. j \subseteq 1 .. i
    BY <1>1, <1>2
  <2>2. 1 .. j = 1 .. i
    BY <1>3, <2>1
  <2> QED
    BY <2>2
<1>5. VolumeOf(blueprint, c) = blueprint.ids[CHOOSE k \in DOMAIN ends : Here(k)]
  BY DEF VolumeOf, ends
<1>6. i \in DOMAIN ends /\ DOMAIN ends = DOMAIN blueprint.ids
  BY <1>1
<1> HIDE DEF Here
<1>7. (CHOOSE k \in DOMAIN ends : Here(k)) \in DOMAIN blueprint.ids
  BY <1>4, <1>6
<1> QED
  BY <1>5, <1>7 DEF Names, ToSet

\* The raw slots are one for every chapter, in the volume the blueprint has it in.
OneEach(raw, blueprint) ==
    /\ \A r \in raw : r.chapter \in Chapters(plan) /\ r.volume = VolumeOf(blueprint, r.chapter)
    /\ \A c \in Chapters(plan) : \E r \in raw : r.chapter = c
    /\ \A r, s \in raw : r.chapter = s.chapter => r = s

\* A plan of as many words as before closes, if it has one slot for each chapter
\* and moves no locked chapter to another volume: what the kept words leave is
\* what the other chapters had, and that can always be shared out.  It is refused
\* for what its slots refer to, if at all.
LEMMA SameWordsClose ==
    ASSUME PlanInv, Exists, NEW blueprint \in AnyBlueprint(plan.scale.chapters),
           NEW raw, OneEach(raw, blueprint), NEW preserve \in BOOLEAN,
           \A r \in Free(raw, preserve) : r.weight \in Nat /\ r.weight > 0,
           \A c \in Chapters(plan) : IsLocked(c) => VolumeOf(blueprint, c) = plan.slots[c].volume,
           NEW candidate, candidate.scale = plan.scale, candidate.blueprint = blueprint,
           candidate.slots = Materialized(plan.scale, raw, preserve)
    PROVE  /\ Outcome(candidate, raw, preserve) \in {"valid", "dangling", "unpaid"}
           /\ ArcsHold(candidate) => Outcome(candidate, raw, preserve) # "dangling"
<1> DEFINE all == Chapters(plan)
           words == [c \in all |-> plan.slots[c].words]
           kept == {c \in all : KeepsWords(c, preserve)}
           free == all \ kept
           keptRaw == {r \in raw : KeepsWords(r.chapter, preserve)}
           freeRaw == Free(raw, preserve)
           left == FreeWords(plan.scale, raw, preserve)
           chapter == [r \in raw |-> r.chapter]
<1>1. /\ plan.scale.chapters \in Nat \ {0} /\ IsFiniteSet(all) /\ all \subseteq Int
      /\ MinWords \in Nat /\ MaxWords \in Nat
  <2>1. plan.scale.chapters \in Nat \ {0}
    BY ScalesHaveChapters DEF PlanInv, TypeOK
  <2>2. IsFiniteSet(1 .. plan.scale.chapters)
    BY <2>1, FS_Interval
  <2> QED
    BY <2>1, <2>2, PlanAssumption
<1>2. /\ \A c \in all : /\ plan.slots[c].words \in MinWords .. MaxWords
                        /\ words[c] = plan.slots[c].words
                        /\ words[c] \in Int
      /\ SumOver(words, all) = plan.scale.words
  <2>1. IsValid(plan)
    BY DEF PlanInv, TypeOK
  <2>2. \A c \in all : plan.slots[c].words \in MinWords .. MaxWords
    BY <2>1 DEF IsValid, SlotsFit
  <2>3. SumOver(words, all) = plan.scale.words
    BY <2>1 DEF IsValid, SlotsFit
  <2> QED
    BY <1>1, <2>2, <2>3
<1>3. /\ \A r \in raw : chapter[r] \in all /\ chapter[r] = r.chapter
      /\ \A r, s \in raw : chapter[r] = chapter[s] => r = s
  BY DEF OneEach
<1>4. IsFiniteSet(raw)
  <2>1. chapter \in Injection(raw, all)
    BY <1>3 DEF Injection, IsInjective
  <2> QED
    BY <1>1, <2>1, FS_Injection
<1>5. /\ keptRaw \in SUBSET raw /\ freeRaw = raw \ keptRaw
      /\ kept \in SUBSET all /\ free \in SUBSET all
      /\ IsFiniteSet(keptRaw) /\ IsFiniteSet(freeRaw) /\ IsFiniteSet(kept) /\ IsFiniteSet(free)
  <2>1. /\ keptRaw \in SUBSET raw /\ freeRaw = raw \ keptRaw
        /\ kept \in SUBSET all /\ free \in SUBSET all
    BY DEF Free
  <2> QED
    BY <1>1, <1>4, <2>1, FS_Subset
<1>6. /\ {chapter[r] : r \in keptRaw} = kept
      /\ {r.chapter : r \in freeRaw} = free
      /\ Cardinality(freeRaw) = Cardinality(free)
  <2>1. \A c \in all : \E r \in raw : r.chapter = c
    BY DEF OneEach
  <2>2. {chapter[r] : r \in keptRaw} = kept
    BY <1>3, <2>1
  <2>3. {r.chapter : r \in freeRaw} = free
    BY <1>3, <1>5, <2>1
  <2> DEFINE h == [r \in freeRaw |-> r.chapter]
  <2>4. h \in Injection(freeRaw, free)
    BY <1>3, <1>5, <2>3 DEF Injection, IsInjective
  <2>5. h \in Surjection(freeRaw, free)
    BY <2>3, <2>4 DEF Injection, Surjection
  <2> HIDE DEF h, free, freeRaw
  <2> QED
    BY <1>5, <2>2, <2>3, <2>4, <2>5, FS_Injection
<1> HIDE DEF chapter, words
<1>7. left = SumOver(words, free)
  <2> DEFINE f == [r \in raw |-> plan.slots[r.chapter].words]
  <2>1. left = plan.scale.words - SumOver(f, keptRaw)
    BY DEF FreeWords
  <2>2. \A r \in keptRaw : f[r] \in Int /\ f[r] = words[chapter[r]]
    BY <1>2, <1>3
  <2>3. SumOver(f, keptRaw) = SumOver(words, kept)
    <3> DEFINE h == [r \in keptRaw |-> chapter[r]]
    <3>1. h \in Bijection(keptRaw, kept)
      BY <1>3, <1>6 DEF Bijection, Injection, Surjection, IsInjective
    <3>2. \A r \in keptRaw : f[r] \in Int /\ f[r] = words[h[r]]
      BY <2>2
    <3> HIDE DEF f, h, kept, keptRaw
    <3> QED
      BY <1>5, <3>1, <3>2, SumReindexed
  <2> HIDE DEF f, kept, free
  <2>4. SumOver(words, all) = SumOver(words, kept) + SumOver(words, free)
    <3>1. (\A c \in all : words[c] \in Int) /\ IsFiniteSet(all) /\ kept \in SUBSET all
      BY <1>1, <1>2, <1>5
    <3> HIDE DEF all
    <3> QED
      BY <3>1, SumSplit DEF free
  <2>5. SumOver(words, kept) \in Int /\ SumOver(words, free) \in Int
    BY <1>2, <1>5, SumType
  <2> HIDE DEF left, keptRaw
  <2> QED
    BY <1>2, <2>1, <2>3, <2>4, <2>5
<1> HIDE DEF left
<1>8. left \in Int /\ Allocatable(left, Cardinality(free))
  <2> HIDE DEF free
  <2>1. \A c \in free : words[c] \in Int /\ words[c] >= MinWords /\ words[c] <= MaxWords
    BY <1>1, <1>2, <1>5
  <2>2. MinWords \in Int /\ MaxWords \in Int
    BY <1>1
  <2>3. /\ left \in Int /\ left >= MinWords * Cardinality(free)
        /\ left <= MaxWords * Cardinality(free)
    BY <1>5, <1>7, <2>1, <2>2, SumAtLeast, SumAtMost, SumType, Zenon
  <2>4. Cardinality(free) \in Nat
    BY <1>5, FS_CardinalityType
  <2>5. /\ MinWords * Cardinality(free) = Cardinality(free) * MinWords
        /\ MaxWords * Cardinality(free) = Cardinality(free) * MaxWords
        /\ Cardinality(free) * MinWords \in Int /\ Cardinality(free) * MaxWords \in Int
    BY <1>1, <2>4
  <2> QED
    BY <2>3, <2>5 DEF Allocatable
<1>9. Closes(plan.scale, raw, preserve)
  <2>1. freeRaw = {} => left = 0
    <3>1. freeRaw = {} => free = {}
      BY <1>6
    <3> HIDE DEF free, freeRaw
    <3> QED
      BY <1>7, <3>1, SumEmpty
  <2>2. Allocatable(left, Cardinality(freeRaw))
    BY <1>6, <1>8
  <2> HIDE DEF free
  <2> QED
    BY <2>1, <2>2 DEF Closes, left
<1>10. \A c \in all : VolumeOf(blueprint, c) \in Names(blueprint)
  BY <1>1, VolumeIsNamed
<1>11. \A r \in raw : r.volume \in Names(blueprint)
  BY <1>10 DEF OneEach
\* The slots.
<1> DEFINE slotOf(c) == CHOOSE r \in raw : r.chapter = c
           weights == [c \in free |-> slotOf(c).weight]
           targets == Targets(left, weights)
<1>12. \A c \in all : slotOf(c) \in raw /\ slotOf(c).chapter = c
  BY DEF OneEach
<1> HIDE DEF slotOf
<1>13. Indexed(free, weights)
  <2>1. \A c \in free : weights[c] \in Nat /\ weights[c] > 0
    <3> SUFFICES ASSUME NEW c \in free PROVE slotOf(c).weight \in Nat /\ slotOf(c).weight > 0
      OBVIOUS
    <3>1. slotOf(c) \in freeRaw
      BY <1>5, <1>12
    <3> QED
      BY <3>1
  <2> HIDE DEF free
  <2> QED
    BY <1>1, <1>5, <2>1 DEF Indexed
<1>14. /\ SumOver(targets, free) = left
       /\ \A c \in free : targets[c] \in MinWords .. MaxWords
  <2>1. DOMAIN weights = free
    OBVIOUS
  <2> HIDE DEF weights, free
  <2> QED
    BY <1>8, <1>13, <2>1, TargetsAreExact
<1>15. candidate.slots = [c \in all |->
            IF IsLocked(c)
            THEN plan.slots[c]
            ELSE [volume |-> slotOf(c).volume,
                  words |-> IF c \in free THEN targets[c] ELSE plan.slots[c].words,
                  detailed |-> slotOf(c).detailed,
                  made |-> slotOf(c).made,
                  refs |-> slotOf(c).refs]]
  <2>1. {r.chapter : r \in Free(raw, preserve)} = free
    BY <1>6
  <2>2. Materialized(plan.scale, raw, preserve) =
          LET open == {r.chapter : r \in Free(raw, preserve)}
              given == Targets(left, [c \in open |-> slotOf(c).weight])
          IN  [c \in all |->
            IF IsLocked(c)
            THEN plan.slots[c]
            ELSE [volume |-> slotOf(c).volume,
                  words |-> IF c \in open THEN given[c] ELSE plan.slots[c].words,
                  detailed |-> slotOf(c).detailed,
                  made |-> slotOf(c).made,
                  refs |-> slotOf(c).refs]]
    BY Zenon DEF Materialized, slotOf, left
  <2> HIDE DEF free
  <2> QED
    BY <2>1, <2>2, Zenon
<1> HIDE DEF targets, weights
<1>16. \A c \in all : /\ candidate.slots[c].volume = VolumeOf(blueprint, c)
                      /\ candidate.slots[c].words = IF c \in free THEN targets[c] ELSE words[c]
  <2> SUFFICES ASSUME NEW c \in all
               PROVE  /\ candidate.slots[c].volume = VolumeOf(blueprint, c)
                      /\ candidate.slots[c].words = IF c \in free THEN targets[c] ELSE words[c]
    OBVIOUS
  <2>1. CASE IsLocked(c)
    <3>1. c \notin free
      BY <2>1 DEF IsLocked, LockedThrough, KeepsWords
    <3>2. candidate.slots[c] = plan.slots[c]
      BY <1>15, <2>1, Zenon
    <3> QED
      BY <1>2, <2>1, <3>1, <3>2
  <2>2. CASE ~IsLocked(c)
    <3>1. candidate.slots[c] =
                 [volume |-> slotOf(c).volume,
                  words |-> IF c \in free THEN targets[c] ELSE plan.slots[c].words,
                  detailed |-> slotOf(c).detailed,
                  made |-> slotOf(c).made,
                  refs |-> slotOf(c).refs]
      BY <1>15, <2>2, Zenon
    <3>2. slotOf(c).volume = VolumeOf(blueprint, c)
      BY <1>12 DEF OneEach
    <3> HIDE DEF free
    <3> QED
      BY <1>2, <3>1, <3>2
  <2> QED
    BY <2>1, <2>2
<1>17. SlotsFit(candidate)
  <2> DEFINE given == [c \in Chapters(candidate) |-> candidate.slots[c].words]
  <2>1. \A c \in all : given[c] = IF c \in free THEN targets[c] ELSE words[c]
    BY <1>16
  <2>2. \A c \in all : given[c] = candidate.slots[c].words
    OBVIOUS
  <2> HIDE DEF given
  <2>3. \A c \in all : given[c] \in MinWords .. MaxWords /\ given[c] \in Int
    BY <1>1, <1>2, <1>14, <2>1
  <2>4. SumOver(given, free) = left
    <3>1. \A c \in free : given[c] \in Int /\ given[c] = targets[c]
      BY <2>1, <2>3
    <3> HIDE DEF free
    <3>2. SumOver(given, free) = SumOver(targets, free)
      BY <1>5, <3>1, SumSame
    <3> QED
      BY <1>14, <3>2
  <2>5. SumOver(given, kept) = SumOver(words, kept)
    <3>1. \A c \in kept : given[c] \in Int /\ given[c] = words[c]
      BY <2>1, <2>3
    <3> HIDE DEF kept
    <3> QED
      BY <1>5, <3>1, SumSame
  <2> HIDE DEF kept
  <2>6. /\ \A c \in all : words[c] \in Int /\ given[c] \in Int
        /\ IsFiniteSet(all) /\ kept \in SUBSET all
    BY <1>1, <1>2, <1>5, <2>3
  <2>7. /\ SumOver(given, all) = SumOver(given, kept) + SumOver(given, free)
        /\ SumOver(words, all) = SumOver(words, kept) + SumOver(words, free)
    <3> HIDE DEF all
    <3> QED
      BY <2>6, SumSplit
  <2>8. SumOver(given, all) = plan.scale.words
    BY <1>2, <1>7, <2>4, <2>5, <2>7
  <2> QED
    BY <1>16, <2>2, <2>3, <2>8 DEF SlotsFit, given
<1>18. KeepsTheLock(candidate)
  <2>1. completed \in Nat /\ PlanShape /\ plan.scale.chapters \in Nat
        /\ plan.scale.chapters >= plan.scale.chapters
    BY <1>1 DEF PlanInv
  <2> QED
    BY <2>1, TheLockIsTakenOver
<1> QED
  BY <1>9, <1>11, <1>17, <1>18 DEF Outcome, Verdict

\* The volume the plan has a chapter in is that of its slot, and is one of its own.
LEMMA SlotsAreInTheirVolume ==
    ASSUME PlanInv, Exists, NEW c \in Chapters(plan)
    PROVE  /\ plan.slots[c].volume = VolumeOf(plan.blueprint, c)
           /\ plan.slots[c].volume \in Names(plan.blueprint)
<1>1. /\ IsValid(plan) /\ plan.scale.chapters \in Nat \ {0}
      /\ plan.blueprint \in AnyBlueprint(plan.scale.chapters)
  BY ScalesHaveChapters DEF PlanInv, TypeOK
<1>2. plan.slots[c].volume = VolumeOf(plan.blueprint, c)
  BY <1>1 DEF IsValid, SlotsFit
<1> QED
  BY <1>1, <1>2, VolumeIsNamed

\* What is generated for a volume and what is retained of the others are one slot
\* for each chapter.
LEMMA VolumeIsOneEach ==
    ASSUME PlanInv, Exists, NEW volumes, NEW weights, NEW refs, DOMAIN weights = Chapters(plan)
    PROVE  OneEach(Written(plan.blueprint, volumes, weights, refs) \union Retained(volumes),
                   plan.blueprint)
<1> DEFINE written == Written(plan.blueprint, volumes, weights, refs)
           retained == Retained(volumes)
           raw == written \union retained
           writing(c) ==
             [chapter |-> c, volume |-> VolumeOf(plan.blueprint, c), weight |-> weights[c],
              detailed |-> VolumeOf(plan.blueprint, c) = VolumeOf(plan.blueprint, completed + 1),
              made |-> plan.version + 1, refs |-> refs[c]]
           retaining(c) ==
             [chapter |-> c, volume |-> plan.slots[c].volume, weight |-> plan.slots[c].words,
              detailed |-> plan.slots[c].detailed, made |-> plan.slots[c].made,
              refs |-> plan.slots[c].refs]
           mine(c) == VolumeOf(plan.blueprint, c) \in volumes
<1>1. \A c \in Chapters(plan) : plan.slots[c].volume = VolumeOf(plan.blueprint, c)
  BY SlotsAreInTheirVolume
<1>2. written = {writing(c) : c \in {d \in Chapters(plan) : mine(d)}}
  BY DEF Written
<1>3. retained = {retaining(c) : c \in {d \in Chapters(plan) : ~mine(d)}}
  <2>1. {d \in Chapters(plan) : plan.slots[d].volume \notin volumes}
          = {d \in Chapters(plan) : ~mine(d)}
    BY <1>1
  <2>2. retained = {retaining(c) :
                      c \in {d \in Chapters(plan) : plan.slots[d].volume \notin volumes}}
    BY DEF Retained
  <2> QED
    BY <2>1, <2>2
<1>4. \A c \in Chapters(plan) : /\ writing(c).chapter = c /\ retaining(c).chapter = c
                                /\ writing(c).volume = VolumeOf(plan.blueprint, c)
                                /\ retaining(c).volume = VolumeOf(plan.blueprint, c)
  BY <1>1
<1> HIDE DEF writing, retaining, written, retained, mine
<1>5. \A r \in raw : \E c \in Chapters(plan) :
         /\ r.chapter = c /\ r.volume = VolumeOf(plan.blueprint, c)
         /\ r = IF mine(c) THEN writing(c) ELSE retaining(c)
  BY <1>2, <1>3, <1>4
<1>6. \A c \in Chapters(plan) : \E r \in raw : r.chapter = c
  <2> SUFFICES ASSUME NEW c \in Chapters(plan) PROVE \E r \in raw : r.chapter = c
    OBVIOUS
  <2>1. CASE mine(c)
    <3>1. writing(c) \in raw
      BY <1>2, <2>1
    <3> QED
      BY <1>4, <3>1
  <2>2. CASE ~mine(c)
    <3>1. retaining(c) \in raw
      BY <1>3, <2>2
    <3> QED
      BY <1>4, <3>1
  <2> QED
    BY <2>1, <2>2
<1> HIDE DEF raw
<1>7. OneEach(raw, plan.blueprint)
  BY <1>5, <1>6 DEF OneEach
<1> QED
  BY <1>7 DEF raw, written, retained

\* An open slot refers to what its raw slot refers to.
LEMMA RefsAsMaterialized ==
    ASSUME NEW raw, OneEach(raw, plan.blueprint), NEW preserve,
           NEW c \in Chapters(plan), ~IsLocked(c)
    PROVE  \E r \in raw : /\ r.chapter = c
                          /\ Materialized(plan.scale, raw, preserve)[c].refs = r.refs
<1> DEFINE r == CHOOSE s \in raw : s.chapter = c
<1>1. r \in raw /\ r.chapter = c
  BY DEF OneEach
<1>2. Materialized(plan.scale, raw, preserve)[c].refs = r.refs
  BY DEF Materialized
<1> QED
  BY <1>1, <1>2

\* What is generated for a volume and what is retained of the others refer to arcs
\* of the plan, in their chapters.
LEMMA VolumeRefersToItsArcs ==
    ASSUME PlanInv, Exists, NEW volumes, NEW weights, DOMAIN weights = Chapters(plan),
           NEW refs \in Referrings(plan.scale.chapters, plan.blueprint),
           NEW r \in Written(plan.blueprint, volumes, weights, refs) \union Retained(volumes)
    PROVE  r.refs.arcs \subseteq ArcsAt(plan.blueprint, r.chapter)
<1>1. CASE r \in Written(plan.blueprint, volumes, weights, refs)
  <2>1. PICK c \in Chapters(plan) : r.chapter = c /\ r.refs = refs[c]
    BY <1>1 DEF Written
  <2>2. refs[c].arcs \subseteq ArcsAt(plan.blueprint, c)
    BY DEF Referrings
  <2> QED
    BY <2>1, <2>2
<1>2. CASE r \in Retained(volumes)
  <2>1. PICK c \in Chapters(plan) : r.chapter = c /\ r.refs = plan.slots[c].refs
    BY <1>2 DEF Retained
  <2>2. plan.slots[c].refs.arcs \subseteq ArcsAt(plan.blueprint, c)
    BY DEF PlanInv, TypeOK, IsValid, ArcsHold
  <2> QED
    BY <2>1, <2>2
<1> QED
  BY <1>1, <1>2

\* A plan with the arcs of the plan before and such slots has no dangling arc.
LEMMA ArcsAsMaterialized ==
    ASSUME ArcsHold(plan), NEW raw, OneEach(raw, plan.blueprint), NEW preserve \in BOOLEAN,
           \A r \in raw : r.refs.arcs \subseteq ArcsAt(plan.blueprint, r.chapter),
           NEW candidate, candidate.scale = plan.scale, candidate.blueprint = plan.blueprint,
           candidate.slots = Materialized(plan.scale, raw, preserve)
    PROVE  ArcsHold(candidate)
<1>1. \A a \in DOMAIN candidate.blueprint.arcs : candidate.blueprint.arcs[a].sound
  BY DEF ArcsHold
<1>2. ASSUME NEW c \in Chapters(plan)
      PROVE  candidate.slots[c].refs.arcs \subseteq ArcsAt(plan.blueprint, c)
  <2>1. CASE IsLocked(c)
    <3>1. candidate.slots[c] = plan.slots[c]
      BY <2>1, SlotsAsMaterialized
    <3> QED
      BY <3>1 DEF ArcsHold
  <2>2. CASE ~IsLocked(c)
    <3>1. PICK r \in raw : r.chapter = c /\ candidate.slots[c].refs = r.refs
      BY <2>2, RefsAsMaterialized
    <3> QED
      BY <3>1
  <2> QED
    BY <2>1, <2>2
<1> QED
  BY <1>1, <1>2 DEF ArcsHold

\* A plan of a volume closes, and its slots are of arcs it has there.
LEMMA VolumeCloses ==
    ASSUME PlanInv, Exists, NEW kind, PlanVolume(kind)
    PROVE  build'.outcome \in {"valid", "unpaid"}
<1> DEFINE volume == {VolumeOf(plan.blueprint, completed + 1)}
           slots(weight, refs) ==
             Written(plan.blueprint, volume, [c \in Chapters(plan) |-> weight], refs)
               \union Retained(volume)
<1>1. PICK weight \in Weights, refs \in Referrings(plan.scale.chapters, plan.blueprint) :
        Build(kind, plan.scale, plan.blueprint, slots(weight, refs), TRUE)
  BY DEF PlanVolume
<1> DEFINE raw == slots(weight, refs)
<1>2. /\ OneEach(raw, plan.blueprint)
      /\ \A r \in raw : r.refs.arcs \subseteq ArcsAt(plan.blueprint, r.chapter)
  <2> HIDE DEF volume
  <2>1. DOMAIN [c \in Chapters(plan) |-> weight] = Chapters(plan)
    OBVIOUS
  <2> QED
    BY <2>1, VolumeIsOneEach, VolumeRefersToItsArcs
<1> HIDE DEF raw
<1>3. Free(raw, TRUE) = {}
  BY <1>2 DEF Free, KeepsWords, OneEach
<1>4. \A c \in Chapters(plan) :
        IsLocked(c) => VolumeOf(plan.blueprint, c) = plan.slots[c].volume
  BY SlotsAreInTheirVolume
<1> DEFINE candidate == [version |-> plan.version + 1, scale |-> plan.scale,
                         blueprint |-> plan.blueprint,
                         slots |-> Materialized(plan.scale, raw, TRUE)]
<1>5. build'.outcome = Outcome(candidate, raw, TRUE)
  BY <1>1 DEF Build, raw
<1>6. /\ candidate.scale = plan.scale /\ candidate.blueprint = plan.blueprint
      /\ candidate.slots = Materialized(plan.scale, raw, TRUE)
  OBVIOUS
<1> HIDE DEF candidate
<1>7. plan.blueprint \in AnyBlueprint(plan.scale.chapters) /\ ArcsHold(plan)
  BY DEF PlanInv, TypeOK, IsValid
<1>8. \A r \in Free(raw, TRUE) : r.weight \in Nat /\ r.weight > 0
  BY <1>3
<1>9. TRUE \in BOOLEAN
  OBVIOUS
<1>10. ArcsHold(candidate)
  BY <1>2, <1>6, <1>7, <1>9, ArcsAsMaterialized
<1>11. /\ Outcome(candidate, raw, TRUE) \in {"valid", "dangling", "unpaid"}
       /\ ArcsHold(candidate) => Outcome(candidate, raw, TRUE) # "dangling"
  BY <1>2, <1>4, <1>6, <1>7, <1>8, <1>9, SameWordsClose
<1> QED
  BY <1>5, <1>10, <1>11

\* A replan of the future that keeps the volumes of the lock closes as well.
LEMMA FutureCloses ==
    ASSUME PlanInv, Exists, NEW kind, Redraw(kind, plan.scale), build'.fits
    PROVE  build'.outcome \in {"valid", "dangling", "unpaid"}
<1> DEFINE slots(blueprint, weights, refs) ==
             Written(blueprint, Names(blueprint), weights, refs)
               \union Retained(Names(blueprint))
<1>1. PICK blueprint \in AnyBlueprint(plan.scale.chapters),
           weights \in Weightings(plan.scale.chapters) :
        \E refs : Build(kind, plan.scale, blueprint, slots(blueprint, weights, refs), FALSE)
  BY DEF Redraw
<1>0. PICK refs : Build(kind, plan.scale, blueprint, slots(blueprint, weights, refs), FALSE)
  BY <1>1
<1> DEFINE raw == slots(blueprint, weights, refs)
           candidate == [version |-> plan.version + 1, scale |-> plan.scale,
                         blueprint |-> blueprint,
                         slots |-> Materialized(plan.scale, raw, FALSE)]
<1>2. build'.outcome = Outcome(candidate, raw, FALSE) /\ FitsTheLock(blueprint)
  BY <1>0 DEF Build
<1>3. /\ candidate.scale = plan.scale /\ candidate.blueprint = blueprint
      /\ candidate.slots = Materialized(plan.scale, raw, FALSE)
  OBVIOUS
<1> HIDE DEF candidate
<1>4. weights \in [Chapters(plan) -> Weights] /\ plan.scale.chapters \in Nat \ {0}
  BY ScalesHaveChapters DEF Weightings, PlanInv, TypeOK
<1>5. Retained(Names(blueprint)) = {}
  <2>1. \A c \in Chapters(plan) : plan.slots[c].volume \in Names(blueprint)
    BY <1>2, SlotsAreInTheirVolume DEF FitsTheLock
  <2> QED
    BY <2>1 DEF Retained
<1>6. \A c \in Chapters(plan) : VolumeOf(blueprint, c) \in Names(blueprint)
  BY <1>4, VolumeIsNamed
<1> DEFINE writing(c) ==
             [chapter |-> c, volume |-> VolumeOf(blueprint, c), weight |-> weights[c],
              detailed |-> VolumeOf(blueprint, c) = VolumeOf(blueprint, completed + 1),
              made |-> plan.version + 1, refs |-> refs[c]]
<1>7. raw = {writing(c) : c \in Chapters(plan)}
  <2>1. {d \in Chapters(plan) : VolumeOf(blueprint, d) \in Names(blueprint)} = Chapters(plan)
    BY <1>6
  <2>2. DOMAIN weights = Chapters(plan)
    BY <1>4
  <2>3. Written(blueprint, Names(blueprint), weights, refs) =
          {writing(c) : c \in {d \in Chapters(plan) : VolumeOf(blueprint, d) \in Names(blueprint)}}
    BY <2>2, Zenon DEF Written
  <2> QED
    BY <1>5, <2>1, <2>3
<1>8. \A c \in Chapters(plan) : /\ writing(c).chapter = c
                                /\ writing(c).volume = VolumeOf(blueprint, c)
                                /\ writing(c).weight = weights[c]
  OBVIOUS
<1> HIDE DEF raw, writing
<1>9. OneEach(raw, blueprint)
  BY <1>7, <1>8 DEF OneEach
<1>10. \A r \in Free(raw, FALSE) : r.weight \in Nat /\ r.weight > 0
  <2>1. \A r \in raw : r.weight \in Weights
    BY <1>4, <1>7, <1>8
  <2>2. \A w \in Weights : w \in Nat /\ w > 0
    BY PlanAssumption
  <2> QED
    BY <2>1, <2>2 DEF Free
<1>11. \A c \in Chapters(plan) : IsLocked(c) => VolumeOf(blueprint, c) = plan.slots[c].volume
  BY <1>2 DEF FitsTheLock
<1>12. FALSE \in BOOLEAN
  OBVIOUS
<1> QED
  BY <1>2, <1>3, <1>9, <1>10, <1>11, <1>12, SameWordsClose

\* A shift of events passes.
LEMMA DriftPasses ==
    ASSUME PlanInv, MinorDrift
    PROVE  build'.outcome = "valid"
<1> DEFINE next == completed + LockWindow + 1
           moved == [version |-> plan.version + 1, scale |-> plan.scale,
                     blueprint |-> plan.blueprint,
                     slots |-> [plan.slots EXCEPT ![next].made = plan.version + 1]]
           words == [c \in Chapters(plan) |-> plan.slots[c].words]
<1>1. build'.outcome = Verdict(moved)
  BY DEF MinorDrift
<1>2. next \in Chapters(plan) /\ next \notin 1 .. completed + LockWindow
  <2>1. /\ completed \in Nat /\ LockWindow \in Nat /\ plan.scale.chapters \in Nat
        /\ completed + LockWindow < plan.scale.chapters
    BY PlanAssumption DEF MinorDrift, PlanInv, PlanShape
  <2> QED
    BY <2>1
<1>3. /\ moved.scale = plan.scale /\ moved.blueprint = plan.blueprint
      /\ moved.slots = [plan.slots EXCEPT ![next].made = plan.version + 1]
  OBVIOUS
<1>4. \A c \in Chapters(plan) : /\ moved.slots[c].words = plan.slots[c].words
                                /\ moved.slots[c].volume = plan.slots[c].volume
                                /\ moved.slots[c].refs = plan.slots[c].refs
                                /\ c # next => moved.slots[c] = plan.slots[c]
  BY <1>2, <1>3 DEF PlanInv, PlanShape, Fields
<1> HIDE DEF moved, next
<1>5. IsValid(plan)
  BY DEF PlanInv, TypeOK, MinorDrift
<1>6. [c \in Chapters(plan) |-> moved.slots[c].words] = words
  BY <1>4
<1>7. IsValid(moved)
  <2>1. Chapters(moved) = Chapters(plan)
    BY <1>3
  <2>2. SumOver([c \in Chapters(plan) |-> moved.slots[c].words], Chapters(plan))
          = plan.scale.words
    BY <1>5, <1>6 DEF IsValid, SlotsFit
  <2>3. SlotsFit(moved)
    BY <1>3, <1>4, <1>5, <2>1, <2>2 DEF IsValid, SlotsFit
  <2>4. ArcsHold(moved)
    BY <1>3, <1>4, <1>5, <2>1 DEF IsValid, ArcsHold
  <2>5. HooksHold(moved)
    <3> SUFFICES ASSUME NEW h \in Hooks
                 PROVE  LET setUp == {c \in Chapters(moved) : h \in moved.slots[c].refs.setups}
                            paid == {c \in Chapters(moved) : h \in moved.slots[c].refs.payoffs}
                        IN  /\ setUp = {} <=> paid = {}
                            /\ setUp # {} => Min(setUp) < Min(paid)
      BY DEF HooksHold
    <3>1. /\ {c \in Chapters(moved) : h \in moved.slots[c].refs.setups}
               = {c \in Chapters(plan) : h \in plan.slots[c].refs.setups}
          /\ {c \in Chapters(moved) : h \in moved.slots[c].refs.payoffs}
               = {c \in Chapters(plan) : h \in plan.slots[c].refs.payoffs}
      BY <1>4, <2>1
    <3> QED
      BY <1>5, <3>1 DEF IsValid, HooksHold
  <2> QED
    BY <2>3, <2>4, <2>5 DEF IsValid
<1>8. KeepsTheLock(moved)
  <2> SUFFICES ASSUME NEW c \in Chapters(plan), c <= completed + LockWindow
               PROVE  c \in Chapters(moved) /\ moved.slots[c] = plan.slots[c]
    BY DEF KeepsTheLock
  <2>1. c # next
    BY <1>2
  <2> QED
    BY <1>3, <1>4, <2>1
<1> QED
  BY <1>1, <1>7, <1>8 DEF IsValid, Verdict

LEMMA ClosesStep ==
    ASSUME PlanInv, ReplanCloses, [Next]_vars
    PROVE  ReplanCloses'
<1>1. ASSUME NEW kind, NEW scale, NEW blueprint, NEW raw, NEW preserve,
             Build(kind, scale, blueprint, raw, preserve)
      PROVE  build'.kind = kind
  BY <1>1 DEF Build
<1>2. CASE FirstPlan
  <2>1. build'.kind = "first"
    BY <1>1, <1>2 DEF FirstPlan
  <2> QED
    BY <2>1 DEF ReplanCloses
<1>3. CASE Complete \/ Rewind \/ UNCHANGED vars
  BY <1>3 DEF Complete, Rewind, vars, ReplanCloses
<1>4. CASE VolumeDetail \/ ReplanVolume
  <2>1. build'.kind \in {"volume_detail", "volume"}
    BY <1>1, <1>4 DEF VolumeDetail, ReplanVolume, PlanVolume
  <2>2. build'.outcome \in {"valid", "unpaid"}
    BY <1>4, VolumeCloses DEF VolumeDetail, ReplanVolume
  <2> QED
    BY <2>1, <2>2 DEF ReplanCloses
<1>5. CASE ReplanFuture
  <2>1. build'.kind = "future"
    BY <1>1, <1>5 DEF ReplanFuture, Redraw
  <2>2. build'.fits => build'.outcome \in {"valid", "dangling", "unpaid"}
    BY <1>5, FutureCloses DEF ReplanFuture
  <2> QED
    BY <2>1, <2>2 DEF ReplanCloses
<1>6. CASE ReplanScale
  <2>1. build'.kind = "scale"
    BY <1>1, <1>6 DEF ReplanScale, Redraw
  <2> QED
    BY <2>1 DEF ReplanCloses
<1>7. CASE MinorDrift
  BY <1>7, DriftPasses DEF ReplanCloses
<1> QED
  BY <1>2, <1>3, <1>4, <1>5, <1>6, <1>7 DEF Next

-----------------------------------------------------------------------------
(* Theorems *)

\* The plan in force is typed and validates, whatever was replanned before.
THEOREM PlanStaysValid == Spec => []TypeOK
<1>1. PlanInv => TypeOK
  BY DEF PlanInv
<1> QED
  BY <1>1, PlanAlways, PTL

\* No plan that is built, and no shift of events, touches the chapters that are
\* written or the window after them (build_plan, reschedule_minor_drift).
THEOREM TheLockIsKept == Spec => []LockIsKept
<1>1. PlanInv => LockIsKept
  BY DEF PlanInv
<1> QED
  BY <1>1, PlanAlways, PTL

\* Planning a volume, in detail or anew, and shifting events move no words from
\* one chapter to another (preserve_all_word_targets).
THEOREM WordsStayPut == Spec => WordsStable
<1>1. PlanInv /\ [Next]_vars =>
        (build'.kind \in {"volume_detail", "volume", "drift"} /\ plan' # plan =>
           /\ plan'.scale = plan.scale
           /\ \A c \in Chapters(plan) : plan'.slots[c].words = plan.slots[c].words)
  BY WordsStep
<1> QED
  BY <1>1, PlanAlways, PTL DEF Spec, WordsStable

\* Words are shared out exactly, by any positive weights (allocate_word_targets):
\* they add up, every chapter gets a legal number, who weighs more no less, and
\* but for those at the maximum nobody is a whole word off its share.
THEOREM WordsAreSharedExactly == Spec => []AllocationIsExact
<1>1. AllocationIsExact
  BY AllocationExact
<1> QED
  BY <1>1, PTL

\* A shift of events is never refused.  A plan of a volume, and a replan of the
\* future that keeps the volumes of the lock, close in volumes and words
\* (_allocate_with_protected, _volume_errors, _slot_errors): what can refuse them
\* is what the slots refer to, and for a plan of a volume only foreshadowing that
\* is not paid off (_foreshadowing_errors).
THEOREM ReplansClose == Spec => []ReplanCloses
<1>1. Init => ReplanCloses
  BY DEF Init, ReplanCloses
<1>2. PlanInv /\ ReplanCloses /\ [Next]_vars => ReplanCloses'
  BY ClosesStep
<1> QED
  BY <1>1, <1>2, PlanAlways, PTL DEF Spec

=============================================================================

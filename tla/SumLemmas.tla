----------------------------- MODULE SumLemmas -----------------------------
(***************************************************************************)
(* Sums and folds over finite sets.  The models count bytes with           *)
(* MapThenSumSet of the community modules, a fold over a set.  The lemmas  *)
(* say what such a sum is: a natural, independent of the order of the      *)
(* fold, that grows by the weight of an element and splits over disjoint   *)
(* sets.  The last part is about any fold: it exists, and what its steps   *)
(* pass on holds of its result.                                            *)
(***************************************************************************)
EXTENDS Integers, FiniteSets, FiniteSetTheorems, TLAPS

\* The element a fold over a set takes next.
Pick(s) == CHOOSE x \in s : TRUE

\* g sums the weights w over every subset of S, one picked element at a time:
\* the equation that MapThenFoldSet of the community modules solves.
IsSum(g, w, S) ==
  g = [s \in SUBSET S |-> IF s = {} THEN 0 ELSE w[Pick(s)] + g[s \ {Pick(s)}]]

\* The sum of w over S, as the community modules' MapThenSumSet computes it.
SumOf(w, S) == (CHOOSE g : IsSum(g, w, S))[S]

\* A set that is not empty has the element a fold picks.
LEMMA PickIn ==
  ASSUME NEW s, s # {}
  PROVE  Pick(s) \in s
BY DEF Pick

\* A set of naturals that is not empty has a least element. Every proof by
\* induction below takes a least counterexample, because the induction
\* theorems of the library have an operator parameter.
LEMMA LeastNat ==
  ASSUME NEW T \in SUBSET Nat, T # {}
  PROVE  \E n \in T : \A m \in T : n <= m
<1>1. PICK n \in T : \A m \in T : ~ (<<m, n>> \in OpToRel(<, Nat))
  BY NatLessThanWellFounded, WFMin
<1>2. \A m \in T : ~ (m < n)
  BY <1>1 DEF OpToRel
<1>. QED
  BY <1>2

\* The subsets of S with at most n elements.
Sub(S, n) == {s \in SUBSET S : Cardinality(s) <= n}

\* g sums w over the subsets of S with at most n elements.
Upto(g, w, S, n) ==
  /\ g \in [Sub(S, n) -> Nat]
  /\ \A s \in Sub(S, n) :
       g[s] = IF s = {} THEN 0 ELSE w[Pick(s)] + g[s \ {Pick(s)}]

\* Taking the picked element away leads one level down.
LEMMA SubStep ==
  ASSUME NEW S, IsFiniteSet(S), NEW n \in Nat, NEW s \in Sub(S, n), s # {}
  PROVE  /\ n # 0
         /\ Pick(s) \in S
         /\ s \ {Pick(s)} \in Sub(S, n - 1)
<1>1. Pick(s) \in s /\ s \subseteq S
  BY PickIn DEF Sub
<1>2. IsFiniteSet(s)
  BY FS_Subset DEF Sub
<1>3. Cardinality(s) \in Nat /\ Cardinality(s) # 0 /\ Cardinality(s) <= n
  BY <1>2, FS_CardinalityType, FS_EmptySet DEF Sub
<1>4. Cardinality(s \ {Pick(s)}) = Cardinality(s) - 1
  BY <1>1, <1>2, FS_RemoveElement
<1>. QED
  BY <1>1, <1>3, <1>4 DEF Sub

\* Such a sum exists on every level.
LEMMA LevelExists ==
  ASSUME NEW U, NEW w \in [U -> Nat], NEW S \in SUBSET U, IsFiniteSet(S),
         NEW n \in Nat
  PROVE  \E g : Upto(g, w, S, n)
<1>. DEFINE Bad == {k \in Nat : ~ \E g : Upto(g, w, S, k)}
<1>1. SUFFICES ASSUME Bad # {} PROVE FALSE
  OBVIOUS
<1>2. PICK m \in Bad : \A k \in Bad : m <= k
  <2>1. Bad \in SUBSET Nat
    OBVIOUS
  <2>. HIDE DEF Bad
  <2>. QED
    BY <1>1, <2>1, LeastNat
<1>3. m \in Nat /\ ~ \E g : Upto(g, w, S, m)
  OBVIOUS
<1>4. CASE m = 0
  <2>1. \A s \in Sub(S, 0) : s = {}
    BY SubStep
  <2>2. Upto([s \in Sub(S, 0) |-> 0], w, S, 0)
    BY <2>1 DEF Upto
  <2>. QED
    BY <1>3, <1>4, <2>2
<1>5. CASE m # 0
  <2>1. m - 1 \in Nat
    BY <1>3, <1>5
  <2>2. m - 1 \notin Bad
    BY <1>2, <1>3, <2>1
  <2>3. PICK g : Upto(g, w, S, m - 1)
    BY <2>1, <2>2
  <2>. DEFINE h == [s \in Sub(S, m) |->
                      IF s = {} THEN 0 ELSE w[Pick(s)] + g[s \ {Pick(s)}]]
  <2>4. \A s \in Sub(S, m) : s # {} =>
          /\ s \ {Pick(s)} \in Sub(S, m - 1)
          /\ w[Pick(s)] \in Nat /\ g[s \ {Pick(s)}] \in Nat
    <3>. SUFFICES ASSUME NEW s \in Sub(S, m), s # {}
                  PROVE  /\ s \ {Pick(s)} \in Sub(S, m - 1)
                         /\ w[Pick(s)] \in Nat /\ g[s \ {Pick(s)}] \in Nat
      OBVIOUS
    <3>1. Pick(s) \in S /\ s \ {Pick(s)} \in Sub(S, m - 1)
      BY <1>3, SubStep
    <3>2. g[s \ {Pick(s)}] \in Nat
      BY <2>3, <3>1 DEF Upto
    <3>. QED
      BY <3>1, <3>2
  <2>5. h \in [Sub(S, m) -> Nat]
    <3>1. \A s \in Sub(S, m) :
            (IF s = {} THEN 0 ELSE w[Pick(s)] + g[s \ {Pick(s)}]) \in Nat
      <4>1. \A a \in Nat : \A b \in Nat : a + b \in Nat
        OBVIOUS
      <4>. QED
        BY <2>4, <4>1, Zenon
    <3>. QED
      BY <3>1, Zenon
  <2>6. \A s \in Sub(S, m - 1) : s \in Sub(S, m) /\ h[s] = g[s]
    <3>1. \A s \in Sub(S, m - 1) : s \in Sub(S, m)
      <4>. SUFFICES ASSUME NEW s \in Sub(S, m - 1) PROVE s \in Sub(S, m)
        OBVIOUS
      <4>1. IsFiniteSet(s) /\ Cardinality(s) <= m - 1
        BY FS_Subset DEF Sub
      <4>2. Cardinality(s) \in Nat
        BY <4>1, FS_CardinalityType
      <4>. QED
        BY <1>3, <4>1, <4>2 DEF Sub
    <3>. QED
      BY <2>3, <3>1 DEF Upto
  <2>7. \A s \in Sub(S, m) :
          h[s] = IF s = {} THEN 0 ELSE w[Pick(s)] + h[s \ {Pick(s)}]
    BY <2>4, <2>6
  <2>8. Upto(h, w, S, m)
    BY <2>5, <2>7 DEF Upto
  <2>. QED
    BY <1>3, <2>8
<1>. QED
  BY <1>4, <1>5

\* On a finite set the equation of a sum has a solution in the naturals.
LEMMA SumExists ==
  ASSUME NEW U, NEW w \in [U -> Nat], NEW S \in SUBSET U, IsFiniteSet(S)
  PROVE  \E g : IsSum(g, w, S) /\ g \in [SUBSET S -> Nat]
<1>1. Cardinality(S) \in Nat
  BY FS_CardinalityType
<1>2. PICK g : Upto(g, w, S, Cardinality(S))
  BY <1>1, LevelExists
<1>3. Sub(S, Cardinality(S)) = SUBSET S
  BY FS_Subset DEF Sub
<1>4. g \in [SUBSET S -> Nat]
  BY <1>2, <1>3 DEF Upto
<1>5. \A s \in SUBSET S :
        g[s] = IF s = {} THEN 0 ELSE w[Pick(s)] + g[s \ {Pick(s)}]
  BY <1>2, <1>3 DEF Upto
<1>6. IsSum(g, w, S)
  BY <1>4, <1>5 DEF IsSum
<1>. QED
  BY <1>4, <1>6

\* It has only one: two solutions agree on a common subset where the weights
\* do.
LEMMA SumUnique ==
  ASSUME NEW g, NEW h, NEW w, NEW v, NEW S, NEW T,
         IsSum(g, w, S), IsSum(h, v, T),
         NEW r \in SUBSET S, r \subseteq T, IsFiniteSet(r),
         \A x \in r : w[x] = v[x]
  PROVE  g[r] = h[r]
<1>. DEFINE Bad == {n \in Nat : \E s \in SUBSET r :
                      Cardinality(s) = n /\ g[s] # h[s]}
<1>1. SUFFICES ASSUME g[r] # h[r] PROVE FALSE
  OBVIOUS
<1>2. Bad # {}
  BY <1>1, FS_CardinalityType
<1>3. PICK m \in Bad : \A k \in Bad : m <= k
  <2>1. Bad \in SUBSET Nat
    OBVIOUS
  <2>. HIDE DEF Bad
  <2>. QED
    BY <1>2, <2>1, LeastNat
<1>4. PICK s \in SUBSET r : Cardinality(s) = m /\ g[s] # h[s]
  OBVIOUS
<1>5. IsFiniteSet(s) /\ m \in Nat
  BY FS_Subset
<1>6. /\ g[s] = IF s = {} THEN 0 ELSE w[Pick(s)] + g[s \ {Pick(s)}]
      /\ h[s] = IF s = {} THEN 0 ELSE v[Pick(s)] + h[s \ {Pick(s)}]
  <2>1. s \in SUBSET S /\ s \in SUBSET T
    OBVIOUS
  <2>. QED
    BY <2>1 DEF IsSum
<1>7. s # {}
  BY <1>4, <1>6
<1>8. Pick(s) \in s
  BY <1>7, PickIn
<1>9. Cardinality(s \ {Pick(s)}) = m - 1
  BY <1>4, <1>5, <1>8, FS_RemoveElement
<1>10. IsFiniteSet(s \ {Pick(s)})
  BY <1>5, FS_RemoveElement
<1>11. m - 1 \in Nat
  BY <1>9, <1>10, FS_CardinalityType
<1>12. m - 1 \notin Bad
  BY <1>3, <1>5
<1>13. g[s \ {Pick(s)}] = h[s \ {Pick(s)}]
  BY <1>9, <1>11, <1>12
<1>14. w[Pick(s)] = v[Pick(s)]
  BY <1>8
<1>. QED
  BY <1>4, <1>6, <1>7, <1>13, <1>14

\* SumOf is the value of any solution.
LEMMA SumIs ==
  ASSUME NEW U, NEW w \in [U -> Nat], NEW S \in SUBSET U, IsFiniteSet(S),
         NEW g, IsSum(g, w, S), NEW T \in SUBSET S
  PROVE  SumOf(w, T) = g[T] /\ SumOf(w, T) \in Nat
<1>1. IsFiniteSet(T) /\ T \in SUBSET U
  BY FS_Subset
<1>2. PICK h : IsSum(h, w, T) /\ h \in [SUBSET T -> Nat]
  BY <1>1, SumExists
<1>3. IsSum(CHOOSE f : IsSum(f, w, T), w, T)
  BY <1>2
<1>. DEFINE c == CHOOSE f : IsSum(f, w, T)
<1>4. IsSum(c, w, T)
  BY <1>3
<1>5. SumOf(w, T) = c[T]
  BY DEF SumOf
<1>. HIDE DEF c
<1>6. c[T] = g[T]
  BY <1>1, <1>4, SumUnique
<1>7. c[T] = h[T]
  BY <1>1, <1>2, <1>4, SumUnique
<1>8. h[T] \in Nat
  BY <1>2
<1>. QED
  BY <1>5, <1>6, <1>7, <1>8

\* A sum of naturals is a natural.
LEMMA SumNat ==
  ASSUME NEW U, NEW w \in [U -> Nat], NEW S \in SUBSET U, IsFiniteSet(S)
  PROVE  SumOf(w, S) \in Nat
<1>1. PICK g : IsSum(g, w, S)
  BY SumExists
<1>. QED
  BY <1>1, SumIs

\* The sum over no element is zero.
LEMMA SumEmpty ==
  ASSUME NEW U, NEW w \in [U -> Nat]
  PROVE  SumOf(w, {}) = 0
<1>1. IsFiniteSet({}) /\ {} \in SUBSET U
  BY FS_EmptySet
<1>2. PICK g : IsSum(g, w, {})
  BY <1>1, SumExists
<1>3. g[{}] = 0
  BY <1>2 DEF IsSum
<1>. QED
  BY <1>1, <1>2, <1>3, SumIs

\* Equal weights have equal sums.
LEMMA SumSame ==
  ASSUME NEW U, NEW w \in [U -> Nat], NEW v \in [U -> Nat],
         NEW S \in SUBSET U, IsFiniteSet(S), \A x \in S : w[x] = v[x]
  PROVE  SumOf(w, S) = SumOf(v, S)
<1>1. PICK g : IsSum(g, w, S)
  BY SumExists
<1>2. PICK h : IsSum(h, v, S)
  BY SumExists
<1>3. g[S] = h[S]
  BY <1>1, <1>2, SumUnique
<1>4. SumOf(w, S) = g[S]
  BY <1>1, SumIs
<1>5. SumOf(v, S) = h[S]
  BY <1>2, SumIs
<1>. QED
  BY <1>3, <1>4, <1>5

\* A sum splits into the picked element and the rest.
LEMMA SumStep ==
  ASSUME NEW U, NEW w \in [U -> Nat], NEW S \in SUBSET U, IsFiniteSet(S),
         S # {}
  PROVE  SumOf(w, S) = w[Pick(S)] + SumOf(w, S \ {Pick(S)})
<1>1. PICK g : IsSum(g, w, S)
  BY SumExists
<1>2. g[S] = w[Pick(S)] + g[S \ {Pick(S)}]
  BY <1>1 DEF IsSum
<1>3. SumOf(w, S) = g[S]
  BY <1>1, SumIs
<1>4. SumOf(w, S \ {Pick(S)}) = g[S \ {Pick(S)}]
  BY <1>1, SumIs
<1>. QED
  BY <1>2, <1>3, <1>4

\* A sum splits into any one of its elements and the rest: the order in which
\* a fold picks them does not matter.
LEMMA SumRemove ==
  ASSUME NEW U, NEW w \in [U -> Nat], NEW S \in SUBSET U, IsFiniteSet(S),
         NEW x \in S
  PROVE  SumOf(w, S) = w[x] + SumOf(w, S \ {x})
<1>. DEFINE Bad == {n \in Nat : \E s \in SUBSET S : \E y \in s :
                      /\ Cardinality(s) = n
                      /\ SumOf(w, s) # w[y] + SumOf(w, s \ {y})}
<1>1. SUFFICES ASSUME SumOf(w, S) # w[x] + SumOf(w, S \ {x}) PROVE FALSE
  OBVIOUS
<1>2. Bad # {}
  BY <1>1, FS_CardinalityType
<1>3. PICK m \in Bad : \A k \in Bad : m <= k
  <2>1. Bad \in SUBSET Nat
    OBVIOUS
  <2>. HIDE DEF Bad
  <2>. QED
    BY <1>2, <2>1, LeastNat
<1>4. PICK s \in SUBSET S : \E y \in s :
        Cardinality(s) = m /\ SumOf(w, s) # w[y] + SumOf(w, s \ {y})
  OBVIOUS
<1>5. PICK y \in s :
        Cardinality(s) = m /\ SumOf(w, s) # w[y] + SumOf(w, s \ {y})
  BY <1>4
<1>. DEFINE z == Pick(s)
<1>6. IsFiniteSet(s) /\ m \in Nat /\ s \in SUBSET U
  BY FS_Subset
<1>7. z \in s
  BY PickIn
<1>8. SumOf(w, s) = w[z] + SumOf(w, s \ {z})
  BY <1>6, SumStep
<1>. HIDE DEF z
<1>9. y # z
  BY <1>5, <1>8
<1>10. \A u \in s : \A t \in s \ {u} :
         SumOf(w, s \ {u}) = w[t] + SumOf(w, (s \ {u}) \ {t})
  <2>. SUFFICES ASSUME NEW u \in s, NEW t \in s \ {u}
                PROVE  SumOf(w, s \ {u}) = w[t] + SumOf(w, (s \ {u}) \ {t})
    OBVIOUS
  <2>1. Cardinality(s \ {u}) = m - 1 /\ IsFiniteSet(s \ {u})
    BY <1>5, <1>6, FS_RemoveElement
  <2>2. m - 1 \in Nat
    BY <2>1, FS_CardinalityType
  <2>3. m - 1 \notin Bad
    <3>. HIDE DEF Bad
    <3>. QED
      BY <1>3, <1>6
  <2>. QED
    BY <2>1, <2>2, <2>3
<1>11. SumOf(w, s \ {z}) = w[y] + SumOf(w, (s \ {z}) \ {y})
  BY <1>7, <1>9, <1>10
<1>12. SumOf(w, s \ {y}) = w[z] + SumOf(w, (s \ {y}) \ {z})
  BY <1>7, <1>9, <1>10
<1>13. (s \ {y}) \ {z} = (s \ {z}) \ {y}
  OBVIOUS
<1>14. w[y] \in Nat /\ w[z] \in Nat
  BY <1>6, <1>7
<1>15. SumOf(w, (s \ {z}) \ {y}) \in Nat
  <2>1. IsFiniteSet((s \ {z}) \ {y}) /\ (s \ {z}) \ {y} \in SUBSET U
    BY <1>6, FS_Subset
  <2>. QED
    BY <2>1, SumNat
<1>. QED
  BY <1>5, <1>8, <1>11, <1>12, <1>13, <1>14, <1>15

\* One element more adds its weight.
LEMMA SumAdd ==
  ASSUME NEW U, NEW w \in [U -> Nat], NEW S \in SUBSET U, IsFiniteSet(S),
         NEW x \in U, x \notin S
  PROVE  SumOf(w, S \cup {x}) = w[x] + SumOf(w, S)
<1>1. IsFiniteSet(S \cup {x}) /\ S \cup {x} \in SUBSET U
  BY FS_AddElement
<1>2. (S \cup {x}) \ {x} = S
  OBVIOUS
<1>. QED
  BY <1>1, <1>2, SumRemove

\* The sum over a disjoint union is the sum of the sums.
LEMMA SumUnion ==
  ASSUME NEW U, NEW w \in [U -> Nat], NEW S \in SUBSET U, IsFiniteSet(S),
         NEW T \in SUBSET U, IsFiniteSet(T), S \cap T = {}
  PROVE  SumOf(w, S \cup T) = SumOf(w, S) + SumOf(w, T)
<1>. DEFINE Bad == {n \in Nat : \E t \in SUBSET T :
                      /\ Cardinality(t) = n
                      /\ SumOf(w, S \cup t) # SumOf(w, S) + SumOf(w, t)}
<1>1. SUFFICES ASSUME SumOf(w, S \cup T) # SumOf(w, S) + SumOf(w, T)
               PROVE FALSE
  OBVIOUS
<1>2. Bad # {}
  BY <1>1, FS_CardinalityType
<1>3. PICK m \in Bad : \A k \in Bad : m <= k
  <2>1. Bad \in SUBSET Nat
    OBVIOUS
  <2>. HIDE DEF Bad
  <2>. QED
    BY <1>2, <2>1, LeastNat
<1>4. PICK t \in SUBSET T :
        /\ Cardinality(t) = m
        /\ SumOf(w, S \cup t) # SumOf(w, S) + SumOf(w, t)
  OBVIOUS
<1>5. IsFiniteSet(t) /\ m \in Nat /\ t \in SUBSET U
  BY FS_Subset
<1>6. SumOf(w, S) \in Nat
  BY SumNat
<1>7. t # {}
  <2>1. S \cup {} = S
    OBVIOUS
  <2>. QED
    BY <1>4, <1>6, <2>1, SumEmpty
<1>8. PICK x : x \in t
  BY <1>7
<1>. DEFINE r == t \ {x}
<1>9. Cardinality(r) = m - 1 /\ IsFiniteSet(r)
  BY <1>4, <1>5, <1>8, FS_RemoveElement
<1>10. m - 1 \in Nat
  BY <1>9, FS_CardinalityType
<1>11. m - 1 \notin Bad
  <2>. HIDE DEF Bad
  <2>. QED
    BY <1>3, <1>5
<1>12. r \in SUBSET T /\ r \in SUBSET U /\ x \notin r /\ x \notin S
       /\ x \in U /\ t = r \cup {x} /\ S \cup t = (S \cup r) \cup {x}
       /\ x \notin S \cup r /\ S \cup r \in SUBSET U
  BY <1>5, <1>8
<1>13. SumOf(w, S \cup r) = SumOf(w, S) + SumOf(w, r)
  BY <1>9, <1>10, <1>11, <1>12
<1>. HIDE DEF r
<1>14. IsFiniteSet(S \cup r)
  BY <1>9, FS_Union
<1>15. SumOf(w, t) = w[x] + SumOf(w, r)
  BY <1>9, <1>12, SumAdd
<1>16. SumOf(w, S \cup t) = w[x] + SumOf(w, S \cup r)
  BY <1>12, <1>14, SumAdd
<1>17. w[x] \in Nat /\ SumOf(w, r) \in Nat
  BY <1>9, <1>12, SumNat
<1>. QED
  BY <1>4, <1>6, <1>13, <1>15, <1>16, <1>17

-----------------------------------------------------------------------------
(* Folds in general *)

\* c takes an element out of every set of S that has one.
Picks(c, S) == \A s \in SUBSET S : s # {} => c[s] \in s

\* g folds the steps H from base over the subsets of S: H[s] is the step that
\* adds the element c[s] to what s \ {c[s]} gave.
IsFold(g, S, c, base, H) ==
  \A s \in SUBSET S : g[s] = IF s = {} THEN base ELSE H[s][g[s \ {c[s]}]]

\* Taking the picked element away leads one level down, whoever picks.
LEMMA PickStep ==
  ASSUME NEW S, IsFiniteSet(S), NEW c, Picks(c, S),
         NEW n \in Nat, NEW s \in Sub(S, n), s # {}
  PROVE  n # 0 /\ c[s] \in s /\ s \ {c[s]} \in Sub(S, n - 1)
<1>1. c[s] \in s /\ s \subseteq S
  BY DEF Sub, Picks
<1>2. IsFiniteSet(s)
  BY <1>1, FS_Subset
<1>3. Cardinality(s) \in Nat /\ Cardinality(s) # 0 /\ Cardinality(s) <= n
  BY <1>2, FS_CardinalityType, FS_EmptySet DEF Sub
<1>4. Cardinality(s \ {c[s]}) = Cardinality(s) - 1
  BY <1>1, <1>2, FS_RemoveElement
<1>. QED
  BY <1>1, <1>3, <1>4 DEF Sub

\* What holds of the empty set and is passed on by every step holds of S.
LEMMA FoldInduction ==
  ASSUME NEW S, IsFiniteSet(S), NEW c, Picks(c, S), NEW g, NEW J,
         g[{}] \in J[{}],
         \A s \in SUBSET S : s # {} /\ g[s \ {c[s]}] \in J[s \ {c[s]}] => g[s] \in J[s]
  PROVE  g[S] \in J[S]
<1>. DEFINE Bad == {n \in Nat : \E s \in SUBSET S : Cardinality(s) = n /\ g[s] \notin J[s]}
<1>1. SUFFICES ASSUME g[S] \notin J[S] PROVE FALSE
  OBVIOUS
<1>2. Bad # {}
  BY <1>1, FS_CardinalityType
<1>3. PICK m \in Bad : \A k \in Bad : m <= k
  <2>1. Bad \in SUBSET Nat
    OBVIOUS
  <2>. HIDE DEF Bad
  <2>. QED
    BY <1>2, <2>1, LeastNat
<1>4. PICK s \in SUBSET S : Cardinality(s) = m /\ g[s] \notin J[s]
  OBVIOUS
<1>5. m \in Nat /\ IsFiniteSet(s)
  BY FS_Subset
<1>6. s # {}
  BY <1>4
<1>7. c[s] \in s
  BY <1>6 DEF Picks
<1>8. PICK t : t = s \ {c[s]}
  OBVIOUS
<1>9. Cardinality(t) = m - 1 /\ IsFiniteSet(t)
  BY <1>4, <1>5, <1>7, <1>8, FS_RemoveElement
<1>10. m - 1 \in Nat
  BY <1>9, FS_CardinalityType
<1>11. m - 1 \notin Bad
  <2>. HIDE DEF Bad
  <2>. QED
    BY <1>3, <1>5
<1>12. g[t] \in J[t]
  BY <1>8, <1>9, <1>10, <1>11
<1>. QED
  BY <1>4, <1>6, <1>8, <1>12

\* g is such a fold over the subsets of S with at most n elements, into W.
FoldUpto(g, S, c, base, H, W, n) ==
  /\ g \in [Sub(S, n) -> W]
  /\ \A s \in Sub(S, n) : g[s] = IF s = {} THEN base ELSE H[s][g[s \ {c[s]}]]

\* Such a fold exists on every level.
LEMMA FoldLevel ==
  ASSUME NEW S, IsFiniteSet(S), NEW c, Picks(c, S), NEW W, NEW base \in W,
         NEW H \in [SUBSET S -> [W -> W]], NEW n \in Nat
  PROVE  \E g : FoldUpto(g, S, c, base, H, W, n)
<1>. DEFINE Level(k) == \E g : FoldUpto(g, S, c, base, H, W, k)
            Bad == {k \in Nat : ~ Level(k)}
<1>1. SUFFICES ASSUME Bad # {} PROVE FALSE
  OBVIOUS
<1>2. PICK m \in Bad : \A k \in Bad : m <= k
  <2>1. Bad \in SUBSET Nat
    OBVIOUS
  <2>. HIDE DEF Bad
  <2>. QED
    BY <1>1, <2>1, LeastNat
<1>3. m \in Nat /\ ~ Level(m)
  OBVIOUS
<1>4. CASE m = 0
  <2>1. \A s \in Sub(S, 0) : s = {}
    BY PickStep
  <2>2. PICK g : g = [s \in Sub(S, 0) |-> base]
    OBVIOUS
  <2>3. g \in [Sub(S, 0) -> W] /\ \A s \in Sub(S, 0) : g[s] = base
    BY <2>2
  <2>. QED
    BY <1>3, <1>4, <2>1, <2>3 DEF FoldUpto
<1>5. CASE m # 0
  <2>1. m - 1 \in Nat
    BY <1>3, <1>5
  <2>2. m - 1 \notin Bad
    <3>. HIDE DEF Bad
    <3>. QED
      BY <1>2, <1>3, <2>1
  <2>3. PICK g \in [Sub(S, m - 1) -> W] : \A s \in Sub(S, m - 1) :
          g[s] = IF s = {} THEN base ELSE H[s][g[s \ {c[s]}]]
    BY <2>1, <2>2 DEF FoldUpto
  <2>4. \A s \in Sub(S, m) : s # {} => s \in SUBSET S /\ s \ {c[s]} \in Sub(S, m - 1)
    BY <1>3, PickStep DEF Sub
  <2>5. PICK h : h = [s \in Sub(S, m) |-> IF s = {} THEN base ELSE H[s][g[s \ {c[s]}]]]
    OBVIOUS
  <2>6. h \in [Sub(S, m) -> W]
    BY <2>4, <2>5
  <2>7. \A s \in Sub(S, m - 1) : s \in Sub(S, m) /\ h[s] = g[s]
    <3>. SUFFICES ASSUME NEW s \in Sub(S, m - 1) PROVE s \in Sub(S, m) /\ h[s] = g[s]
      OBVIOUS
    <3>1. IsFiniteSet(s) /\ Cardinality(s) <= m - 1
      BY FS_Subset DEF Sub
    <3>2. Cardinality(s) \in Nat
      BY <3>1, FS_CardinalityType
    <3>3. s \in Sub(S, m)
      BY <1>3, <3>1, <3>2 DEF Sub
    <3>. QED
      BY <2>3, <2>5, <3>3
  <2>8. \A s \in Sub(S, m) : h[s] = IF s = {} THEN base ELSE H[s][h[s \ {c[s]}]]
    BY <2>4, <2>5, <2>7
  <2>9. Level(m)
    BY <2>6, <2>8 DEF FoldUpto
  <2>. QED
    BY <1>3, <2>9
<1>. QED
  BY <1>4, <1>5

\* A fold whose steps keep to W exists, and keeps to W.
LEMMA FoldExists ==
  ASSUME NEW S, IsFiniteSet(S), NEW c, Picks(c, S), NEW W, NEW base \in W,
         NEW H \in [SUBSET S -> [W -> W]]
  PROVE  \E g \in [SUBSET S -> W] : IsFold(g, S, c, base, H)
<1>1. Cardinality(S) \in Nat
  BY FS_CardinalityType
<1>2. Sub(S, Cardinality(S)) = SUBSET S
  BY FS_Subset DEF Sub
<1>3. PICK n \in Nat : n = Cardinality(S)
  BY <1>1
<1>4. PICK g : FoldUpto(g, S, c, base, H, W, n)
  BY FoldLevel
<1>5. Sub(S, n) = SUBSET S
  BY <1>2, <1>3
<1>6. g \in [SUBSET S -> W]
  BY <1>4, <1>5 DEF FoldUpto
<1>7. IsFold(g, S, c, base, H)
  BY <1>4, <1>5 DEF IsFold, FoldUpto
<1>. QED
  BY <1>6, <1>7

=============================================================================

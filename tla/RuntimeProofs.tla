---------------------------- MODULE RuntimeProofs ----------------------------
(***************************************************************************)
(* Proofs about Runtime: an inductive invariant for each part, then the    *)
(* properties of the composition.                                          *)
(***************************************************************************)
EXTENDS Runtime, SequenceLemmas
-----------------------------------------------------------------------------
(* Storage.                                                                *)

\* The element a fold takes first.
Chosen(s) == CHOOSE x \in s : TRUE

\* What one fold of a function over the subsets of a set takes from the next smaller.
Folded(S, base, G, h) ==
  h = [s \in SUBSET S |-> IF s = {} THEN base
                          ELSE G[<<Chosen(s), h[s \ {Chosen(s)}]>>]]

\* A fold over a finite set exists: its values for sets of n elements follow from
\* those for smaller ones.
LEMMA FoldExists ==
  ASSUME NEW S, IsFiniteSet(S), NEW V, NEW base \in V, NEW G \in [S \X V -> V]
  PROVE  \E h \in [SUBSET S -> V] : Folded(S, base, G, h)
<1> DEFINE Rule(h, s) == IF s = {} THEN base ELSE G[<<Chosen(s), h[s \ {Chosen(s)}]>>]
           Good(n) == \E h \in [SUBSET S -> V] :
                        \A s \in SUBSET S : Cardinality(s) <= n => h[s] = Rule(h, s)
           bad == {n \in Nat : ~Good(n)}
<1>1. \A s \in SUBSET S : IsFiniteSet(s) /\ Cardinality(s) \in Nat /\ Cardinality(s) <= Cardinality(S)
  BY FS_Subset, FS_CardinalityType
<1>2. \A s \in SUBSET S : s # {} => Chosen(s) \in s /\ Chosen(s) \in S /\ Cardinality(s \ {Chosen(s)}) = Cardinality(s) - 1
  <2> TAKE s \in SUBSET S
  <2> HAVE s # {}
  <2>1. Chosen(s) \in s
    BY DEF Chosen
  <2>2. Cardinality(s \ {Chosen(s)}) = Cardinality(s) - 1
    BY <1>1, <2>1, FS_RemoveElement
  <2> QED  BY <2>1, <2>2
<1>3. Good(0)
  <2> DEFINE h == [s \in SUBSET S |-> base]
  <2>1. h \in [SUBSET S -> V]
    OBVIOUS
  <2>2. \A s \in SUBSET S : Cardinality(s) <= 0 => s = {}
    BY <1>1, FS_EmptySet
  <2>3. \A s \in SUBSET S : Cardinality(s) <= 0 => h[s] = Rule(h, s)
    BY <2>2
  <2> HIDE DEF h
  <2> QED  BY <2>1, <2>3
<1>4. ASSUME NEW n \in Nat, Good(n) PROVE Good(n + 1)
  <2>1. PICK h \in [SUBSET S -> V] : \A s \in SUBSET S : Cardinality(s) <= n => h[s] = Rule(h, s)
    BY <1>4
  <2> DEFINE g == [s \in SUBSET S |-> IF Cardinality(s) = n + 1 THEN Rule(h, s) ELSE h[s]]
  <2>2. \A s \in SUBSET S : Rule(h, s) \in V
    <3> TAKE s \in SUBSET S
    <3>1. CASE s = {}
      BY <3>1
    <3>2. CASE s # {}
      <4>1. Chosen(s) \in S /\ s \ {Chosen(s)} \in SUBSET S
        BY <1>2, <3>2
      <4>2. h[s \ {Chosen(s)}] \in V
        BY <4>1
      <4>3. <<Chosen(s), h[s \ {Chosen(s)}]>> \in S \X V
        BY <4>1, <4>2
      <4> QED  BY <3>2, <4>3
    <3> QED  BY <3>1, <3>2
  <2> HIDE DEF Rule
  <2>3. g \in [SUBSET S -> V]
    BY <2>2
  <2>4. \A s \in SUBSET S : Cardinality(s) <= n => g[s] = h[s]
    BY <1>1
  <2>5. \A s \in SUBSET S : Cardinality(s) <= n + 1 => Rule(g, s) = Rule(h, s)
    <3> TAKE s \in SUBSET S
    <3> HAVE Cardinality(s) <= n + 1
    <3>1. CASE s = {}
      BY <3>1 DEF Rule
    <3>2. CASE s # {}
      <4>1. s \ {Chosen(s)} \in SUBSET S /\ Cardinality(s \ {Chosen(s)}) <= n
        BY <1>1, <1>2, <3>2
      <4>2. g[s \ {Chosen(s)}] = h[s \ {Chosen(s)}]
        BY <2>4, <4>1
      <4> HIDE DEF g
      <4> QED  BY <4>2 DEF Rule
    <3> QED  BY <3>1, <3>2
  <2>6. \A s \in SUBSET S : Cardinality(s) <= n + 1 => g[s] = Rule(h, s)
    BY <1>1, <2>1
  <2> HIDE DEF g
  <2>7. \A s \in SUBSET S : Cardinality(s) <= n + 1 => g[s] = Rule(g, s)
    BY <2>5, <2>6
  <2> QED  BY <2>3, <2>7
<1>5. bad = {}
  <2> SUFFICES ASSUME bad # {} PROVE FALSE
    OBVIOUS
  <2> HIDE DEF Good
  <2>1. bad \in SUBSET Nat
    OBVIOUS
  <2> HIDE DEF bad
  <2>2. PICK n \in bad : \A m \in Nat : m < n => m \notin bad
    BY <2>1, LeastNatural
  <2>3. n \in Nat /\ ~Good(n) /\ n # 0
    BY <1>3, <2>2 DEF bad
  <2>4. n - 1 \in Nat /\ n - 1 < n
    BY <2>3
  <2>5. Good(n - 1)
    BY <2>2, <2>4 DEF bad
  <2>6. Good((n - 1) + 1)
    BY <1>4, <2>4, <2>5
  <2>7. (n - 1) + 1 = n
    BY <2>3
  <2> QED  BY <2>3, <2>6, <2>7
<1>6. Good(Cardinality(S))
  <2> HIDE DEF Good
  <2> QED  BY <1>1, <1>5
<1>7. PICK h \in [SUBSET S -> V] : \A s \in SUBSET S : Cardinality(s) <= Cardinality(S) => h[s] = Rule(h, s)
  BY <1>6
<1>8. \A s \in SUBSET S : h[s] = Rule(h, s)
  BY <1>1, <1>7
<1>9. h = [s \in SUBSET S |-> Rule(h, s)]
  <2> HIDE DEF Rule
  <2> QED  BY <1>8
<1>10. Folded(S, base, G, h)
  BY <1>9 DEF Folded
<1> QED  BY <1>10

\* A table of the sums over the subsets of a set.
Sums(h, v, S) ==
  \A s \in SUBSET S : h[s] = IF s = {} THEN 0 ELSE v[Chosen(s)] + h[s \ {Chosen(s)}]

\* SumFunctionOnSet adds, in some order.
LEMMA SumRule ==
  ASSUME NEW T, NEW v \in [T -> Int], NEW S \in SUBSET T, IsFiniteSet(S)
  PROVE  \E h \in [SUBSET S -> Int] : h[S] = Storage!SumFunctionOnSet(v, S) /\ Sums(h, v, S)
<1> DEFINE Is(k) == k = [s \in SUBSET S |-> IF s = {} THEN 0 ELSE v[Chosen(s)] + k[s \ {Chosen(s)}]]
           G == [p \in S \X Int |-> v[p[1]] + p[2]]
<1>1. G \in [S \X Int -> Int]
  OBVIOUS
<1>2. PICK g \in [SUBSET S -> Int] : Folded(S, 0, G, g)
  <2> HIDE DEF G
  <2>1. 0 \in Int
    OBVIOUS
  <2> QED  BY <1>1, <2>1, FoldExists
<1>3. Is(g)
  <2>1. \A s \in SUBSET S : s # {} => Chosen(s) \in S /\ g[s \ {Chosen(s)}] \in Int
    BY DEF Chosen
  <2>2. \A s \in SUBSET S : s # {} => G[<<Chosen(s), g[s \ {Chosen(s)}]>>] = v[Chosen(s)] + g[s \ {Chosen(s)}]
    BY <2>1
  <2>3. g = [s \in SUBSET S |-> IF s = {} THEN 0 ELSE G[<<Chosen(s), g[s \ {Chosen(s)}]>>]]
    BY <1>2 DEF Folded
  <2> HIDE DEF G
  <2> QED  BY <2>2, <2>3
<1>4. PICK h : h = CHOOSE k : Is(k)
  OBVIOUS
<1>5. h[S] = Storage!SumFunctionOnSet(v, S)
  BY <1>4 DEF Storage!SumFunctionOnSet, Storage!FoldFunctionOnSet, Storage!MapThenFoldSet, Chosen
<1>6. Is(h)
  BY <1>3, <1>4
<1>7. \A s \in SUBSET S : h[s] \in Int
  <2> SUFFICES ASSUME NEW t \in SUBSET S, h[t] \notin Int PROVE FALSE
    OBVIOUS
  <2> DEFINE bad == {n \in Nat : \E s \in SUBSET S : Cardinality(s) = n /\ h[s] \notin Int}
  <2>0. \A s \in SUBSET S : IsFiniteSet(s) /\ Cardinality(s) \in Nat
    BY FS_Subset, FS_CardinalityType
  <2>1. bad \in SUBSET Nat /\ bad # {}
    BY <2>0
  <2>2. PICK n \in bad : \A m \in Nat : m < n => m \notin bad
    <3> HIDE DEF bad
    <3> QED  BY <2>1, LeastNatural
  <2>3. PICK s \in SUBSET S : Cardinality(s) = n /\ h[s] \notin Int
    BY <2>2
  <2>4. h[s] = IF s = {} THEN 0 ELSE v[Chosen(s)] + h[s \ {Chosen(s)}]
    BY <1>6
  <2>5. s # {}
    BY <2>3, <2>4
  <2>6. Chosen(s) \in s
    BY <2>5 DEF Chosen
  <2>7. s \ {Chosen(s)} \in SUBSET S /\ Cardinality(s \ {Chosen(s)}) = n - 1
    BY <2>0, <2>3, <2>6, FS_RemoveElement
  <2>8. n - 1 \in Nat /\ n - 1 < n
    BY <2>0, <2>7
  <2>9. h[s \ {Chosen(s)}] \in Int
    BY <2>2, <2>7, <2>8
  <2> QED  BY <2>3, <2>4, <2>5, <2>6, <2>9
<1>8. h \in [SUBSET S -> Int]
  BY <1>7, <1>6
<1>9. Sums(h, v, S)
  BY <1>6 DEF Sums
<1> QED  BY <1>5, <1>8, <1>9

\* The sum over a set is one element's value and the sum over the others.
LEMMA SumStep ==
  ASSUME NEW T, NEW v \in [T -> Int], NEW S \in SUBSET T, IsFiniteSet(S)
  PROVE  /\ Storage!SumFunctionOnSet(v, S) \in Int
         /\ S = {} => Storage!SumFunctionOnSet(v, S) = 0
         /\ S # {} => Storage!SumFunctionOnSet(v, S) =
                                v[Chosen(S)] + Storage!SumFunctionOnSet(v, S \ {Chosen(S)})
<1>1. PICK h \in [SUBSET S -> Int] : h[S] = Storage!SumFunctionOnSet(v, S) /\ Sums(h, v, S)
  BY SumRule
<1>2. ASSUME S # {} PROVE h[S \ {Chosen(S)}] = Storage!SumFunctionOnSet(v, S \ {Chosen(S)})
  <2> DEFINE R == S \ {Chosen(S)}
  <2>1. R \in SUBSET T /\ IsFiniteSet(R) /\ R \subseteq S
    BY FS_Subset
  <2> HIDE DEF R
  <2>2. PICK g \in [SUBSET R -> Int] : g[R] = Storage!SumFunctionOnSet(v, R) /\ Sums(g, v, R)
    BY <2>1, SumRule
  <2> DEFINE bad == {n \in Nat : \E s \in SUBSET R : Cardinality(s) = n /\ g[s] # h[s]}
  <2>3. \A s \in SUBSET R : IsFiniteSet(s) /\ Cardinality(s) \in Nat
    BY <2>1, FS_Subset, FS_CardinalityType
  <2>4. bad = {}
    <3> SUFFICES ASSUME bad # {} PROVE FALSE
      OBVIOUS
    <3>1. PICK n \in bad : \A m \in Nat : m < n => m \notin bad
      <4>1. bad \in SUBSET Nat
        OBVIOUS
      <4> HIDE DEF bad
      <4> QED  BY <4>1, LeastNatural
    <3>2. PICK s \in SUBSET R : Cardinality(s) = n /\ g[s] # h[s]
      BY <3>1
    <3>3. s \in SUBSET S
      BY <2>1
      <3>4. /\ g[s] = IF s = {} THEN 0 ELSE v[Chosen(s)] + g[s \ {Chosen(s)}]
          /\ h[s] = IF s = {} THEN 0 ELSE v[Chosen(s)] + h[s \ {Chosen(s)}]
      BY <1>1, <2>2, <3>3 DEF Sums
    <3>5. s # {} /\ g[s \ {Chosen(s)}] # h[s \ {Chosen(s)}]
      BY <3>2, <3>4
    <3>6. Chosen(s) \in s
      BY <3>5 DEF Chosen
    <3>7. s \ {Chosen(s)} \in SUBSET R /\ Cardinality(s \ {Chosen(s)}) = n - 1
      BY <2>3, <3>2, <3>6, FS_RemoveElement
    <3>8. n - 1 \in Nat /\ n - 1 < n
      BY <2>3, <3>7
    <3>9. n - 1 \in bad
      BY <3>5, <3>7, <3>8
    <3> HIDE DEF bad
    <3> QED  BY <3>1, <3>8, <3>9
  <2>5. g[R] = h[R]
    BY <2>3, <2>4
  <2> QED  BY <2>2, <2>5 DEF R
<1>3. h[S] = IF S = {} THEN 0 ELSE v[Chosen(S)] + h[S \ {Chosen(S)}]
  BY <1>1 DEF Sums
<1> QED  BY <1>1, <1>2, <1>3

\* The sum of a set that is not empty, and of the empty one.
LEMMA SumOfChosen ==
  ASSUME NEW T, NEW v \in [T -> Int], NEW S \in SUBSET T, IsFiniteSet(S), S # {}
  PROVE  Storage!SumFunctionOnSet(v, S) = v[Chosen(S)] + Storage!SumFunctionOnSet(v, S \ {Chosen(S)})
BY SumStep

LEMMA SumOfNone ==
  ASSUME NEW T, NEW v \in [T -> Int]
  PROVE  Storage!SumFunctionOnSet(v, {}) = 0
<1>1. {} \in SUBSET T /\ IsFiniteSet({})
  BY FS_EmptySet
<1> QED  BY <1>1, SumStep

\* The order of a sum does not matter: any element can be added last.
LEMMA SumAdds ==
  ASSUME NEW T, NEW v \in [T -> Int], NEW S \in SUBSET T, IsFiniteSet(S), NEW e \in T \ S
  PROVE  Storage!SumFunctionOnSet(v, S \cup {e}) = Storage!SumFunctionOnSet(v, S) + v[e]
<1> DEFINE sum(s) == Storage!SumFunctionOnSet(v, s)
           Adds(s) == \A x \in T \ s : sum(s \cup {x}) = sum(s) + v[x]
           bad == {n \in Nat : \E s \in SUBSET S : Cardinality(s) = n /\ ~Adds(s)}
<1>1. \A s \in SUBSET S : s \in SUBSET T /\ IsFiniteSet(s) /\ Cardinality(s) \in Nat /\ sum(s) \in Int
  BY FS_Subset, FS_CardinalityType, SumStep
<1>2. bad = {}
  <2> SUFFICES ASSUME bad # {} PROVE FALSE
    OBVIOUS
  <2>1. PICK n \in bad : \A m \in Nat : m < n => m \notin bad
    <3>1. bad \in SUBSET Nat
      OBVIOUS
    <3> HIDE DEF bad
    <3> QED  BY <3>1, LeastNatural
  <2>2. PICK s \in SUBSET S : Cardinality(s) = n /\ ~Adds(s)
    BY <2>1
  <2>3. PICK x \in T \ s : sum(s \cup {x}) # sum(s) + v[x]
    BY <2>2
  <2> DEFINE more == s \cup {x}
             y == Chosen(more)
             rest == s \ {y}
  <2>4. more \in SUBSET T /\ IsFiniteSet(more) /\ more # {}
    BY <1>1, <2>3, FS_AddElement
  <2>5. y \in more
    BY <2>4 DEF Chosen
  <2>6. sum(more) = v[y] + sum(more \ {y})
    <3> HIDE DEF more
    <3> QED  BY <2>4, SumOfChosen
  <2> HIDE DEF y
  <2>7. y # x
    <3> SUFFICES ASSUME y = x PROVE FALSE
      OBVIOUS
    <3>1. more \ {y} = s
      BY <2>3
    <3> HIDE DEF more, sum
    <3>2. sum(s) \in Int /\ v[x] \in Int
      BY <1>1, <2>3
    <3>3. sum(s \cup {x}) = v[x] + sum(s)
      BY <2>6, <3>1 DEF more
    <3> QED  BY <2>3, <3>2, <3>3
  <2>8. y \in s /\ y \in T /\ more \ {y} = rest \cup {x} /\ rest \cup {y} = s /\ x \in T \ rest /\ y \in T \ rest
    BY <1>1, <2>3, <2>5, <2>7
  <2>9. rest \in SUBSET S /\ Cardinality(rest) = n - 1
    BY <1>1, <2>2, <2>8, FS_RemoveElement
  <2> HIDE DEF more, sum, rest
  <2>10. n - 1 \in Nat /\ n - 1 < n
    BY <1>1, <2>9
  <2>11. Adds(rest)
    <3> HIDE DEF Adds
    <3>1. n - 1 \notin bad
      <4> HIDE DEF bad
      <4> QED  BY <2>1, <2>10
    <3> QED  BY <2>9, <2>10, <3>1
  <2>12. sum(rest \cup {x}) = sum(rest) + v[x] /\ sum(rest \cup {y}) = sum(rest) + v[y]
    BY <2>8, <2>11
  <2>13. sum(rest) \in Int /\ v[x] \in Int /\ v[y] \in Int
    BY <1>1, <2>3, <2>8, <2>9
  <2>14. sum(more) = v[y] + (sum(rest) + v[x]) /\ sum(s) = sum(rest) + v[y]
    BY <2>6, <2>8, <2>12
  <2> QED  BY <2>3, <2>13, <2>14 DEF more
<1>3. Adds(S)
  <2> HIDE DEF Adds
  <2>1. S \in SUBSET S /\ Cardinality(S) \in Nat
    BY <1>1
  <2> QED  BY <1>2, <2>1
<1> QED  BY <1>3

\* A sum grows with its terms.
LEMMA SumGrows ==
  ASSUME NEW T, NEW v \in [T -> Int], NEW w \in [T -> Int], NEW S \in SUBSET T, IsFiniteSet(S),
         \A s \in S : v[s] <= w[s]
  PROVE  Storage!SumFunctionOnSet(v, S) <= Storage!SumFunctionOnSet(w, S)
<1> DEFINE a(s) == Storage!SumFunctionOnSet(v, s)
           b(s) == Storage!SumFunctionOnSet(w, s)
           bad == {n \in Nat : \E s \in SUBSET S : Cardinality(s) = n /\ ~(a(s) <= b(s))}
<1>1. \A s \in SUBSET S : s \in SUBSET T /\ IsFiniteSet(s) /\ Cardinality(s) \in Nat
  BY FS_Subset, FS_CardinalityType
<1>2. bad = {}
  <2> SUFFICES ASSUME bad # {} PROVE FALSE
    OBVIOUS
  <2>1. PICK n \in bad : \A m \in Nat : m < n => m \notin bad
    <3>1. bad \in SUBSET Nat
      OBVIOUS
    <3> HIDE DEF bad
    <3> QED  BY <3>1, LeastNatural
  <2>2. PICK s \in SUBSET S : Cardinality(s) = n /\ ~(a(s) <= b(s))
    BY <2>1
  <2> DEFINE y == Chosen(s)
  <2>3. /\ s = {} => a(s) = 0 /\ b(s) = 0
        /\ s # {} => a(s) = v[y] + a(s \ {y}) /\ b(s) = w[y] + b(s \ {y})
    <3>1. s \in SUBSET T /\ IsFiniteSet(s)
      BY <1>1
    <3>2. (s = {} => a(s) = 0) /\ (s # {} => a(s) = v[y] + a(s \ {y}))
      <4>1. CASE s = {}
        BY <4>1, SumOfNone
      <4>2. CASE s # {}
        BY <3>1, <4>2, SumOfChosen
      <4> QED  BY <4>1, <4>2
    <3>3. (s = {} => b(s) = 0) /\ (s # {} => b(s) = w[y] + b(s \ {y}))
      <4>1. CASE s = {}
        BY <4>1, SumOfNone
      <4>2. CASE s # {}
        BY <3>1, <4>2, SumOfChosen
      <4> QED  BY <4>1, <4>2
    <3> QED  BY <3>2, <3>3
  <2>4. s # {}
    BY <2>2, <2>3
  <2>5. y \in s
    BY <2>4 DEF Chosen
  <2> HIDE DEF y
  <2>6. s \ {y} \in SUBSET S /\ Cardinality(s \ {y}) = n - 1
    BY <1>1, <2>2, <2>5, FS_RemoveElement
  <2>7. a(s \ {y}) \in Int /\ b(s \ {y}) \in Int
    BY <1>1, <2>6, SumStep
  <2> HIDE DEF a, b
  <2>8. n - 1 \in Nat /\ n - 1 < n
    BY <1>1, <2>6
  <2>9. a(s \ {y}) <= b(s \ {y})
    <3>1. n - 1 \notin bad
      <4> HIDE DEF bad
      <4> QED  BY <2>1, <2>8
    <3> QED  BY <2>6, <2>8, <3>1
  <2>10. v[y] \in Int /\ w[y] \in Int /\ v[y] <= w[y]
    BY <1>1, <2>5
  <2> QED  BY <2>2, <2>3, <2>4, <2>7, <2>9, <2>10
<1>3. S \in SUBSET S /\ Cardinality(S) \in Nat
  BY <1>1
<1> HIDE DEF a, b
<1>4. a(S) <= b(S)
  BY <1>2, <1>3
<1> QED  BY <1>4 DEF a, b

\* Sums of functions that agree are the same.
LEMMA SumSame ==
  ASSUME NEW T, NEW v \in [T -> Int], NEW w \in [T -> Int], NEW S \in SUBSET T, IsFiniteSet(S),
         \A s \in S : v[s] = w[s]
  PROVE  Storage!SumFunctionOnSet(v, S) = Storage!SumFunctionOnSet(w, S)
<1>1. \A s \in S : v[s] \in Int /\ w[s] \in Int
  OBVIOUS
<1>2. \A s \in S : v[s] <= w[s] /\ w[s] <= v[s]
  BY <1>1
<1>3. Storage!SumFunctionOnSet(v, S) <= Storage!SumFunctionOnSet(w, S) /\ Storage!SumFunctionOnSet(w, S) <= Storage!SumFunctionOnSet(v, S)
  BY <1>2, SumGrows
<1>4. Storage!SumFunctionOnSet(v, S) \in Int /\ Storage!SumFunctionOnSet(w, S) \in Int
  BY SumStep
<1> QED  BY <1>3, <1>4

\* A sum without one element.
LEMMA SumWithout ==
  ASSUME NEW T, NEW v \in [T -> Int], NEW S \in SUBSET T, IsFiniteSet(S), NEW e \in T
  PROVE  /\ Storage!SumFunctionOnSet(v, S \ {e}) \in Int
         /\ Storage!SumFunctionOnSet(v, S) = Storage!SumFunctionOnSet(v, S \ {e}) + (IF e \in S THEN v[e] ELSE 0)
<1>1. IsFiniteSet(S \ {e}) /\ S \ {e} \in SUBSET T
  BY FS_Subset
<1>2. Storage!SumFunctionOnSet(v, S \ {e}) \in Int
  BY <1>1, SumStep
<1>3. CASE e \in S
  <2>1. (S \ {e}) \cup {e} = S /\ e \in T \ (S \ {e})
    BY <1>3
  <2>2. Storage!SumFunctionOnSet(v, (S \ {e}) \cup {e}) = Storage!SumFunctionOnSet(v, S \ {e}) + v[e]
    BY <1>1, <2>1, SumAdds
  <2> QED  BY <1>2, <1>3, <2>1, <2>2
<1>4. CASE e \notin S
  <2>1. S \ {e} = S
    BY <1>4
  <2> QED  BY <1>2, <1>4, <2>1
<1> QED  BY <1>3, <1>4

\* Stages in which a job has a claim: until its writer has ended.
Live == {"writing", "merging", "stopping", "ended"}

\* What a job claims, and how much of it it has written.
Claims ==
  \A u \in Users :
    /\ claims[u] # Storage!NoClaim <=> job[u].stage \in Live
    /\ claims[u] # Storage!NoClaim => job[u].written <= claims[u]
    /\ claims[u] # Storage!NoClaim /\ job[u].kind \notin Storage!Unmeasured \cup {"http"} =>
         claims[u] = Storage!Asked(job[u].kind, job[u].size)
    /\ job[u].stage = "merging" => job[u].kind = "segments"
    /\ claims[u] # Storage!NoClaim => job[u].kind # "none"

\* The inductive invariant of the storage.
StorageInv == Storage!TypeOK /\ Claims /\ Storage!HeadroomKept

JobType == [kind : Storage!Kinds \cup {"none"}, size : Nat, written : Nat,
            stage : {"idle", "writing", "merging", "stopping", "ended", "rest"}]

LEMMA LeastOfTwo ==
  ASSUME NEW a \in Int, NEW b \in Int
  PROVE  Storage!Min({a, b}) \in {a, b} /\ Storage!Min({a, b}) <= a /\ Storage!Min({a, b}) <= b
<1>1. \E x \in {a, b} : \A y \in {a, b} : x <= y
  <2>1. CASE a <= b
    BY <2>1
  <2>2. CASE b <= a
    BY <2>2
  <2> QED  BY <2>1, <2>2
<1>2. Storage!Min({a, b}) \in {a, b} /\ \A y \in {a, b} : Storage!Min({a, b}) <= y
  BY <1>1 DEF Storage!Min
<1> QED  BY <1>2

\* What the others claim is what all do without one.
LEMMA ClaimedByOthers ==
  ASSUME Storage!TypeOK, NEW u \in Users
  PROVE  /\ IsFiniteSet(Storage!Claiming) /\ Storage!Claiming \in SUBSET Users
         /\ Storage!Claimed(Storage!Claiming) \in Int /\ Storage!Claimed(Storage!Claiming \ {u}) \in Int
         /\ Storage!SumFunctionOnSet(Storage!Unwritten, Storage!Claiming \ {u}) \in Int
         /\ Storage!SumFunctionOnSet(Storage!Unwritten, Storage!Claiming) =
                      Storage!SumFunctionOnSet(Storage!Unwritten, Storage!Claiming \ {u})
                                + (IF u \in Storage!Claiming THEN claims[u] - job[u].written ELSE 0)
         /\ Storage!SumFunctionOnSet(Storage!Unwritten, Storage!Claiming \ {u}) <= Storage!Claimed(Storage!Claiming \ {u})
<1> DEFINE others == Storage!Claiming \ {u}
<1>1. Storage!Claiming \in SUBSET Users /\ IsFiniteSet(Storage!Claiming) /\ IsFiniteSet(others) /\ others \in SUBSET Users
  BY RuntimeConstants, FS_Subset DEF Storage!Claiming
<1>2. claims \in [Users -> Int] /\ Storage!Unwritten \in [Users -> Int] /\ \A w \in Users : Storage!Unwritten[w] <= claims[w]
  <2>1. \A w \in Users : claims[w] \in Int /\ job[w].written \in Nat
    BY DEF Storage!TypeOK, Storage!NoClaim
  <2> QED  BY <2>1 DEF Storage!Unwritten, Storage!TypeOK
<1>3. Storage!Claimed(Storage!Claiming) \in Int /\ Storage!Claimed(others) \in Int
  BY <1>1, <1>2, SumStep DEF Storage!Claimed
<1>4. Storage!SumFunctionOnSet(Storage!Unwritten, others) <= Storage!Claimed(others)
  BY <1>1, <1>2, SumGrows DEF Storage!Claimed
<1>5. /\ Storage!SumFunctionOnSet(Storage!Unwritten, others) \in Int
      /\ Storage!SumFunctionOnSet(Storage!Unwritten, Storage!Claiming) =
                   Storage!SumFunctionOnSet(Storage!Unwritten, others) + (IF u \in Storage!Claiming THEN Storage!Unwritten[u] ELSE 0)
  BY <1>1, <1>2, SumWithout
<1>6. Storage!Unwritten[u] = claims[u] - job[u].written
  BY DEF Storage!Unwritten
<1> QED  BY <1>1, <1>3, <1>4, <1>5, <1>6

\* A step of one job leaves what the others have to write.
LEMMA OthersUnwritten ==
  ASSUME Storage!TypeOK, Storage!TypeOK', NEW u \in Users,
         \A w \in Users \ {u} : claims'[w] = claims[w] /\ job'[w].written = job[w].written
  PROVE  /\ Storage!Claiming' \ {u} = Storage!Claiming \ {u}
         /\ Storage!SumFunctionOnSet(Storage!Unwritten', Storage!Claiming' \ {u}) = Storage!SumFunctionOnSet(Storage!Unwritten, Storage!Claiming \ {u})
<1>1. Storage!Claiming' \ {u} = Storage!Claiming \ {u}
  BY DEF Storage!Claiming
<1>2. Storage!Unwritten \in [Users -> Int] /\ Storage!Unwritten' \in [Users -> Int]
  <2>1. \A w \in Users : claims[w] \in Int /\ job[w].written \in Nat /\ claims'[w] \in Int /\ job'[w].written \in Nat
    BY DEF Storage!TypeOK, Storage!NoClaim
  <2> QED  BY <2>1 DEF Storage!Unwritten
<1>3. \A w \in Storage!Claiming \ {u} : Storage!Unwritten[w] = Storage!Unwritten'[w]
  BY DEF Storage!Unwritten, Storage!Claiming
<1>4. IsFiniteSet(Storage!Claiming \ {u}) /\ Storage!Claiming \ {u} \in SUBSET Users
  BY RuntimeConstants, FS_Subset DEF Storage!Claiming
<1>5. Storage!SumFunctionOnSet(Storage!Unwritten, Storage!Claiming \ {u}) = Storage!SumFunctionOnSet(Storage!Unwritten', Storage!Claiming \ {u})
  BY <1>2, <1>3, <1>4, SumSame
<1> QED  BY <1>1, <1>5

\* The room of a step of one job: what it may take of what is free, and what it has
\* to write afterwards.
LEMMA RoomKept ==
  ASSUME StorageInv, Storage!TypeOK', NEW u \in Users,
         \A w \in Users \ {u} : claims'[w] = claims[w] /\ job'[w].written = job[w].written,
         outside' = outside,
         LET mine == IF claims[u] = Storage!NoClaim THEN 0 ELSE claims[u] - job[u].written
             left == IF claims'[u] = Storage!NoClaim THEN 0 ELSE claims'[u] - job'[u].written
         IN \/ /\ Storage!Claiming' \subseteq Storage!Claiming
               /\ free' >= free + left - mine
            \/ free' >= Headroom + Storage!Claimed(Storage!Claiming \ {u}) + left
  PROVE  Storage!HeadroomKept'
<1> DEFINE mine == IF claims[u] = Storage!NoClaim THEN 0 ELSE claims[u] - job[u].written
           left == IF claims'[u] = Storage!NoClaim THEN 0 ELSE claims'[u] - job'[u].written
           rest == Storage!SumFunctionOnSet(Storage!Unwritten, Storage!Claiming \ {u})
<1>1. Storage!TypeOK /\ (Storage!Claiming # {} => free + outside >= Headroom + Storage!SumFunctionOnSet(Storage!Unwritten, Storage!Claiming))
  BY DEF StorageInv, Storage!HeadroomKept
<1>2. /\ rest \in Int /\ rest <= Storage!Claimed(Storage!Claiming \ {u}) /\ Storage!Claimed(Storage!Claiming \ {u}) \in Int
      /\ Storage!SumFunctionOnSet(Storage!Unwritten, Storage!Claiming) = rest + mine
  <2>1. (u \in Storage!Claiming) <=> (claims[u] # Storage!NoClaim)
    BY DEF Storage!Claiming
  <2> QED  BY <1>1, <2>1, ClaimedByOthers
<1>3. Storage!SumFunctionOnSet(Storage!Unwritten', Storage!Claiming') = rest + left
  <2>1. (u \in Storage!Claiming') <=> (claims'[u] # Storage!NoClaim)
    BY DEF Storage!Claiming
  <2>2. Storage!SumFunctionOnSet(Storage!Unwritten', Storage!Claiming' \ {u}) = rest
    BY <1>1, OthersUnwritten
  <2>3. Storage!SumFunctionOnSet(Storage!Unwritten', Storage!Claiming') =
                  Storage!SumFunctionOnSet(Storage!Unwritten', Storage!Claiming' \ {u}) + (IF u \in Storage!Claiming' THEN Storage!Unwritten'[u] ELSE 0)
    <3>1. IsFiniteSet(Storage!Claiming') /\ Storage!Claiming' \in SUBSET Users
      BY RuntimeConstants, FS_Subset DEF Storage!Claiming
    <3>2. Storage!Unwritten' \in [Users -> Int]
      <4>1. \A w \in Users : claims'[w] \in Int /\ job'[w].written \in Nat
        BY DEF Storage!TypeOK, Storage!NoClaim
      <4> QED  BY <4>1 DEF Storage!Unwritten
    <3> QED  BY <3>1, <3>2, SumWithout
  <2>4. Storage!Unwritten'[u] = claims'[u] - job'[u].written
    BY DEF Storage!Unwritten
  <2> QED  BY <2>1, <2>2, <2>3, <2>4
<1>4. mine \in Int /\ left \in Int /\ free \in Int /\ free' \in Int /\ outside \in Nat /\ Headroom \in Nat
  BY <1>1, RuntimeConstants DEF Storage!TypeOK, Storage!NoClaim
<1> HIDE DEF mine, left, rest
<1>5. CASE Storage!Claiming' \subseteq Storage!Claiming /\ free' >= free + left - mine
  <2>1. ASSUME Storage!Claiming' # {} PROVE free' + outside >= Headroom + (rest + left)
    <3>1. free + outside >= Headroom + (rest + mine)
      BY <1>1, <1>2, <1>5, <2>1
    <3> QED  BY <1>2, <1>4, <1>5, <3>1
  <2> QED  BY <1>3, <2>1 DEF Storage!HeadroomKept
<1>6. CASE free' >= Headroom + Storage!Claimed(Storage!Claiming \ {u}) + left
  <2>1. free' + outside >= Headroom + (rest + left)
    BY <1>2, <1>4, <1>6
  <2> QED  BY <1>3, <2>1 DEF Storage!HeadroomKept
<1> QED  BY <1>5, <1>6 DEF mine, left

\* A job's record with another stage, or with other bytes written.
LEMMA JobRecord ==
  ASSUME Storage!TypeOK, NEW u \in Users
  PROVE  /\ job[u].kind \in Storage!Kinds \cup {"none"} /\ job[u].size \in Nat /\ job[u].written \in Nat
         /\ \A stage : /\ [job[u] EXCEPT !.stage = stage].kind = job[u].kind
                       /\ [job[u] EXCEPT !.stage = stage].size = job[u].size
                       /\ [job[u] EXCEPT !.stage = stage].written = job[u].written
                       /\ [job[u] EXCEPT !.stage = stage].stage = stage
         /\ \A n : /\ [job[u] EXCEPT !.written = n].kind = job[u].kind
                   /\ [job[u] EXCEPT !.written = n].size = job[u].size
                   /\ [job[u] EXCEPT !.written = n].written = n
                   /\ [job[u] EXCEPT !.written = n].stage = job[u].stage
<1>1. job[u] \in JobType
  BY DEF Storage!TypeOK, JobType
<1> QED  BY <1>1 DEF JobType

\* A step of one job: its record, its claim and what is free fit each other.
LEMMA JobMoves ==
  ASSUME StorageInv, NEW u \in Users, NEW r \in JobType, NEW c \in Nat \cup {Storage!NoClaim},
         job' = [job EXCEPT ![u] = r], claims' = [claims EXCEPT ![u] = c],
         free' \in Nat, outside' = outside,
         c # Storage!NoClaim <=> r.stage \in Live,
         c # Storage!NoClaim => r.written <= c,
         c # Storage!NoClaim /\ r.kind \notin Storage!Unmeasured \cup {"http"} => c = Storage!Asked(r.kind, r.size),
         r.stage = "merging" => r.kind = "segments",
         c # Storage!NoClaim => r.kind # "none",
         NEW mine, mine = IF claims[u] = Storage!NoClaim THEN 0 ELSE claims[u] - job[u].written,
         NEW left, left = IF c = Storage!NoClaim THEN 0 ELSE c - r.written,
         \/ (claims[u] # Storage!NoClaim \/ c = Storage!NoClaim) /\ free' >= free + left - mine
         \/ free' >= Headroom + Storage!Claimed(Storage!Claiming \ {u}) + left
  PROVE  StorageInv'
<1>0. Storage!TypeOK /\ Claims
  BY DEF StorageInv
<1>1. /\ job' \in [Users -> JobType] /\ job'[u] = r /\ \A w \in Users \ {u} : job'[w] = job[w]
      /\ claims' \in [Users -> Nat \cup {Storage!NoClaim}] /\ claims'[u] = c
      /\ \A w \in Users \ {u} : claims'[w] = claims[w]
  BY <1>0 DEF Storage!TypeOK, JobType
<1>2. Storage!TypeOK'
  BY <1>0, <1>1 DEF Storage!TypeOK, JobType
<1>3. Claims'
  <2> SUFFICES ASSUME NEW w \in Users
               PROVE  /\ claims'[w] # Storage!NoClaim <=> job'[w].stage \in Live
                      /\ claims'[w] # Storage!NoClaim => job'[w].written <= claims'[w]
                      /\ claims'[w] # Storage!NoClaim /\ job'[w].kind \notin Storage!Unmeasured \cup {"http"} =>
                           claims'[w] = Storage!Asked(job'[w].kind, job'[w].size)
                      /\ job'[w].stage = "merging" => job'[w].kind = "segments"
                      /\ claims'[w] # Storage!NoClaim => job'[w].kind # "none"
    BY DEF Claims
  <2>1. CASE w = u
    BY <1>1, <2>1
  <2>2. CASE w # u
    BY <1>0, <1>1, <2>2 DEF Claims
  <2> QED  BY <2>1, <2>2
<1>4. claims[u] # Storage!NoClaim \/ c = Storage!NoClaim => Storage!Claiming' \subseteq Storage!Claiming
  BY <1>1 DEF Storage!Claiming
<1>5. Storage!HeadroomKept'
  BY <1>1, <1>2, <1>4, RoomKept
<1> QED  BY <1>2, <1>3, <1>5 DEF StorageInv

\* A step that changes the stage of one job among those with a claim.
LEMMA StageChanges ==
  ASSUME StorageInv, NEW u \in Users, NEW stage \in Live,
         Storage!Staged(u, stage), UNCHANGED <<free, outside, claims>>,
         job[u].stage \in Live, stage = "merging" => job[u].kind = "segments"
  PROVE  StorageInv'
<1> DEFINE r == [job[u] EXCEPT !.stage = stage]
<1>1. /\ r.kind = job[u].kind /\ r.size = job[u].size /\ r.written = job[u].written /\ r.stage = stage
      /\ job' = [job EXCEPT ![u] = r] /\ Storage!TypeOK /\ Claims
  BY JobRecord DEF StorageInv, Storage!Staged
<1>2. r \in JobType
  <2>1. job[u] \in JobType
    BY <1>1 DEF Storage!TypeOK, JobType
  <2> QED  BY <2>1 DEF JobType, Live
<1> HIDE DEF r
<1>3. claims' = [claims EXCEPT ![u] = claims[u]] /\ claims[u] \in Nat /\ claims[u] # Storage!NoClaim /\ free \in Nat
  BY <1>1 DEF Storage!TypeOK, Claims
<1>4. /\ job[u].written <= claims[u] /\ job[u].written \in Nat
      /\ job[u].kind \notin Storage!Unmeasured \cup {"http"} => claims[u] = Storage!Asked(job[u].kind, job[u].size)
  <2>1. job[u].written \in Nat
    BY <1>1, JobRecord
  <2> QED  BY <1>1, <1>3, <2>1 DEF Claims
<1>5. free' >= free + (claims[u] - job[u].written) - (claims[u] - job[u].written)
  BY <1>3, <1>4
<1>6. r.written <= claims[u] /\ (r.kind \notin Storage!Unmeasured \cup {"http"} => claims[u] = Storage!Asked(r.kind, r.size))
  BY <1>1, <1>4
<1>7. r.stage \in Live /\ (r.stage = "merging" => r.kind = "segments") /\ r.kind # "none"
  BY <1>1, <1>3 DEF Claims
<1> QED  BY <1>1, <1>2, <1>3, <1>5, <1>6, <1>7, JobMoves

LEMMA ReserveKeeps ==
  ASSUME StorageInv, NEW u \in Users, NEW kind \in Storage!Kinds, NEW size \in Sizes, Storage!Reserve(u, kind, size)
  PROVE  StorageInv'
<1> DEFINE r == [kind |-> kind, size |-> size, written |-> 0, stage |-> "writing"]
           c == IF kind \in Storage!Unmeasured THEN Storage!Rest(u) ELSE Storage!Asked(kind, size)
<1>0. Storage!TypeOK /\ Claims /\ size \in Nat /\ job[u] = Storage!Idle /\ Storage!Fits(Storage!Asked(kind, size)) /\ free \in Nat
  BY RuntimeConstants DEF StorageInv, Storage!Reserve, Storage!TypeOK
<1>1. claims[u] = Storage!NoClaim /\ Storage!Claiming \ {u} = Storage!Claiming
  BY <1>0 DEF Claims, Storage!Idle, Live, Storage!Claiming
<1>2. Storage!Asked(kind, size) \in Nat /\ Storage!Claimed(Storage!Claiming) \in Int /\ Storage!Asked(kind, size) + Storage!Claimed(Storage!Claiming) + Headroom <= free
  <2>1. Storage!Asked(kind, size) \in Nat
    BY <1>0 DEF Storage!Asked
  <2>2. Storage!Claimed(Storage!Claiming) \in Int
    BY <1>0, ClaimedByOthers
  <2> QED  BY <1>0, <2>1, <2>2 DEF Storage!Fits
<1>3. kind \in Storage!Unmeasured => Storage!Rest(u) \in Nat /\ Storage!Rest(u) + Storage!Claimed(Storage!Claiming) + Headroom <= free
  <2> DEFINE least == free - Storage!Claimed(Storage!Claiming) - Headroom
  <2>1. Storage!Rest(u) = Storage!Min({MaxResource, least}) /\ least \in Nat
    <3>1. least \in Nat
      BY <1>0, <1>2, RuntimeConstants
    <3>2. Storage!Rest(u) = Storage!Min({MaxResource, free - Storage!Claimed(Storage!Claiming) - Headroom})
      BY <1>1 DEF Storage!Rest
    <3> QED  BY <3>1, <3>2
  <2>2. MaxResource \in Int /\ least \in Int
    BY <2>1, RuntimeConstants
  <2> HIDE DEF least
  <2>3. Storage!Rest(u) \in Nat /\ Storage!Rest(u) <= least
    BY <2>1, <2>2, LeastOfTwo, RuntimeConstants
  <2> QED  BY <1>0, <1>2, <2>3, RuntimeConstants DEF least
<1>4. c \in Nat /\ c + Storage!Claimed(Storage!Claiming) + Headroom <= free /\ (kind \notin Storage!Unmeasured => c = Storage!Asked(kind, size))
  BY <1>2, <1>3
<1>5. /\ job' = [job EXCEPT ![u] = r] /\ claims' = [claims EXCEPT ![u] = c]
      /\ free' = free /\ outside' = outside
  BY DEF Storage!Reserve
<1>6. r \in JobType /\ r.kind = kind /\ r.size = size /\ r.written = 0 /\ r.stage = "writing"
  BY <1>0 DEF JobType
<1> HIDE DEF r, c
<1>7. c # Storage!NoClaim /\ r.written <= c /\ c - r.written = c
  BY <1>4, <1>6 DEF Storage!NoClaim
<1>8. free' >= Headroom + Storage!Claimed(Storage!Claiming \ {u}) + c
  <2>1. Storage!Claimed(Storage!Claiming \ {u}) = Storage!Claimed(Storage!Claiming)
    BY <1>1
  <2> QED  BY <1>0, <1>2, <1>4, <1>5, <2>1, RuntimeConstants
<1>9. r.stage \in Live /\ r.kind # "none"
  BY <1>6 DEF Live, Storage!Kinds, Storage!Unmeasured
<1> QED  BY <1>0, <1>4, <1>5, <1>6, <1>7, <1>8, <1>9, JobMoves

LEMMA ClaimRestKeeps ==
  ASSUME StorageInv, NEW u \in Users, Storage!ClaimRest(u)
  PROVE  StorageInv'
<1>1. CASE Storage!Rest(u) < 0
  BY <1>1, StageChanges DEF Storage!ClaimRest, Live
<1>2. CASE ~(Storage!Rest(u) < 0)
  <2> DEFINE least == free - Storage!Claimed(Storage!Claiming \ {u}) - Headroom
  <2>0. Storage!TypeOK /\ Claims /\ free \in Nat
    BY DEF StorageInv, Storage!TypeOK
  <2>1. /\ job[u].kind = "http" /\ job[u].stage = "writing" /\ job[u].written = 0
        /\ claims' = [claims EXCEPT ![u] = Storage!Rest(u)] /\ job' = job /\ free' = free /\ outside' = outside
    BY <1>2 DEF Storage!ClaimRest
  <2>2. Storage!Claimed(Storage!Claiming \ {u}) \in Int /\ MaxResource \in Int /\ Storage!Rest(u) = Storage!Min({MaxResource, least})
    BY <2>0, ClaimedByOthers, RuntimeConstants DEF Storage!Rest
  <2>3. least \in Int
    BY <2>0, <2>2, RuntimeConstants
  <2> HIDE DEF least
  <2>4. Storage!Rest(u) \in Nat /\ Storage!Rest(u) <= least
    <3>1. Storage!Rest(u) \in {MaxResource, least} /\ Storage!Rest(u) <= least
      BY <2>2, <2>3, LeastOfTwo
    <3> QED  BY <1>2, <2>3, <3>1, RuntimeConstants
  <2>5. free' >= Headroom + Storage!Claimed(Storage!Claiming \ {u}) + Storage!Rest(u) /\ Storage!Rest(u) - job[u].written = Storage!Rest(u)
    BY <2>0, <2>1, <2>2, <2>4, RuntimeConstants DEF least
  <2>6. job[u] \in JobType /\ job' = [job EXCEPT ![u] = job[u]]
    BY <2>0, <2>1 DEF Storage!TypeOK, JobType
  <2>7. Storage!Rest(u) # Storage!NoClaim
    BY <2>4 DEF Storage!NoClaim
  <2>8. job[u].stage \in Live /\ job[u].written <= Storage!Rest(u)
    BY <2>1, <2>4 DEF Live
  <2> QED  BY <2>0, <2>1, <2>4, <2>5, <2>6, <2>7, <2>8, JobMoves
<1> QED  BY <1>1, <1>2

LEMMA ChunkKeeps ==
  ASSUME StorageInv, NEW u \in Users, Storage!Chunk(u)
  PROVE  StorageInv'
<1>1. CASE ~Storage!Passes(u)
  BY <1>1, StageChanges DEF Storage!Chunk, Live
<1>2. CASE Storage!Passes(u)
  <2> DEFINE r == [job[u] EXCEPT !.written = job[u].written + 1]
  <2>0. Storage!TypeOK /\ Claims /\ free \in Nat
    BY DEF StorageInv, Storage!TypeOK
  <2>1. /\ \/ job[u].stage \in {"writing", "merging"}
           \/ job[u].stage = "stopping" /\ job[u].kind = "torrent"
        /\ free > 0 /\ free' = free - 1 /\ outside' = outside /\ claims' = claims
        /\ job' = [job EXCEPT ![u] = r]
    BY <1>2 DEF Storage!Chunk
  <2>2. /\ job[u].kind \in Storage!Kinds \cup {"none"} /\ job[u].size \in Nat /\ job[u].written \in Nat
        /\ r.kind = job[u].kind /\ r.size = job[u].size /\ r.written = job[u].written + 1 /\ r.stage = job[u].stage
    BY <2>0, JobRecord
  <2>3. r \in JobType
    <3>1. job[u] \in JobType
      BY <2>0 DEF Storage!TypeOK, JobType
    <3> QED  BY <2>2, <3>1 DEF JobType
  <2> HIDE DEF r
  <2>4. job[u].stage \in Live /\ claims[u] # Storage!NoClaim /\ claims[u] \in Nat
    BY <2>0, <2>1 DEF Live, Claims, Storage!TypeOK
  <2>5. /\ job[u].written <= claims[u]
        /\ job[u].kind \notin Storage!Unmeasured \cup {"http"} => claims[u] = Storage!Asked(job[u].kind, job[u].size)
        /\ job[u].stage = "merging" => job[u].kind = "segments"
        /\ job[u].kind # "none"
    BY <2>0, <2>4 DEF Claims
  <2>6. job[u].written + 1 <= claims[u]
    <3>1. CASE job[u].kind \in {"copy", "torrent", "zip", "segments", "sevenzip"}
      <4>1. job[u].written < Storage!Asked(job[u].kind, job[u].size)
        BY <1>2, <3>1 DEF Storage!Passes, Storage!Bound, Storage!Unmeasured
      <4>2. claims[u] = Storage!Asked(job[u].kind, job[u].size)
        BY <2>5, <3>1 DEF Storage!Unmeasured
      <4> QED  BY <2>2, <2>4, <4>1, <4>2
    <3>2. CASE job[u].kind \in {"http", "gzip", "unknown"}
      <4>1. job[u].stage = "writing"
        BY <2>1, <2>5, <3>2
      <4>2. job[u].kind \in Storage!Checked /\ job[u].kind \notin {"zip", "torrent"}
        BY <3>2 DEF Storage!Checked, Storage!Kinds, Storage!Unmeasured
      <4>3. Storage!Checks(u, job[u].written + 1)
        BY <1>2, <4>1, <4>2 DEF Storage!Passes
      <4> QED  BY <4>2, <4>3 DEF Storage!Checks
    <3> QED  BY <2>2, <2>5, <3>1, <3>2 DEF Storage!Kinds, Storage!Unmeasured
  <2>7. claims' = [claims EXCEPT ![u] = claims[u]] /\ free' \in Nat
    BY <2>0, <2>1 DEF Storage!TypeOK
  <2>8. free' >= free + (claims[u] - r.written) - (claims[u] - job[u].written)
    BY <2>0, <2>1, <2>2, <2>4
  <2>9. r.stage \in Live /\ r.written <= claims[u]
    BY <2>2, <2>4, <2>6
  <2>10. /\ r.kind \notin Storage!Unmeasured \cup {"http"} => claims[u] = Storage!Asked(r.kind, r.size)
         /\ r.stage = "merging" => r.kind = "segments"
         /\ r.kind # "none"
    BY <2>2, <2>5
  <2> QED  BY <2>1, <2>3, <2>4, <2>7, <2>8, <2>9, <2>10, JobMoves
<1> QED  BY <1>1, <1>2

LEMMA TruncateKeeps ==
  ASSUME StorageInv, NEW u \in Users, Storage!Truncate(u)
  PROVE  StorageInv'
<1> DEFINE r == [job[u] EXCEPT !.written = 0]
<1>0. Storage!TypeOK /\ Claims /\ free \in Nat
  BY DEF StorageInv, Storage!TypeOK
<1>1. /\ job[u].kind = "segments" /\ job[u].stage = "writing" /\ free' = free + job[u].written
      /\ job' = [job EXCEPT ![u] = r] /\ claims' = claims /\ outside' = outside
  BY DEF Storage!Truncate
<1>2. /\ job[u].size \in Nat /\ job[u].written \in Nat
      /\ r.kind = "segments" /\ r.size = job[u].size /\ r.written = 0 /\ r.stage = "writing"
  BY <1>0, <1>1, JobRecord
<1>3. r \in JobType
  <2>1. job[u] \in JobType
    BY <1>0 DEF Storage!TypeOK, JobType
  <2> QED  BY <1>2, <2>1 DEF JobType, Storage!Kinds
<1> HIDE DEF r
<1>4. claims[u] \in Nat /\ claims[u] # Storage!NoClaim /\ claims[u] = Storage!Asked(r.kind, r.size)
  BY <1>0, <1>1, <1>2 DEF Live, Claims, Storage!TypeOK, Storage!Unmeasured
<1>5. claims' = [claims EXCEPT ![u] = claims[u]] /\ free' \in Nat
  BY <1>0, <1>1, <1>2 DEF Storage!TypeOK
<1>6. free' >= free + (claims[u] - r.written) - (claims[u] - job[u].written)
  BY <1>0, <1>1, <1>2, <1>4
<1>7. r.stage \in Live /\ r.written <= claims[u] /\ r.kind # "none" /\ r.stage # "merging"
  BY <1>2, <1>4 DEF Live
<1> QED  BY <1>1, <1>3, <1>4, <1>5, <1>6, <1>7, JobMoves

LEMMA ReleaseKeeps ==
  ASSUME StorageInv, NEW u \in Users, Storage!Release(u)
  PROVE  StorageInv'
<1> DEFINE r == [job[u] EXCEPT !.stage = "rest"]
<1>0. Storage!TypeOK /\ Claims /\ free \in Nat
  BY DEF StorageInv, Storage!TypeOK
<1>1. /\ job[u].stage = "ended" /\ job' = [job EXCEPT ![u] = r] /\ claims' = [claims EXCEPT ![u] = Storage!NoClaim]
      /\ free' = free /\ outside' = outside
  BY DEF Storage!Release, Storage!Releases
<1>2. r.stage = "rest" /\ r.written \in Nat /\ job[u].written \in Nat
  BY <1>0, JobRecord
<1>3. r \in JobType
  <2>1. job[u] \in JobType
    BY <1>0 DEF Storage!TypeOK, JobType
  <2> QED  BY <2>1 DEF JobType
<1> HIDE DEF r
<1>4. claims[u] \in Nat /\ claims[u] # Storage!NoClaim /\ job[u].written <= claims[u]
  BY <1>0, <1>1 DEF Live, Claims, Storage!TypeOK
<1>5. free' >= free + 0 - (claims[u] - job[u].written)
  BY <1>0, <1>1, <1>2, <1>4
<1>6. r.stage \notin Live /\ r.stage # "merging" /\ Storage!NoClaim \in Nat \cup {Storage!NoClaim}
  BY <1>2 DEF Live
<1> QED  BY <1>0, <1>1, <1>3, <1>4, <1>5, <1>6, JobMoves

LEMMA ForgetKeeps ==
  ASSUME StorageInv, NEW u \in Users, Storage!Forget(u)
  PROVE  StorageInv'
<1>0. Storage!TypeOK /\ Claims /\ free \in Nat /\ job[u].written \in Nat
  BY JobRecord DEF StorageInv, Storage!TypeOK
<1>1. /\ job[u].stage = "rest" /\ job' = [job EXCEPT ![u] = Storage!Idle] /\ claims' = claims /\ outside' = outside
      /\ free' \in {free, free + job[u].written}
  BY DEF Storage!Forget
<1>2. claims[u] = Storage!NoClaim /\ claims' = [claims EXCEPT ![u] = Storage!NoClaim] /\ free' \in Nat
  BY <1>0, <1>1 DEF Live, Claims, Storage!TypeOK
<1>3. Storage!Idle \in JobType /\ Storage!Idle.stage \notin Live /\ Storage!Idle.stage # "merging"
  BY DEF Storage!Idle, JobType, Live
<1>4. free' >= free + 0 - 0
  BY <1>0, <1>1
<1> QED  BY <1>1, <1>2, <1>3, <1>4, JobMoves

\* The storage as other programs use it.
LEMMA OutsideKeeps ==
  ASSUME StorageInv, Storage!Outside
  PROVE  StorageInv'
<1>1. Storage!TypeOK /\ Claims /\ claims' = claims /\ job' = job
  BY DEF StorageInv, Storage!Outside
<1>2. free' \in Nat /\ outside' \in Nat /\ free' + outside' = free + outside
  BY <1>1 DEF Storage!Outside, Storage!TypeOK
<1>3. Storage!TypeOK' /\ Claims'
  BY <1>1, <1>2 DEF Storage!TypeOK, Claims
<1>4. Storage!Claiming' = Storage!Claiming /\ Storage!Unwritten' = Storage!Unwritten
  BY <1>1 DEF Storage!Claiming, Storage!Unwritten
<1>5. Storage!HeadroomKept'
  BY <1>2, <1>4 DEF StorageInv, Storage!HeadroomKept
<1> QED  BY <1>3, <1>5 DEF StorageInv

\* The invariant of the storage holds at first, and every step keeps it.
LEMMA StorageStarts ==
  ASSUME Storage!Init
  PROVE  StorageInv
<1>1. Storage!TypeOK /\ Claims
  BY RuntimeConstants DEF Storage!Init, Storage!TypeOK, Claims, Storage!NoClaim, Storage!Idle, Live, Storage!Kinds
<1>2. Storage!Claiming = {}
  BY DEF Storage!Init, Storage!Claiming
<1> QED  BY <1>1, <1>2 DEF StorageInv, Storage!HeadroomKept

LEMMA StorageKeeps ==
  ASSUME StorageInv, Storage!Next
  PROVE  StorageInv'
<1>1. CASE Storage!Outside
  BY <1>1, OutsideKeeps
<1>2. ASSUME NEW u \in Users, NEW kind \in Storage!Kinds, NEW size \in Sizes, Storage!Reserve(u, kind, size)
      PROVE  StorageInv'
  BY <1>2, ReserveKeeps
<1>3. ASSUME NEW u \in Users, Storage!ClaimRest(u) \/ Storage!Chunk(u) \/ Storage!Truncate(u) \/ Storage!Release(u) \/ Storage!Forget(u)
      PROVE  StorageInv'
  BY <1>3, ClaimRestKeeps, ChunkKeeps, TruncateKeeps, ReleaseKeeps, ForgetKeeps
<1>4. ASSUME NEW u \in Users, Storage!Merge(u) \/ Storage!TimerCheck(u) \/ Storage!Stop(u) \/ Storage!Close(u)
      PROVE  StorageInv'
  <2>1. CASE Storage!Merge(u)
    <3>1. job[u].kind = "segments" /\ job[u].stage = "writing"
      BY <2>1 DEF Storage!Merge, Storage!PartsDone
    <3>2. CASE Storage!Checks(u, 0)
      BY <2>1, <3>1, <3>2, StageChanges DEF Storage!Merge, Live
    <3>3. CASE ~Storage!Checks(u, 0)
      BY <2>1, <3>1, <3>3, StageChanges DEF Storage!Merge, Live
    <3> QED  BY <3>2, <3>3
  <2>2. CASE Storage!TimerCheck(u)
    BY <2>2, StageChanges DEF Storage!TimerCheck, Live
  <2>3. CASE Storage!Stop(u)
    BY <2>3, StageChanges DEF Storage!Stop, Live
  <2>4. CASE Storage!Close(u)
    BY <2>4, StageChanges DEF Storage!Close, Live
  <2> QED  BY <1>4, <2>1, <2>2, <2>3, <2>4
<1> QED  BY <1>1, <1>2, <1>3, <1>4 DEF Storage!Next

LEMMA StorageRests ==
  ASSUME StorageInv, UNCHANGED ofStorage
  PROVE  StorageInv'
BY DEF StorageInv, ofStorage, Storage!TypeOK, Claims, Storage!HeadroomKept, Storage!Claiming, Storage!Unwritten

\* The writers that live are among those that claim.
LEMMA WritersHaveClaims ==
  ASSUME StorageInv
  PROVE  Storage!WritersClaim
BY DEF StorageInv, Claims, Storage!WritersClaim, Live, Storage!Claiming

-----------------------------------------------------------------------------
(* The dashboard.                                                          *)

\* The dashboard uses the operators of SequencesExt and Functions.
LEMMA SameOperators ==
  /\ \A q, i : Console!RemoveAt(q, i) = RemoveAt(q, i)
  /\ \A q : Console!Range(q) = Range(q) /\ Console!IsInjective(q) = IsInjective(q)
<1>1. \A q, i : Console!RemoveAt(q, i) = RemoveAt(q, i)
  BY DEF Console!RemoveAt, RemoveAt
<1>2. \A q : Console!Range(q) = Range(q)
  BY DEF Console!Range, Range
<1>3. \A q : Console!IsInjective(q) = IsInjective(q)
  BY DEF Console!IsInjective, IsInjective
<1> QED  BY <1>1, <1>2, <1>3

\* The list the pane shows.
Seen == IF pane = "sessions" THEN sessions ELSE jobs

\* An id is listed once, and not any more once its item was removed.
ListedOnce ==
  /\ Console!IsInjective(jobs) /\ Console!IsInjective(sessions)
  /\ Console!Range(jobs) \cap gone = {} /\ Console!Range(sessions) \cap gone = {}

\* The question that is open is the last key's, unless its item has gone meanwhile:
\* a Delete that finds the list empty leaves it open.
QuestionIsLast ==
  confirmation # Console!Nothing =>
    \E item \in Jobs \cup Sessions :
      /\ confirmation = <<pane, item>>
      /\ item \in gone \/ (lastKey = <<"delete", item>> /\ item \in Console!Range(Seen))

\* The inductive invariant of the dashboard.
ConsoleInv == Console!TypeOK /\ ListedOnce /\ QuestionIsLast

\* An index that is past the end of a list is moved into it.
LEMMA ClampedIndex ==
  ASSUME NEW S, NEW list \in Seq(S), NEW index \in Nat
  PROVE  /\ Console!Clamped(index, list) \in Nat
         /\ list # <<>> => Console!Clamped(index, list) + 1 \in DOMAIN list
         /\ Console!ItemAt(Console!Clamped(index, list), list) =
                      IF list = <<>> THEN None ELSE list[Console!Clamped(index, list) + 1]
<1>1. Len(list) \in Nat /\ DOMAIN list = 1..Len(list) /\ (list = <<>> <=> Len(list) = 0)
  BY EmptySeq, LenProperties
<1>2. Console!Clamped(index, list) \in Nat /\ (Len(list) > 0 => Console!Clamped(index, list) < Len(list))
      /\ (Len(list) = 0 => Console!Clamped(index, list) = 0)
  BY <1>1 DEF Console!Clamped, Console!Smaller, Console!Larger
<1> QED  BY <1>1, <1>2 DEF Console!ItemAt

\* Lists with the same elements, each once.
Same(list, other) == Console!IsInjective(other) /\ Console!Range(other) = Console!Range(list)

\* The first job becomes the last one.
LEMMA Rotated ==
  ASSUME NEW S, NEW list \in Seq(S), Console!IsInjective(list), Len(list) > 1
  PROVE  /\ Append(Console!RemoveAt(list, 1), list[1]) \in Seq(S)
         /\ Same(list, Append(Console!RemoveAt(list, 1), list[1]))
<1>1. 1 \in DOMAIN list /\ list[1] \in S /\ list[1] \in Console!Range(list)
  BY DEF Console!Range
<1>2. /\ Console!RemoveAt(list, 1) \in Seq(S) /\ Console!IsInjective(Console!RemoveAt(list, 1))
      /\ Console!Range(Console!RemoveAt(list, 1)) = Console!Range(list) \ {list[1]}
  BY <1>1, RemoveAtProperties, SameOperators
<1>3. list[1] \notin Console!Range(Console!RemoveAt(list, 1))
  BY <1>2
<1>4. /\ Append(Console!RemoveAt(list, 1), list[1]) \in Seq(S) /\ Console!IsInjective(Append(Console!RemoveAt(list, 1), list[1]))
      /\ Console!Range(Append(Console!RemoveAt(list, 1), list[1])) = Console!Range(Console!RemoveAt(list, 1)) \cup {list[1]}
  BY <1>1, <1>2, <1>3, AppendNew, SameOperators
<1> QED  BY <1>1, <1>2, <1>4 DEF Same

\* Two neighbours change places.
LEMMA Swapped ==
  ASSUME NEW S, NEW list \in Seq(S), Console!IsInjective(list), NEW i \in DOMAIN list, NEW j \in DOMAIN list
  PROVE  LET other == [list EXCEPT ![i] = list[j], ![j] = list[i]] IN other \in Seq(S) /\ Same(list, other)
<1> DEFINE other == [list EXCEPT ![i] = list[j], ![j] = list[i]]
<1>1. DOMAIN list = 1..Len(list) /\ \A k \in DOMAIN list : list[k] \in S
  OBVIOUS
<1>2. /\ DOMAIN other = DOMAIN list /\ other[j] = list[i] /\ other[i] = list[j]
      /\ \A k \in DOMAIN list \ {i, j} : other[k] = list[k]
  OBVIOUS
<1>3. other \in Seq(S)
  OBVIOUS
<1> HIDE DEF other
<1>4. Console!Range(other) = Console!Range(list)
  BY <1>2 DEF Console!Range
<1>5. Console!IsInjective(other)
  BY <1>2 DEF Console!IsInjective
<1> QED  BY <1>3, <1>4, <1>5 DEF Same, other

\* The variables the question depends on, when neither it nor its lists change.
LEMMA QuestionStays ==
  ASSUME ConsoleInv, Console!TypeOK', UNCHANGED <<Console!lists, pane, confirmation, lastKey>>
  PROVE  ConsoleInv'
BY DEF ConsoleInv, ListedOnce, QuestionIsLast, Seen, Console!lists

\* A key that withdraws the question.
LEMMA QuestionWithdrawn ==
  ASSUME ConsoleInv, Console!TypeOK', ListedOnce', confirmation' = Console!Nothing
  PROVE  ConsoleInv'
BY DEF ConsoleInv, QuestionIsLast

LEMMA Indices ==
  ASSUME Console!TypeOK
  PROVE  /\ Console!Clamped(jobIndex, jobs) \in Nat /\ Console!Clamped(sessionIndex, sessions) \in Nat
         /\ jobs # <<>> => Console!Clamped(jobIndex, jobs) + 1 \in DOMAIN jobs
         /\ sessions # <<>> => Console!Clamped(sessionIndex, sessions) + 1 \in DOMAIN sessions
         /\ Console!SelectedJob = IF jobs = <<>> THEN None ELSE jobs[Console!Clamped(jobIndex, jobs) + 1]
         /\ Console!SelectedSession = IF sessions = <<>> THEN None ELSE sessions[Console!Clamped(sessionIndex, sessions) + 1]
BY ClampedIndex DEF Console!TypeOK, Console!SelectedJob, Console!SelectedSession

\* The steps that change no list, and those of keys that withdraw the question.
LEMMA ScreenKeeps ==
  ASSUME ConsoleInv, Console!Start \/ Console!Close \/ Console!Fails \/ Console!RequestRender \/ Console!Render
  PROVE  ConsoleInv'
<1>1. Console!TypeOK /\ Console!Clamped(jobIndex, jobs) \in Nat /\ Console!Clamped(sessionIndex, sessions) \in Nat
  BY Indices DEF ConsoleInv
<1>2. UNCHANGED <<Console!lists, pane, confirmation, lastKey>>
  BY DEF Console!Start, Console!Close, Console!Fails, Console!RequestRender, Console!Render, Console!lists
<1>3. jobs' = jobs /\ sessions' = sessions /\ gone' = gone /\ pane' = pane
  BY <1>2 DEF Console!lists
<1>4. jobIndex' \in Nat /\ sessionIndex' \in Nat
  BY <1>1 DEF Console!Start, Console!Close, Console!Fails, Console!RequestRender, Console!Render, Console!TypeOK
<1>5. pending' \in BOOLEAN /\ stopped' \in BOOLEAN /\ renderTimer' \in BOOLEAN
  <2>1. pending \in BOOLEAN /\ stopped \in BOOLEAN /\ renderTimer \in BOOLEAN
    BY <1>1 DEF Console!TypeOK
  <2> QED  BY <2>1 DEF Console!Start, Console!Close, Console!Fails, Console!RequestRender, Console!Render, Console!screen
<1>6. Console!TypeOK'
  BY <1>1, <1>3, <1>4, <1>5 DEF Console!TypeOK
<1> QED  BY <1>2, <1>6, QuestionStays

LEMMA KeysKeep ==
  ASSUME ConsoleInv,
         Console!TabKey \/ Console!ActionKey \/ \E delta \in {-1, 1} : Console!ArrowKey(delta) \/ Console!PriorityKey(delta)
  PROVE  ConsoleInv'
<1>1. Console!TypeOK /\ ListedOnce /\ Console!Clamped(jobIndex, jobs) \in Nat /\ Console!Clamped(sessionIndex, sessions) \in Nat
  BY Indices DEF ConsoleInv
<1>2. confirmation' = Console!Nothing /\ sessions' = sessions /\ gone' = gone
  BY DEF Console!TabKey, Console!ActionKey, Console!ArrowKey, Console!PriorityKey, Console!Withdrawn, Console!lists
<1>3. jobs' \in Seq(Jobs) /\ Same(jobs, jobs')
  <2>1. ASSUME NEW delta \in {-1, 1}, Console!PriorityKey(delta) PROVE jobs' \in Seq(Jobs) /\ Same(jobs, jobs')
    <3> DEFINE index == Console!Clamped(jobIndex, jobs)
               target == index + delta
    <3>1. CASE target \in 0..(Len(jobs) - 1)
      <4>1. jobs' = [jobs EXCEPT ![index + 1] = jobs[target + 1], ![target + 1] = jobs[index + 1]]
        BY <2>1, <3>1 DEF Console!PriorityKey
      <4>2. jobs \in Seq(Jobs) /\ Len(jobs) \in Nat /\ Console!IsInjective(jobs) /\ DOMAIN jobs = 1..Len(jobs)
        BY <1>1 DEF Console!TypeOK, ListedOnce
      <4>3. Len(jobs) > 0
        BY <3>1, <4>2
      <4>4. jobs # <<>>
        BY <4>3
      <4>5. index + 1 \in DOMAIN jobs
        BY <1>1, <4>4, Indices
      <4>6. target + 1 \in DOMAIN jobs
        BY <3>1, <4>2
      <4> HIDE DEF index, target
      <4> QED  BY <4>1, <4>2, <4>5, <4>6, Swapped
    <3>2. CASE ~(target \in 0..(Len(jobs) - 1))
      BY <1>1, <2>1, <3>2 DEF Console!PriorityKey, Console!TypeOK, ListedOnce, Same
    <3> QED  BY <3>1, <3>2
  <2>2. CASE Console!TabKey \/ Console!ActionKey \/ \E delta \in {-1, 1} : Console!ArrowKey(delta)
    <3>1. jobs' = jobs
      BY <2>2 DEF Console!TabKey, Console!ActionKey, Console!ArrowKey, Console!lists
    <3> QED  BY <1>1, <3>1 DEF Console!TypeOK, ListedOnce, Same
  <2> QED  BY <2>1, <2>2
<1>4. ListedOnce'
  BY <1>1, <1>2, <1>3 DEF ListedOnce, Same
<1>5. pane' \in {"jobs", "sessions", "logs"}
  BY <1>1 DEF Console!TabKey, Console!ActionKey, Console!ArrowKey, Console!PriorityKey, Console!TypeOK
<1>6. jobIndex' \in Nat /\ sessionIndex' \in Nat
  <2>1. ASSUME NEW S, NEW list \in Seq(S), NEW index \in Nat, NEW delta \in {-1, 1}
        PROVE  Console!Moved(index, list, delta) \in Nat
    <3>1. Len(list) \in Nat
      BY LenProperties
    <3> QED  BY <3>1 DEF Console!Moved, Console!Larger, Console!Smaller
  <2>2. \A delta \in {-1, 1} : Console!Moved(Console!Clamped(jobIndex, jobs), jobs, delta) \in Nat
                               /\ Console!Moved(sessionIndex, sessions, delta) \in Nat
    BY <1>1, <2>1 DEF Console!TypeOK
  <2> QED  BY <1>1, <2>2 DEF Console!TabKey, Console!ActionKey, Console!ArrowKey, Console!PriorityKey, Console!TypeOK
<1>7. pending' \in BOOLEAN /\ stopped' \in BOOLEAN /\ renderTimer' \in BOOLEAN
  <2>1. pending \in BOOLEAN /\ stopped \in BOOLEAN
    BY <1>1 DEF Console!TypeOK
  <2>2. stopped' = stopped /\ renderTimer' = TRUE
    BY DEF Console!TabKey, Console!ActionKey, Console!ArrowKey, Console!PriorityKey, Console!Key
  <2>3. pending' \in BOOLEAN
    BY <2>1 DEF Console!TabKey, Console!ActionKey, Console!ArrowKey, Console!PriorityKey
  <2> QED  BY <2>1, <2>2, <2>3
<1>8. Console!TypeOK'
  BY <1>1, <1>2, <1>3, <1>5, <1>6, <1>7 DEF Console!TypeOK
<1> QED  BY <1>2, <1>4, <1>8, QuestionWithdrawn

\* A list of items of S grows by a new item, loses one or turns.
Changes(S, list, changed, removed, new) ==
  \/ \E item \in S : item \notin Console!Range(list) \cup removed /\ changed = Append(list, item) /\ new = removed
  \/ \E i \in DOMAIN list : changed = Console!RemoveAt(list, i) /\ new = removed \cup {list[i]}
  \/ Len(list) > 1 /\ changed = Append(Console!RemoveAt(list, 1), list[1]) /\ new = removed

LEMMA ListChanges ==
  ASSUME NEW S, NEW list \in Seq(S), NEW changed, NEW removed, NEW new,
         Console!IsInjective(list), Console!Range(list) \cap removed = {}, Changes(S, list, changed, removed, new)
  PROVE  /\ changed \in Seq(S) /\ Console!IsInjective(changed) /\ Console!Range(changed) \cap new = {}
         /\ removed \subseteq new /\ new \subseteq removed \cup Console!Range(list)
         /\ Console!Range(list) \subseteq Console!Range(changed) \cup new
<1>1. CASE \E item \in S : item \notin Console!Range(list) \cup removed /\ changed = Append(list, item) /\ new = removed
  BY <1>1, AppendNew, SameOperators
<1>2. CASE \E i \in DOMAIN list : changed = Console!RemoveAt(list, i) /\ new = removed \cup {list[i]}
  <2>1. PICK i \in DOMAIN list : changed = Console!RemoveAt(list, i) /\ new = removed \cup {list[i]}
    BY <1>2
  <2>2. changed \in Seq(S) /\ Console!IsInjective(changed) /\ Console!Range(changed) = Console!Range(list) \ {list[i]}
    BY <2>1, RemoveAtProperties, SameOperators
  <2>3. list[i] \in Console!Range(list)
    BY DEF Console!Range
  <2> QED  BY <2>1, <2>2, <2>3
<1>3. CASE Len(list) > 1 /\ changed = Append(Console!RemoveAt(list, 1), list[1]) /\ new = removed
  BY <1>3, Rotated DEF Same
<1> QED  BY <1>1, <1>2, <1>3 DEF Changes

\* The question that is open, when the seen list loses only items that are gone.
LEMMA QuestionFollows ==
  ASSUME ConsoleInv, Console!TypeOK', ListedOnce', UNCHANGED <<pane, confirmation, lastKey>>,
         gone \subseteq gone', Console!Range(Seen) \subseteq Console!Range(Seen') \cup gone'
  PROVE  ConsoleInv'
BY DEF ConsoleInv, QuestionIsLast

LEMMA JobsChangeKeeps ==
  ASSUME ConsoleInv, Console!JobsChange
  PROVE  ConsoleInv'
<1>1. Console!TypeOK /\ ListedOnce
  BY DEF ConsoleInv
<1>2. jobs \in Seq(Jobs) /\ sessions \in Seq(Sessions) /\ gone \subseteq Jobs \cup Sessions
  BY <1>1 DEF Console!TypeOK
<1>3. /\ jobs' \in Seq(Jobs) /\ Console!IsInjective(jobs') /\ Console!Range(jobs') \cap gone' = {}
      /\ gone \subseteq gone' /\ gone' \subseteq gone \cup Console!Range(jobs)
      /\ Console!Range(jobs) \subseteq Console!Range(jobs') \cup gone'
  <2>1. Changes(Jobs, jobs, jobs', gone, gone')
    BY DEF Console!JobsChange, Console!Comes, Changes
  <2> QED  BY <1>1, <1>2, <2>1, ListChanges DEF ListedOnce
<1>4. UNCHANGED <<sessions, pane, confirmation, lastKey>>
  BY DEF Console!JobsChange
<1>5. Console!Range(jobs) \subseteq Jobs /\ Console!Range(sessions) \subseteq Sessions
  BY <1>2, RangeOfSeq, SameOperators
<1>6. Console!TypeOK'
  <2>1. UNCHANGED <<pending, pane, jobIndex, sessionIndex, stopped, renderTimer>>
    BY DEF Console!JobsChange, Console!screen
  <2>2. gone' \subseteq Jobs \cup Sessions
    BY <1>2, <1>3, <1>5
  <2> QED  BY <1>1, <1>3, <1>4, <2>1, <2>2 DEF Console!TypeOK
<1>7. ListedOnce'
  BY <1>1, <1>3, <1>4, <1>5, RuntimeConstants DEF ListedOnce
<1>8. Console!Range(Seen) \subseteq Console!Range(Seen') \cup gone'
  BY <1>3, <1>4 DEF Seen
<1> QED  BY <1>3, <1>4, <1>6, <1>7, <1>8, QuestionFollows

LEMMA SessionsChangeKeeps ==
  ASSUME ConsoleInv, Console!SessionsChange
  PROVE  ConsoleInv'
<1>1. Console!TypeOK /\ ListedOnce
  BY DEF ConsoleInv
<1>2. jobs \in Seq(Jobs) /\ sessions \in Seq(Sessions) /\ gone \subseteq Jobs \cup Sessions
  BY <1>1 DEF Console!TypeOK
<1>3. /\ sessions' \in Seq(Sessions) /\ Console!IsInjective(sessions') /\ Console!Range(sessions') \cap gone' = {}
      /\ gone \subseteq gone' /\ gone' \subseteq gone \cup Console!Range(sessions)
      /\ Console!Range(sessions) \subseteq Console!Range(sessions') \cup gone'
  <2>1. Changes(Sessions, sessions, sessions', gone, gone')
    BY DEF Console!SessionsChange, Console!Comes, Changes
  <2> QED  BY <1>1, <1>2, <2>1, ListChanges DEF ListedOnce
<1>4. UNCHANGED <<jobs, pane, confirmation, lastKey>>
  BY DEF Console!SessionsChange
<1>5. Console!Range(jobs) \subseteq Jobs /\ Console!Range(sessions) \subseteq Sessions
  BY <1>2, RangeOfSeq, SameOperators
<1>6. Console!TypeOK'
  <2>1. UNCHANGED <<pending, pane, jobIndex, sessionIndex, stopped, renderTimer>>
    BY DEF Console!SessionsChange, Console!screen
  <2>2. gone' \subseteq Jobs \cup Sessions
    BY <1>2, <1>3, <1>5
  <2> QED  BY <1>1, <1>3, <1>4, <2>1, <2>2 DEF Console!TypeOK
<1>7. ListedOnce'
  BY <1>1, <1>3, <1>4, <1>5, RuntimeConstants DEF ListedOnce
<1>8. Console!Range(Seen) \subseteq Console!Range(Seen') \cup gone'
  BY <1>3, <1>4 DEF Seen
<1> QED  BY <1>3, <1>4, <1>6, <1>7, <1>8, QuestionFollows

\* What Delete acts on is an item of the list the pane shows.
LEMMA SelectedIsSeen ==
  ASSUME Console!TypeOK, Console!Selected # None
  PROVE  Console!Selected \in Console!Range(Seen)
<1>1. CASE pane = "sessions"
  <2>1. sessions # <<>> /\ Console!Selected = sessions[Console!Clamped(sessionIndex, sessions) + 1]
    BY <1>1, Indices DEF Console!Selected
  <2> QED  BY <1>1, <2>1, Indices DEF Seen, Console!Range
<1>2. CASE pane # "sessions"
  <2>1. jobs # <<>> /\ Console!Selected = jobs[Console!Clamped(jobIndex, jobs) + 1]
    BY <1>2, Indices DEF Console!Selected
  <2> QED  BY <1>2, <2>1, Indices DEF Seen, Console!Range
<1> QED  BY <1>1, <1>2

\* A Delete that finds the list empty leaves a question about an item that went.
LEMMA EmptyDelete ==
  ASSUME ConsoleInv, Console!Selected = None
  PROVE  Console!Range(Seen) = {}
<1>1. Console!TypeOK
  BY DEF ConsoleInv
<1>2. Console!Range(jobs) \subseteq Jobs /\ Console!Range(sessions) \subseteq Sessions
  BY <1>1, RangeOfSeq, SameOperators DEF Console!TypeOK
<1>3. CASE pane = "sessions"
  <2>1. sessions = <<>>
    <3>1. SUFFICES ASSUME sessions # <<>> PROVE FALSE
      OBVIOUS
    <3>2. None = sessions[Console!Clamped(sessionIndex, sessions) + 1] /\ Console!Clamped(sessionIndex, sessions) + 1 \in DOMAIN sessions
      BY <1>1, <1>3, <3>1, Indices DEF Console!Selected
    <3>3. None \in Console!Range(sessions)
      BY <3>2 DEF Console!Range
    <3> QED  BY <1>2, <3>3, RuntimeConstants
  <2> QED  BY <1>3, <2>1 DEF Seen, Console!Range
<1>4. CASE pane # "sessions"
  <2>1. jobs = <<>>
    <3>1. SUFFICES ASSUME jobs # <<>> PROVE FALSE
      OBVIOUS
    <3>2. None = jobs[Console!Clamped(jobIndex, jobs) + 1] /\ Console!Clamped(jobIndex, jobs) + 1 \in DOMAIN jobs
      BY <1>1, <1>4, <3>1, Indices DEF Console!Selected
    <3>3. None \in Console!Range(jobs)
      BY <3>2 DEF Console!Range
    <3> QED  BY <1>2, <3>3, RuntimeConstants
  <2> QED  BY <1>4, <2>1 DEF Seen, Console!Range
<1> QED  BY <1>3, <1>4

\* removeSelected: the item that goes was asked about by the Delete before.
LEMMA DeleteIsAsked ==
  ASSUME ConsoleInv, Console!DeleteKey, gone' # gone
  PROVE  /\ Console!Selected # None /\ confirmation = <<pane, Console!Selected>>
         /\ lastKey = <<"delete", Console!Selected>> /\ lastKey' = lastKey
         /\ gone' = gone \cup {Console!Selected}
<1>1. Console!TypeOK /\ ListedOnce /\ QuestionIsLast
  BY DEF ConsoleInv
<1>2. lastKey' = <<"delete", Console!Selected>>
  BY DEF Console!DeleteKey, Console!Key
<1>3. Console!Selected # None /\ confirmation = <<pane, Console!Selected>> /\ gone' = gone \cup {Console!Selected}
  BY DEF Console!DeleteKey, Console!AskedFor, Console!lists
<1>4. Console!Selected \in Console!Range(Seen)
  BY <1>1, <1>3, SelectedIsSeen
<1>5. Console!Selected \notin gone
  BY <1>1, <1>4 DEF ListedOnce, Seen
<1>6. confirmation # Console!Nothing
  BY <1>3 DEF Console!Nothing
<1>7. PICK item : confirmation = <<pane, item>> /\ (item \in gone \/ lastKey = <<"delete", item>>)
  BY <1>1, <1>6 DEF QuestionIsLast
<1>8. item = Console!Selected
  BY <1>3, <1>7
<1> QED  BY <1>2, <1>3, <1>5, <1>7, <1>8

\* The lists after the selected item was removed.
LEMMA RemovalKeepsLists ==
  ASSUME ConsoleInv, Console!Selected # None, gone' = gone \cup {Console!Selected},
         jobs' = IF pane = "sessions" THEN jobs ELSE Console!Without(jobs, jobIndex),
         sessions' = IF pane = "sessions" THEN Console!Without(sessions, sessionIndex) ELSE sessions
  PROVE  /\ jobs' \in Seq(Jobs) /\ sessions' \in Seq(Sessions)
         /\ gone' \subseteq Jobs \cup Sessions /\ ListedOnce'
<1>1. Console!TypeOK /\ ListedOnce
  BY DEF ConsoleInv
<1>2. jobs \in Seq(Jobs) /\ sessions \in Seq(Sessions) /\ gone \subseteq Jobs \cup Sessions
  BY <1>1 DEF Console!TypeOK
<1>3. Console!Range(jobs) \subseteq Jobs /\ Console!Range(sessions) \subseteq Sessions
  BY <1>2, RangeOfSeq, SameOperators
<1>4. CASE pane = "sessions"
  <2> DEFINE i == Console!Clamped(sessionIndex, sessions) + 1
  <2>1. i \in DOMAIN sessions /\ Console!Selected = sessions[i]
    BY <1>1, <1>4, Indices DEF Console!Selected
  <2>2. jobs' = jobs /\ sessions' = Console!RemoveAt(sessions, i)
    BY <1>4 DEF Console!Without
  <2> HIDE DEF i
  <2>3. /\ Console!RemoveAt(sessions, i) \in Seq(Sessions) /\ Console!IsInjective(Console!RemoveAt(sessions, i))
        /\ Console!Range(Console!RemoveAt(sessions, i)) = Console!Range(sessions) \ {sessions[i]}
    BY <1>1, <1>2, <2>1, RemoveAtProperties, SameOperators DEF ListedOnce
  <2>4. Console!Selected \in Sessions
    BY <1>3, <2>1 DEF Console!Range
  <2> QED  BY <1>1, <1>2, <1>3, <2>1, <2>2, <2>3, <2>4, RuntimeConstants DEF ListedOnce
<1>5. CASE pane # "sessions"
  <2> DEFINE i == Console!Clamped(jobIndex, jobs) + 1
  <2>1. i \in DOMAIN jobs /\ Console!Selected = jobs[i]
    BY <1>1, <1>5, Indices DEF Console!Selected
  <2>2. sessions' = sessions /\ jobs' = Console!RemoveAt(jobs, i)
    BY <1>5 DEF Console!Without
  <2> HIDE DEF i
  <2>3. /\ Console!RemoveAt(jobs, i) \in Seq(Jobs) /\ Console!IsInjective(Console!RemoveAt(jobs, i))
        /\ Console!Range(Console!RemoveAt(jobs, i)) = Console!Range(jobs) \ {jobs[i]}
    BY <1>1, <1>2, <2>1, RemoveAtProperties, SameOperators DEF ListedOnce
  <2>4. Console!Selected \in Jobs
    BY <1>3, <2>1 DEF Console!Range
  <2> QED  BY <1>1, <1>2, <1>3, <2>1, <2>2, <2>3, <2>4, RuntimeConstants DEF ListedOnce
<1> QED  BY <1>4, <1>5

LEMMA DeleteKeeps ==
  ASSUME ConsoleInv, Console!DeleteKey
  PROVE  ConsoleInv'
<1>1. Console!TypeOK /\ ListedOnce /\ Console!Clamped(jobIndex, jobs) \in Nat /\ Console!Clamped(sessionIndex, sessions) \in Nat
  BY Indices DEF ConsoleInv
<1>2. pane' = pane /\ jobIndex' \in Nat /\ sessionIndex' \in Nat
  BY <1>1 DEF Console!DeleteKey, Console!TypeOK
<1>3. pending' \in BOOLEAN /\ stopped' \in BOOLEAN /\ renderTimer' \in BOOLEAN
  <2>1. pending \in BOOLEAN /\ stopped \in BOOLEAN
    BY <1>1 DEF Console!TypeOK
  <2>2. stopped' = stopped /\ renderTimer' = TRUE
    BY DEF Console!DeleteKey, Console!Key
  <2>3. pending' \in BOOLEAN
    BY <2>1 DEF Console!DeleteKey
  <2> QED  BY <2>1, <2>2, <2>3
<1>4. ASSUME jobs' \in Seq(Jobs), sessions' \in Seq(Sessions), gone' \subseteq Jobs \cup Sessions
      PROVE  Console!TypeOK'
  BY <1>1, <1>2, <1>3, <1>4 DEF Console!TypeOK
<1>5. lastKey' = <<"delete", Console!Selected>>
  BY DEF Console!DeleteKey, Console!Key
<1>6. CASE Console!Selected = None
  <2>1. UNCHANGED <<jobs, sessions, gone, pane, confirmation>>
    BY <1>6 DEF Console!DeleteKey, Console!lists
  <2>2. Console!TypeOK' /\ ListedOnce'
    BY <1>1, <1>4, <2>1 DEF Console!TypeOK, ListedOnce
  <2>3. Console!Range(Seen) = {}
    BY <1>6, EmptyDelete
  <2> QED  BY <2>1, <2>2, <2>3 DEF ConsoleInv, QuestionIsLast
<1>7. CASE Console!Selected # None /\ confirmation # <<pane, Console!Selected>>
  <2>1. UNCHANGED <<jobs, sessions, gone, pane>> /\ confirmation' = <<pane, Console!Selected>>
    BY <1>7 DEF Console!DeleteKey, Console!AskedFor, Console!lists
  <2>2. Console!TypeOK' /\ ListedOnce'
    BY <1>1, <1>4, <2>1 DEF Console!TypeOK, ListedOnce
  <2>3. Console!Selected \in Console!Range(Seen)
    BY <1>1, <1>7, SelectedIsSeen
  <2>4. Console!Selected \in Jobs \cup Sessions
    <3>1. Console!Range(jobs) \subseteq Jobs /\ Console!Range(sessions) \subseteq Sessions
      BY <1>1, RangeOfSeq, SameOperators DEF Console!TypeOK
    <3> QED  BY <2>3, <3>1 DEF Seen
  <2>5. Console!Range(Seen') = Console!Range(Seen)
    BY <2>1 DEF Seen
  <2>6. ASSUME NEW item, item = Console!Selected PROVE QuestionIsLast'
    <3>1. confirmation' = <<pane', item>> /\ lastKey' = <<"delete", item>> /\ item \in Console!Range(Seen') /\ item \in Jobs \cup Sessions
      BY <1>5, <2>1, <2>3, <2>4, <2>5, <2>6
    <3> QED  BY <3>1 DEF QuestionIsLast
  <2> QED  BY <2>2, <2>6 DEF ConsoleInv
<1>8. CASE Console!Selected # None /\ confirmation = <<pane, Console!Selected>>
  <2>1. /\ confirmation' = Console!Nothing
        /\ \/ UNCHANGED <<jobs, sessions, gone>>
           \/ /\ gone' = gone \cup {Console!Selected}
              /\ jobs' = IF pane = "sessions" THEN jobs ELSE Console!Without(jobs, jobIndex)
              /\ sessions' = IF pane = "sessions" THEN Console!Without(sessions, sessionIndex) ELSE sessions
    BY <1>8 DEF Console!DeleteKey, Console!AskedFor, Console!lists
  <2>2. /\ jobs' \in Seq(Jobs) /\ sessions' \in Seq(Sessions)
        /\ gone' \subseteq Jobs \cup Sessions /\ ListedOnce'
    <3>1. CASE UNCHANGED <<jobs, sessions, gone>>
      BY <1>1, <3>1 DEF Console!TypeOK, ListedOnce
    <3>2. CASE ~UNCHANGED <<jobs, sessions, gone>>
      BY <1>8, <2>1, <3>2, RemovalKeepsLists
    <3> QED  BY <3>1, <3>2
  <2> QED  BY <1>4, <2>1, <2>2, QuestionWithdrawn
<1> QED  BY <1>6, <1>7, <1>8

LEMMA ConsoleStarts ==
  ASSUME Console!Init
  PROVE  ConsoleInv
<1>1. Console!TypeOK
  <2>1. jobs \in Seq(Jobs) /\ sessions \in Seq(Sessions) /\ gone \subseteq Jobs \cup Sessions
    BY DEF Console!Init
  <2>2. pane \in {"jobs", "sessions", "logs"} /\ jobIndex \in Nat /\ sessionIndex \in Nat
    BY DEF Console!Init
  <2>3. pending \in BOOLEAN /\ stopped \in BOOLEAN /\ renderTimer \in BOOLEAN
    BY DEF Console!Init
  <2> QED  BY <2>1, <2>2, <2>3 DEF Console!TypeOK
<1>2. jobs = <<>> /\ sessions = <<>> /\ gone = {} /\ confirmation = Console!Nothing
  BY DEF Console!Init
<1>3. Console!Range(<<>>) = {} /\ Console!IsInjective(<<>>)
  BY DEF Console!Range, Console!IsInjective
<1> QED  BY <1>1, <1>2, <1>3 DEF ConsoleInv, ListedOnce, QuestionIsLast

LEMMA ConsoleKeeps ==
  ASSUME ConsoleInv, Console!Next
  PROVE  ConsoleInv'
BY ScreenKeeps, JobsChangeKeeps, SessionsChangeKeeps, KeysKeep, DeleteKeeps DEF Console!Next

LEMMA ConsoleRests ==
  ASSUME ConsoleInv, UNCHANGED ofConsole
  PROVE  ConsoleInv'
BY DEF ConsoleInv, Console!TypeOK, ListedOnce, QuestionIsLast, Seen, ofConsole, Console!lists, Console!screen

\* What a step removes was asked for.
LEMMA RemovalWasAsked ==
  ASSUME ConsoleInv, Console!Next
  PROVE  Console!RemovalIsAsked
<1>1. CASE Console!JobsChange \/ Console!SessionsChange
  BY <1>1 DEF Console!RemovalIsAsked
<1>2. CASE Console!DeleteKey
  <2>1. SUFFICES ASSUME NEW item \in gone' \ gone
                 PROVE  lastKey = <<"delete", item>> /\ lastKey' = lastKey /\ confirmation = <<pane, item>>
    BY DEF Console!RemovalIsAsked
  <2>2. gone' # gone
    BY <2>1
  <2> QED  BY <1>2, <2>1, <2>2, DeleteIsAsked
<1>3. CASE ~(Console!JobsChange \/ Console!SessionsChange \/ Console!DeleteKey)
  <2>1. gone' = gone
    BY <1>3 DEF Console!Next, Console!Start, Console!Close, Console!Fails, Console!RequestRender, Console!Render, Console!TabKey, Console!ActionKey, Console!ArrowKey, Console!PriorityKey, Console!lists
  <2> QED  BY <2>1 DEF Console!RemovalIsAsked
<1> QED  BY <1>1, <1>2, <1>3

-----------------------------------------------------------------------------
(* The torrents.                                                           *)

\* The archives and the torrents count with the Cardinality of FiniteSets.
LEMMA SameCount == \A S : Archive!Cardinality(S) = Cardinality(S) /\ Stream!Cardinality(S) = Cardinality(S)
<1>1. \A S : Archive!Cardinality(S) = Cardinality(S)
  BY DEF Archive!Cardinality, Cardinality
<1>2. \A S : Stream!Cardinality(S) = Cardinality(S)
  BY DEF Stream!Cardinality, Cardinality
<1> QED  BY <1>1, <1>2

\* The texts and the torrents take the same lesser of two.
LEMMA SmallerOfTwo ==
  ASSUME NEW a \in Int, NEW b \in Int
  PROVE  /\ Text!Min({a, b}) \in {a, b} /\ Text!Min({a, b}) <= a /\ Text!Min({a, b}) <= b
         /\ Stream!Min({a, b}) \in {a, b} /\ Stream!Min({a, b}) <= a /\ Stream!Min({a, b}) <= b
<1>1. Text!Min({a, b}) = Storage!Min({a, b}) /\ Stream!Min({a, b}) = Storage!Min({a, b})
  BY DEF Text!Min, Stream!Min, Storage!Min
<1>2. Storage!Min({a, b}) \in {a, b} /\ Storage!Min({a, b}) <= a /\ Storage!Min({a, b}) <= b
  BY LeastOfTwo
<1> QED  BY <1>1, <1>2, Zenon

\* The first byte of a piece.
FirstByte(q) == PieceLength * q

LEMMA FirstBytes ==
  /\ \A q \in Nat : FirstByte(q) \in Nat /\ FirstByte(q + 1) = FirstByte(q) + PieceLength
  /\ \A p, q \in Nat : p <= q => FirstByte(p) <= FirstByte(q)
<1>1. ASSUME NEW q \in Nat PROVE FirstByte(q) \in Nat /\ FirstByte(q + 1) = FirstByte(q) + PieceLength
  BY RuntimeConstants DEF FirstByte
<1>2. ASSUME NEW p \in Nat, NEW q \in Nat, p <= q PROVE FirstByte(p) <= FirstByte(q)
  BY <1>2, RuntimeConstants DEF FirstByte
<1> QED  BY <1>1, <1>2

\* Which piece a byte is in.
LEMMA Division ==
  ASSUME NEW a \in Nat
  PROVE  /\ Stream!PieceOf(a) \in Nat /\ a % PieceLength \in 0..(PieceLength - 1)
         /\ a = FirstByte(Stream!PieceOf(a)) + (a % PieceLength)
<1>1. PieceLength \in Int /\ PieceLength > 0
  BY RuntimeConstants
<1>2. Stream!PieceOf(a) \in Int
  BY <1>1 DEF Stream!PieceOf
<1>3. a % PieceLength \in 0..(PieceLength - 1)
  BY <1>1
<1>4. a = PieceLength * Stream!PieceOf(a) + (a % PieceLength)
  BY <1>1 DEF Stream!PieceOf
<1>5. Stream!PieceOf(a) >= 0
  BY <1>1 DEF Stream!PieceOf
<1> QED  BY <1>2, <1>3, <1>4, <1>5 DEF FirstByte

LEMMA PiecesAscend ==
  ASSUME NEW a \in Nat, NEW b \in Nat, a <= b
  PROVE  Stream!PieceOf(a) <= Stream!PieceOf(b)
<1>1. PICK r : r = a % PieceLength
  OBVIOUS
<1>2. PICK s : s = b % PieceLength
  OBVIOUS
<1>3. PICK p \in Nat : p = Stream!PieceOf(a)
  BY Division
<1>4. PICK q \in Nat : q = Stream!PieceOf(b)
  BY Division
<1>5. /\ r \in Nat /\ a = FirstByte(p) + r
      /\ s \in Nat /\ s < PieceLength /\ b = FirstByte(q) + s
  BY <1>1, <1>2, <1>3, <1>4, RuntimeConstants, Division
<1>6. FirstByte(p) \in Nat /\ FirstByte(q) \in Nat /\ FirstByte(q + 1) = FirstByte(q) + PieceLength
  BY FirstBytes
<1>7. q + 1 <= p => FirstByte(q + 1) <= FirstByte(p)
  BY FirstBytes
<1>8. ~(q + 1 <= p)
  BY <1>5, <1>6, <1>7, RuntimeConstants
<1> QED  BY <1>3, <1>4, <1>8

\* A byte that is not past the end of the piece of another is in that piece.
LEMMA SamePiece ==
  ASSUME NEW a \in Nat, NEW x \in Nat, a <= x, x < a + (PieceLength - (a % PieceLength))
  PROVE  Stream!PieceOf(x) = Stream!PieceOf(a)
<1>1. PICK r : r = a % PieceLength
  OBVIOUS
<1>2. PICK s : s = x % PieceLength
  OBVIOUS
<1>3. PICK p \in Nat : p = Stream!PieceOf(a)
  BY Division
<1>4. PICK q \in Nat : q = Stream!PieceOf(x)
  BY Division
<1>5. /\ r \in Nat /\ a = FirstByte(p) + r /\ s \in Nat /\ x = FirstByte(q) + s
  BY <1>1, <1>2, <1>3, <1>4, RuntimeConstants, Division
<1>6. x < a + (PieceLength - r)
  BY <1>1
<1>7. FirstByte(p) \in Nat /\ FirstByte(q) \in Nat /\ FirstByte(p + 1) = FirstByte(p) + PieceLength
  BY FirstBytes
<1>8. p + 1 <= q => FirstByte(p + 1) <= FirstByte(q)
  BY FirstBytes
<1>9. ~(p + 1 <= q)
  BY <1>5, <1>6, <1>7, <1>8, RuntimeConstants
<1>10. p <= q
  BY <1>3, <1>4, PiecesAscend
<1> QED  BY <1>3, <1>4, <1>9, <1>10

\* A set of naturals that is bounded has a greatest element, which Max finds.
LEMMA Greatest ==
  ASSUME NEW K \in Nat, NEW S \in SUBSET (0..K), S # {}
  PROVE  Stream!Max(S) \in S /\ \A x \in S : x <= Stream!Max(S)
<1> DEFINE below == {n \in Nat : \E x \in S : n = K - x}
<1>1. \A x \in S : x \in Int /\ 0 <= x /\ x <= K /\ K - x \in Nat
  OBVIOUS
<1>2. below # {} /\ below \in SUBSET Nat
  BY <1>1
<1>3. PICK n \in below : \A m \in Nat : m < n => m \notin below
  <2> HIDE DEF below
  <2> QED  BY <1>2, LeastNatural
<1>4. PICK x \in S : n = K - x
  BY <1>3
<1>5. \A y \in S : y <= x
  <2> SUFFICES ASSUME NEW y \in S, ~(y <= x) PROVE FALSE
    OBVIOUS
  <2>1. K - y \in Nat /\ K - y < n
    BY <1>1, <1>4
  <2> QED  BY <1>3, <2>1
<1>6. \E z \in S : \A y \in S : z >= y
  BY <1>1, <1>5
<1>7. Stream!Max(S) \in S /\ \A y \in S : Stream!Max(S) >= y
  BY <1>6 DEF Stream!Max
<1> QED  BY <1>1, <1>7

\* The files that have a piece.
Having(p) == {f \in Files : p \in Stream!PiecesOf(f)}

\* A piece has the highest priority of its files.
LEMMA PriorityOfPiece ==
  ASSUME NEW prio \in [Files -> 0..2], NEW p
  PROVE  /\ Stream!PiecePriority(prio, p) \in 0..3
         /\ Having(p) = {} => Stream!PiecePriority(prio, p) = 0
         /\ Having(p) # {} => /\ Stream!PiecePriority(prio, p) > 0
                              /\ Stream!PiecePriority(prio, p) - 1 = Stream!Max({prio[f] : f \in Having(p)})
<1> DEFINE A == {prio[f] + 1 : f \in Having(p)}
           B == {prio[f] : f \in Having(p)}
<1>1. Stream!PiecePriority(prio, p) = Stream!Max({0} \cup A)
  BY DEF Stream!PiecePriority, Having
<1>2. \A f \in Having(p) : prio[f] \in 0..2 /\ prio[f] + 1 \in 1..3
  <2>1. \A f \in Having(p) : prio[f] \in 0..2
    BY DEF Having
  <2> QED  BY <2>1
<1>3. {0} \cup A \in SUBSET (0..3) /\ B \in SUBSET (0..2)
  BY <1>2
<1>4. PICK m : m = Stream!PiecePriority(prio, p)
  OBVIOUS
<1>5. m \in {0} \cup A /\ \A x \in A : x <= m
  <2> DEFINE S == {0} \cup A
  <2>1. S # {} /\ S \in SUBSET (0..3)
    BY <1>3
  <2> HIDE DEF S, A
  <2>2. Stream!Max(S) \in S /\ \A x \in S : x <= Stream!Max(S)
    BY <2>1, Greatest
  <2> QED  BY <1>1, <1>4, <2>2 DEF S
<1>6. m \in 0..3
  BY <1>3, <1>5
<1>7. Having(p) = {} => m = 0
  BY <1>5
<1>8. ASSUME Having(p) # {} PROVE m > 0 /\ m - 1 = Stream!Max(B)
  <2>1. B # {}
    BY <1>8
  <2>2. Stream!Max(B) \in B /\ \A x \in B : x <= Stream!Max(B)
    <3> HIDE DEF B
    <3> QED  BY <1>3, <2>1, Greatest
  <2>3. PICK g \in Having(p) : Stream!Max(B) = prio[g]
    BY <2>2
  <2>4. prio[g] + 1 <= m
    BY <1>5
  <2>5. m \in A
    BY <1>2, <1>5, <1>6, <2>4
  <2>6. PICK f \in Having(p) : m = prio[f] + 1
    BY <2>5
  <2>7. prio[f] <= prio[g]
    BY <2>2, <2>3
  <2>8. prio[f] \in Int /\ prio[g] \in Int /\ prio[g] >= 0
    BY <1>2
  <2> QED  BY <2>3, <2>4, <2>6, <2>7, <2>8
<1> QED  BY <1>4, <1>6, <1>7, <1>8

\* A piece of a file is one of the torrent's.
LEMMA FilesHavePieces ==
  ASSUME NEW f \in Files
  PROVE  /\ Stream!PieceOf(Stream!Max({Stream!LastByte(g) : g \in Files})) \in Nat
         /\ Stream!PiecesOf(f) \subseteq Stream!Pieces
<1> DEFINE S == {Stream!LastByte(g) : g \in Files}
<1>1. PICK bytes \in Nat : \A g \in Files : Offset[g] + Length[g] <= bytes
  <2> DEFINE ends == [g \in Files |-> Offset[g] + Length[g]]
  <2>1. ends \in [Files -> Nat]
    BY RuntimeConstants
  <2>2. \A g \in Files : ends[g] = Offset[g] + Length[g]
    OBVIOUS
  <2> HIDE DEF ends
  <2>3. PICK bytes \in Nat : \A g \in Files : ends[g] <= bytes
    BY <2>1, RuntimeConstants, FiniteIsBounded
  <2> QED  BY <2>2, <2>3
<1>2. \A g \in Files : Stream!LastByte(g) \in 0..bytes
  <2> TAKE g \in Files
  <2>1. Offset[g] \in Nat /\ Length[g] \in Nat /\ Length[g] # 0 /\ Offset[g] + Length[g] <= bytes
    BY <1>1, RuntimeConstants
  <2> QED  BY <1>1, <2>1 DEF Stream!LastByte
<1>3. S # {} /\ S \in SUBSET (0..bytes)
  BY <1>2
<1>4. PICK m : m = Stream!Max(S)
  OBVIOUS
<1>5. m \in Nat /\ \A g \in Files : Stream!LastByte(g) <= m
  <2>1. Stream!Max(S) \in S /\ \A x \in S : x <= Stream!Max(S)
    <3> HIDE DEF S
    <3> QED  BY <1>3, Greatest
  <2> QED  BY <1>3, <1>4, <2>1
<1>6. Stream!PieceOf(m) \in Nat
  BY <1>5, Division
<1>7. Offset[f] \in Nat /\ Stream!LastByte(f) \in Nat /\ Stream!LastByte(f) <= m
  BY <1>2, <1>5, RuntimeConstants
<1>8. Stream!PieceOf(Offset[f]) \in Nat /\ Stream!PieceOf(Stream!LastByte(f)) \in Nat /\ Stream!PieceOf(Stream!LastByte(f)) <= Stream!PieceOf(m)
  BY <1>5, <1>7, Division, PiecesAscend
<1>9. Stream!PiecesOf(f) \subseteq 0..Stream!PieceOf(m)
  BY <1>6, <1>8 DEF Stream!PiecesOf
<1> QED  BY <1>4, <1>6, <1>9 DEF Stream!Pieces

\* Each piece that a file has is in a longest run.
LEMMA PieceIsInRun ==
  ASSUME NEW prio \in [Files -> 0..2], NEW p, Having(p) # {}
  PROVE  \E run \in Stream!Runs(prio) : p \in run[1]..run[2]
<1> DEFINE level(x) == Stream!PiecePriority(prio, x)
           N == Stream!PieceOf(Stream!Max({Stream!LastByte(g) : g \in Files}))
           before == {a \in 0..p : \A x \in a..p : level(x) = level(p)}
           after == {b \in 0..N : b >= p /\ \A x \in p..b : level(x) = level(p)}
<1>1. N \in Nat /\ p \in 0..N /\ Stream!Pieces = 0..N
  BY FilesHavePieces DEF Having, Stream!Pieces
<1>2. level(p) > 0
  BY PriorityOfPiece
<1> HIDE DEF level, N
<1>3. p \in before /\ before \in SUBSET Nat
  BY <1>1
<1>4. PICK a \in before : \A m \in Nat : m < a => m \notin before
  <2> HIDE DEF before
  <2> QED  BY <1>3, LeastNatural
<1>5. p \in after /\ after \in SUBSET (0..N)
  BY <1>1
<1>6. PICK b \in after : \A m \in after : m <= b
  <2> HIDE DEF after
  <2>1. Stream!Max(after) \in after /\ \A x \in after : x <= Stream!Max(after)
    BY <1>1, <1>5, Greatest
  <2> QED  BY <2>1
<1>7. a \in Nat /\ b \in Nat /\ a <= p /\ p <= b /\ b <= N /\ a \in Stream!Pieces /\ b \in Stream!Pieces
  BY <1>1, <1>4, <1>6
<1>8. \A x \in a..b : level(x) = level(p)
  <2> TAKE x \in a..b
  <2>1. x \in a..p \/ x \in p..b
    BY <1>1, <1>7
  <2> QED  BY <1>4, <1>6, <2>1
<1>9. a - 1 \in Stream!Pieces => level(a - 1) # level(p)
  <2> SUFFICES ASSUME a - 1 \in Stream!Pieces, level(a - 1) = level(p) PROVE FALSE
    OBVIOUS
  <2>1. a - 1 \in Nat /\ a - 1 < a /\ a - 1 \in 0..p
    BY <1>1, <1>7
  <2>2. \A x \in (a - 1)..p : x = a - 1 \/ x \in a..p
    BY <1>1, <1>7
  <2>3. a - 1 \in before
    BY <1>4, <2>1, <2>2
  <2> QED  BY <1>4, <2>1, <2>3
<1>10. b + 1 \in Stream!Pieces => level(b + 1) # level(p)
  <2> SUFFICES ASSUME b + 1 \in Stream!Pieces, level(b + 1) = level(p) PROVE FALSE
    OBVIOUS
  <2>1. b + 1 \in 0..N /\ b + 1 >= p /\ ~(b + 1 <= b)
    BY <1>1, <1>7
  <2>2. \A x \in p..(b + 1) : x = b + 1 \/ x \in p..b
    BY <1>1, <1>7
  <2>3. b + 1 \in after
    BY <1>6, <2>1, <2>2
  <2> QED  BY <1>6, <2>1, <2>3
<1>11. a \in a..b /\ p \in a..b
  BY <1>1, <1>7
<1> DEFINE run == <<a, b>>
<1>12. run \in Stream!Pieces \X Stream!Pieces /\ run[1] = a /\ run[2] = b
  BY <1>7
<1> HIDE DEF run, before, after
<1>13. run \in Stream!Runs(prio)
  BY <1>2, <1>7, <1>8, <1>9, <1>10, <1>11, <1>12 DEF Stream!Runs, level
<1> QED  BY <1>11, <1>12, <1>13

\* What the files ask for: a selection for each run.
Sel(prio, run) ==
  [from |-> run[1], to |-> run[2], priority |-> Stream!PiecePriority(prio, run[1]) - 1, notify |-> None]

StreamRecord ==
  [phase : {"closed", "turn", "waiting", "reading", "ending"}, file : Files \cup {None},
   start : Int, position : Int, end : Int]

\* The selections of the files are those of the runs, but for the complete ones.
FilesInv ==
  /\ priority \in [Files -> 0..2] /\ ranges = Stream!Runs(priority) /\ destroyed \in BOOLEAN
  /\ ~destroyed => /\ \A s \in selections : s.notify = None => \E run \in Stream!Runs(priority) : s = Sel(priority, run)
                   /\ \A run \in Stream!Runs(priority) : run[1]..run[2] \subseteq verified \/ Sel(priority, run) \in selections

\* Where a generator is, and what it has yielded.
Reads(c, have) ==
  /\ c.phase \in {"turn", "waiting", "reading"} =>
       /\ c.file \in Files /\ c.end = Length[c.file] - 1
       /\ 0 <= c.start /\ c.start <= c.position /\ c.position <= c.end + 1
       /\ \A byte \in c.start..(c.position - 1) : Stream!PieceOf(Offset[c.file] + byte) \in have
  /\ c.phase \in {"waiting", "reading"} => c.position <= c.end
  /\ c.phase = "reading" => Stream!PieceOf(Offset[c.file] + c.position) \in have

\* No reader has two selections, none that is closed has one, and one that waits for
\* its piece asks for it.
Owns ==
  /\ \A s \in selections : s.notify \in Readers \cup {None}
  /\ \A s, t \in selections : s.notify = t.notify /\ s.notify \in Readers => s = t
  /\ \A s \in selections : s.notify \in Readers => stream[s.notify].phase # "closed"
  /\ \A r \in Readers : stream[r].phase = "waiting" =>
       Stream!Here(r) \in verified \/ \E s \in selections : s.notify = r /\ Stream!Here(r) \in s.from..s.to

ReadersInv ==
  /\ stream \in [Readers -> StreamRecord] /\ destroyed \in BOOLEAN
  /\ \A r \in Readers : Reads(stream[r], verified)
  /\ ~destroyed => Owns

LEMMA StreamStarts == Stream!Init => FilesInv /\ ReadersInv
<1> SUFFICES ASSUME Stream!Init PROVE FilesInv /\ ReadersInv
  OBVIOUS
<1>1. /\ priority = [f \in Files |-> 1] /\ verified = {} /\ destroyed = FALSE /\ ranges = Stream!Runs(priority)
      /\ selections = {Sel(priority, run) : run \in Stream!Runs(priority)} /\ stream = [r \in Readers |-> Stream!NoStream]
  BY DEF Stream!Init, Sel
<1>2. FilesInv
  <2>1. priority \in [Files -> 0..2]
    BY <1>1
  <2>2. \A s \in selections : \E run \in Stream!Runs(priority) : s = Sel(priority, run)
    BY <1>1
  <2>3. \A run \in Stream!Runs(priority) : Sel(priority, run) \in selections
    BY <1>1
  <2> QED  BY <1>1, <2>1, <2>2, <2>3 DEF FilesInv
<1>3. \A s \in selections : s.notify = None
  BY <1>1 DEF Sel
<1>4. Stream!NoStream \in StreamRecord /\ Stream!NoStream.phase = "closed" /\ Reads(Stream!NoStream, verified)
  BY DEF Stream!NoStream, StreamRecord, Reads
<1>5. \A r \in Readers : stream[r] = Stream!NoStream
  BY <1>1
<1>6. Owns
  BY <1>3, <1>4, <1>5, RuntimeConstants DEF Owns
<1>7. ReadersInv
  BY <1>1, <1>4, <1>5, <1>6 DEF ReadersInv
<1> QED  BY <1>2, <1>7

\* What a reader does leaves the selections of the files.
LEMMA FilesUndisturbed ==
  ASSUME FilesInv, UNCHANGED <<priority, ranges, verified, destroyed>>,
         ~destroyed => \A s : s.notify = None => (s \in selections' <=> s \in selections)
  PROVE  FilesInv'
<1>1. /\ priority' \in [Files -> 0..2] /\ ranges' = Stream!Runs(priority') /\ destroyed' \in BOOLEAN
  BY DEF FilesInv
<1>2. ASSUME ~destroyed'
      PROVE  /\ \A s \in selections' : s.notify = None => \E run \in Stream!Runs(priority') : s = Sel(priority', run)
             /\ \A run \in Stream!Runs(priority') : run[1]..run[2] \subseteq verified' \/ Sel(priority', run) \in selections'
  <2>1. \A run : Sel(priority, run).notify = None
    BY DEF Sel
  <2>2. priority' = priority /\ verified' = verified /\ ~destroyed
    BY <1>2
  <2>3. /\ \A s \in selections : s.notify = None => \E run \in Stream!Runs(priority) : s = Sel(priority, run)
        /\ \A run \in Stream!Runs(priority) : run[1]..run[2] \subseteq verified \/ Sel(priority, run) \in selections
    BY <2>2 DEF FilesInv
  <2>4. \A s : s.notify = None => (s \in selections' <=> s \in selections)
    BY <2>2
  <2> QED  BY <2>1, <2>2, <2>3, <2>4
<1> QED  BY <1>1, <1>2 DEF FilesInv

\* Clearing the selection of a reader leaves every other.
LEMMA ClearedLeaves ==
  ASSUME NEW r \in Readers
  PROVE  /\ \A s : s.notify = None => (s \in Stream!Cleared(r) <=> s \in selections)
         /\ ~destroyed => \A s : s \in Stream!Cleared(r) <=> s \in selections /\ s.notify # r
BY RuntimeConstants DEF Stream!Cleared

LEMMA FilesKept ==
  ASSUME FilesInv, Stream!Next
  PROVE  FilesInv'
<1>1. ASSUME Stream!Destroy PROVE FilesInv'
  BY <1>1 DEF FilesInv, Stream!Destroy
<1>2. ASSUME NEW f \in Files, NEW value \in {0, 1}, Stream!SetFilePriority(f, value) PROVE FilesInv'
  <2>1. /\ ~destroyed /\ priority' = [priority EXCEPT ![f] = value] /\ ranges' = Stream!Runs(priority')
        /\ UNCHANGED <<verified, destroyed, stream>>
        /\ selections' = {s \in selections : ~Stream!Own(s)} \cup {Sel(priority', run) : run \in Stream!Runs(priority')}
    BY <1>2 DEF Stream!SetFilePriority, Stream!Applied, Sel
  <2>2. priority' \in [Files -> 0..2]
    BY <2>1 DEF FilesInv
  <2>3. \A s \in selections : s.notify = None => Stream!Own(s)
    <3> SUFFICES ASSUME NEW s \in selections, s.notify = None PROVE Stream!Own(s)
      OBVIOUS
    <3>1. PICK run \in Stream!Runs(priority) : s = Sel(priority, run)
      BY <2>1 DEF FilesInv
    <3>2. <<s.from, s.to>> = run
      <4>1. run \in Stream!Pieces \X Stream!Pieces
        BY DEF Stream!Runs
      <4> QED  BY <3>1, <4>1 DEF Sel
    <3> QED  BY <3>2 DEF Stream!Own, FilesInv
  <2>4. \A s \in selections' : s.notify = None => \E run \in Stream!Runs(priority') : s = Sel(priority', run)
    BY <2>1, <2>3 DEF Stream!Own
  <2>5. \A run \in Stream!Runs(priority') : Sel(priority', run) \in selections'
    BY <2>1
  <2> QED  BY <2>1, <2>2, <2>4, <2>5 DEF FilesInv
<1>3. ASSUME NEW p \in Stream!Pieces, Stream!Verify(p) PROVE FilesInv'
  <2>1. /\ ~destroyed /\ verified' = verified \cup {p} /\ UNCHANGED <<priority, ranges, destroyed, stream>>
        /\ selections' = {s \in selections : ~(s.from..s.to \subseteq verified')}
    BY <1>3 DEF Stream!Verify
  <2>2. /\ \A s \in selections : s.notify = None => \E run \in Stream!Runs(priority) : s = Sel(priority, run)
        /\ \A run \in Stream!Runs(priority) : run[1]..run[2] \subseteq verified \/ Sel(priority, run) \in selections
    BY <2>1 DEF FilesInv
  <2>3. \A run \in Stream!Runs(priority) : run[1]..run[2] \subseteq verified' \/ Sel(priority, run) \in selections'
    <3> TAKE run \in Stream!Runs(priority)
    <3>1. Sel(priority, run).from = run[1] /\ Sel(priority, run).to = run[2]
      BY DEF Sel
    <3> QED  BY <2>1, <2>2, <3>1
  <2>4. \A s \in selections' : s.notify = None => \E run \in Stream!Runs(priority) : s = Sel(priority, run)
    BY <2>1, <2>2
  <2> QED  BY <2>1, <2>3, <2>4 DEF FilesInv
<1>4. ASSUME NEW r \in Readers, Stream!Open(r) \/ Stream!Turn(r) \/ Stream!Read(r) \/ Stream!Yield(r) \/ Stream!Cancel(r) \/ Stream!Fail(r)
      PROVE  FilesInv'
  <2>1. UNCHANGED <<priority, ranges, verified, destroyed>>
    BY <1>4 DEF Stream!Open, Stream!Turn, Stream!Read, Stream!Yield, Stream!Cancel, Stream!Fail
  <2>2. CASE selections' = selections
    BY <2>1, <2>2, FilesUndisturbed
  <2>3. CASE selections' = Stream!Cleared(r)
    BY <2>1, <2>3, ClearedLeaves, FilesUndisturbed
  <2>4. CASE selections' = Stream!Cleared(r) \cup {[from |-> Stream!Here(r), to |-> Stream!Ahead(r), priority |-> 10, notify |-> r]}
    <3> DEFINE more == [from |-> Stream!Here(r), to |-> Stream!Ahead(r), priority |-> 10, notify |-> r]
    <3>1. more.notify # None /\ selections' = Stream!Cleared(r) \cup {more}
      BY <2>4, RuntimeConstants
    <3> HIDE DEF more
    <3>2. \A s : s.notify = None => (s \in selections' <=> s \in selections)
      BY <3>1, ClearedLeaves
    <3> QED  BY <2>1, <3>2, FilesUndisturbed
  <2> QED  BY <1>4, <2>2, <2>3, <2>4 DEF Stream!Open, Stream!Turn, Stream!Read, Stream!Yield, Stream!Cancel, Stream!Fail, Stream!SelectsAfter, Stream!LeftAfter
<1> QED  BY <1>1, <1>2, <1>3, <1>4 DEF Stream!Next

\* FilesAreWanted follows: a piece that is missing is in a run, whose selection has the
\* priority of the piece.
LEMMA MissingIsAsked == FilesInv => Stream!FilesAreWanted
<1> SUFFICES ASSUME FilesInv, ~destroyed, NEW p, p \in (UNION {Stream!PiecesOf(f) : f \in Files}) \ verified
             PROVE  {s.priority : s \in {t \in selections : t.notify = None /\ p \in t.from..t.to}}
                      = {Stream!Max({priority[f] : f \in {g \in Files : p \in Stream!PiecesOf(g)}})}
  BY DEF Stream!FilesAreWanted
<1>1. priority \in [Files -> 0..2] /\ Having(p) # {} /\ p \notin verified
  <2>1. PICK f \in Files : p \in Stream!PiecesOf(f)
    OBVIOUS
  <2>2. f \in Having(p)
    BY <2>1 DEF Having
  <2>3. priority \in [Files -> 0..2] /\ p \notin verified
    BY DEF FilesInv
  <2> QED  BY <2>2, <2>3
<1>2. PICK top : top = Stream!PiecePriority(priority, p) - 1
  OBVIOUS
<1>3. top = Stream!Max({priority[f] : f \in {g \in Files : p \in Stream!PiecesOf(g)}})
  <2>1. top = Stream!Max({priority[f] : f \in Having(p)})
    BY <1>1, <1>2, PriorityOfPiece
  <2> QED  BY <2>1 DEF Having
<1>4. /\ \A s \in selections : s.notify = None => \E run \in Stream!Runs(priority) : s = Sel(priority, run)
      /\ \A run \in Stream!Runs(priority) : run[1]..run[2] \subseteq verified \/ Sel(priority, run) \in selections
  BY DEF FilesInv
<1>5. \A run \in Stream!Runs(priority) : p \in run[1]..run[2] => Sel(priority, run).priority = top
  <2> SUFFICES ASSUME NEW run \in Stream!Runs(priority), p \in run[1]..run[2]
               PROVE  Stream!PiecePriority(priority, run[1]) - 1 = top
    BY DEF Sel
  <2> QED  BY <1>2 DEF Stream!Runs
<1>6. PICK run \in Stream!Runs(priority) : p \in run[1]..run[2]
  BY <1>1, PieceIsInRun
<1>7. \A r : Sel(priority, r).from = r[1] /\ Sel(priority, r).to = r[2] /\ Sel(priority, r).notify = None
  BY DEF Sel
<1>8. Sel(priority, run) \in {t \in selections : t.notify = None /\ p \in t.from..t.to}
  BY <1>1, <1>4, <1>6, <1>7
<1>9. \A s \in {t \in selections : t.notify = None /\ p \in t.from..t.to} : s.priority = top
  <2> SUFFICES ASSUME NEW s \in selections, s.notify = None, p \in s.from..s.to PROVE s.priority = top
    OBVIOUS
  <2>1. PICK other \in Stream!Runs(priority) : s = Sel(priority, other)
    BY <1>4
  <2> QED  BY <1>5, <1>7, <2>1
<1>10. {s.priority : s \in {t \in selections : t.notify = None /\ p \in t.from..t.to}} = {top}
  BY <1>5, <1>6, <1>8, <1>9
<1> QED  BY <1>3, <1>10

\* A reader's step changes its own record: what must be shown of it.
LEMMA ReaderMoves ==
  ASSUME ReadersInv, NEW r \in Readers, NEW c \in StreamRecord,
         stream' = [stream EXCEPT ![r] = c], UNCHANGED <<priority, ranges, verified, destroyed>>,
         Reads(c, verified),
         ~destroyed => Owns'
  PROVE  ReadersInv'
<1>1. stream' \in [Readers -> StreamRecord] /\ destroyed' \in BOOLEAN
  BY DEF ReadersInv
<1>2. \A q \in Readers : stream'[q] = IF q = r THEN c ELSE stream[q]
  BY DEF ReadersInv
<1>3. \A q \in Readers : Reads(stream'[q], verified')
  BY <1>2 DEF ReadersInv
<1> QED  BY <1>1, <1>3 DEF ReadersInv

\* Owns after a step of a reader that has no selection left, or none that matters.
LEMMA OwnsLess ==
  ASSUME Owns, stream \in [Readers -> StreamRecord], NEW r \in Readers, NEW c \in StreamRecord,
         stream' = [stream EXCEPT ![r] = c], UNCHANGED verified,
         selections' \subseteq selections, \A s \in selections : s.notify # r => s \in selections',
         c.phase # "waiting", c.phase = "closed" => \A s \in selections' : s.notify # r
  PROVE  Owns'
<1>1. stream'[r] = c /\ \A q \in Readers : q # r => stream'[q] = stream[q] /\ Stream!Here(q)' = Stream!Here(q)
  BY DEF Stream!Here
<1>2. /\ \A s \in selections' : s.notify \in Readers \cup {None}
      /\ \A s, t \in selections' : s.notify = t.notify /\ s.notify \in Readers => s = t
  BY DEF Owns
<1>3. \A s \in selections' : s.notify \in Readers => stream'[s.notify].phase # "closed"
  BY <1>1 DEF Owns
<1>4. ASSUME NEW q \in Readers, stream'[q].phase = "waiting"
      PROVE  Stream!Here(q)' \in verified' \/ \E s \in selections' : s.notify = q /\ Stream!Here(q)' \in s.from..s.to
  <2>1. q # r /\ stream[q].phase = "waiting" /\ Stream!Here(q)' = Stream!Here(q)
    BY <1>1, <1>4
  <2>2. Stream!Here(q) \in verified \/ \E s \in selections : s.notify = q /\ Stream!Here(q) \in s.from..s.to
    BY <2>1 DEF Owns
  <2> QED  BY <2>1, <2>2
<1> QED  BY <1>2, <1>3, <1>4 DEF Owns

LEMMA RecordOf ==
  ASSUME ReadersInv, NEW r \in Readers
  PROVE  /\ stream[r] \in StreamRecord /\ Reads(stream[r], verified)
         /\ stream[r].phase \in {"closed", "turn", "waiting", "reading", "ending"}
         /\ stream[r].start \in Int /\ stream[r].position \in Int /\ stream[r].end \in Int
BY DEF ReadersInv, StreamRecord

LEMMA OpenKeeps ==
  ASSUME ReadersInv, NEW r \in Readers, Stream!Open(r)
  PROVE  ReadersInv'
<1>1. PICK f \in Files, first \in {0, 1} :
        stream' = [stream EXCEPT ![r] = [phase |-> "turn", file |-> f, start |-> first,
                                         position |-> first, end |-> Length[f] - 1]]
  BY DEF Stream!Open
<1>2. ~destroyed /\ stream[r].phase = "closed" /\ UNCHANGED <<priority, selections, ranges, verified, destroyed>>
  BY DEF Stream!Open
<1>3. Length[f] \in Nat /\ Length[f] # 0
  BY RuntimeConstants
<1> DEFINE c == [phase |-> "turn", file |-> f, start |-> first, position |-> first, end |-> Length[f] - 1]
<1>4. /\ c \in StreamRecord /\ c.phase = "turn" /\ c.file = f /\ c.start = first /\ c.position = first
      /\ c.end = Length[f] - 1 /\ stream' = [stream EXCEPT ![r] = c]
  BY <1>1, <1>3 DEF StreamRecord
<1> HIDE DEF c
<1>5. Reads(c, verified)
  <2>1. \A byte \in c.start..(c.position - 1) : FALSE
    BY <1>4
  <2> QED  BY <1>3, <1>4, <2>1 DEF Reads
<1>6. Owns'
  BY <1>2, <1>4, OwnsLess DEF ReadersInv
<1> QED  BY <1>2, <1>4, <1>5, <1>6, ReaderMoves

\* Up to where a reader asks.
LEMMA AsksForItsPiece ==
  ASSUME ReadersInv, NEW r \in Readers, stream[r].phase = "turn", stream[r].position <= stream[r].end
  PROVE  Stream!Here(r) \in Stream!Here(r)..Stream!Ahead(r)
<1> DEFINE c == stream[r]
<1>1. /\ c.file \in Files /\ c.end = Length[c.file] - 1 /\ c.position \in Int /\ c.position >= 0
      /\ c.end \in Int /\ c.position <= c.end
  <2>1. Reads(c, verified) /\ c.position \in Int /\ c.start \in Int /\ c.end \in Int
    BY RecordOf
  <2> QED  BY <2>1 DEF Reads
<1> HIDE DEF c
<1>2. Offset[c.file] \in Nat
  BY <1>1, RuntimeConstants
<1>3. Offset[c.file] + c.position \in Nat /\ Offset[c.file] + c.end \in Nat
      /\ Offset[c.file] + c.position <= Offset[c.file] + c.end
  BY <1>1, <1>2
<1>4. PICK here : here = Stream!PieceOf(Offset[c.file] + c.position)
  OBVIOUS
<1>5. PICK last : last = Stream!PieceOf(Offset[c.file] + c.end)
  OBVIOUS
<1>6. here \in Nat /\ last \in Nat /\ here <= last
  BY <1>3, <1>4, <1>5, Division, PiecesAscend
<1>7. Stream!Here(r) = here /\ Stream!Ahead(r) = Stream!Min({here + 2, last})
  BY <1>4, <1>5 DEF Stream!Here, Stream!Ahead, c
<1>8. Stream!Min({here + 2, last}) \in {here + 2, last}
  <2>1. here + 2 \in Int /\ last \in Int
    BY <1>6
  <2> QED  BY <2>1, SmallerOfTwo, Zenon
<1>9. here <= Stream!Ahead(r) /\ Stream!Ahead(r) \in Int
  BY <1>6, <1>7, <1>8
<1> QED  BY <1>6, <1>7, <1>9

\* What a turn yields stays inside its piece and the range.
LEMMA ChunkInPiece ==
  ASSUME ReadersInv, NEW r \in Readers, stream[r].phase = "reading"
  PROVE  /\ Stream!ChunkLength(r) \in Int /\ Stream!ChunkLength(r) >= 1
         /\ stream[r].position + Stream!ChunkLength(r) <= stream[r].end + 1
         /\ \A byte \in stream[r].position..(stream[r].position + Stream!ChunkLength(r) - 1) :
              Stream!PieceOf(Offset[stream[r].file] + byte) = Stream!Here(r)
<1> DEFINE c == stream[r]
<1>1. /\ c.file \in Files /\ c.position \in Int /\ c.position >= 0 /\ c.end \in Int /\ c.position <= c.end
  <2>1. Reads(c, verified) /\ c.position \in Int /\ c.start \in Int /\ c.end \in Int
    BY RecordOf
  <2> QED  BY <2>1 DEF Reads
<1>2. PICK at : at = Offset[c.file] + c.position
  OBVIOUS
<1>3. PICK rest : rest = PieceLength - (at % PieceLength)
  OBVIOUS
<1>4. PICK left : left = c.end - c.position + 1
  OBVIOUS
<1>5. PICK n : n = Stream!Min({rest, left})
  OBVIOUS
<1>6. Stream!ChunkLength(r) = n /\ Stream!Here(r) = Stream!PieceOf(at)
  BY <1>2, <1>3, <1>4, <1>5 DEF Stream!ChunkLength, Stream!Here
<1> HIDE DEF c
<1>7. Offset[c.file] \in Nat /\ at \in Nat
  BY <1>1, <1>2, RuntimeConstants
<1>8. rest \in Int /\ rest >= 1
  <2>1. at % PieceLength \in 0..(PieceLength - 1)
    BY <1>7, Division
  <2>2. PICK m : m = at % PieceLength
    OBVIOUS
  <2> QED  BY <1>3, <2>1, <2>2, RuntimeConstants
<1>9. left \in Int /\ left >= 1
  BY <1>1, <1>4
<1>10. n \in {rest, left} /\ n <= rest /\ n <= left
  BY <1>5, <1>8, <1>9, SmallerOfTwo, Zenon
<1>11. n \in Int /\ n >= 1 /\ c.position + n <= c.end + 1
  BY <1>1, <1>4, <1>8, <1>9, <1>10
<1>12. ASSUME NEW byte \in c.position..(c.position + n - 1)
       PROVE  Stream!PieceOf(Offset[c.file] + byte) = Stream!PieceOf(at)
  <2>1. PICK x : x = Offset[c.file] + byte
    OBVIOUS
  <2>2. x \in Nat /\ at <= x /\ x < at + rest
    BY <1>1, <1>2, <1>7, <1>8, <1>10, <1>11, <2>1
  <2>3. x < at + (PieceLength - (at % PieceLength))
    BY <1>3, <2>2
  <2> QED  BY <1>7, <2>1, <2>2, <2>3, SamePiece
<1> QED  BY <1>6, <1>11, <1>12 DEF c

LEMMA TurnKeeps ==
  ASSUME ReadersInv, NEW r \in Readers, Stream!Turn(r)
  PROVE  ReadersInv'
<1>1. ~destroyed /\ stream[r].phase = "turn" /\ UNCHANGED <<priority, ranges, verified, destroyed>>
  BY DEF Stream!Turn
<1>2. Owns /\ stream \in [Readers -> StreamRecord]
  BY <1>1 DEF ReadersInv
<1>3. \A s : s \in Stream!Cleared(r) <=> s \in selections /\ s.notify # r
  BY <1>1, ClearedLeaves
<1>4. CASE stream[r].position > stream[r].end
  <2>1. selections' = Stream!Cleared(r) /\ stream' = [stream EXCEPT ![r] = Stream!NoStream]
    BY <1>4 DEF Stream!Turn
  <2>2. Stream!NoStream \in StreamRecord /\ Stream!NoStream.phase = "closed" /\ Reads(Stream!NoStream, verified)
    BY DEF Stream!NoStream, StreamRecord, Reads
  <2>3. Owns'
    BY <1>1, <1>2, <1>3, <2>1, <2>2, OwnsLess
  <2> QED  BY <1>1, <2>1, <2>2, <2>3, ReaderMoves
<1>5. CASE ~(stream[r].position > stream[r].end)
  <2> DEFINE c == [stream[r] EXCEPT !.phase = "waiting"]
             more == [from |-> Stream!Here(r), to |-> Stream!Ahead(r), priority |-> 10, notify |-> r]
  <2>1. selections' = Stream!Cleared(r) \cup {more} /\ stream' = [stream EXCEPT ![r] = c]
    BY <1>5 DEF Stream!Turn, Stream!SelectsAfter
  <2>2. /\ c \in StreamRecord /\ c.phase = "waiting" /\ c.file = stream[r].file /\ c.start = stream[r].start
        /\ c.position = stream[r].position /\ c.end = stream[r].end
    BY RecordOf DEF StreamRecord
  <2>3. stream[r].position <= stream[r].end
    BY <1>5, RecordOf
  <2>4. Reads(c, verified)
    <3> HIDE DEF c
    <3>1. Reads(stream[r], verified)
      BY RecordOf
    <3> QED  BY <1>1, <2>2, <2>3, <3>1 DEF Reads
  <2>5. more.notify = r /\ more.from = Stream!Here(r) /\ more.to = Stream!Ahead(r)
    OBVIOUS
  <2>6. Stream!Here(r) \in Stream!Here(r)..Stream!Ahead(r)
    BY <1>1, <2>3, AsksForItsPiece
  <2> HIDE DEF c, more
  <2>7. stream'[r] = c /\ Stream!Here(r)' = Stream!Here(r) /\ \A q \in Readers : q # r => stream'[q] = stream[q] /\ Stream!Here(q)' = Stream!Here(q)
    BY <1>2, <2>1, <2>2 DEF Stream!Here
  <2>8. \A s : s \in selections' <=> s = more \/ (s \in selections /\ s.notify # r)
    BY <1>3, <2>1
  <2>9. Owns'
    <3>1. \A s \in selections' : s.notify \in Readers \cup {None}
      BY <1>2, <2>5, <2>8 DEF Owns
    <3>2. \A s, t \in selections' : s.notify = t.notify /\ s.notify \in Readers => s = t
      BY <1>2, <2>5, <2>8 DEF Owns
    <3>3. \A s \in selections' : s.notify \in Readers => stream'[s.notify].phase # "closed"
      BY <1>2, <2>2, <2>5, <2>7, <2>8 DEF Owns
    <3>4. ASSUME NEW q \in Readers, stream'[q].phase = "waiting"
          PROVE  Stream!Here(q)' \in verified' \/ \E s \in selections' : s.notify = q /\ Stream!Here(q)' \in s.from..s.to
      <4>1. CASE q = r
        <5>1. more \in selections' /\ more.notify = q /\ Stream!Here(q)' \in more.from..more.to
          BY <2>5, <2>6, <2>7, <2>8, <4>1
        <5> QED  BY <5>1
      <4>2. CASE q # r
        <5>1. Stream!Here(q) \in verified \/ \E s \in selections : s.notify = q /\ Stream!Here(q) \in s.from..s.to
          BY <1>2, <2>7, <3>4, <4>2 DEF Owns
        <5> QED  BY <1>1, <2>7, <2>8, <4>2, <5>1
      <4> QED  BY <4>1, <4>2
    <3> QED  BY <3>1, <3>2, <3>3, <3>4 DEF Owns
  <2> QED  BY <1>1, <2>1, <2>2, <2>4, <2>9, ReaderMoves
<1> QED  BY <1>4, <1>5

LEMMA ReadKeeps ==
  ASSUME ReadersInv, NEW r \in Readers, Stream!Read(r)
  PROVE  ReadersInv'
<1> DEFINE c == [stream[r] EXCEPT !.phase = "reading"]
<1>1. /\ ~destroyed /\ stream[r].phase = "waiting" /\ Stream!Here(r) \in verified
      /\ stream' = [stream EXCEPT ![r] = c] /\ UNCHANGED <<priority, selections, ranges, verified, destroyed>>
  BY DEF Stream!Read, Stream!MayRead
<1>2. /\ c \in StreamRecord /\ c.phase = "reading" /\ c.file = stream[r].file /\ c.start = stream[r].start
      /\ c.position = stream[r].position /\ c.end = stream[r].end
  BY RecordOf DEF StreamRecord
<1> HIDE DEF c
<1>3. Reads(c, verified)
  <2>1. Reads(stream[r], verified) /\ Stream!PieceOf(Offset[c.file] + c.position) \in verified
    BY <1>1, <1>2, RecordOf DEF Stream!Here
  <2> QED  BY <1>1, <1>2, <2>1 DEF Reads
<1>4. Owns'
  BY <1>1, <1>2, OwnsLess DEF ReadersInv
<1> QED  BY <1>1, <1>2, <1>3, <1>4, ReaderMoves

LEMMA YieldKeeps ==
  ASSUME ReadersInv, NEW r \in Readers, Stream!Yield(r)
  PROVE  ReadersInv'
<1> DEFINE c == [stream[r] EXCEPT !.phase = "turn", !.position = @ + Stream!ChunkLength(r)]
<1>1. stream[r].phase = "reading" /\ UNCHANGED <<priority, selections, ranges, verified, destroyed>>
  BY DEF Stream!Yield
<1>2. stream' = [stream EXCEPT ![r] = c]
  BY DEF Stream!Yield
<1>3. PICK n : n = Stream!ChunkLength(r)
  OBVIOUS
<1>4. /\ n \in Int /\ n >= 1 /\ stream[r].position + n <= stream[r].end + 1
      /\ \A byte \in stream[r].position..(stream[r].position + n - 1) :
           Stream!PieceOf(Offset[stream[r].file] + byte) = Stream!Here(r)
  BY <1>1, <1>3, ChunkInPiece
<1>5. /\ c \in StreamRecord /\ c.phase = "turn" /\ c.file = stream[r].file /\ c.start = stream[r].start
      /\ c.position = stream[r].position + n /\ c.end = stream[r].end
  <2>1. c = [stream[r] EXCEPT !.phase = "turn", !.position = stream[r].position + n]
    BY <1>3
  <2>2. stream[r] \in StreamRecord /\ stream[r].position + n \in Int
    BY <1>4, RecordOf
  <2> HIDE DEF c
  <2> QED  BY <2>1, <2>2 DEF StreamRecord
<1> HIDE DEF c
<1>6. Reads(c, verified)
  <2>1. /\ Reads(stream[r], verified) /\ stream[r].start \in Int /\ stream[r].position \in Int /\ stream[r].end \in Int
        /\ Stream!Here(r) = Stream!PieceOf(Offset[stream[r].file] + stream[r].position)
    BY RecordOf DEF Stream!Here
  <2>2. /\ c.file \in Files /\ c.end = Length[c.file] - 1 /\ 0 <= c.start /\ stream[r].start <= stream[r].position
        /\ Stream!Here(r) \in verified
        /\ \A byte \in c.start..(stream[r].position - 1) : Stream!PieceOf(Offset[c.file] + byte) \in verified
    BY <1>1, <1>5, <2>1 DEF Reads
  <2>3. c.start <= c.position /\ c.position <= c.end + 1
    BY <1>4, <1>5, <2>1, <2>2
  <2>4. \A byte \in c.start..(c.position - 1) :
          byte \in c.start..(stream[r].position - 1) \/ byte \in stream[r].position..(stream[r].position + n - 1)
    BY <1>4, <1>5, <2>1
  <2>5. \A byte \in c.start..(c.position - 1) : Stream!PieceOf(Offset[c.file] + byte) \in verified
    BY <1>4, <1>5, <2>2, <2>4
  <2> QED  BY <1>5, <2>2, <2>3, <2>5 DEF Reads
<1>7. ~destroyed => Owns'
  BY <1>1, <1>2, <1>5, OwnsLess DEF ReadersInv
<1> QED  BY <1>1, <1>2, <1>5, <1>6, <1>7, ReaderMoves

LEMMA CancelKeeps ==
  ASSUME ReadersInv, NEW r \in Readers, Stream!Cancel(r)
  PROVE  ReadersInv'
<1> DEFINE c == [Stream!NoStream EXCEPT !.phase = "ending"]
<1>1. stream' = [stream EXCEPT ![r] = c] /\ UNCHANGED <<priority, selections, ranges, verified, destroyed>>
  BY DEF Stream!Cancel
<1>2. c \in StreamRecord /\ c.phase = "ending"
  BY DEF Stream!NoStream, StreamRecord
<1> HIDE DEF c
<1>3. Reads(c, verified)
  BY <1>2 DEF Reads
<1>4. ~destroyed => Owns'
  BY <1>1, <1>2, OwnsLess DEF ReadersInv
<1> QED  BY <1>1, <1>2, <1>3, <1>4, ReaderMoves

LEMMA FailKeeps ==
  ASSUME ReadersInv, NEW r \in Readers, Stream!Fail(r)
  PROVE  ReadersInv'
<1>1. /\ stream' = [stream EXCEPT ![r] = Stream!NoStream] /\ selections' = Stream!Cleared(r)
      /\ UNCHANGED <<priority, ranges, verified, destroyed>>
  BY DEF Stream!Fail, Stream!LeftAfter
<1>2. Stream!NoStream \in StreamRecord /\ Stream!NoStream.phase = "closed" /\ Reads(Stream!NoStream, verified)
  BY DEF Stream!NoStream, StreamRecord, Reads
<1>3. ASSUME ~destroyed PROVE Owns'
  <2>1. \A s : s \in Stream!Cleared(r) <=> s \in selections /\ s.notify # r
    BY <1>3, ClearedLeaves
  <2> QED  BY <1>1, <1>2, <1>3, <2>1, OwnsLess DEF ReadersInv
<1> QED  BY <1>1, <1>2, <1>3, ReaderMoves

\* A piece more: what is verified stays, and only what is complete is dropped.
LEMMA VerifyKeeps ==
  ASSUME ReadersInv, NEW p \in Stream!Pieces, Stream!Verify(p)
  PROVE  ReadersInv'
<1>1. /\ ~destroyed /\ verified' = verified \cup {p} /\ UNCHANGED <<priority, ranges, destroyed, stream>>
      /\ selections' = {s \in selections : ~(s.from..s.to \subseteq verified')}
  BY DEF Stream!Verify
<1>2. \A r \in Readers : Reads(stream'[r], verified')
  <2> TAKE r \in Readers
  <2> DEFINE c == stream[r]
  <2>1. Reads(c, verified) /\ verified \subseteq verified'
    BY <1>1, RecordOf
  <2> HIDE DEF c
  <2>2. Reads(c, verified')
    BY <2>1 DEF Reads
  <2> QED  BY <1>1, <2>2 DEF c
<1>3. Owns
  BY <1>1 DEF ReadersInv
<1>4. \A r \in Readers : Stream!Here(r)' = Stream!Here(r)
  BY <1>1 DEF Stream!Here
<1>5. ASSUME NEW r \in Readers, stream'[r].phase = "waiting"
      PROVE  Stream!Here(r)' \in verified' \/ \E s \in selections' : s.notify = r /\ Stream!Here(r)' \in s.from..s.to
  <2>1. Stream!Here(r) \in verified \/ \E s \in selections : s.notify = r /\ Stream!Here(r) \in s.from..s.to
    BY <1>1, <1>3, <1>5 DEF Owns
  <2>2. ASSUME NEW s \in selections, s.notify = r, Stream!Here(r) \in s.from..s.to
        PROVE  Stream!Here(r) \in verified' \/ s \in selections'
    BY <1>1, <2>2
  <2> QED  BY <1>1, <1>4, <2>1, <2>2
<1>6. Owns'
  <2>1. selections' \subseteq selections
    BY <1>1
  <2> QED  BY <1>1, <1>3, <1>5, <2>1 DEF Owns
<1> QED  BY <1>1, <1>2, <1>6 DEF ReadersInv

\* What files ask for is not a reader's.
LEMMA SetFilePriorityKeeps ==
  ASSUME ReadersInv, NEW f \in Files, NEW value, Stream!SetFilePriority(f, value)
  PROVE  ReadersInv'
<1>1. /\ ~destroyed /\ UNCHANGED <<verified, destroyed, stream>>
      /\ selections' = {s \in selections : ~Stream!Own(s)} \cup {Sel(priority', run) : run \in Stream!Runs(priority')}
  BY DEF Stream!SetFilePriority, Stream!Applied, Sel
<1>2. Owns
  BY <1>1 DEF ReadersInv
<1>3. \A s \in selections' : s \in selections \/ s.notify = None
  BY <1>1 DEF Sel
<1>4. \A s \in selections : s.notify \in Readers => s \in selections'
  BY <1>1, RuntimeConstants DEF Stream!Own
<1>5. \A r \in Readers : Stream!Here(r)' = Stream!Here(r)
  BY <1>1 DEF Stream!Here
<1>6. \A s \in selections' : s.notify \in Readers => s \in selections
  BY <1>3, RuntimeConstants
<1>7. Owns'
  <2>1. \A s \in selections' : s.notify \in Readers \cup {None}
    BY <1>2, <1>3 DEF Owns
  <2>2. \A s, t \in selections' : s.notify = t.notify /\ s.notify \in Readers => s = t
    BY <1>2, <1>6 DEF Owns
  <2>3. \A s \in selections' : s.notify \in Readers => stream'[s.notify].phase # "closed"
    BY <1>1, <1>2, <1>6 DEF Owns
  <2>4. ASSUME NEW r \in Readers, stream'[r].phase = "waiting"
        PROVE  Stream!Here(r)' \in verified' \/ \E s \in selections' : s.notify = r /\ Stream!Here(r)' \in s.from..s.to
    <3>1. Stream!Here(r) \in verified \/ \E s \in selections : s.notify = r /\ Stream!Here(r) \in s.from..s.to
      BY <1>1, <1>2, <2>4 DEF Owns
    <3> QED  BY <1>1, <1>4, <1>5, <3>1
  <2> QED  BY <2>1, <2>2, <2>3, <2>4 DEF Owns
<1>8. \A r \in Readers : Reads(stream'[r], verified')
  BY <1>1 DEF ReadersInv
<1> QED  BY <1>1, <1>7, <1>8 DEF ReadersInv

LEMMA DestroyKeeps == ReadersInv /\ Stream!Destroy => ReadersInv'
BY DEF ReadersInv, Stream!Destroy

LEMMA StreamKeeps == FilesInv /\ ReadersInv /\ Stream!Next => FilesInv' /\ ReadersInv'
BY FilesKept, OpenKeeps, TurnKeeps, ReadKeeps, YieldKeeps, CancelKeeps, FailKeeps, VerifyKeeps,
   SetFilePriorityKeeps, DestroyKeeps DEF Stream!Next

LEMMA StreamRests == FilesInv /\ ReadersInv /\ UNCHANGED ofStream => FilesInv' /\ ReadersInv'
<1> SUFFICES ASSUME FilesInv, ReadersInv, UNCHANGED ofStream PROVE FilesInv' /\ ReadersInv'
  OBVIOUS
<1>1. UNCHANGED <<priority, selections, ranges, verified, destroyed, stream>>
  BY DEF ofStream
<1>2. FilesInv'
  BY <1>1, FilesUndisturbed
<1>3. Owns' <=> Owns
  BY <1>1 DEF Owns, Stream!Here
<1>4. ReadersInv'
  BY <1>1, <1>3 DEF ReadersInv
<1> QED  BY <1>2, <1>4

LEMMA ReadersOwnAndRead == ReadersInv => Stream!ReadersAreOwners /\ Stream!SentIsVerified
<1> SUFFICES ASSUME ReadersInv PROVE Stream!ReadersAreOwners /\ Stream!SentIsVerified
  OBVIOUS
<1>1. ASSUME ~destroyed, NEW r \in Readers
      PROVE  LET own == {s \in selections : s.notify = r} IN
               /\ Stream!Cardinality(own) <= 1
               /\ stream[r].phase = "closed" => own = {}
               /\ stream[r].phase = "waiting" /\ Stream!Here(r) \notin verified =>
                    \E s \in own : Stream!Here(r) \in s.from..s.to
  <2> DEFINE own == {s \in selections : s.notify = r}
  <2>1. Owns
    BY <1>1 DEF ReadersInv
  <2>2. \A s, t \in own : s = t
    BY <2>1 DEF Owns
  <2>3. Stream!Cardinality(own) <= 1
    <3> HIDE DEF own
    <3>1. CASE own = {}
      BY <3>1, SameCount, FS_EmptySet
    <3>2. CASE own # {}
      <4>1. PICK s \in own : own = {s}
        BY <2>2, <3>2
      <4>2. Cardinality({s}) = 1
        BY FS_Singleton
      <4> QED  BY <4>1, <4>2, SameCount
    <3> QED  BY <3>1, <3>2
  <2>4. stream[r].phase = "closed" => own = {}
    BY <2>1 DEF Owns
  <2>5. stream[r].phase = "waiting" /\ Stream!Here(r) \notin verified => \E s \in own : Stream!Here(r) \in s.from..s.to
    BY <2>1 DEF Owns
  <2> QED  BY <2>3, <2>4, <2>5
<1>2. ASSUME NEW r \in Readers, stream[r].phase \in {"turn", "waiting", "reading"}
      PROVE  /\ stream[r].position <= stream[r].end + 1
             /\ \A byte \in stream[r].start..(stream[r].position - 1) :
                  Stream!PieceOf(Offset[stream[r].file] + byte) \in verified
             /\ stream[r].phase = "reading" =>
                  Stream!PieceOf(Offset[stream[r].file] + stream[r].position + Stream!ChunkLength(r) - 1) = Stream!Here(r)
  <2>1. /\ Reads(stream[r], verified) /\ stream[r].position \in Int
    BY RecordOf
  <2>2. /\ stream[r].position <= stream[r].end + 1 /\ stream[r].file \in Files
        /\ \A byte \in stream[r].start..(stream[r].position - 1) :
             Stream!PieceOf(Offset[stream[r].file] + byte) \in verified
    BY <1>2, <2>1 DEF Reads
  <2>3. ASSUME stream[r].phase = "reading"
        PROVE  Stream!PieceOf(Offset[stream[r].file] + stream[r].position + Stream!ChunkLength(r) - 1) = Stream!Here(r)
    <3>1. PICK n : n = Stream!ChunkLength(r)
      OBVIOUS
    <3>2. PICK position : position = stream[r].position
      OBVIOUS
    <3>3. PICK offset : offset = Offset[stream[r].file]
      OBVIOUS
    <3>4. n \in Int /\ n >= 1 /\ \A byte \in position..(position + n - 1) : Stream!PieceOf(offset + byte) = Stream!Here(r)
      BY <2>3, <3>1, <3>2, <3>3, ChunkInPiece
    <3>5. position + n - 1 \in position..(position + n - 1) /\ offset + (position + n - 1) = offset + position + n - 1
      BY <2>1, <2>2, <3>2, <3>3, <3>4, RuntimeConstants
    <3>6. Stream!PieceOf(offset + position + n - 1) = Stream!Here(r)
      BY <3>4, <3>5
    <3> QED  BY <3>1, <3>2, <3>3, <3>6
  <2> QED  BY <2>2, <2>3
<1>3. Stream!ReadersAreOwners
  BY <1>1 DEF Stream!ReadersAreOwners
<1>4. Stream!SentIsVerified
  BY <1>2, Zenon DEF Stream!SentIsVerified
<1> QED  BY <1>3, <1>4

-----------------------------------------------------------------------------
(* The archives.                                                           *)

\* The names a path may be made of, the folded ones included.
AnyName == Names \cup {"unsafe", "a"}

\* The prefixes of a path are its beginnings.
LEMMA Beginnings ==
  ASSUME NEW path \in Seq(AnyName)
  PROVE  /\ \A q : q \in Archive!Upto(path) <=> \E l \in 1..Len(path) : q = SubSeq(path, 1, l)
         /\ \A q : q \in Archive!Parents(path) <=> \E l \in 1..(Len(path) - 1) : q = SubSeq(path, 1, l)
         /\ path # <<>> => path \in Archive!Upto(path)
         /\ Archive!Parents(path) \subseteq Archive!Upto(path)
<1>1. Len(path) \in Nat
  BY LenProperties
<1>2. \A l \in 0..Len(path) : SubSeq(path, 1, l) \in Seq(AnyName) /\ Len(SubSeq(path, 1, l)) = l
  BY <1>1
<1>3. SubSeq(path, 1, Len(path)) = path
  OBVIOUS
<1>4. \A l \in 0..Len(path) : SubSeq(path, 1, l) = <<>> <=> l = 0
  BY <1>1, <1>2, EmptySeq
<1>5. \A q : q \in Archive!Upto(path) <=> \E l \in 1..Len(path) : q = SubSeq(path, 1, l)
  <2>1. ASSUME NEW q, q \in Archive!Upto(path)
        PROVE  \E l \in 1..Len(path) : q = SubSeq(path, 1, l)
    <3>1. PICK l \in 0..Len(path) : q = SubSeq(path, 1, l) /\ q # <<>>
      BY <2>1 DEF Archive!Upto, Archive!Prefixes
    <3>2. l # 0
      BY <1>4, <3>1
    <3> QED  BY <1>1, <3>1, <3>2
  <2>2. ASSUME NEW l \in 1..Len(path)
        PROVE  SubSeq(path, 1, l) \in Archive!Upto(path)
    <3>1. l \in 0..Len(path) /\ l # 0
      BY <1>1
    <3> QED  BY <1>4, <3>1 DEF Archive!Upto, Archive!Prefixes
  <2> QED  BY <2>1, <2>2
<1>6. ASSUME NEW l \in 1..Len(path), SubSeq(path, 1, l) = path
      PROVE  l = Len(path)
  <2>1. l \in 0..Len(path)
    BY <1>1
  <2>2. Len(SubSeq(path, 1, l)) = l
    BY <1>2, <2>1
  <2> QED  BY <1>6, <2>2, Zenon
<1>7. \A q : q \in Archive!Parents(path) <=> \E l \in 1..(Len(path) - 1) : q = SubSeq(path, 1, l)
  <2>1. ASSUME NEW q, q \in Archive!Parents(path)
        PROVE  \E l \in 1..(Len(path) - 1) : q = SubSeq(path, 1, l)
    <3>1. q \in Archive!Upto(path) /\ q # path
      BY <2>1 DEF Archive!Parents
    <3>2. PICK l \in 1..Len(path) : q = SubSeq(path, 1, l)
      BY <1>5, <3>1
    <3>3. l # Len(path)
      BY <1>3, <3>1, <3>2
    <3> QED  BY <1>1, <3>2, <3>3
  <2>2. ASSUME NEW l \in 1..(Len(path) - 1)
        PROVE  SubSeq(path, 1, l) \in Archive!Parents(path)
    <3>1. l \in 1..Len(path) /\ l # Len(path)
      BY <1>1
    <3> QED  BY <1>5, <1>6, <3>1 DEF Archive!Parents
  <2> QED  BY <2>1, <2>2
<1>8. path # <<>> => path \in Archive!Upto(path)
  <2>1. SUFFICES ASSUME path # <<>> PROVE path \in Archive!Upto(path)
    OBVIOUS
  <2>2. Len(path) \in 1..Len(path)
    BY <1>1, <2>1, EmptySeq
  <2> QED  BY <1>3, <1>5, <2>2
<1>9. Archive!Parents(path) \subseteq Archive!Upto(path)
  BY DEF Archive!Parents
<1> QED  BY <1>5, <1>7, <1>8, <1>9

\* Folding a path folds its beginnings, and once is enough.
LEMMA Folding ==
  ASSUME NEW path \in Seq(AnyName)
  PROVE  /\ Archive!Fold(path) \in Seq(AnyName) /\ Len(Archive!Fold(path)) = Len(path)
         /\ Archive!Fold(Archive!Fold(path)) = Archive!Fold(path)
         /\ \A l \in 1..Len(path) : Archive!Fold(SubSeq(path, 1, l)) = SubSeq(Archive!Fold(path), 1, l)
<1>1. Len(path) \in Nat /\ DOMAIN path = 1..Len(path) /\ \A i \in 1..Len(path) : path[i] \in AnyName
  BY LenProperties
<1>2. Archive!Fold(path) = [i \in 1..Len(path) |-> IF path[i] = "A" THEN "a" ELSE path[i]]
  BY <1>1 DEF Archive!Fold
<1>3. \A i \in 1..Len(path) : (IF path[i] = "A" THEN "a" ELSE path[i]) \in AnyName
  BY <1>1 DEF AnyName
<1>4. Archive!Fold(path) \in Seq(AnyName) /\ Len(Archive!Fold(path)) = Len(path) /\ DOMAIN Archive!Fold(path) = 1..Len(path)
  BY <1>1, <1>2, <1>3
<1>5. \A i \in 1..Len(path) : Archive!Fold(path)[i] # "A" /\ Archive!Fold(path)[i] = IF path[i] = "A" THEN "a" ELSE path[i]
  BY <1>2
<1>6. Archive!Fold(Archive!Fold(path)) = Archive!Fold(path)
  <2>1. Archive!Fold(Archive!Fold(path)) = [i \in 1..Len(path) |-> IF Archive!Fold(path)[i] = "A" THEN "a" ELSE Archive!Fold(path)[i]]
    BY <1>4 DEF Archive!Fold
  <2>2. Archive!Fold(Archive!Fold(path)) = [i \in 1..Len(path) |-> Archive!Fold(path)[i]]
    BY <1>5, <2>1
  <2> QED  BY <1>4, <2>2
<1>7. ASSUME NEW l \in 1..Len(path)
      PROVE  Archive!Fold(SubSeq(path, 1, l)) = SubSeq(Archive!Fold(path), 1, l)
  <2> DEFINE a == SubSeq(path, 1, l)
             b == SubSeq(Archive!Fold(path), 1, l)
  <2>1. /\ DOMAIN a = 1..l /\ \A i \in 1..l : a[i] = path[i]
        /\ DOMAIN b = 1..l /\ b = [i \in 1..l |-> Archive!Fold(path)[i]]
    BY <1>1, <1>4
  <2>2. Archive!Fold(a) = [i \in 1..l |-> IF a[i] = "A" THEN "a" ELSE a[i]]
    BY <2>1 DEF Archive!Fold
  <2> HIDE DEF a, b
  <2>3. \A i \in 1..l : i \in 1..Len(path)
    BY <1>1
  <2>4. \A i \in 1..l : (IF a[i] = "A" THEN "a" ELSE a[i]) = Archive!Fold(path)[i]
    BY <1>5, <2>1, <2>3
  <2>5. Archive!Fold(a) = b
    BY <2>1, <2>2, <2>4
  <2> QED  BY <2>5 DEF a, b
<1> QED  BY <1>4, <1>6, <1>7

\* The folders above a folded path are the folded ones above the path.
LEMMA FoldedBeginnings ==
  ASSUME NEW path \in Seq(AnyName)
  PROVE  /\ Archive!Upto(Archive!Fold(path)) = {Archive!Fold(q) : q \in Archive!Upto(path)}
         /\ Archive!Parents(Archive!Fold(path)) = {Archive!Fold(q) : q \in Archive!Parents(path)}
<1>1. Len(path) \in Nat /\ Archive!Fold(path) \in Seq(AnyName) /\ Len(Archive!Fold(path)) = Len(path)
  BY Folding, LenProperties
<1>2. \A l \in 1..Len(path) : Archive!Fold(SubSeq(path, 1, l)) = SubSeq(Archive!Fold(path), 1, l)
  BY Folding
<1>3. /\ \A q : q \in Archive!Upto(path) <=> \E l \in 1..Len(path) : q = SubSeq(path, 1, l)
      /\ \A q : q \in Archive!Parents(path) <=> \E l \in 1..(Len(path) - 1) : q = SubSeq(path, 1, l)
  BY Beginnings
<1>4. /\ \A q : q \in Archive!Upto(Archive!Fold(path)) <=> \E l \in 1..Len(path) : q = SubSeq(Archive!Fold(path), 1, l)
      /\ \A q : q \in Archive!Parents(Archive!Fold(path)) <=> \E l \in 1..(Len(path) - 1) : q = SubSeq(Archive!Fold(path), 1, l)
  <2> DEFINE p == Archive!Fold(path)
  <2>1. p \in Seq(AnyName) /\ Len(p) = Len(path)
    BY <1>1
  <2> HIDE DEF p
  <2>2. /\ \A q : q \in Archive!Upto(p) <=> \E l \in 1..Len(path) : q = SubSeq(p, 1, l)
        /\ \A q : q \in Archive!Parents(p) <=> \E l \in 1..(Len(path) - 1) : q = SubSeq(p, 1, l)
    BY <2>1, Beginnings
  <2> QED  BY <2>2 DEF p
<1>5. \A l \in 1..(Len(path) - 1) : l \in 1..Len(path)
  BY <1>1
<1>6. ASSUME NEW l \in 1..Len(path)
      PROVE  SubSeq(Archive!Fold(path), 1, l) = Archive!Fold(SubSeq(path, 1, l)) /\ SubSeq(path, 1, l) \in Archive!Upto(path)
  BY <1>2, <1>3
<1>7. ASSUME NEW l \in 1..(Len(path) - 1)
      PROVE  SubSeq(Archive!Fold(path), 1, l) = Archive!Fold(SubSeq(path, 1, l)) /\ SubSeq(path, 1, l) \in Archive!Parents(path)
  BY <1>2, <1>3, <1>5
<1>8. \A q : q \in Archive!Upto(Archive!Fold(path)) <=> \E p \in Archive!Upto(path) : q = Archive!Fold(p)
  <2>1. ASSUME NEW q, q \in Archive!Upto(Archive!Fold(path)) PROVE \E p \in Archive!Upto(path) : q = Archive!Fold(p)
    <3>1. PICK l \in 1..Len(path) : q = SubSeq(Archive!Fold(path), 1, l)
      BY <1>4, <2>1, Zenon
    <3> QED  BY <1>6, <3>1, Zenon
  <2>2. ASSUME NEW p \in Archive!Upto(path) PROVE Archive!Fold(p) \in Archive!Upto(Archive!Fold(path))
    <3>1. PICK l \in 1..Len(path) : p = SubSeq(path, 1, l)
      BY <1>3, <2>2, Zenon
    <3> QED  BY <1>4, <1>6, <3>1, Zenon
  <2> QED  BY <2>1, <2>2, Zenon
<1>9. \A q : q \in Archive!Parents(Archive!Fold(path)) <=> \E p \in Archive!Parents(path) : q = Archive!Fold(p)
  <2>1. ASSUME NEW q, q \in Archive!Parents(Archive!Fold(path)) PROVE \E p \in Archive!Parents(path) : q = Archive!Fold(p)
    <3>1. PICK l \in 1..(Len(path) - 1) : q = SubSeq(Archive!Fold(path), 1, l)
      BY <1>4, <2>1, Zenon
    <3> QED  BY <1>7, <3>1, Zenon
  <2>2. ASSUME NEW p \in Archive!Parents(path) PROVE Archive!Fold(p) \in Archive!Parents(Archive!Fold(path))
    <3>1. PICK l \in 1..(Len(path) - 1) : p = SubSeq(path, 1, l)
      BY <1>3, <2>2, Zenon
    <3> QED  BY <1>4, <1>7, <3>1, Zenon
  <2> QED  BY <2>1, <2>2, Zenon
<1>10. Archive!Upto(Archive!Fold(path)) = {Archive!Fold(q) : q \in Archive!Upto(path)}
  BY <1>8
<1>11. Archive!Parents(Archive!Fold(path)) = {Archive!Fold(q) : q \in Archive!Parents(path)}
  BY <1>9
<1> QED  BY <1>10, <1>11

\* What is listed: paths of names, none of them empty.
Listed == \E n \in 1..MaxEntries : listing \in [1..n -> Archive!Entries]

LEMMA PathsHaveNames ==
  ASSUME Listed
  PROVE  \A i \in DOMAIN listing :
           listing[i].path \in Seq(AnyName) /\ listing[i].path # <<>> /\ listing[i].directory \in BOOLEAN
<1>1. \A p \in Archive!Paths : p \in Seq(AnyName) /\ p # <<>>
  <2>1. ASSUME NEW n \in 1..MaxNames, NEW p \in [1..n -> Names]
        PROVE  p \in Seq(AnyName) /\ p # <<>>
    <3>1. n \in Nat /\ n # 0
      BY RuntimeConstants
    <3>2. p \in [1..n -> AnyName]
      BY DEF AnyName
    <3>3. p \in Seq(AnyName) /\ Len(p) = n
      BY <3>1, <3>2, LenProperties
    <3> QED  BY <3>1, <3>3
  <2>2. <<"unsafe">> \in Seq(AnyName) /\ <<"unsafe">> # <<>>
    BY DEF AnyName
  <2> QED  BY <2>1, <2>2 DEF Archive!Paths
<1>2. \A i \in DOMAIN listing : listing[i] \in Archive!Entries
  BY DEF Listed
<1>3. \A i \in DOMAIN listing : listing[i].path \in Archive!Paths /\ listing[i].directory \in BOOLEAN
  BY <1>2 DEF Archive!Entries
<1> QED  BY <1>1, <1>3

LEMMA ListedIsFinite == Listed => IsFiniteSet(DOMAIN listing) /\ DOMAIN listing \subseteq Nat
<1> SUFFICES ASSUME Listed PROVE IsFiniteSet(DOMAIN listing) /\ DOMAIN listing \subseteq Nat
  OBVIOUS
<1>1. PICK n \in 1..MaxEntries : DOMAIN listing = 1..n
  BY DEF Listed
<1>2. n \in Int
  BY RuntimeConstants
<1> QED  BY <1>1, <1>2, FS_Interval

\* The disk may fold a path, and folds the folders above it alike.
LEMMA DiskFolds ==
  ASSUME NEW path \in Seq(AnyName)
  PROVE  /\ Archive!OnDisk(path) \in Seq(AnyName) /\ Archive!Fold(Archive!OnDisk(path)) = Archive!Fold(path)
         /\ path # <<>> => Archive!OnDisk(path) \in Archive!Upto(Archive!OnDisk(path))
         /\ Archive!Upto(Archive!OnDisk(path)) = {Archive!OnDisk(q) : q \in Archive!Upto(path)}
         /\ Archive!Parents(Archive!OnDisk(path)) = {Archive!OnDisk(q) : q \in Archive!Parents(path)}
<1>1. CASE folding
  <2>1. \A q : Archive!OnDisk(q) = Archive!Fold(q)
    BY <1>1 DEF Archive!OnDisk
  <2>2. Archive!Fold(path) \in Seq(AnyName) /\ Archive!Fold(Archive!Fold(path)) = Archive!Fold(path) /\ Len(Archive!Fold(path)) = Len(path)
    BY Folding
  <2>3. path # <<>> => Archive!Fold(path) # <<>>
    BY <2>2, EmptySeq
  <2>4. Archive!Fold(path) # <<>> => Archive!Fold(path) \in Archive!Upto(Archive!Fold(path))
    <3> DEFINE p == Archive!Fold(path)
    <3>1. p \in Seq(AnyName)
      BY <2>2
    <3> HIDE DEF p
    <3>2. p # <<>> => p \in Archive!Upto(p)
      BY <3>1, Beginnings
    <3> QED  BY <3>2 DEF p
  <2> QED  BY <2>1, <2>2, <2>3, <2>4, FoldedBeginnings
<1>2. CASE ~folding
  <2>1. \A q : Archive!OnDisk(q) = q
    BY <1>2 DEF Archive!OnDisk
  <2> QED  BY <2>1, Beginnings
<1> QED  BY <1>1, <1>2

\* Entries that are accepted do not meet on disk: no two have one path, and no file is
\* a folder of another.
LEMMA EntriesApart ==
  ASSUME Listed, Archive!Distinct, Archive!Nested, NEW i \in DOMAIN listing, NEW j \in DOMAIN listing
  PROVE  /\ i # j => listing[i].path # listing[j].path
         /\ i # j => Archive!OnDisk(listing[i].path) # Archive!OnDisk(listing[j].path)
         /\ ~listing[j].directory => listing[j].path \notin Archive!Parents(listing[i].path)
         /\ ~listing[j].directory => Archive!OnDisk(listing[j].path) \notin Archive!Parents(Archive!OnDisk(listing[i].path))
<1>1. listing[i].path \in Seq(AnyName) /\ listing[j].path \in Seq(AnyName)
  BY PathsHaveNames
<1>2. /\ Archive!Fold(Archive!OnDisk(listing[i].path)) = Archive!Name(i) /\ Archive!Fold(listing[i].path) = Archive!Name(i)
      /\ Archive!Fold(Archive!OnDisk(listing[j].path)) = Archive!Name(j) /\ Archive!Fold(listing[j].path) = Archive!Name(j)
  BY <1>1, DiskFolds DEF Archive!Name
<1>3. i # j => Archive!Name(i) # Archive!Name(j)
  BY DEF Archive!Distinct
<1>4. ~listing[j].directory => Archive!Name(j) \notin Archive!Parents(Archive!Name(i))
  BY DEF Archive!Nested
<1>5. \A q : q \in Archive!Parents(listing[i].path) => Archive!Fold(q) \in Archive!Parents(Archive!Name(i))
  BY <1>1, <1>2, FoldedBeginnings
<1>6. \A q : q \in Archive!Parents(Archive!OnDisk(listing[i].path)) => Archive!Fold(q) \in Archive!Parents(Archive!Name(i))
  <2> DEFINE p == Archive!OnDisk(listing[i].path)
  <2>1. p \in Seq(AnyName) /\ Archive!Fold(p) = Archive!Name(i)
    BY <1>1, <1>2, DiskFolds
  <2> HIDE DEF p
  <2>2. \A q : q \in Archive!Parents(p) => Archive!Fold(q) \in Archive!Parents(Archive!Name(i))
    BY <2>1, FoldedBeginnings
  <2> QED  BY <2>2 DEF p
<1> QED  BY <1>2, <1>3, <1>4, <1>5, <1>6

\* The entries that are extracted, and what they leave on disk.
Done == {i \in chosen : i < next}
MadeFor(i) == IF listing[i].directory THEN Archive!Upto(Archive!OnDisk(listing[i].path)) ELSE Archive!Parents(Archive!OnDisk(listing[i].path))
FilesOf(S) == {Archive!OnDisk(listing[i].path) : i \in {j \in S : ~listing[j].directory}}
FoldersOf(S) == UNION {MadeFor(i) : i \in S}

\* The nodes of what was listed: a path has one kind, whatever entry shows it.
KindOf(p) == IF \E j \in DOMAIN listing : ~listing[j].directory /\ listing[j].path = p THEN "file" ELSE "directory"
Above(S) == UNION {Archive!Upto(listing[i].path) : i \in S}
TreeOf(S) == {[path |-> p, kind |-> KindOf(p)] : p \in Above(S)}

Extracted ==
  /\ Archive!Distinct /\ Archive!Nested /\ chosen \subseteq DOMAIN listing
  /\ written \in Seq(chosen) /\ {written[k] : k \in DOMAIN written} = Done
  /\ files = FilesOf(Done) /\ directories = FoldersOf(Done)
  /\ total = Archive!Cardinality(UNION {Archive!Upto(Archive!Name(i)) : i \in DOMAIN listing})

ArchiveInv ==
  /\ Listed /\ folding \in BOOLEAN /\ next \in Nat
  /\ extraction \in {"listed", "refused", "extracting", "ready"}
  /\ extraction = "listed" => Archive!Rests
  /\ extraction \in {"extracting", "ready"} => Extracted
  /\ extraction = "ready" => Done = chosen /\ tree = TreeOf(chosen)

\* A set of extracted files is as large as the set of their entries.
LEMMA FilesCount ==
  ASSUME Listed, Archive!Distinct, Archive!Nested, NEW S \in SUBSET DOMAIN listing
  PROVE  Cardinality(FilesOf(S)) = Cardinality({i \in S : ~listing[i].directory})
<1> DEFINE T == {i \in S : ~listing[i].directory}
           place == [i \in T |-> Archive!OnDisk(listing[i].path)]
<1>1. T \subseteq DOMAIN listing /\ IsFiniteSet(T)
  BY ListedIsFinite, FS_Subset
<1>2. \A i, j \in T : i # j => place[i] # place[j]
  BY <1>1, EntriesApart
<1>3. place \in Bijection(T, FilesOf(S))
  <2>1. \A i \in T : place[i] \in FilesOf(S)
    BY DEF FilesOf
  <2>2. \A f \in FilesOf(S) : \E i \in T : place[i] = f
    BY DEF FilesOf
  <2>3. DOMAIN place = T
    OBVIOUS
  <2>4. place \in [T -> FilesOf(S)]
    BY <2>1
  <2> HIDE DEF place, T
  <2> QED  BY <1>2, <2>2, <2>4 DEF Bijection, Injection, Surjection, IsInjective
<1>4. Cardinality(T) = Cardinality(FilesOf(S))
  <2> HIDE DEF T, place
  <2>1. ExistsBijection(T, FilesOf(S))
    BY <1>3 DEF ExistsBijection
  <2> QED  BY <1>1, <2>1, FS_Bijection
<1> QED  BY <1>4

\* Extracting one more entry.
LEMMA OneMore ==
  ASSUME NEW S, NEW i, i \in DOMAIN listing, listing[i].directory \in BOOLEAN
  PROVE  /\ FilesOf(S \cup {i}) = IF listing[i].directory THEN FilesOf(S) ELSE FilesOf(S) \cup {Archive!OnDisk(listing[i].path)}
         /\ FoldersOf(S \cup {i}) = FoldersOf(S) \cup MadeFor(i)
         /\ Above(S \cup {i}) = Above(S) \cup Archive!Upto(listing[i].path)
<1>1. FilesOf(S \cup {i}) = IF listing[i].directory THEN FilesOf(S) ELSE FilesOf(S) \cup {Archive!OnDisk(listing[i].path)}
  <2>1. CASE listing[i].directory
    <3>1. {j \in S \cup {i} : ~listing[j].directory} = {j \in S : ~listing[j].directory}
      BY <2>1
    <3> QED  BY <2>1, <3>1 DEF FilesOf
  <2>2. CASE ~listing[i].directory
    <3>1. {j \in S \cup {i} : ~listing[j].directory} = {j \in S : ~listing[j].directory} \cup {i}
      BY <2>2
    <3> QED  BY <2>2, <3>1 DEF FilesOf
  <2> QED  BY <2>1, <2>2
<1>2. FoldersOf(S \cup {i}) = FoldersOf(S) \cup MadeFor(i)
  BY DEF FoldersOf
<1>3. Above(S \cup {i}) = Above(S) \cup Archive!Upto(listing[i].path)
  BY DEF Above
<1> QED  BY <1>1, <1>2, <1>3

\* The next entry meets nothing of the entries before it.
LEMMA NothingInTheWay ==
  ASSUME Listed, Archive!Distinct, Archive!Nested, NEW S \in SUBSET DOMAIN listing,
         NEW i \in DOMAIN listing, i \notin S
  PROVE  /\ MadeFor(i) \cap FilesOf(S) = {}
         /\ ~listing[i].directory => Archive!OnDisk(listing[i].path) \notin FilesOf(S) \cup FoldersOf(S)
<1> DEFINE disk(k) == Archive!OnDisk(listing[k].path)
<1>1. \A k \in DOMAIN listing : listing[k].directory \in BOOLEAN
  BY PathsHaveNames
<1>2. \A k \in DOMAIN listing : \A q \in Archive!Upto(disk(k)) : q = disk(k) \/ q \in Archive!Parents(disk(k))
  BY DEF Archive!Parents
<1>3. \A j \in S : disk(i) # disk(j)
  BY EntriesApart
<1>4. \A j \in S : ~listing[j].directory => disk(j) \notin Archive!Parents(disk(i))
  BY EntriesApart
<1>5. ~listing[i].directory => \A j \in S : disk(i) \notin Archive!Parents(disk(j))
  BY EntriesApart
<1> HIDE DEF disk
<1>6. \A k : MadeFor(k) \subseteq {disk(k)} \cup Archive!Parents(disk(k)) \/ k \notin DOMAIN listing
  BY <1>2 DEF MadeFor, disk
<1>7. \A f \in FilesOf(S) : \E j \in S : ~listing[j].directory /\ f = disk(j)
  BY DEF FilesOf, disk
<1>8. \A f \in FoldersOf(S) : \E j \in S : f \in MadeFor(j)
  BY DEF FoldersOf
<1>9. MadeFor(i) \cap FilesOf(S) = {}
  BY <1>3, <1>4, <1>6, <1>7
<1>10. ASSUME ~listing[i].directory PROVE disk(i) \notin FilesOf(S) \cup FoldersOf(S)
  <2>1. disk(i) \notin FilesOf(S)
    BY <1>3, <1>7
  <2>2. \A j \in S : j \in DOMAIN listing
    OBVIOUS
  <2>3. disk(i) \notin FoldersOf(S)
    BY <1>3, <1>5, <1>6, <1>8, <1>10, <2>2
  <2> QED  BY <2>1, <2>3
<1> QED  BY <1>9, <1>10 DEF disk

\* A path that an entry shows is a file's only if it is that entry's own.
LEMMA KindIsShown ==
  ASSUME Listed, Archive!Distinct, Archive!Nested, NEW i \in DOMAIN listing, NEW p \in Archive!Upto(listing[i].path)
  PROVE  KindOf(p) = IF p = listing[i].path /\ ~listing[i].directory THEN "file" ELSE "directory"
<1>1. p = listing[i].path \/ p \in Archive!Parents(listing[i].path)
  BY DEF Archive!Parents
<1>2. \A j \in DOMAIN listing : ~listing[j].directory /\ listing[j].path = p => j = i /\ p = listing[i].path
  BY <1>1, EntriesApart
<1>3. (\E j \in DOMAIN listing : ~listing[j].directory /\ listing[j].path = p)
         <=> p = listing[i].path /\ ~listing[i].directory
  BY <1>2
<1> QED  BY <1>3 DEF KindOf

\* What one entry adds to the nodes, as in BuildTree.
Grow(i, nodes) == nodes \cup UNION {Archive!Nodes(listing[i], p, nodes) : p \in Archive!Upto(listing[i].path)}

LEMMA TreeGrows ==
  ASSUME Listed, Archive!Distinct, Archive!Nested, NEW S \in SUBSET DOMAIN listing, NEW i \in DOMAIN listing
  PROVE  Grow(i, TreeOf(S)) = TreeOf(S \cup {i})
<1> DEFINE node(p) == [path |-> p, kind |-> KindOf(p)]
           added == Archive!Upto(listing[i].path)
<1>1. \A p : (\E n \in TreeOf(S) : n.path = p) <=> p \in Above(S)
  <2>1. ASSUME NEW n \in TreeOf(S) PROVE n.path \in Above(S)
    <3>1. PICK p \in Above(S) : n = node(p)
      BY DEF TreeOf
    <3> QED  BY <3>1
  <2>2. ASSUME NEW p \in Above(S) PROVE \E n \in TreeOf(S) : n.path = p
    <3>1. node(p) \in TreeOf(S) /\ node(p).path = p
      BY <2>2 DEF TreeOf
    <3> QED  BY <3>1, Zenon
  <2> QED  BY <2>1, <2>2, Zenon
<1>2. \A p \in added : Archive!Nodes(listing[i], p, TreeOf(S)) = IF p \in Above(S) THEN {} ELSE {node(p)}
  BY <1>1, KindIsShown DEF Archive!Nodes
<1>3. Grow(i, TreeOf(S)) = TreeOf(S) \cup UNION {IF p \in Above(S) THEN {} ELSE {node(p)} : p \in added}
  BY <1>2 DEF Grow
<1>4. TreeOf(S) = {node(p) : p \in Above(S)}
  BY DEF TreeOf
<1>5. TreeOf(S \cup {i}) = {node(p) : p \in Above(S) \cup added}
  <2>1. Above(S \cup {i}) = Above(S) \cup added
    BY PathsHaveNames, OneMore
  <2> QED  BY <2>1 DEF TreeOf
<1> HIDE DEF node, added
<1>6. \A x : x \in UNION {IF p \in Above(S) THEN {} ELSE {node(p)} : p \in added}
             <=> \E p \in added : p \notin Above(S) /\ x = node(p)
  OBVIOUS
<1>7. \A x : x \in Grow(i, TreeOf(S)) <=> \E p \in Above(S) \cup added : x = node(p)
  BY <1>3, <1>4, <1>6
<1> QED  BY <1>5, <1>7

\* buildTree adds the entries in any order and shows them all.
LEMMA TreeIsBuilt ==
  ASSUME Listed, Archive!Distinct, Archive!Nested, chosen \subseteq DOMAIN listing, written \in Seq(chosen)
  PROVE  Archive!FoldSeq(LAMBDA i, nodes :
                           nodes \cup UNION {Archive!Nodes(listing[i], p, nodes) : p \in Archive!Upto(listing[i].path)},
                         {}, written)
                   = TreeOf({written[k] : k \in DOMAIN written})
<1> DEFINE D == DOMAIN written
           V == {TreeOf(S) : S \in SUBSET DOMAIN listing}
           G == [x \in D \X V |-> Grow(written[x[1]], x[2])]
           Is(k) == k = [s \in SUBSET D |-> IF s = {} THEN {} ELSE Grow(written[Chosen(s)], k[s \ {Chosen(s)}])]
           shown(s) == {written[k] : k \in s}
<1>1. IsFiniteSet(D) /\ \A k \in D : written[k] \in DOMAIN listing
  <2>1. D = 1..Len(written) /\ Len(written) \in Nat /\ \A k \in D : written[k] \in chosen
    OBVIOUS
  <2>2. \A k \in D : written[k] \in DOMAIN listing
    BY <2>1
  <2>3. IsFiniteSet(1..Len(written))
    <3>1. PICK len \in Nat : len = Len(written)
      BY <2>1
    <3>2. 1 \in Int /\ len \in Int
      OBVIOUS
    <3>3. IsFiniteSet(1..len)
      BY <3>2, FS_Interval, Zenon
    <3> QED  BY <3>1, <3>3, Zenon
  <2> QED  BY <2>1, <2>2, <2>3, Zenon
<1>2. TreeOf({}) = {} /\ {} \in V
  <2>1. TreeOf({}) = {}
    BY DEF TreeOf, Above
  <2> QED  BY <2>1
<1>3. G \in [D \X V -> V]
  <2> SUFFICES ASSUME NEW k \in D, NEW t \in V PROVE Grow(written[k], t) \in V
    OBVIOUS
  <2>1. PICK S \in SUBSET DOMAIN listing : t = TreeOf(S)
    OBVIOUS
  <2>2. S \cup {written[k]} \in SUBSET DOMAIN listing
    BY <1>1
  <2>3. Grow(written[k], t) = TreeOf(S \cup {written[k]})
    BY <1>1, <2>1, TreeGrows
  <2> QED  BY <2>2, <2>3
<1>4. PICK g \in [SUBSET D -> V] : Folded(D, {}, G, g)
  <2> HIDE DEF D, V, G
  <2> QED  BY <1>1, <1>2, <1>3, FoldExists
<1>5. Is(g)
  <2>1. \A s \in SUBSET D : s # {} => Chosen(s) \in D /\ s \ {Chosen(s)} \in SUBSET D
    BY DEF Chosen
  <2> HIDE DEF D, V
  <2>2. \A s \in SUBSET D : s # {} => g[s \ {Chosen(s)}] \in V
    BY <1>4, <2>1
  <2>3. \A s \in SUBSET D : s # {} => G[<<Chosen(s), g[s \ {Chosen(s)}]>>] = Grow(written[Chosen(s)], g[s \ {Chosen(s)}])
    BY <2>1, <2>2
  <2>4. g = [s \in SUBSET D |-> IF s = {} THEN {} ELSE G[<<Chosen(s), g[s \ {Chosen(s)}]>>]]
    BY <1>4 DEF Folded
  <2> HIDE DEF G
  <2> QED  BY <2>3, <2>4
<1>6. PICK h : h = CHOOSE k : Is(k)
  OBVIOUS
<1>7. Archive!FoldSeq(LAMBDA i, nodes :
                        nodes \cup UNION {Archive!Nodes(listing[i], p, nodes) : p \in Archive!Upto(listing[i].path)},
                      {}, written) = h[D]
  BY <1>6 DEF Archive!FoldSeq, Archive!FoldFunction, Archive!FoldFunctionOnSet, Archive!MapThenFoldSet, Chosen, Grow
<1>8. Is(h)
  <2> HIDE DEF Is
  <2> QED  BY <1>5, <1>6
<1>9. \A s \in SUBSET D : h[s] = IF s = {} THEN {} ELSE Grow(written[Chosen(s)], h[s \ {Chosen(s)}])
  BY <1>8
<1> HIDE DEF G, Is, V
<1>10. \A s \in SUBSET D : h[s] = TreeOf(shown(s))
  <2> SUFFICES ASSUME NEW t \in SUBSET D, h[t] # TreeOf(shown(t)) PROVE FALSE
    OBVIOUS
  <2> DEFINE bad == {n \in Nat : \E s \in SUBSET D : Cardinality(s) = n /\ h[s] # TreeOf(shown(s))}
  <2> HIDE DEF D, shown
  <2>1. \A s \in SUBSET D : IsFiniteSet(s) /\ Cardinality(s) \in Nat
    BY <1>1, FS_Subset, FS_CardinalityType
  <2>2. bad \in SUBSET Nat /\ bad # {}
    BY <2>1
  <2>3. PICK n \in bad : \A m \in Nat : m < n => m \notin bad
    <3> HIDE DEF bad
    <3> QED  BY <2>2, LeastNatural
  <2>4. PICK s \in SUBSET D : Cardinality(s) = n /\ h[s] # TreeOf(shown(s))
    BY <2>3
  <2>5. s # {}
    <3> SUFFICES ASSUME s = {} PROVE FALSE
      OBVIOUS
    <3>1. h[s] = {}
      BY <1>9
    <3>2. shown({}) = {}
      BY DEF shown
    <3> QED  BY <1>2, <2>4, <3>1, <3>2
  <2>6. PICK k : k = Chosen(s)
    OBVIOUS
  <2>7. k \in s /\ k \in D
    BY <2>5, <2>6 DEF Chosen
  <2>8. s \ {k} \in SUBSET D /\ Cardinality(s \ {k}) = n - 1 /\ n - 1 \in Nat /\ n - 1 < n
    <3>1. s \ {k} \in SUBSET D /\ Cardinality(s \ {k}) = Cardinality(s) - 1
      BY <2>1, <2>7, FS_RemoveElement
    <3>2. Cardinality(s \ {k}) \in Nat /\ Cardinality(s) = n /\ n \in Nat
      BY <2>1, <2>4, <3>1
    <3> QED  BY <3>1, <3>2
  <2>9. h[s \ {k}] = TreeOf(shown(s \ {k}))
    BY <2>3, <2>8
  <2>10. h[s] = Grow(written[k], TreeOf(shown(s \ {k})))
    BY <1>9, <2>5, <2>6, <2>9
  <2>11. shown(s \ {k}) \in SUBSET DOMAIN listing /\ written[k] \in DOMAIN listing
    BY <1>1, <2>7 DEF shown, D
  <2>12. shown(s) = shown(s \ {k}) \cup {written[k]}
    BY <2>7 DEF shown
  <2>13. h[s] = TreeOf(shown(s))
    BY <2>10, <2>11, <2>12, TreeGrows
  <2> QED  BY <2>4, <2>13
<1>11. h[D] = TreeOf(shown(D))
  <2> HIDE DEF D, shown
  <2> QED  BY <1>10
<1> QED  BY <1>7, <1>11

LEMMA ArchiveStarts == Archive!Init => ArchiveInv
<1> SUFFICES ASSUME Archive!Init PROVE ArchiveInv
  OBVIOUS
<1>1. Listed /\ folding \in BOOLEAN /\ Archive!Rests
  BY DEF Archive!Init, Listed
<1>2. extraction = "listed" /\ next = 1
  BY <1>1 DEF Archive!Rests
<1> QED  BY <1>1, <1>2 DEF ArchiveInv

\* The listing and how the disk names things never change, and so nothing that is
\* read from them alone.
LEMMA SameListing ==
  ASSUME UNCHANGED <<format, listing, folding>>
  PROVE  /\ Listed' <=> Listed
         /\ Archive!Distinct' <=> Archive!Distinct
         /\ Archive!Nested' <=> Archive!Nested
         /\ (UNION {Archive!Upto(Archive!Name(i)) : i \in DOMAIN listing})' = UNION {Archive!Upto(Archive!Name(i)) : i \in DOMAIN listing}
BY DEF Listed, Archive!Distinct, Archive!Nested, Archive!Name

LEMMA ArchiveRests == ArchiveInv /\ UNCHANGED ofArchive => ArchiveInv'
<1> SUFFICES ASSUME ArchiveInv, UNCHANGED ofArchive PROVE ArchiveInv'
  OBVIOUS
<1>1. UNCHANGED <<format, listing, extraction, chosen, folding, next, files, directories, written, total, tree>>
  BY DEF ofArchive
<1>2. /\ Listed' <=> Listed
      /\ Archive!Distinct' <=> Archive!Distinct
      /\ Archive!Nested' <=> Archive!Nested
      /\ (UNION {Archive!Upto(Archive!Name(i)) : i \in DOMAIN listing})' = UNION {Archive!Upto(Archive!Name(i)) : i \in DOMAIN listing}
  BY <1>1, SameListing
<1>3. Archive!Rests' <=> Archive!Rests
  BY <1>1 DEF Archive!Rests
<1>4. Done' = Done
  BY <1>1 DEF Done
<1>5. FilesOf(Done)' = FilesOf(Done) /\ FoldersOf(Done)' = FoldersOf(Done)
  BY <1>1, <1>4 DEF FilesOf, FoldersOf, MadeFor, Archive!OnDisk
<1>6. TreeOf(chosen)' = TreeOf(chosen)
  BY <1>1 DEF TreeOf, Above, KindOf
<1>7. Extracted' <=> Extracted
  BY <1>1, <1>2, <1>4, <1>5 DEF Extracted
<1> QED  BY <1>1, <1>2, <1>3, <1>4, <1>6, <1>7 DEF ArchiveInv

LEMMA InspectKeeps == ArchiveInv /\ Archive!Inspect => ArchiveInv'
<1> SUFFICES ASSUME ArchiveInv, Archive!Inspect PROVE ArchiveInv'
  OBVIOUS
<1>1. /\ Listed /\ folding \in BOOLEAN /\ Archive!Rests /\ extraction = "listed" /\ next = 1
      /\ UNCHANGED <<format, listing, folding, next, files, directories, written, tree>>
  BY DEF ArchiveInv, Archive!Inspect, Archive!Rests
<1>2. Listed' /\ folding' \in BOOLEAN /\ next' \in Nat
  BY <1>1 DEF Listed
<1>3. CASE ~Archive!Accepted
  <2>1. extraction' = "refused"
    BY <1>3 DEF Archive!Inspect
  <2> QED  BY <1>2, <2>1 DEF ArchiveInv
<1>4. CASE Archive!Accepted
  <2>1. /\ extraction' = "extracting" /\ chosen' \subseteq DOMAIN listing
        /\ total' = Archive!Cardinality(UNION {Archive!Upto(Archive!Name(i)) : i \in DOMAIN listing})
    BY <1>4 DEF Archive!Inspect
  <2>2. Archive!Distinct /\ Archive!Nested
    BY <1>4 DEF Archive!Accepted
  <2>3. Archive!Distinct' /\ Archive!Nested' /\ total' = Archive!Cardinality(UNION {Archive!Upto(Archive!Name(i)) : i \in DOMAIN listing})'
    BY <1>1, <2>1, <2>2, SameListing
  <2>4. Done' = {}
    <3>1. PICK n \in 1..MaxEntries : DOMAIN listing = 1..n
      BY <1>1 DEF Listed
    <3>2. n \in Int
      BY RuntimeConstants
    <3>3. \A i \in chosen' : i \in Int /\ ~(i < 1)
      BY <2>1, <3>1, <3>2
    <3> QED  BY <1>1, <3>3 DEF Done
  <2>5. FilesOf({})' = {} /\ FoldersOf({})' = {}
    BY DEF FilesOf, FoldersOf
  <2>6. written' = <<>> /\ files' = {} /\ directories' = {}
    BY <1>1 DEF Archive!Rests
  <2>7. written' \in Seq(chosen') /\ {written'[k] : k \in DOMAIN written'} = {}
    BY <2>6
  <2>8. Extracted'
    BY <1>1, <2>1, <2>3, <2>4, <2>5, <2>6, <2>7 DEF Extracted
  <2> QED  BY <1>2, <2>1, <2>8 DEF ArchiveInv
<1> QED  BY <1>3, <1>4

\* Chosen entry after the others: what it adds is what ArchiveInv expects.
LEMMA ExtractKeeps == ArchiveInv /\ Archive!Extract => ArchiveInv'
<1> SUFFICES ASSUME ArchiveInv, Archive!Extract PROVE ArchiveInv'
  OBVIOUS
<1> DEFINE path == Archive!OnDisk(listing[next].path)
           made == IF listing[next].directory THEN Archive!Upto(path) ELSE Archive!Parents(path)
<1>1. /\ Listed /\ folding \in BOOLEAN /\ next \in Nat /\ extraction = "extracting" /\ next \in chosen
      /\ UNCHANGED <<format, listing, chosen, folding, total, tree>>
  BY DEF ArchiveInv, Archive!Extract
<1>2. /\ Archive!Distinct /\ Archive!Nested /\ chosen \subseteq DOMAIN listing
      /\ written \in Seq(chosen) /\ {written[k] : k \in DOMAIN written} = Done
      /\ files = FilesOf(Done) /\ directories = FoldersOf(Done)
      /\ total = Archive!Cardinality(UNION {Archive!Upto(Archive!Name(i)) : i \in DOMAIN listing})
  BY <1>1 DEF ArchiveInv, Extracted
<1>3. next \in DOMAIN listing /\ next \notin Done /\ Done \in SUBSET DOMAIN listing
  <2>1. next \in DOMAIN listing /\ Done \subseteq chosen
    BY <1>1, <1>2 DEF Done
  <2>2. next \notin Done
    <3>1. ~(next < next)
      BY <1>1
    <3> QED  BY <3>1, Zenon DEF Done
  <2> QED  BY <1>2, <2>1, <2>2
<1>4. made = MadeFor(next)
  BY DEF MadeFor
<1>5. /\ made \cap files = {}
      /\ ~listing[next].directory => path \notin files \cup directories
  BY <1>1, <1>2, <1>3, <1>4, NothingInTheWay
<1>6. /\ directories' = directories \cup made
      /\ files' = IF listing[next].directory THEN files ELSE files \cup {path}
      /\ written' = Append(written, next) /\ next' = next + 1 /\ extraction' = extraction
  BY <1>5 DEF Archive!Extract
<1>7. Done' = Done \cup {next}
  <2>1. \A i \in chosen : i \in Nat
    BY <1>1, <1>2, ListedIsFinite
  <2>2. \A i \in chosen : i < next + 1 <=> i < next \/ i = next
    BY <1>1, <2>1
  <2>3. Done' = {i \in chosen : i < next + 1}
    BY <1>1, <1>6 DEF Done
  <2> QED  BY <1>1, <2>2, <2>3 DEF Done
<1>8. /\ FilesOf(Done \cup {next}) = IF listing[next].directory THEN FilesOf(Done) ELSE FilesOf(Done) \cup {path}
      /\ FoldersOf(Done \cup {next}) = FoldersOf(Done) \cup MadeFor(next)
  BY <1>1, <1>3, PathsHaveNames, OneMore
<1>9. files' = FilesOf(Done)' /\ directories' = FoldersOf(Done)'
  <2> DEFINE S == Done \cup {next}
  <2>1. files' = FilesOf(S) /\ directories' = FoldersOf(S)
    BY <1>2, <1>4, <1>6, <1>8
  <2>2. Done' = S
    BY <1>7
  <2> HIDE DEF S
  <2>3. FilesOf(Done)' = FilesOf(S) /\ FoldersOf(Done)' = FoldersOf(S)
    BY <1>1, <2>2 DEF FilesOf, FoldersOf, MadeFor, Archive!OnDisk
  <2> QED  BY <2>1, <2>3
<1>10. written' \in Seq(chosen') /\ {written'[k] : k \in DOMAIN written'} = Done'
  <2>1. /\ written' \in Seq(chosen) /\ DOMAIN written' = DOMAIN written \cup {Len(written) + 1}
        /\ written'[Len(written) + 1] = next /\ \A k \in DOMAIN written : written'[k] = written[k]
    BY <1>1, <1>2, <1>6, AppendProperties
  <2>2. {written'[k] : k \in DOMAIN written'} = {written[k] : k \in DOMAIN written} \cup {next}
    BY <2>1
  <2> QED  BY <1>1, <1>2, <1>7, <2>1, <2>2
<1>11. Listed' /\ Archive!Distinct' /\ Archive!Nested' /\ total' = Archive!Cardinality(UNION {Archive!Upto(Archive!Name(i)) : i \in DOMAIN listing})'
  BY <1>1, <1>2, SameListing
<1>12. Extracted'
  BY <1>1, <1>2, <1>9, <1>10, <1>11 DEF Extracted
<1> QED  BY <1>1, <1>6, <1>11, <1>12 DEF ArchiveInv

LEMMA SkipKeeps == ArchiveInv /\ Archive!Skip => ArchiveInv'
<1> SUFFICES ASSUME ArchiveInv, Archive!Skip PROVE ArchiveInv'
  OBVIOUS
<1>1. /\ Listed /\ folding \in BOOLEAN /\ next \in Nat /\ extraction = "extracting" /\ next \notin chosen /\ next' = next + 1
      /\ UNCHANGED <<format, listing, extraction, chosen, folding, files, directories, written, total, tree>>
  BY DEF ArchiveInv, Archive!Skip
<1>2. Extracted
  BY <1>1 DEF ArchiveInv
<1>3. Done' = Done
  <2>1. \A i \in chosen : i \in Nat
    BY <1>1, <1>2, ListedIsFinite DEF Extracted
  <2> QED  BY <1>1, <2>1 DEF Done
<1>4. Listed' /\ (Archive!Distinct' <=> Archive!Distinct) /\ (Archive!Nested' <=> Archive!Nested)
      /\ (UNION {Archive!Upto(Archive!Name(i)) : i \in DOMAIN listing})' = UNION {Archive!Upto(Archive!Name(i)) : i \in DOMAIN listing}
  BY <1>1, SameListing
<1>5. FilesOf(Done)' = FilesOf(Done) /\ FoldersOf(Done)' = FoldersOf(Done)
  BY <1>1, <1>3 DEF FilesOf, FoldersOf, MadeFor, Archive!OnDisk
<1>6. Extracted'
  BY <1>1, <1>2, <1>3, <1>4, <1>5 DEF Extracted
<1> QED  BY <1>1, <1>4, <1>6 DEF ArchiveInv

LEMMA BuildTreeKeeps == ArchiveInv /\ Archive!BuildTree => ArchiveInv'
<1> SUFFICES ASSUME ArchiveInv, Archive!BuildTree PROVE ArchiveInv'
  OBVIOUS
<1>1. /\ Listed /\ folding \in BOOLEAN /\ next \in Nat /\ extraction = "extracting" /\ extraction' = "ready" /\ next > Len(listing)
      /\ UNCHANGED <<format, listing, chosen, folding, next, files, directories, written, total>>
  BY DEF ArchiveInv, Archive!BuildTree
<1>2. Extracted
  BY <1>1 DEF ArchiveInv
<1>3. Done = chosen
  <2>1. PICK n \in 1..MaxEntries : listing \in [1..n -> Archive!Entries]
    BY <1>1 DEF Listed
  <2>2. n \in Nat
    BY RuntimeConstants
  <2>3. Len(listing) = n /\ DOMAIN listing = 1..n
    BY <2>1, <2>2, LenProperties
  <2>4. \A i \in chosen : i \in Nat /\ i <= n
    BY <1>2, <2>2, <2>3 DEF Extracted
  <2> QED  BY <1>1, <2>2, <2>3, <2>4 DEF Done
<1>4. tree' = TreeOf(chosen)
  <2>1. /\ Archive!Distinct /\ Archive!Nested /\ chosen \subseteq DOMAIN listing
        /\ written \in Seq(chosen) /\ {written[k] : k \in DOMAIN written} = chosen
    BY <1>2, <1>3 DEF Extracted
  <2>2. tree' = Archive!FoldSeq(LAMBDA i, nodes :
                                  nodes \cup UNION {Archive!Nodes(listing[i], p, nodes) : p \in Archive!Upto(listing[i].path)},
                                {}, written)
    BY DEF Archive!BuildTree
  <2> QED  BY <1>1, <2>1, <2>2, TreeIsBuilt
<1>5. Done' = Done /\ TreeOf(chosen)' = TreeOf(chosen)
  BY <1>1 DEF Done, TreeOf, Above, KindOf
<1>6. Listed' /\ (Archive!Distinct' <=> Archive!Distinct) /\ (Archive!Nested' <=> Archive!Nested)
      /\ (UNION {Archive!Upto(Archive!Name(i)) : i \in DOMAIN listing})' = UNION {Archive!Upto(Archive!Name(i)) : i \in DOMAIN listing}
  BY <1>1, SameListing
<1>7. FilesOf(Done)' = FilesOf(Done) /\ FoldersOf(Done)' = FoldersOf(Done)
  BY <1>1, <1>5 DEF FilesOf, FoldersOf, MadeFor, Archive!OnDisk
<1>8. Extracted'
  BY <1>1, <1>2, <1>5, <1>6, <1>7 DEF Extracted
<1> QED  BY <1>1, <1>3, <1>4, <1>5, <1>6, <1>8 DEF ArchiveInv

LEMMA ArchiveKeeps == ArchiveInv /\ Archive!Next => ArchiveInv'
BY InspectKeeps, ExtractKeeps, SkipKeeps, BuildTreeKeeps DEF Archive!Next

\* A complete extraction to a disk that folds case makes as many files and folders as
\* inspect7zip counted.
LEMMA TotalIsReached ==
  ASSUME Listed, Archive!Distinct, Archive!Nested, folding
  PROVE  FilesOf(DOMAIN listing) \cup FoldersOf(DOMAIN listing) = UNION {Archive!Upto(Archive!Name(i)) : i \in DOMAIN listing}
<1> DEFINE D == DOMAIN listing
<1>1. \A i \in D : Archive!OnDisk(listing[i].path) = Archive!Name(i) /\ Archive!Name(i) \in Archive!Upto(Archive!Name(i))
  <2> TAKE i \in D
  <2>1. listing[i].path \in Seq(AnyName) /\ listing[i].path # <<>> /\ Archive!OnDisk(listing[i].path) = Archive!Name(i)
    BY PathsHaveNames DEF Archive!OnDisk, Archive!Name
  <2>2. Archive!OnDisk(listing[i].path) \in Archive!Upto(Archive!OnDisk(listing[i].path))
    BY <2>1, DiskFolds
  <2> QED  BY <2>1, <2>2
<1>2. \A i \in D : MadeFor(i) = IF listing[i].directory THEN Archive!Upto(Archive!Name(i)) ELSE Archive!Upto(Archive!Name(i)) \ {Archive!Name(i)}
  BY <1>1 DEF MadeFor, Archive!Parents
<1>3. FilesOf(D) = {Archive!Name(i) : i \in {j \in D : ~listing[j].directory}}
  BY <1>1 DEF FilesOf
<1>4. \A x : x \in FilesOf(D) <=> \E i \in D : ~listing[i].directory /\ x = Archive!Name(i)
  BY <1>3
<1>5. \A x : x \in FoldersOf(D) <=> \E i \in D : x \in MadeFor(i)
  BY DEF FoldersOf
<1> HIDE DEF D
<1>6. \A x : x \in FilesOf(D) \cup FoldersOf(D) <=> \E i \in D : x \in Archive!Upto(Archive!Name(i))
  BY <1>1, <1>2, <1>4, <1>5
<1>7. FilesOf(D) \cup FoldersOf(D) = UNION {Archive!Upto(Archive!Name(i)) : i \in D}
  BY <1>6
<1> QED  BY <1>7 DEF D

\* The files and folders of the tree are those on disk.
LEMMA TreeShowsDisk ==
  ASSUME Listed, Archive!Distinct, Archive!Nested, NEW S \in SUBSET DOMAIN listing
  PROVE  /\ {Archive!OnDisk(node.path) : node \in {n \in TreeOf(S) : n.kind = "file"}} = FilesOf(S)
         /\ {Archive!OnDisk(node.path) : node \in {n \in TreeOf(S) : n.kind = "directory"}} = FoldersOf(S)
         /\ \A n, m \in TreeOf(S) : n.path = m.path => n = m
<1> DEFINE node(p) == [path |-> p, kind |-> KindOf(p)]
           own(i) == listing[i].path
<1>1. \A i \in S : own(i) \in Seq(AnyName) /\ own(i) # <<>> /\ i \in DOMAIN listing
  BY PathsHaveNames
<1>2. \A i \in S : own(i) \in Archive!Upto(own(i))
  BY <1>1, Beginnings
<1>3. ASSUME NEW i \in S, NEW p \in Archive!Upto(own(i))
      PROVE  KindOf(p) = IF p = own(i) /\ ~listing[i].directory THEN "file" ELSE "directory"
  BY KindIsShown
<1>4. \A i \in S : MadeFor(i) = {Archive!OnDisk(p) : p \in IF listing[i].directory THEN Archive!Upto(own(i)) ELSE Archive!Parents(own(i))}
  <2> TAKE i \in S
  <2>1. /\ Archive!Upto(Archive!OnDisk(own(i))) = {Archive!OnDisk(q) : q \in Archive!Upto(own(i))}
        /\ Archive!Parents(Archive!OnDisk(own(i))) = {Archive!OnDisk(q) : q \in Archive!Parents(own(i))}
    <3> HIDE DEF own
    <3> QED  BY <1>1, DiskFolds
  <2> QED  BY <2>1 DEF MadeFor
<1>5. TreeOf(S) = {node(p) : p \in Above(S)}
  BY DEF TreeOf
<1>6. \A p : p \in Above(S) <=> \E i \in S : p \in Archive!Upto(own(i))
  BY DEF Above
<1>7. \A f : f \in FilesOf(S) <=> \E i \in S : ~listing[i].directory /\ f = Archive!OnDisk(own(i))
  BY DEF FilesOf
<1>8. \A f : f \in FoldersOf(S) <=> \E i \in S : \E p \in Archive!Upto(own(i)) :
                                      ~(p = own(i) /\ ~listing[i].directory) /\ f = Archive!OnDisk(p)
  <2>1. \A f : f \in FoldersOf(S) <=> \E i \in S : f \in MadeFor(i)
    BY DEF FoldersOf
  <2>2. \A i \in S : \A p : p \in (IF listing[i].directory THEN Archive!Upto(own(i)) ELSE Archive!Parents(own(i)))
                              <=> p \in Archive!Upto(own(i)) /\ ~(p = own(i) /\ ~listing[i].directory)
    BY DEF Archive!Parents
  <2>3. \A i \in S : \A f : f \in MadeFor(i) <=> \E p \in Archive!Upto(own(i)) :
                                ~(p = own(i) /\ ~listing[i].directory) /\ f = Archive!OnDisk(p)
    <3> HIDE DEF own
    <3> QED  BY <1>4, <2>2
  <2> HIDE DEF own
  <2> QED  BY <2>1, <2>3
<1>9. \A p \in Above(S) : KindOf(p) \in {"file", "directory"}
  BY DEF KindOf
<1>10. \A p : node(p).path = p /\ node(p).kind = KindOf(p)
  OBVIOUS
<1> HIDE DEF node, own
<1>11. \A f : (\E p \in Above(S) : KindOf(p) = "file" /\ f = Archive!OnDisk(p)) <=> f \in FilesOf(S)
  BY <1>2, <1>3, <1>6, <1>7
<1>12. \A f : (\E p \in Above(S) : KindOf(p) = "directory" /\ f = Archive!OnDisk(p)) <=> f \in FoldersOf(S)
  BY <1>3, <1>6, <1>8
<1>13. \A f : f \in {Archive!OnDisk(n.path) : n \in {x \in TreeOf(S) : x.kind = "file"}}
                <=> \E p \in Above(S) : KindOf(p) = "file" /\ f = Archive!OnDisk(p)
  BY <1>5, <1>10
<1>14. \A f : f \in {Archive!OnDisk(n.path) : n \in {x \in TreeOf(S) : x.kind = "directory"}}
                <=> \E p \in Above(S) : KindOf(p) = "directory" /\ f = Archive!OnDisk(p)
  BY <1>5, <1>10
<1>15. \A n, m \in TreeOf(S) : n.path = m.path => n = m
  BY <1>5, <1>10
<1>16. {Archive!OnDisk(n.path) : n \in {x \in TreeOf(S) : x.kind = "file"}} = FilesOf(S)
  BY <1>11, <1>13
<1>17. {Archive!OnDisk(n.path) : n \in {x \in TreeOf(S) : x.kind = "directory"}} = FoldersOf(S)
  BY <1>12, <1>14
<1> QED  BY <1>15, <1>16, <1>17

LEMMA ArchiveIsWhole == ArchiveInv => Archive!NoCollision /\ Archive!TreeIsDisk
<1> SUFFICES ASSUME ArchiveInv PROVE Archive!NoCollision /\ Archive!TreeIsDisk
  OBVIOUS
<1>1. extraction # "collided"
  BY DEF ArchiveInv
<1>2. CASE extraction = "ready"
  <2>1. /\ Listed /\ Archive!Distinct /\ Archive!Nested /\ chosen \in SUBSET DOMAIN listing
        /\ files = FilesOf(chosen) /\ directories = FoldersOf(chosen) /\ tree = TreeOf(chosen)
        /\ total = Archive!Cardinality(UNION {Archive!Upto(Archive!Name(i)) : i \in DOMAIN listing})
    BY <1>2 DEF ArchiveInv, Extracted
  <2>2. Archive!Cardinality(files) = Archive!Cardinality({i \in chosen : ~listing[i].directory})
    BY <2>1, FilesCount, SameCount
  <2>3. /\ {Archive!OnDisk(node.path) : node \in {n \in tree : n.kind = "file"}} = files
        /\ {Archive!OnDisk(node.path) : node \in {n \in tree : n.kind = "directory"}} = directories
        /\ \A n, m \in tree : n.path = m.path => n = m
    BY <2>1, TreeShowsDisk
  <2>4. folding /\ chosen = DOMAIN listing => total = Archive!Cardinality(files \cup directories)
    BY <2>1, TotalIsReached, SameCount
  <2> QED  BY <1>1, <2>2, <2>3, <2>4 DEF Archive!NoCollision, Archive!TreeIsDisk
<1> QED  BY <1>1, <1>2 DEF Archive!NoCollision, Archive!TreeIsDisk

-----------------------------------------------------------------------------
(* The texts.                                                              *)

\* The classes of bytes and of units.
Classes == {"a", "2", "3", "4", "c", "u", "h", "l"}

\* A file and its encoding.
TextTyped == encoding \in {"utf-8", "utf-16"} /\ content \in Seq(Classes)

\* A place between characters.
Edge(e) == \A b \in 0..(Text!TotalBytes - 1) : Text!WellFormed(b) => ~(b < e /\ e < Text!CharEnd(b))

LEMMA Lengths ==
  ASSUME NEW lead
  PROVE  Text!CharLength(lead) \in 1..4
<1>1. Text!CharLength(lead) \in {1, 2, 3, 4}
  BY Zenon DEF Text!CharLength
<1> QED  BY <1>1

\* Numbers of units and of bytes.
LEMMA Halves ==
  ASSUME NEW b \in Nat
  PROVE  /\ b % 2 \in {0, 1} /\ b - (b % 2) \in Nat /\ (b - (b % 2)) % 2 = 0
         /\ b % 2 = 0 => 2 * (b \div 2) = b /\ (b + 2) % 2 = 0 /\ (b + 2) \div 2 = (b \div 2) + 1
         /\ b \div 2 \in Nat
OBVIOUS

LEMMA Total ==
  ASSUME TextTyped
  PROVE  /\ Text!TotalBytes \in Nat /\ (encoding = "utf-16" => Text!TotalBytes % 2 = 0)
         /\ encoding # "utf-16" <=> encoding = "utf-8"
<1>1. Len(content) \in Nat
  BY DEF TextTyped
<1>2. (2 * Len(content)) % 2 = 0
  BY <1>1
<1>3. CASE encoding = "utf-8"
  BY <1>1, <1>3 DEF Text!TotalBytes
<1>4. CASE encoding = "utf-16"
  <2>1. Text!TotalBytes = 2 * Len(content)
    BY <1>4 DEF Text!TotalBytes
  <2> QED  BY <1>1, <1>2, <1>4, <2>1
<1> QED  BY <1>3, <1>4 DEF TextTyped

\* The bytes of a well-formed character of a UTF-8 file.
LEMMA Utf8Character ==
  ASSUME TextTyped, encoding = "utf-8", NEW b \in Nat, Text!WellFormed(b)
  PROVE  /\ Text!CharEnd(b) \in Int /\ b < Text!CharEnd(b) /\ Text!CharEnd(b) <= b + 4 /\ Text!CharEnd(b) <= Text!TotalBytes
         /\ ~Text!Continues(b)
         /\ \A d \in Nat : b < d /\ d < Text!CharEnd(b) => Text!Continues(d)
<1>1. Text!CharLength(Text!At(b)) \in 1..4
  BY Lengths
<1> DEFINE length == Text!CharLength(Text!At(b))
<1>2. /\ Text!At(b) # "c" /\ b + length <= Text!TotalBytes
      /\ \A k \in (b + 1)..(b + length - 1) : Text!At(k) = "c"
  BY DEF Text!WellFormed
<1>3. Text!CharEnd(b) = b + length
  BY DEF Text!CharEnd
<1> HIDE DEF length
<1>4. length \in 1..4
  BY <1>1 DEF length
<1>5. \A d \in Nat : b < d /\ d < b + length => d \in (b + 1)..(b + length - 1)
  BY <1>4
<1>6. \A d : Text!Continues(d) <=> Text!At(d) = "c"
  BY DEF Text!Continues
<1>7. Text!CharEnd(b) \in Int /\ b < Text!CharEnd(b) /\ Text!CharEnd(b) <= b + 4 /\ Text!CharEnd(b) <= Text!TotalBytes
  BY <1>2, <1>3, <1>4
<1> QED  BY <1>2, <1>3, <1>5, <1>6, <1>7

\* A surrogate pair of a UTF-16 file, and the units around it.
High(u) == Text!At(u) = "h"
Low(u) == Text!At(u) = "l"

LEMMA Utf16Character ==
  ASSUME TextTyped, encoding = "utf-16", NEW b \in Nat, Text!WellFormed(b)
  PROVE  /\ Text!CharEnd(b) = b + 4 /\ Text!CharEnd(b) <= Text!TotalBytes /\ b % 2 = 0
         /\ High(b \div 2) /\ Low(b \div 2 + 1)
BY DEF Text!WellFormed, Text!CharEnd, High, Low

\* Well-formed characters do not overlap.
LEMMA CharactersApart ==
  ASSUME TextTyped, NEW b \in Nat, NEW d \in Nat, Text!WellFormed(b), Text!WellFormed(d), b < d
  PROVE  Text!CharEnd(b) <= d
<1>1. CASE encoding = "utf-8"
  BY <1>1, Utf8Character
<1>2. CASE encoding = "utf-16"
  <2>1. Text!CharEnd(b) = b + 4 /\ b % 2 = 0 /\ d % 2 = 0 /\ Low(b \div 2 + 1) /\ High(d \div 2)
    BY <1>2, Utf16Character
  <2>2. d # b + 2
    <3>1. SUFFICES ASSUME d = b + 2 PROVE FALSE
      OBVIOUS
    <3>2. d \div 2 = b \div 2 + 1
      BY <2>1, <3>1
    <3> QED  BY <2>1, <3>2 DEF High, Low
  <2>3. d # b + 1 /\ d # b + 3
    BY <2>1
  <2> QED  BY <2>1, <2>2, <2>3
<1> QED  BY <1>1, <1>2 DEF TextTyped

\* The end of a character is an edge, and so is the end of the file.
LEMMA EndsAreEdges ==
  ASSUME TextTyped
  PROVE  /\ Edge(Text!TotalBytes)
         /\ \A b \in 0..(Text!TotalBytes - 1) : Text!WellFormed(b) => Edge(Text!CharEnd(b))
<1>1. Text!TotalBytes \in Nat
  BY Total
<1>2. ASSUME NEW b \in Nat, Text!WellFormed(b)
      PROVE  Text!CharEnd(b) \in Int /\ b < Text!CharEnd(b) /\ Text!CharEnd(b) <= Text!TotalBytes
  BY <1>2, Utf8Character, Utf16Character DEF TextTyped
<1>3. Edge(Text!TotalBytes)
  BY <1>1, <1>2 DEF Edge
<1>4. ASSUME NEW b \in 0..(Text!TotalBytes - 1), Text!WellFormed(b), NEW d \in 0..(Text!TotalBytes - 1), Text!WellFormed(d),
             d < Text!CharEnd(b), Text!CharEnd(b) < Text!CharEnd(d)
      PROVE  FALSE
  <2>1. b \in Nat /\ d \in Nat
    BY <1>1
  <2>2. Text!CharEnd(b) \in Int /\ Text!CharEnd(d) \in Int /\ b < Text!CharEnd(b) /\ d < Text!CharEnd(d)
    BY <1>2, <1>4, <2>1
  <2>3. CASE b < d
    BY <1>4, <2>1, <2>2, <2>3, CharactersApart
  <2>4. CASE d < b
    BY <1>4, <2>1, <2>2, <2>4, CharactersApart
  <2>5. CASE b = d
    BY <1>4, <2>2, <2>5
  <2> QED  BY <2>1, <2>3, <2>4, <2>5
<1>5. \A b \in 0..(Text!TotalBytes - 1) : Text!WellFormed(b) => Edge(Text!CharEnd(b))
  BY <1>4 DEF Edge
<1> QED  BY <1>3, <1>5

\* The characters that begin before an offset and end behind it.
Crossing(offset) ==
  {b \in (offset - (IF encoding = "utf-8" THEN 3 ELSE 2))..(offset - 1) :
     b >= 0 /\ Text!WellFormed(b) /\ Text!CharEnd(b) > offset}

\* An offset that may be asked for: UTF-16 is read by units.
MayBeAsked(offset) == offset \in 0..Text!TotalBytes /\ (encoding = "utf-16" => offset % 2 = 0)

LEMMA CrossingCharacters ==
  ASSUME TextTyped, NEW offset, MayBeAsked(offset)
  PROVE  /\ \A b \in 0..(Text!TotalBytes - 1) :
              Text!WellFormed(b) /\ b < offset /\ offset < Text!CharEnd(b) => b \in Crossing(offset)
         /\ \A b \in Crossing(offset) :
              /\ b \in 0..(Text!TotalBytes - 1) /\ Text!WellFormed(b) /\ b < offset
              /\ Text!CharEnd(b) \in (offset + 1)..(offset + 3) /\ Text!CharEnd(b) <= Text!TotalBytes
              /\ encoding = "utf-16" => Text!CharEnd(b) = offset + 2
              /\ \A d \in Crossing(offset) : b = d
<1>1. Text!TotalBytes \in Nat /\ offset \in 0..Text!TotalBytes
  BY Total DEF MayBeAsked
<1>2. ASSUME NEW b \in 0..(Text!TotalBytes - 1), Text!WellFormed(b), b < offset, offset < Text!CharEnd(b)
      PROVE  b \in Crossing(offset)
  <2>1. b \in Nat
    BY <1>1
  <2>2. CASE encoding = "utf-8"
    <3>1. Text!CharEnd(b) \in Int /\ Text!CharEnd(b) <= b + 4
      BY <2>1, <2>2, <1>2, Utf8Character
    <3> QED  BY <1>1, <1>2, <2>1, <2>2, <3>1 DEF Crossing
  <2>3. CASE encoding = "utf-16"
    <3>1. Text!CharEnd(b) = b + 4 /\ b % 2 = 0 /\ offset % 2 = 0
      BY <2>1, <2>3, <1>2, Utf16Character DEF MayBeAsked
    <3>2. b = offset - 2
      BY <1>1, <1>2, <2>1, <3>1
    <3> QED  BY <1>1, <1>2, <2>1, <2>3, <3>1, <3>2 DEF Crossing
  <2> QED  BY <2>2, <2>3 DEF TextTyped
<1>3. ASSUME NEW b \in Crossing(offset)
      PROVE  /\ b \in 0..(Text!TotalBytes - 1) /\ Text!WellFormed(b) /\ b < offset
             /\ Text!CharEnd(b) \in (offset + 1)..(offset + 3) /\ Text!CharEnd(b) <= Text!TotalBytes
             /\ encoding = "utf-16" => Text!CharEnd(b) = offset + 2
  <2>1. b \in Nat /\ Text!WellFormed(b) /\ b < offset /\ Text!CharEnd(b) > offset
        /\ b >= offset - (IF encoding = "utf-8" THEN 3 ELSE 2)
    BY <1>1 DEF Crossing
  <2>2. CASE encoding = "utf-8"
    BY <1>1, <2>1, <2>2, Utf8Character
  <2>3. CASE encoding = "utf-16"
    <3>1. Text!CharEnd(b) = b + 4 /\ b % 2 = 0 /\ offset % 2 = 0 /\ Text!CharEnd(b) <= Text!TotalBytes
      BY <2>1, <2>3, Utf16Character DEF MayBeAsked
    <3>2. b = offset - 2
      BY <1>1, <2>1, <2>3, <3>1
    <3> QED  BY <1>1, <2>1, <2>3, <3>1, <3>2
  <2> QED  BY <2>2, <2>3 DEF TextTyped
<1>4. ASSUME NEW b \in Crossing(offset), NEW d \in Crossing(offset)
      PROVE  b = d
  <2>1. /\ b \in Nat /\ d \in Nat /\ Text!WellFormed(b) /\ Text!WellFormed(d) /\ b < offset /\ d < offset
        /\ Text!CharEnd(b) \in Int /\ Text!CharEnd(d) \in Int /\ Text!CharEnd(b) > offset /\ Text!CharEnd(d) > offset
    BY <1>1, <1>3
  <2>2. ~(b < d) /\ ~(d < b)
    BY <1>1, <2>1, CharactersApart
  <2> QED  BY <2>1, <2>2
<1> QED  BY <1>2, <1>3, <1>4

\* The chunk that is asked for begins at an edge, which is the offset if that is one.
LEMMA StartsAtEdge ==
  ASSUME TextTyped, NEW offset, MayBeAsked(offset)
  PROVE  /\ Text!HeadBytes(offset) \in 0..3 /\ offset + Text!HeadBytes(offset) <= Text!TotalBytes
         /\ Edge(offset + Text!HeadBytes(offset))
         /\ encoding = "utf-16" => Text!HeadBytes(offset) \in {0, 2}
         /\ Edge(offset) => Text!HeadBytes(offset) = 0
<1>1. Text!TotalBytes \in Nat /\ offset \in 0..Text!TotalBytes
  BY Total DEF MayBeAsked
<1>2. Text!HeadBytes(offset) = IF Crossing(offset) = {} THEN 0 ELSE Text!CharEnd(Text!Min(Crossing(offset))) - offset
  BY DEF Text!HeadBytes, Crossing
<1>3. CASE Crossing(offset) = {}
  <2>1. Text!HeadBytes(offset) = 0 /\ offset + 0 = offset
    BY <1>1, <1>2, <1>3
  <2>2. Edge(offset)
    BY <1>3, CrossingCharacters DEF Edge
  <2> QED  BY <1>1, <2>1, <2>2
<1>4. CASE Crossing(offset) # {}
  <2>1. PICK b \in Crossing(offset) : TRUE
    BY <1>4
  <2>2. /\ b \in 0..(Text!TotalBytes - 1) /\ Text!WellFormed(b) /\ b < offset
        /\ Text!CharEnd(b) \in (offset + 1)..(offset + 3) /\ Text!CharEnd(b) <= Text!TotalBytes
        /\ encoding = "utf-16" => Text!CharEnd(b) = offset + 2
        /\ Crossing(offset) = {b}
    BY <2>1, CrossingCharacters
  <2>3. Text!Min({b}) = b
    BY <1>1, <2>2 DEF Text!Min
  <2>4. Text!HeadBytes(offset) = Text!CharEnd(b) - offset
    BY <1>2, <1>4, <2>2, <2>3
  <2>5. offset + Text!HeadBytes(offset) = Text!CharEnd(b) /\ Text!HeadBytes(offset) \in 1..3
    BY <1>1, <2>2, <2>4
  <2>6. Edge(Text!CharEnd(b))
    BY <2>2, EndsAreEdges
  <2>7. ~Edge(offset)
    BY <1>1, <2>2 DEF Edge
  <2>8. encoding = "utf-16" => Text!HeadBytes(offset) \in {0, 2}
    BY <1>1, <2>2, <2>4
  <2> QED  BY <2>2, <2>5, <2>6, <2>7, <2>8
<1> QED  BY <1>3, <1>4

\* Where a chunk of a UTF-8 file ends that is not the last one.
LEMMA Utf8End ==
  ASSUME TextTyped, encoding = "utf-8", NEW offset \in Nat, NEW start \in 0..3, NEW end \in Nat,
         end >= 4, offset + end < Text!TotalBytes, Edge(offset + start)
  PROVE  /\ Text!EndBefore(offset, start, end) \in 1..end /\ start <= Text!EndBefore(offset, start, end)
         /\ Edge(offset + Text!EndBefore(offset, start, end))
<1> DEFINE steps == {k \in 0..3 : /\ end - k >= start
                                  /\ \A j \in 0..(k - 1) : Text!Continues(offset + end - j)}
           k == Text!Max(steps)
           back == end - k
<1>0. Text!TotalBytes \in Nat
  BY Total
<1>1. 0 \in steps
  OBVIOUS
<1>2. Text!EndBefore(offset, start, end) = IF Text!Continues(offset + back) THEN end ELSE back
  BY DEF Text!EndBefore
<1>3. k \in steps /\ \A j \in steps : k >= j
  <2>1. steps \subseteq 0..3
    OBVIOUS
  <2> HIDE DEF steps
  <2>2. \E x \in steps : \A y \in steps : x >= y
    <3>1. CASE 3 \in steps
      BY <2>1, <3>1
    <3>2. CASE 3 \notin steps /\ 2 \in steps
      BY <2>1, <3>2
    <3>3. CASE 3 \notin steps /\ 2 \notin steps /\ 1 \in steps
      BY <2>1, <3>3
    <3>4. CASE 3 \notin steps /\ 2 \notin steps /\ 1 \notin steps
      BY <1>1, <2>1, <3>4
    <3> QED  BY <3>1, <3>2, <3>3, <3>4
  <2> QED  BY <2>2 DEF Text!Max
<1> HIDE DEF k
<1>4. /\ k \in 0..3 /\ end - k >= start
      /\ \A j \in 0..(k - 1) : Text!Continues(offset + end - j)
  BY <1>3
<1>5. ~Text!Continues(offset + back) \/ k = 3 \/ end - k - 1 < start
  <2>1. SUFFICES ASSUME Text!Continues(offset + back), k # 3, end - k - 1 >= start PROVE FALSE
    BY <1>4
  <2>2. \A j \in 0..k : Text!Continues(offset + end - j)
    <3> TAKE j \in 0..k
    <3>1. CASE j = k
      <4>1. offset + end - k = offset + back
        BY <1>4
      <4> QED  BY <2>1, <3>1, <4>1
    <3>2. CASE j # k
      BY <1>4, <3>2
    <3> QED  BY <3>1, <3>2
  <2>3. (k + 1) \in 0..3 /\ end - (k + 1) >= start /\ 0..((k + 1) - 1) = 0..k
    BY <1>4, <2>1
  <2>4. k + 1 \in steps
    BY <2>2, <2>3
  <2> HIDE DEF steps
  <2> QED  BY <1>3, <1>4, <2>4
<1> HIDE DEF steps
<1>6. ASSUME NEW b \in 0..(Text!TotalBytes - 1), Text!WellFormed(b)
      PROVE  /\ Text!CharEnd(b) \in Int /\ b < Text!CharEnd(b) /\ Text!CharEnd(b) <= b + 4 /\ ~Text!Continues(b)
             /\ \A d \in Nat : b < d /\ d < Text!CharEnd(b) => Text!Continues(d)
  <2>1. b \in Nat
    BY <1>0
  <2> QED  BY <1>6, <2>1, Utf8Character
<1>7. CASE ~Text!Continues(offset + back)
  <2>1. Text!EndBefore(offset, start, end) = back
    BY <1>2, <1>7
  <2>2. back \in 1..end /\ start <= back /\ offset + back \in Nat
    BY <1>4
  <2> HIDE DEF back
  <2>3. Edge(offset + back)
    BY <1>6, <1>7, <2>2 DEF Edge
  <2> QED  BY <2>1, <2>2, <2>3
<1>8. CASE Text!Continues(offset + back)
  <2>1. Text!EndBefore(offset, start, end) = end
    BY <1>2, <1>8
  <2>2. \A j \in 0..k : Text!Continues(offset + end - j)
    <3> TAKE j \in 0..k
    <3>1. CASE j = k
      <4>1. offset + end - k = offset + back
        BY <1>4
      <4> QED  BY <1>8, <3>1, <4>1
    <3>2. CASE j # k
      BY <1>4, <3>2
    <3> QED  BY <3>1, <3>2
  <2>3. ASSUME NEW b \in 0..(Text!TotalBytes - 1), Text!WellFormed(b), b < offset + end, offset + end < Text!CharEnd(b)
        PROVE  FALSE
    <3>1. b \in Nat /\ Text!CharEnd(b) \in Int /\ Text!CharEnd(b) <= b + 4 /\ ~Text!Continues(b)
      BY <1>0, <1>6, <2>3
    <3>2. CASE k = 3
      <4>1. offset + end - b \in 0..k
        BY <2>3, <3>1, <3>2
      <4>2. offset + end - (offset + end - b) = b
        BY <3>1
      <4> QED  BY <2>2, <3>1, <4>1, <4>2
    <3>3. CASE end - k - 1 < start
      <4>1. end - k = start
        BY <1>4, <3>3
      <4>2. ~(b < offset + start)
        BY <1>4, <2>3, <3>1, <4>1 DEF Edge
      <4>3. offset + end - b \in 0..k
        BY <1>4, <2>3, <3>1, <4>1, <4>2
      <4>4. offset + end - (offset + end - b) = b
        BY <3>1
      <4> QED  BY <2>2, <3>1, <4>3, <4>4
    <3> QED  BY <1>5, <1>8, <3>2, <3>3
  <2>4. Edge(offset + end)
    BY <2>3 DEF Edge
  <2> QED  BY <2>1, <2>4
<1> QED  BY <1>7, <1>8

\* Where a chunk of a UTF-16 file ends that is not the last one.
LEMMA Utf16End ==
  ASSUME TextTyped, encoding = "utf-16", NEW offset \in Nat, offset % 2 = 0, NEW start \in {0, 2}, NEW end \in Nat,
         end >= 4, offset + end < Text!TotalBytes
  PROVE  /\ Text!EndBefore(offset, start, end) \in 2..end /\ Text!EndBefore(offset, start, end) % 2 = 0
         /\ start <= Text!EndBefore(offset, start, end) /\ Edge(offset + Text!EndBefore(offset, start, end))
<1>0. Text!TotalBytes \in Nat
  BY Total
<1> DEFINE even == end - (end % 2)
           e == offset + even
<1>1. even \in 4..end /\ even % 2 = 0 /\ e \in Nat /\ e % 2 = 0 /\ e >= 4 /\ (e - 2) % 2 = 0 /\ (even - 2) % 2 = 0
  BY Halves
<1>2. Text!EndBefore(offset, start, end) = IF High(e \div 2 - 1) THEN even - 2 ELSE even
  <2>1. Text!EndBefore(offset, start, end) = IF even >= 2 /\ High(e \div 2 - 1) THEN even - 2 ELSE even
    BY DEF Text!EndBefore, High
  <2> QED  BY <1>1, <2>1
<1> HIDE DEF even
<1>3. ASSUME NEW b \in 0..(Text!TotalBytes - 1), Text!WellFormed(b)
      PROVE  b \in Nat /\ Text!CharEnd(b) = b + 4 /\ b % 2 = 0 /\ High(b \div 2) /\ Low(b \div 2 + 1)
  <2>1. b \in Nat
    BY <1>0
  <2> QED  BY <1>3, <2>1, Utf16Character
<1>4. CASE ~High(e \div 2 - 1)
  <2>1. ASSUME NEW b \in 0..(Text!TotalBytes - 1), Text!WellFormed(b), b < e, e < Text!CharEnd(b)
        PROVE  FALSE
    <3>1. b \in Nat /\ Text!CharEnd(b) = b + 4 /\ b % 2 = 0 /\ High(b \div 2)
      BY <1>3, <2>1
    <3>2. b = e - 2
      BY <1>1, <2>1, <3>1
    <3>3. b \div 2 = e \div 2 - 1
      BY <1>1, <3>1, <3>2
    <3> QED  BY <1>4, <3>1, <3>3
  <2>2. Edge(e)
    BY <2>1 DEF Edge
  <2> QED  BY <1>1, <1>2, <1>4, <2>2
<1>5. CASE High(e \div 2 - 1)
  <2> DEFINE f == e - 2
  <2>1. ASSUME NEW b \in 0..(Text!TotalBytes - 1), Text!WellFormed(b), b < f, f < Text!CharEnd(b)
        PROVE  FALSE
    <3>1. b \in Nat /\ Text!CharEnd(b) = b + 4 /\ b % 2 = 0 /\ Low(b \div 2 + 1)
      BY <1>3, <2>1
    <3>2. b = e - 4
      BY <1>1, <2>1, <3>1
    <3>3. b \div 2 + 1 = e \div 2 - 1
      BY <1>1, <3>1, <3>2
    <3> QED  BY <1>5, <3>1, <3>3 DEF High, Low
  <2>2. Edge(f)
    BY <2>1 DEF Edge
  <2>3. f = offset + (even - 2)
    BY <1>1
  <2> QED  BY <1>1, <1>2, <1>5, <2>2, <2>3
<1> QED  BY <1>4, <1>5

\* What every answer is, for any offset a client asks for.
GoodChunk(c, requested) ==
  /\ c \in [requested : Nat, offset : Nat, nextOffset : Nat]
  /\ c.requested = requested /\ c.offset <= c.nextOffset /\ c.nextOffset <= Text!TotalBytes
  /\ c.nextOffset > requested \/ c.nextOffset = Text!TotalBytes
  /\ Edge(c.offset) /\ Edge(c.nextOffset)
  /\ encoding = "utf-16" => c.nextOffset % 2 = 0
  /\ MayBeAsked(requested) /\ Edge(requested) => c.offset = requested

LEMMA ChunkIsGood ==
  ASSUME TextTyped, NEW requested \in Nat
  PROVE  GoodChunk(Text!Chunk(requested), requested)
<1> DEFINE clamped == Text!Min({requested, Text!TotalBytes})
           offset == IF encoding = "utf-16" /\ clamped < Text!TotalBytes THEN clamped - (clamped % 2) ELSE clamped
           limit == Text!Min({PreviewBytes, Text!TotalBytes - offset})
           start == Text!HeadBytes(offset)
           end == IF offset + limit < Text!TotalBytes THEN Text!EndBefore(offset, start, limit) ELSE limit
<1>1. Text!TotalBytes \in Nat /\ (encoding = "utf-16" => Text!TotalBytes % 2 = 0)
  BY Total
<1>2. /\ Text!Chunk(requested) = [requested |-> requested, offset |-> offset + start, nextOffset |-> offset + end]
  BY DEF Text!Chunk
<1>3. clamped \in {requested, Text!TotalBytes} /\ clamped <= requested /\ clamped <= Text!TotalBytes
  <2>1. requested \in Int /\ Text!TotalBytes \in Int
    BY <1>1
  <2> QED  BY <2>1, SmallerOfTwo, Zenon
<1> HIDE DEF clamped
<1>4. /\ offset \in 0..Text!TotalBytes /\ (encoding = "utf-16" => offset % 2 = 0)
      /\ offset = Text!TotalBytes \/ (offset <= requested /\ requested <= offset + 1)
      /\ encoding = "utf-8" /\ offset # Text!TotalBytes => offset = requested
      /\ MayBeAsked(requested) => offset = requested
  <2>1. clamped \in Nat /\ clamped % 2 \in {0, 1} /\ clamped - (clamped % 2) \in Nat /\ (clamped - (clamped % 2)) % 2 = 0
    BY <1>1, <1>3, Halves
  <2>2. CASE encoding = "utf-16" /\ clamped < Text!TotalBytes
    <3>1. offset = clamped - (clamped % 2) /\ clamped = requested
      BY <1>3, <2>2
    <3>2. MayBeAsked(requested) => requested % 2 = 0
      BY <2>2 DEF MayBeAsked
    <3> HIDE DEF offset
    <3> QED  BY <1>1, <2>1, <2>2, <3>1, <3>2
  <2>3. CASE ~(encoding = "utf-16" /\ clamped < Text!TotalBytes)
    <3>1. offset = clamped
      BY <2>3
    <3>2. encoding = "utf-16" => clamped = Text!TotalBytes
      BY <1>1, <1>3, <2>1, <2>3
    <3>3. MayBeAsked(requested) => requested <= Text!TotalBytes
      BY <1>1 DEF MayBeAsked
    <3> HIDE DEF offset
    <3> QED  BY <1>1, <1>3, <2>1, <3>1, <3>2, <3>3
  <2> QED  BY <2>2, <2>3
<1> HIDE DEF offset
<1>5. MayBeAsked(offset)
  BY <1>4 DEF MayBeAsked
<1>6. /\ start \in 0..3 /\ offset + start <= Text!TotalBytes /\ Edge(offset + start)
      /\ encoding = "utf-16" => start \in {0, 2}
      /\ Edge(offset) => start = 0
  BY <1>5, StartsAtEdge
<1> HIDE DEF start
<1>7. limit \in {PreviewBytes, Text!TotalBytes - offset} /\ limit <= PreviewBytes /\ limit <= Text!TotalBytes - offset
  <2>1. PreviewBytes \in Int /\ Text!TotalBytes - offset \in Int
    BY <1>1, <1>4, RuntimeConstants
  <2> QED  BY <2>1, SmallerOfTwo, Zenon
<1> HIDE DEF limit
<1>8. /\ end \in Nat /\ start <= end /\ offset + end <= Text!TotalBytes /\ Edge(offset + end)
      /\ encoding = "utf-16" => (offset + end) % 2 = 0
      /\ offset + end > requested \/ offset + end = Text!TotalBytes
  <2>1. CASE offset + limit < Text!TotalBytes
    <3>1. limit = PreviewBytes /\ limit >= 4 /\ limit \in Nat /\ offset \in Nat
      BY <1>1, <1>4, <1>7, <2>1, RuntimeConstants
    <3>2. end = Text!EndBefore(offset, start, limit)
      BY <2>1
    <3>3. CASE encoding = "utf-8"
      <4>1. end \in 1..limit /\ start <= end /\ Edge(offset + end)
        BY <1>6, <2>1, <3>1, <3>2, <3>3, Utf8End
      <4>2. offset = requested
        BY <1>1, <1>4, <2>1, <3>1, <3>3
      <4> HIDE DEF end
      <4> QED  BY <1>1, <2>1, <3>1, <3>3, <4>1, <4>2
    <3>4. CASE encoding = "utf-16"
      <4>1. end \in 2..limit /\ end % 2 = 0 /\ start <= end /\ Edge(offset + end)
        BY <1>4, <1>6, <2>1, <3>1, <3>2, <3>4, Utf16End
      <4>2. requested <= offset + 1
        BY <1>1, <1>4, <2>1, <3>1
      <4> HIDE DEF end
      <4> QED  BY <1>1, <1>4, <2>1, <3>1, <3>4, <4>1, <4>2
    <3> QED  BY <3>3, <3>4 DEF TextTyped
  <2>2. CASE ~(offset + limit < Text!TotalBytes)
    <3>1. end = limit /\ limit = Text!TotalBytes - offset
      BY <1>1, <1>4, <1>7, <2>2, RuntimeConstants
    <3>2. offset + end = Text!TotalBytes /\ end \in Nat /\ start <= end
      BY <1>1, <1>4, <1>6, <3>1
    <3> QED  BY <1>1, <3>2, EndsAreEdges
  <2> QED  BY <2>1, <2>2
<1> HIDE DEF end
<1>9. MayBeAsked(requested) /\ Edge(requested) => offset + start = requested
  BY <1>4, <1>6
<1>10. offset + start \in Nat /\ offset + end \in Nat /\ offset + start <= offset + end
  BY <1>4, <1>6, <1>8
<1> QED  BY <1>2, <1>6, <1>8, <1>9, <1>10 DEF GoodChunk

\* The chunks so far, each as it was asked for; a chunk that follows another is asked
\* for where that one ends.
ChunksInv ==
  /\ TextTyped
  /\ chunks \in Seq([requested : Nat, offset : Nat, nextOffset : Nat])
  /\ \A i \in DOMAIN chunks :
       /\ GoodChunk(chunks[i], chunks[i].requested)
       /\ i > 1 => chunks[i].requested = chunks[i - 1].nextOffset

LEMMA TextStarts ==
  ASSUME Text!Init
  PROVE  ChunksInv
<1>1. encoding \in {"utf-8", "utf-16"} /\ chunks = <<>>
  BY DEF Text!Init
<1>2. \E n \in Nat : content \in [1..n -> Classes]
  <2>1. CASE encoding = "utf-8"
    <3>1. content \in [1..Size -> Classes]
      BY <2>1 DEF Text!Init, Classes
    <3> QED  BY <3>1, RuntimeConstants
  <2>2. CASE encoding = "utf-16"
    <3>1. content \in [1..(Size \div 2 + 1) -> Classes]
      BY <2>2 DEF Text!Init, Classes
    <3>2. Size \div 2 + 1 \in Nat
      BY RuntimeConstants
    <3> QED  BY <3>1, <3>2
  <2> QED  BY <1>1, <2>1, <2>2
<1>3. content \in Seq(Classes)
  BY <1>2
<1> QED  BY <1>1, <1>3 DEF ChunksInv, TextTyped

LEMMA TextKeeps ==
  ASSUME ChunksInv, Text!Next
  PROVE  ChunksInv'
<1>1. encoding' = encoding /\ content' = content /\ TextTyped /\ TextTyped'
  BY DEF Text!Next, ChunksInv, TextTyped
<1>2. Text!TotalBytes' = Text!TotalBytes /\ \A e : Edge(e)' <=> Edge(e)
  BY <1>1 DEF Edge, Text!TotalBytes, Text!WellFormed, Text!CharEnd, Text!At
<1>3. \A c, r : GoodChunk(c, r)' <=> GoodChunk(c, r)
  BY <1>1, <1>2 DEF GoodChunk, MayBeAsked
<1> DEFINE Chunks == [requested : Nat, offset : Nat, nextOffset : Nat]
<1>4. ASSUME NEW requested \in 0..3, Text!Ask(requested)
      PROVE  ChunksInv'
  <2>1. GoodChunk(Text!Chunk(requested), requested)
    BY <1>1, ChunkIsGood
  <2>2. chunks' = <<Text!Chunk(requested)>>
    BY <1>4 DEF Text!Ask
  <2> DEFINE c == Text!Chunk(requested)
  <2>3. c \in Chunks /\ c.requested = requested
    BY <2>1 DEF GoodChunk
  <2> HIDE DEF c
  <2>4. chunks' = <<c>> /\ chunks' \in Seq(Chunks) /\ DOMAIN chunks' = {1} /\ chunks'[1] = c
    BY <2>2, <2>3 DEF c
  <2>5. GoodChunk(c, c.requested)
    BY <2>1, <2>3 DEF c
  <2>6. \A i \in DOMAIN chunks' : chunks'[i] = c /\ ~(i > 1)
    BY <2>4
  <2> QED  BY <1>1, <1>3, <2>4, <2>5, <2>6 DEF ChunksInv
<1>5. ASSUME Text!More
      PROVE  ChunksInv'
  <2> DEFINE last == chunks[Len(chunks)]
             c == Text!Chunk(last.nextOffset)
  <2>1. /\ chunks \in Seq(Chunks) /\ chunks # <<>>
        /\ \A i \in DOMAIN chunks : /\ GoodChunk(chunks[i], chunks[i].requested)
                                    /\ i > 1 => chunks[i].requested = chunks[i - 1].nextOffset
    BY <1>5 DEF ChunksInv, Text!More
  <2>2. Len(chunks) \in Nat /\ Len(chunks) >= 1 /\ DOMAIN chunks = 1..Len(chunks) /\ last \in Chunks
    <3>1. Len(chunks) \in Nat /\ Len(chunks) # 0 /\ DOMAIN chunks = 1..Len(chunks)
      BY <2>1, EmptySeq, LenProperties
    <3>2. Len(chunks) \in DOMAIN chunks
      BY <3>1
    <3>3. last \in Chunks
      BY <2>1, <3>2 DEF GoodChunk
    <3>4. Len(chunks) >= 1
      BY <3>1
    <3> QED  BY <3>1, <3>3, <3>4
  <2>3. chunks' = Append(chunks, c)
    BY <1>5 DEF Text!More, Text!Last
  <2>4. last.nextOffset \in Nat
    BY <2>2
  <2>5. GoodChunk(c, last.nextOffset)
    BY <1>1, <2>4, ChunkIsGood
  <2> HIDE DEF c, last
  <2>6. c \in Chunks /\ c.requested = last.nextOffset
    BY <2>5 DEF GoodChunk
  <2>7. /\ chunks' \in Seq(Chunks) /\ DOMAIN chunks' = 1..(Len(chunks) + 1)
        /\ chunks'[Len(chunks) + 1] = c
        /\ \A i \in 1..Len(chunks) : chunks'[i] = chunks[i]
    BY <2>1, <2>2, <2>3, <2>6
  <2>8. ASSUME NEW i \in 1..(Len(chunks) + 1)
        PROVE  /\ GoodChunk(chunks'[i], chunks'[i].requested)
               /\ i > 1 => chunks'[i].requested = chunks'[i - 1].nextOffset
    <3>1. CASE i \in 1..Len(chunks)
      <4>1. i > 1 => i - 1 \in 1..Len(chunks)
        BY <3>1
      <4> QED  BY <2>1, <2>2, <2>7, <3>1, <4>1
    <3>2. CASE i = Len(chunks) + 1
      <4>1. i - 1 = Len(chunks) /\ i - 1 \in 1..Len(chunks)
        BY <2>2, <3>2
      <4> QED  BY <2>5, <2>6, <2>7, <3>2, <4>1 DEF last
    <3> QED  BY <2>2, <3>1, <3>2
  <2> QED  BY <1>1, <1>3, <2>7, <2>8 DEF ChunksInv
<1> QED  BY <1>4, <1>5 DEF Text!Next

LEMMA TextRests ==
  ASSUME ChunksInv, UNCHANGED ofText
  PROVE  ChunksInv'
<1>1. encoding' = encoding /\ content' = content /\ chunks' = chunks
  BY DEF ofText
<1>2. \A c, r : GoodChunk(c, r)' <=> GoodChunk(c, r)
  BY <1>1 DEF GoodChunk, MayBeAsked, Edge, Text!TotalBytes, Text!WellFormed, Text!CharEnd, Text!At
<1> QED  BY <1>1, <1>2 DEF ChunksInv, TextTyped

\* Chunks that are good join.
LEMMA ChunksThatJoin ==
  ASSUME ChunksInv
  PROVE  Text!ChunksJoin
<1>1. SUFFICES ASSUME NEW i \in DOMAIN chunks
               PROVE  /\ chunks[i].offset <= chunks[i].nextOffset
                      /\ chunks[i].nextOffset > chunks[i].requested \/ chunks[i].nextOffset = Text!TotalBytes
                      /\ i > 1 => chunks[i].offset = chunks[i - 1].nextOffset
                      /\ Edge(chunks[i].offset) /\ Edge(chunks[i].nextOffset)
  BY DEF Text!ChunksJoin, Edge
<1>2. GoodChunk(chunks[i], chunks[i].requested)
  BY DEF ChunksInv
<1>3. ASSUME i > 1 PROVE chunks[i].offset = chunks[i - 1].nextOffset
  <2>1. i - 1 \in DOMAIN chunks /\ chunks[i].requested = chunks[i - 1].nextOffset
    BY <1>3 DEF ChunksInv
  <2>2. GoodChunk(chunks[i - 1], chunks[i - 1].requested)
    BY <2>1 DEF ChunksInv
  <2>3. Text!TotalBytes \in Nat
    BY Total DEF ChunksInv
  <2>4. Edge(chunks[i - 1].nextOffset) /\ MayBeAsked(chunks[i - 1].nextOffset)
    BY <2>2, <2>3 DEF GoodChunk, MayBeAsked
  <2> QED  BY <1>2, <2>1, <2>4 DEF GoodChunk
<1> QED  BY <1>2, <1>3 DEF GoodChunk

-----------------------------------------------------------------------------
(* The composition.                                                        *)

\* A step of the whole is a step of one part and leaves the others alone.
LEMMA PartsMove ==
  [RuntimeNext]_runtimeVars =>
    /\ [Storage!Next]_ofStorage /\ [Stream!Next]_ofStream /\ [Archive!Next]_ofArchive
    /\ [Text!Next]_ofText /\ [Console!Next]_ofConsole
BY DEF RuntimeNext, runtimeVars, LimiterMoves, StorageMoves, StreamMoves, ArchiveMoves, TextMoves, ConsoleMoves

LEMMA StorageInductive == StorageInv /\ [Storage!Next]_ofStorage => StorageInv'
BY StorageKeeps, StorageRests

LEMMA ConsoleInductive == ConsoleInv /\ [Console!Next]_ofConsole => ConsoleInv'
BY ConsoleKeeps, ConsoleRests

LEMMA StreamInductive == FilesInv /\ ReadersInv /\ [Stream!Next]_ofStream => FilesInv' /\ ReadersInv'
BY StreamKeeps, StreamRests

LEMMA ArchiveInductive == ArchiveInv /\ [Archive!Next]_ofArchive => ArchiveInv'
BY ArchiveKeeps, ArchiveRests

LEMMA TextInductive == ChunksInv /\ [Text!Next]_ofText => ChunksInv'
BY TextKeeps, TextRests

LEMMA RuntimeStarts == RuntimeInit => StorageInv /\ FilesInv /\ ReadersInv /\ ArchiveInv /\ ChunksInv /\ ConsoleInv
BY StorageStarts, StreamStarts, ArchiveStarts, TextStarts, ConsoleStarts DEF RuntimeInit

\* resourceLimits.ts: the device has room for all that the jobs have claimed and not
\* yet written, and for the headroom, and nothing is written without a claim; for any
\* number of jobs, any sizes and any device.
THEOREM RuntimeHeadroomKept == RuntimeSpec => []HeadroomKept
<1>1. StorageInv => HeadroomKept
  BY WritersHaveClaims DEF StorageInv, HeadroomKept
<1>2. StorageInv /\ [RuntimeNext]_runtimeVars => StorageInv'
  BY PartsMove, StorageInductive
<1> QED  BY <1>1, <1>2, RuntimeStarts, PTL DEF RuntimeSpec

\* torrentFileSelection.ts, verifiedTorrentStream.ts: what the files of a torrent miss is
\* asked for with their highest priority, whatever its readers select and however its
\* selections complete; each reader owns what is asked for it, and is sent verified bytes
\* in order; for any files, pieces and number of readers.
THEOREM RuntimeStreamKeepsTorrent == RuntimeSpec => []StreamKeepsTorrent
<1>1. FilesInv /\ ReadersInv => StreamKeepsTorrent
  BY MissingIsAsked, ReadersOwnAndRead DEF StreamKeepsTorrent
<1>2. FilesInv /\ ReadersInv /\ [RuntimeNext]_runtimeVars => (FilesInv /\ ReadersInv)'
  BY PartsMove, StreamInductive
<1> QED  BY <1>1, <1>2, RuntimeStarts, PTL DEF RuntimeSpec

\* extractSessionSource.ts, explorerTree.ts and textPreview.ts: an accepted listing of any
\* number of entries extracts without collision, whether or not the disk folds case, and
\* the tree shows what is on disk; chunks of a text of any size and encoding join
\* between characters.
THEOREM RuntimeContentsAreWhole == RuntimeSpec => []ContentsAreWhole
<1>1. ArchiveInv /\ ChunksInv => ContentsAreWhole
  BY ArchiveIsWhole, ChunksThatJoin DEF ContentsAreWhole
<1>2. ArchiveInv /\ ChunksInv /\ [RuntimeNext]_runtimeVars => (ArchiveInv /\ ChunksInv)'
  BY PartsMove, ArchiveInductive, TextInductive
<1> QED  BY <1>1, <1>2, RuntimeStarts, PTL DEF RuntimeSpec

\* dashboardController.ts: what the dashboard removes is what the Delete before asked
\* about, whatever came, went or changed places between the two keys.
THEOREM RuntimeRemovalIsAsked == RuntimeSpec => RemovalIsAsked
<1>1. ConsoleInv /\ [RuntimeNext]_runtimeVars => ConsoleInv'
  BY PartsMove, ConsoleInductive
<1>2. ConsoleInv /\ [RuntimeNext]_runtimeVars => [Console!RemovalIsAsked]_ofConsole
  BY PartsMove, RemovalWasAsked
<1> QED  BY <1>1, <1>2, RuntimeStarts, PTL DEF RuntimeSpec, RemovalIsAsked
=============================================================================

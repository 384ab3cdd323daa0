--------------------------- MODULE SequenceLemmas ---------------------------
(***************************************************************************)
(* Facts about the operators on sequences and about the natural numbers    *)
(* that several proofs need.  The sequences are queues: each element is in *)
(* them once.                                                              *)
(***************************************************************************)
EXTENDS Naturals, FiniteSets, SequencesExt, FiniteSetTheorems, SequenceTheorems, TLAPS

\* Array.splice(i, 1): the elements after the i-th move down by one.
LEMMA RemoveAtShifts ==
  ASSUME NEW S, NEW q \in Seq(S), NEW i \in 1..Len(q)
  PROVE  /\ RemoveAt(q, i) \in Seq(S)
         /\ Len(RemoveAt(q, i)) = Len(q) - 1
         /\ DOMAIN RemoveAt(q, i) = 1..(Len(q) - 1)
         /\ \A k \in 1..(Len(q) - 1) :
              RemoveAt(q, i)[k] = IF k < i THEN q[k] ELSE q[k + 1]
<1> DEFINE a == SubSeq(q, 1, i - 1)
           b == SubSeq(q, i + 1, Len(q))
<1>1. Len(q) \in Nat /\ i \in Nat /\ 1 <= i /\ i <= Len(q)
  OBVIOUS
<1>2. a \in Seq(S) /\ Len(a) = i - 1 /\ \A k \in 1..(i - 1) : a[k] = q[k]
  BY SMT
<1>3. b \in Seq(S) /\ Len(b) = Len(q) - i /\ \A k \in 1..(Len(q) - i) : b[k] = q[k + i]
  BY SMT
<1> HIDE DEF a, b
<1>4. a \o b \in Seq(S) /\ Len(a \o b) = Len(q) - 1
  <2>1. a \o b \in Seq(S) /\ Len(a \o b) = Len(a) + Len(b)
    BY <1>2, <1>3, ConcatProperties
  <2>2. Len(a) + Len(b) = Len(q) - 1
    BY <1>1, <1>2, <1>3
  <2> QED  BY <2>1, <2>2
<1>5. \A k \in 1..(Len(q) - 1) : k < i => (a \o b)[k] = q[k]
  BY <1>2, <1>3, SMT
<1>6. \A k \in 1..(Len(q) - 1) : k >= i => (a \o b)[k] = q[k + 1]
  <2> TAKE k \in 1..(Len(q) - 1)
  <2> HAVE k >= i
  <2>1. PICK m \in 1..(Len(q) - i) : m = k - Len(a) /\ m + i = k + 1
    BY <1>1, <1>2
  <2>2. b[m] = q[k + 1]
    BY <1>3, <2>1
  <2>3. (a \o b)[k] = b[m]
    BY <1>1, <1>2, <1>3, <2>1, SMT
  <2> QED  BY <2>2, <2>3
<1>7. RemoveAt(q, i) = a \o b
  BY DEF RemoveAt, a, b
<1> QED  BY <1>4, <1>5, <1>6, <1>7

\* Removing one element of a queue takes just that element out of it.
LEMMA RemoveAtProperties ==
  ASSUME NEW S, NEW q \in Seq(S), IsInjective(q), NEW i \in DOMAIN q
  PROVE  /\ RemoveAt(q, i) \in Seq(S)
         /\ Range(RemoveAt(q, i)) = Range(q) \ {q[i]}
         /\ IsInjective(RemoveAt(q, i))
<1> DEFINE r == RemoveAt(q, i)
           n == Len(q)
<1>1. n \in Nat /\ DOMAIN q = 1..n /\ i \in 1..n
  OBVIOUS
<1>2. /\ r \in Seq(S) /\ DOMAIN r = 1..(n - 1)
      /\ \A k \in 1..(n - 1) : r[k] = IF k < i THEN q[k] ELSE q[k + 1]
  BY <1>1, RemoveAtShifts
<1> HIDE DEF r, n
<1>3. IsInjective(r)
  <2> SUFFICES ASSUME NEW k \in 1..(n - 1), NEW m \in 1..(n - 1), r[k] = r[m]
               PROVE  k = m
    BY <1>2 DEF IsInjective
  <2>1. \A x, y \in 1..n : q[x] = q[y] => x = y
    BY <1>1 DEF IsInjective
  <2>2. k \in 1..n /\ k + 1 \in 1..n /\ m \in 1..n /\ m + 1 \in 1..n
    BY <1>1
  <2>3. CASE k < i /\ m < i
    BY <1>2, <2>1, <2>2, <2>3
  <2>4. CASE k < i /\ ~(m < i)
    <3>1. q[k] = q[m + 1]
      BY <1>2, <2>4
    <3>2. k = m + 1
      BY <2>1, <2>2, <3>1
    <3> QED  BY <1>1, <2>2, <2>4, <3>2
  <2>5. CASE ~(k < i) /\ m < i
    <3>1. q[k + 1] = q[m]
      BY <1>2, <2>5
    <3>2. k + 1 = m
      BY <2>1, <2>2, <3>1
    <3> QED  BY <1>1, <2>2, <2>5, <3>2
  <2>6. CASE ~(k < i) /\ ~(m < i)
    <3>1. q[k + 1] = q[m + 1]
      BY <1>2, <2>6
    <3>2. k + 1 = m + 1
      BY <2>1, <2>2, <3>1
    <3> QED  BY <2>2, <3>2
  <2> QED  BY <2>3, <2>4, <2>5, <2>6
<1>4. \A k \in 1..(n - 1) : r[k] \in Range(q) /\ r[k] # q[i]
  <2> TAKE k \in 1..(n - 1)
  <2>1. PICK m \in 1..n : r[k] = q[m] /\ m # i
    <3>1. CASE k < i
      BY <1>1, <1>2, <3>1
    <3>2. CASE ~(k < i)
      <4>1. k + 1 \in 1..n /\ k + 1 # i
        BY <1>1, <3>2
      <4> QED  BY <1>2, <3>2, <4>1
    <3> QED  BY <3>1, <3>2
  <2> QED  BY <1>1, <2>1 DEF IsInjective, Range
<1>5. \A k \in 1..n : k # i => \E m \in 1..(n - 1) : r[m] = q[k]
  <2> TAKE k \in 1..n
  <2> HAVE k # i
  <2>1. CASE k < i
    <3>1. k \in 1..(n - 1)
      BY <1>1, <2>1
    <3> QED  BY <1>2, <2>1, <3>1
  <2>2. CASE k > i
    <3>1. PICK m \in 1..(n - 1) : m + 1 = k /\ ~(m < i)
      BY <1>1, <2>2
    <3> QED  BY <1>2, <3>1
  <2> QED  BY <1>1, <2>1, <2>2
<1>6. Range(r) = Range(q) \ {q[i]}
  <2>1. \A x \in Range(r) : x \in Range(q) \ {q[i]}
    BY <1>2, <1>4 DEF Range
  <2>2. \A x \in Range(q) \ {q[i]} : x \in Range(r)
    <3> TAKE x \in Range(q) \ {q[i]}
    <3>1. PICK k \in 1..n : q[k] = x /\ k # i
      BY <1>1 DEF Range
    <3>2. PICK m \in 1..(n - 1) : r[m] = x
      BY <1>5, <3>1
    <3> QED  BY <1>2, <3>2 DEF Range
  <2> QED  BY <2>1, <2>2
<1> QED  BY <1>2, <1>3, <1>6 DEF r

\* A queue stays one when an element that is not in it is pushed.
LEMMA AppendNew ==
  ASSUME NEW S, NEW q \in Seq(S), IsInjective(q), NEW x \in S, x \notin Range(q)
  PROVE  /\ Append(q, x) \in Seq(S)
         /\ Range(Append(q, x)) = Range(q) \cup {x}
         /\ IsInjective(Append(q, x))
<1> DEFINE r == Append(q, x)
           n == Len(q)
<1>1. n \in Nat /\ DOMAIN q = 1..n
  OBVIOUS
<1>2. /\ r \in Seq(S) /\ DOMAIN r = 1..(n + 1) /\ r[n + 1] = x
      /\ \A k \in 1..n : r[k] = q[k]
  BY SMT
<1> HIDE DEF r, n
<1>3. \A k \in 1..(n + 1) : k \in 1..n \/ k = n + 1
  BY <1>1
<1>4. n + 1 \in 1..(n + 1) /\ \A k \in 1..n : k \in 1..(n + 1)
  BY <1>1
<1>5. Range(r) = Range(q) \cup {x}
  <2>1. \A y \in Range(r) : y \in Range(q) \cup {x}
    BY <1>1, <1>2, <1>3 DEF Range
  <2>2. \A y \in Range(q) : y \in Range(r)
    BY <1>1, <1>2, <1>4 DEF Range
  <2>3. x \in Range(r)
    BY <1>2, <1>4 DEF Range
  <2> QED  BY <2>1, <2>2, <2>3
<1>6. IsInjective(r)
  BY <1>1, <1>2, <1>3 DEF IsInjective, Range
<1> QED  BY <1>2, <1>5, <1>6 DEF r

\* A place in a sequence that satisfies a condition has a first such place.
LEMMA FirstPlace ==
  ASSUME NEW q, NEW class, NEW k \in Nat, q[k] \in class
  PROVE  \E i \in Nat : q[i] \in class /\ \A m \in Nat : m < i => q[m] \notin class
<1> DEFINE hits == {i \in Nat : q[i] \in class}
<1>1. hits \subseteq Nat /\ hits # {}
  OBVIOUS
<1> HIDE DEF hits
<1>2. PICK i \in hits : \A m \in hits : <<m, i>> \notin OpToRel(<, Nat)
  BY <1>1, WFMin, NatLessThanWellFounded, Zenon
<1>3. i \in Nat
  BY <1>1, <1>2
<1>4. \A m \in Nat : m < i => m \notin hits
  <2> SUFFICES ASSUME NEW m \in Nat, m < i, m \in hits
               PROVE  FALSE
    OBVIOUS
  <2>1. <<m, i>> \in OpToRel(<, Nat)
    BY <1>3, Zenon DEF OpToRel
  <2> QED  BY <1>2, <2>1, Zenon
<1>5. q[i] \in class
  BY <1>2 DEF hits
<1> QED  BY <1>3, <1>4, <1>5 DEF hits
-----------------------------------------------------------------------------
\* A set of naturals that is not empty has a least element.
LEMMA LeastNatural ==
  ASSUME NEW hits \in SUBSET Nat, hits # {}
  PROVE  \E n \in hits : \A m \in Nat : m < n => m \notin hits
<1>1. PICK n \in hits : \A m \in hits : <<m, n>> \notin OpToRel(<, Nat)
  BY WFMin, NatLessThanWellFounded, Zenon
<1>2. \A m \in Nat : m < n => m \notin hits
  <2> SUFFICES ASSUME NEW m \in Nat, m < n, m \in hits
               PROVE  FALSE
    OBVIOUS
  <2>1. <<m, n>> \in OpToRel(<, Nat)
    BY Zenon DEF OpToRel
  <2> QED  BY <1>1, <2>1, Zenon
<1> QED  BY <1>2

\* A set of naturals that is bounded has a greatest element, which Max finds.
LEMMA MaxIsGreatest ==
  ASSUME NEW K \in Nat, NEW S \in SUBSET (0..K), S # {}
  PROVE  Max(S) \in S /\ \A x \in S : x <= Max(S)
<1> DEFINE below == {n \in Nat : \E x \in S : n = K - x}
<1>1. \A x \in S : x \in Int /\ 0 <= x /\ x <= K /\ K - x \in Nat
  OBVIOUS
<1>2. below # {} /\ below \in SUBSET Nat
  BY <1>1
<1>3. PICK n \in below : \A m \in Nat : m < n => m \notin below
  <2> HIDE DEF below
  <2> QED  BY <1>2, LeastNatural
<1>4. PICK x \in S : n = K - x
  BY <1>3
<1>5. \A y \in S : y <= x
  <2> SUFFICES ASSUME NEW y \in S, ~(y <= x) PROVE FALSE
    OBVIOUS
  <2>1. K - y \in Nat /\ K - y < n
    BY <1>1, <1>4
  <2> QED  BY <1>3, <2>1
<1>6. \E z \in S : \A y \in S : z >= y
  BY <1>1, <1>5
<1>7. Max(S) \in S /\ \A y \in S : Max(S) >= y
  BY <1>6 DEF Max
<1> QED  BY <1>1, <1>7

\* Finitely many naturals are bounded.
LEMMA FiniteIsBounded ==
  ASSUME NEW S, IsFiniteSet(S), NEW v \in [S -> Nat]
  PROVE  \E most \in Nat : \A x \in S : v[x] <= most
<1> DEFINE Bounded(s) == \E most \in Nat : \A x \in s : v[x] <= most
           bad == {n \in Nat : \E s \in SUBSET S : Cardinality(s) = n /\ ~Bounded(s)}
<1>1. \A s \in SUBSET S : IsFiniteSet(s) /\ Cardinality(s) \in Nat
  BY FS_Subset, FS_CardinalityType
<1>2. bad = {}
  <2> SUFFICES ASSUME bad # {} PROVE FALSE
    OBVIOUS
  <2>1. PICK n \in bad : \A m \in Nat : m < n => m \notin bad
    <3>1. bad \in SUBSET Nat
      OBVIOUS
    <3> HIDE DEF bad
    <3> QED  BY <3>1, LeastNatural
  <2>2. PICK s \in SUBSET S : Cardinality(s) = n /\ ~Bounded(s)
    BY <2>1
  <2>3. PICK x : x \in s
    BY <2>2
  <2>4. Cardinality(s \ {x}) = n - 1 /\ n - 1 \in Nat /\ n - 1 < n
    <3>1. Cardinality(s \ {x}) = Cardinality(s) - 1 /\ Cardinality(s \ {x}) \in Nat /\ Cardinality(s) \in Nat
      BY <1>1, <2>3, FS_RemoveElement
    <3> QED  BY <2>2, <3>1
  <2>5. PICK most \in Nat : \A y \in s \ {x} : v[y] <= most
    BY <2>1, <2>4
  <2>6. v[x] \in Nat /\ \A y \in s : v[y] \in Nat
    BY <2>3
  <2>7. \E more \in Nat : most <= more /\ v[x] <= more
    <3>1. CASE v[x] <= most
      BY <3>1
    <3>2. CASE most <= v[x]
      BY <2>6, <3>2
    <3> QED  BY <2>6, <3>1, <3>2
  <2>8. Bounded(s)
    <3>1. PICK more \in Nat : most <= more /\ v[x] <= more
      BY <2>7
    <3>2. \A y \in s : v[y] <= more
      BY <2>5, <2>6, <3>1
    <3> QED  BY <3>2
  <2> QED  BY <2>2, <2>8
<1>3. Bounded(S)
  <2> HIDE DEF Bounded
  <2> QED  BY <1>1, <1>2
<1> QED  BY <1>3
-----------------------------------------------------------------------------
(* FlattenSeq *)

\* What is joined by adding one part after another is the parts flattened: the
\* recursive function of FlattenSeq has no other solution.
LEMMA FlattenIsJoined ==
  ASSUME NEW parts, NEW n \in Nat, n > 0, Len(parts) = n, NEW joined,
         \A i \in 1..n : joined[i] = IF i = 1 THEN parts[i] ELSE joined[i - 1] \o parts[i]
  PROVE  FlattenSeq(parts) = joined[n]
<1> DEFINE Rule(h) == [i \in 1..Len(parts) |-> IF i = 1 THEN parts[i] ELSE h[i - 1] \o parts[i]]
<1>1. PICK h : h = CHOOSE g : g = Rule(g)
  OBVIOUS
<1>2. h = Rule(h)
  <2> DEFINE w == [i \in 1..n |-> joined[i]]
  <2>1. \A i \in 1..n : i # 1 => i - 1 \in 1..n
    OBVIOUS
  <2>2. w = Rule(w)
    BY <2>1
  <2> HIDE DEF w
  <2> QED  BY <1>1, <2>2
<1>3. FlattenSeq(parts) = h[n]
  <2>1. Len(parts) # 0
    OBVIOUS
  <2>2. FlattenSeq(parts) = (CHOOSE g : g = Rule(g))[Len(parts)]
    BY <2>1, Zenon DEF FlattenSeq
  <2> QED  BY <1>1, <2>2
<1>4. \A i \in 1..n : h[i] = IF i = 1 THEN parts[i] ELSE h[i - 1] \o parts[i]
  BY <1>2
<1>5. \A i \in 1..n : joined[i] = IF i = 1 THEN parts[i] ELSE joined[i - 1] \o parts[i]
  OBVIOUS
<1> DEFINE bad == {i \in 1..n : h[i] # joined[i]}
<1>6. bad = {}
  <2> SUFFICES ASSUME bad # {} PROVE FALSE
    OBVIOUS
  <2>1. bad \in SUBSET Nat
    OBVIOUS
  <2>2. PICK i \in bad : \A m \in Nat : m < i => m \notin bad
    <3> HIDE DEF bad
    <3> QED  BY <2>1, LeastNatural
  <2>3. i \in 1..n /\ h[i] # joined[i]
    BY <2>2
  <2>4. i # 1 => i - 1 \in Nat /\ i - 1 < i /\ i - 1 \in 1..n
    BY <2>3
  <2>5. i # 1 => h[i - 1] = joined[i - 1]
    BY <2>2, <2>4
  <2> QED  BY <1>4, <1>5, <2>3, <2>5
<1>7. n \in 1..n /\ n \notin bad
  BY <1>6
<1>8. h[n] = joined[n]
  BY <1>7
<1> QED  BY <1>3, <1>8, Zenon

\* Parts can be joined one after another.
LEMMA JoinedExists ==
  ASSUME NEW parts, NEW N \in Nat
  PROVE  \E joined : \A i \in 1..N : joined[i] = IF i = 1 THEN parts[i] ELSE joined[i - 1] \o parts[i]
<1> DEFINE Joins(n) == \E joined : \A i \in 1..n : joined[i] = IF i = 1 THEN parts[i] ELSE joined[i - 1] \o parts[i]
           bad == {n \in Nat : ~Joins(n)}
<1>1. bad = {}
  <2> SUFFICES ASSUME bad # {} PROVE FALSE
    OBVIOUS
  <2>1. PICK n \in bad : \A m \in Nat : m < n => m \notin bad
    <3>1. bad \in SUBSET Nat
      OBVIOUS
    <3> HIDE DEF bad
    <3> QED  BY <3>1, LeastNatural
  <2>2. n \in Nat /\ ~Joins(n)
    BY <2>1
  <2>3. n # 0
    <3>1. Joins(0)
      BY 1..0 = {}
    <3> QED  BY <2>2, <3>1
  <2>4. n - 1 \in Nat /\ n - 1 < n
    BY <2>2, <2>3
  <2>5. Joins(n - 1)
    BY <2>1, <2>4
  <2>6. PICK j : \A i \in 1..(n - 1) : j[i] = IF i = 1 THEN parts[i] ELSE j[i - 1] \o parts[i]
    BY <2>5
  <2> DEFINE w == [i \in 1..n |-> IF i = n THEN (IF n = 1 THEN parts[n] ELSE j[n - 1] \o parts[n]) ELSE j[i]]
  <2>7. \A i \in 1..n : w[i] = IF i = n THEN (IF n = 1 THEN parts[n] ELSE j[n - 1] \o parts[n]) ELSE j[i]
    OBVIOUS
  <2> HIDE DEF w
  <2>8. ASSUME NEW i \in 1..n PROVE w[i] = IF i = 1 THEN parts[i] ELSE w[i - 1] \o parts[i]
    <3>1. CASE i = n
      <4>1. n # 1 => n - 1 \in 1..n /\ n - 1 # n
        BY <2>2, <2>3
      <4> QED  BY <2>7, <3>1, <4>1
    <3>2. CASE i # n
      <4>1. i \in 1..(n - 1) /\ (i # 1 => i - 1 \in 1..n /\ i - 1 # n)
        BY <2>2, <3>2
      <4> QED  BY <2>6, <2>7, <3>2, <4>1
    <3> QED  BY <3>1, <3>2
  <2> QED  BY <2>2, <2>8
<1>2. Joins(N)
  <2> HIDE DEF Joins
  <2> QED  BY <1>1
<1> QED  BY <1>2

\* The sequence r lists the elements of the first n parts: its a-th element is the
\* k[a]-th of part p[a], in this order, and none is left out.
Lists(r, S, parts, n, p, k) ==
  /\ r \in Seq(S) /\ p \in [1..Len(r) -> 1..n] /\ k \in [1..Len(r) -> Nat]
  /\ \A a \in 1..Len(r) : k[a] \in 1..Len(parts[p[a]]) /\ r[a] = parts[p[a]][k[a]]
  /\ \A a, b \in 1..Len(r) : a < b => p[a] < p[b] \/ (p[a] = p[b] /\ k[a] < k[b])
  /\ \A i \in 1..n : \A c \in 1..Len(parts[i]) : \E a \in 1..Len(r) : p[a] = i /\ k[a] = c

LEMMA ListsMore ==
  ASSUME NEW S, NEW parts, NEW n \in Nat, NEW r, NEW p, NEW k, Lists(r, S, parts, n, p, k),
         parts[n + 1] \in Seq(S)
  PROVE  \E p1, k1 : Lists(r \o parts[n + 1], S, parts, n + 1, p1, k1)
<1>1. PICK next : next = parts[n + 1]
  OBVIOUS
<1>2. PICK l : l = Len(r)
  OBVIOUS
<1>3. PICK m : m = Len(next)
  OBVIOUS
<1>4. PICK s : s = r \o next
  OBVIOUS
<1>5. r \in Seq(S) /\ next \in Seq(S) /\ l \in Nat /\ m \in Nat
  BY <1>1, <1>2, <1>3 DEF Lists
<1>6. s \in Seq(S) /\ Len(s) = l + m
  BY <1>2, <1>3, <1>4, <1>5, ConcatProperties
<1>7. \A a \in 1..(l + m) : s[a] = IF a <= l THEN r[a] ELSE next[a - l]
  BY <1>2, <1>3, <1>4, <1>5, ConcatProperties
<1>8. /\ p \in [1..l -> 1..n] /\ k \in [1..l -> Nat]
      /\ \A a \in 1..l : k[a] \in 1..Len(parts[p[a]]) /\ r[a] = parts[p[a]][k[a]]
      /\ \A a, b \in 1..l : a < b => p[a] < p[b] \/ (p[a] = p[b] /\ k[a] < k[b])
      /\ \A i \in 1..n : \A c \in 1..Len(parts[i]) : \E a \in 1..l : p[a] = i /\ k[a] = c
  BY <1>2 DEF Lists
<1> DEFINE p1 == [a \in 1..(l + m) |-> IF a <= l THEN p[a] ELSE n + 1]
           k1 == [a \in 1..(l + m) |-> IF a <= l THEN k[a] ELSE a - l]
<1>9. /\ \A a \in 1..(l + m) : a <= l => a \in 1..l /\ p1[a] = p[a] /\ k1[a] = k[a] /\ p[a] \in 1..n /\ k[a] \in Nat
      /\ \A a \in 1..(l + m) : ~(a <= l) => p1[a] = n + 1 /\ k1[a] = a - l /\ a - l \in 1..m
  BY <1>5, <1>8
<1>10. p1 \in [1..(l + m) -> 1..(n + 1)] /\ k1 \in [1..(l + m) -> Nat]
  BY <1>5, <1>8
<1> HIDE DEF p1, k1
<1>11. ASSUME NEW a \in 1..(l + m) PROVE k1[a] \in 1..Len(parts[p1[a]]) /\ s[a] = parts[p1[a]][k1[a]]
  <2>1. CASE a <= l
    BY <1>7, <1>8, <1>9, <2>1
  <2>2. CASE ~(a <= l)
    BY <1>1, <1>3, <1>7, <1>9, <2>2
  <2> QED  BY <2>1, <2>2
<1>12. ASSUME NEW a \in 1..(l + m), NEW b \in 1..(l + m), a < b
       PROVE  p1[a] < p1[b] \/ (p1[a] = p1[b] /\ k1[a] < k1[b])
  <2>1. CASE b <= l
    <3>1. a <= l
      BY <1>5, <1>12, <2>1
    <3> QED  BY <1>8, <1>9, <1>12, <2>1, <3>1
  <2>2. CASE a <= l /\ ~(b <= l)
    BY <1>9, <2>2
  <2>3. CASE ~(a <= l) /\ ~(b <= l)
    <3>1. a - l < b - l
      BY <1>5, <1>12
    <3> QED  BY <1>9, <2>3, <3>1
  <2> QED  BY <1>5, <1>12, <2>1, <2>2, <2>3
<1>13. ASSUME NEW i \in 1..(n + 1), NEW c \in 1..Len(parts[i]) PROVE \E a \in 1..(l + m) : p1[a] = i /\ k1[a] = c
  <2>1. CASE i # n + 1
    <3>1. i \in 1..n
      BY <2>1
    <3>2. PICK a \in 1..l : p[a] = i /\ k[a] = c
      BY <1>8, <3>1
    <3>3. a \in 1..(l + m) /\ a <= l
      BY <1>5
    <3> QED  BY <1>9, <3>2, <3>3
  <2>2. CASE i = n + 1
    <3>1. c \in 1..m
      BY <1>1, <1>3, <2>2
    <3>2. l + c \in 1..(l + m) /\ ~(l + c <= l) /\ (l + c) - l = c
      BY <1>5, <3>1
    <3> QED  BY <1>9, <2>2, <3>2
  <2> QED  BY <2>1, <2>2
<1>14. Lists(s, S, parts, n + 1, p1, k1)
  BY <1>6, <1>10, <1>11, <1>12, <1>13 DEF Lists
<1> QED  BY <1>1, <1>4, <1>14

\* FlattenSeq lists the elements of all parts.
LEMMA FlattenLists ==
  ASSUME NEW S, NEW N \in Nat, NEW parts \in [1..N -> Seq(S)]
  PROVE  \E p, k : Lists(FlattenSeq(parts), S, parts, N, p, k)
<1>1. parts \in Seq(Seq(S)) /\ Len(parts) = N
  OBVIOUS
<1>2. CASE N = 0
  <2>1. FlattenSeq(parts) = parts
    BY <1>1, <1>2, Zenon DEF FlattenSeq
  <2>2. parts = <<>> /\ 1..N = {} /\ Len(parts) = 0
    BY <1>1, <1>2
  <2>3. Lists(<<>>, S, parts, N, <<>>, <<>>)
    BY <1>2 DEF Lists
  <2> QED  BY <2>1, <2>2, <2>3
<1>3. CASE N # 0
  <2>1. PICK j : \A i \in 1..N : j[i] = IF i = 1 THEN parts[i] ELSE j[i - 1] \o parts[i]
    BY JoinedExists
  <2>2. FlattenSeq(parts) = j[N]
    BY <1>1, <1>3, <2>1, FlattenIsJoined
  <2> DEFINE Good(n) == \E p, k : Lists(j[n], S, parts, n, p, k)
             bad == {n \in 1..N : ~Good(n)}
  <2>3. \A i \in 1..N : parts[i] \in Seq(S)
    OBVIOUS
  <2>4. bad = {}
    <3> SUFFICES ASSUME bad # {} PROVE FALSE
      OBVIOUS
    <3>1. PICK n \in bad : \A m \in Nat : m < n => m \notin bad
      <4>1. bad \in SUBSET Nat
        OBVIOUS
      <4> HIDE DEF bad
      <4> QED  BY <4>1, LeastNatural
    <3>2. n \in 1..N /\ ~Good(n)
      BY <3>1
    <3>3. CASE n = 1
      <4>1. PICK q : q = parts[1]
        OBVIOUS
      <4>2. q \in Seq(S) /\ j[1] = q
        BY <2>1, <2>3, <3>2, <3>3, <4>1
      <4>3. Lists(q, S, parts, 1, [a \in 1..Len(q) |-> 1], [a \in 1..Len(q) |-> a])
        BY <4>1, <4>2 DEF Lists
      <4> QED  BY <3>2, <3>3, <4>2, <4>3
    <3>4. CASE n # 1
      <4>1. PICK m \in Nat : n = m + 1 /\ m < n /\ m \in 1..N
        BY <3>2, <3>4
      <4>2. PICK p, k : Lists(j[m], S, parts, m, p, k)
        BY <3>1, <4>1
      <4>3. j[n] = j[m] \o parts[m + 1]
        <5>1. n - 1 = m
          BY <4>1
        <5> QED  BY <2>1, <3>2, <3>4, <4>1, <5>1
      <4>4. parts[m + 1] \in Seq(S)
        BY <2>3, <3>2, <4>1
      <4>5. \E p1, k1 : Lists(j[m] \o parts[m + 1], S, parts, m + 1, p1, k1)
        BY <4>2, <4>4, ListsMore
      <4> QED  BY <3>2, <4>1, <4>3, <4>5
    <3> QED  BY <3>3, <3>4
  <2>5. N \in 1..N
    BY <1>3
  <2>6. Good(N)
    <3> HIDE DEF Good
    <3> QED  BY <2>4, <2>5
  <2> QED  BY <2>2, <2>6
<1> QED  BY <1>2, <1>3

\* Array.filter keeps the elements at some places, in their order.
Filtering(q, keep) == [i \in DOMAIN q |-> IF i \in keep THEN <<q[i]>> ELSE <<>>]

Sublist(r, q, keep) ==
  \E m \in [1..Len(r) -> DOMAIN q] :
    /\ \A a, b \in 1..Len(r) : a < b => m[a] < m[b]
    /\ \A a \in 1..Len(r) : m[a] \in keep /\ r[a] = q[m[a]]
    /\ \A i \in DOMAIN q : i \in keep => \E a \in 1..Len(r) : m[a] = i

LEMMA SublistProperties ==
  ASSUME NEW S, NEW q \in Seq(S), NEW keep
  PROVE  FlattenSeq(Filtering(q, keep)) \in Seq(S) /\ Sublist(FlattenSeq(Filtering(q, keep)), q, keep)
<1> DEFINE parts == [i \in DOMAIN q |-> IF i \in keep THEN <<q[i]>> ELSE <<>>]
<1>1. PICK N \in Nat : N = Len(q) /\ DOMAIN q = 1..N
  OBVIOUS
<1>2. \A i \in 1..N : parts[i] \in Seq(S) /\ (i \in keep => Len(parts[i]) = 1 /\ parts[i][1] = q[i]) /\ (i \notin keep => Len(parts[i]) = 0)
  BY <1>1
<1>3. parts \in [1..N -> Seq(S)]
  BY <1>1, <1>2
<1> HIDE DEF parts
<1>4. PICK r : r = FlattenSeq(parts)
  OBVIOUS
<1>5. PICK p, k : Lists(r, S, parts, N, p, k)
  BY <1>3, <1>4, FlattenLists
<1>6. PICK n \in Nat : n = Len(r)
  BY <1>5 DEF Lists
<1>7. /\ r \in Seq(S) /\ p \in [1..n -> 1..N]
      /\ \A a \in 1..n : k[a] \in 1..Len(parts[p[a]]) /\ r[a] = parts[p[a]][k[a]]
      /\ \A a, b \in 1..n : a < b => p[a] < p[b] \/ (p[a] = p[b] /\ k[a] < k[b])
      /\ \A i \in 1..N : \A c \in 1..Len(parts[i]) : \E a \in 1..n : p[a] = i /\ k[a] = c
  BY <1>5, <1>6 DEF Lists
<1>8. ASSUME NEW a \in 1..n PROVE p[a] \in 1..N /\ p[a] \in keep /\ k[a] = 1 /\ r[a] = q[p[a]]
  <2>1. p[a] \in 1..N /\ k[a] \in 1..Len(parts[p[a]]) /\ r[a] = parts[p[a]][k[a]]
    BY <1>7
  <2>2. PICK i \in 1..N : i = p[a]
    BY <2>1
  <2>3. i \in keep
    <3>1. i \notin keep => 1..Len(parts[i]) = {}
      BY <1>2
    <3> QED  BY <2>1, <2>2, <3>1
  <2>4. k[a] = 1
    BY <1>2, <2>1, <2>2, <2>3
  <2> QED  BY <1>2, <2>1, <2>2, <2>3, <2>4
<1>9. ASSUME NEW a \in 1..n, NEW b \in 1..n, a < b PROVE p[a] < p[b]
  <2>1. k[a] = 1 /\ k[b] = 1
    BY <1>8
  <2> QED  BY <1>7, <1>9, <2>1
<1>10. ASSUME NEW i \in 1..N, i \in keep PROVE \E a \in 1..n : p[a] = i
  <2>1. 1 \in 1..Len(parts[i])
    BY <1>2, <1>10
  <2> QED  BY <1>7, <2>1
<1>11. p \in [1..Len(r) -> DOMAIN q]
  BY <1>1, <1>6, <1>7
<1>12. /\ \A a, b \in 1..Len(r) : a < b => p[a] < p[b]
       /\ \A a \in 1..Len(r) : p[a] \in keep /\ r[a] = q[p[a]]
       /\ \A i \in DOMAIN q : i \in keep => \E a \in 1..Len(r) : p[a] = i
  BY <1>1, <1>6, <1>8, <1>9, <1>10
<1>13. r = FlattenSeq(Filtering(q, keep))
  BY <1>4 DEF parts, Filtering
<1>14. Sublist(r, q, keep)
  BY <1>11, <1>12, Zenon DEF Sublist
<1> QED  BY <1>7, <1>13, <1>14
=============================================================================

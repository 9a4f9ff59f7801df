--------------------------------- MODULE Sums ---------------------------------
(***************************************************************************)
(* Sums of units: what the proofs of Catalog and Checkout need to know of  *)
(* SumFunctionOnSet, which adds the quantities of an order's lines and the *)
(* units that orders hold.  It is defined by recursion over a set, so that *)
(* the recursion has a solution, and adds in whichever order, is proved    *)
(* first, by induction.                                                    *)
(***************************************************************************)
EXTENDS Integers, Functions, FiniteSetTheorems, WellFoundedInduction, TLAPS

-----------------------------------------------------------------------------
(* Induction *)

\* A set with 0 and the successor of each of its numbers holds every number.
LEMMA Induction ==
  ASSUME NEW T, 0 \in T, \A n \in Nat : n \in T => n + 1 \in T
  PROVE  \A n \in Nat : n \in T
  <1> DEFINE R == {ss \in Nat \X Nat : ss[1] < ss[2]}
  <1> SUFFICES ASSUME Nat \ T # {} PROVE FALSE
    OBVIOUS
  <1>1. IsWellFoundedOn(R, Nat)
    BY NatLessThanWellFounded DEF OpToRel
  <1> HIDE DEF R
  <1>2. PICK x \in Nat \ T : \A y \in Nat \ T : ~ (<<y, x>> \in R)
    BY <1>1, WFMin
  <1>3. x # 0 /\ x - 1 \in Nat
    OBVIOUS
  <1>4. <<x - 1, x>> \in R
    BY <1>3 DEF R
  <1>5. x - 1 \in T
    BY <1>2, <1>3, <1>4
  <1> QED
    BY <1>3, <1>5

-----------------------------------------------------------------------------
(* Recursion *)

\* The first n steps of a recursion.
Upto(n, T, base, step) ==
  {g \in [0..n -> T] : /\ g[0] = base
                       /\ \A i \in Nat : i < n => g[i + 1] = step[g[i]]}

\* A step can be iterated: recursive functions exist.
LEMMA Recursion ==
  ASSUME NEW T, NEW base \in T, NEW step \in [T -> T]
  PROVE  \E g \in [Nat -> T] : /\ g[0] = base
                               /\ \A n \in Nat : g[n + 1] = step[g[n]]
  <1> DEFINE Up(n) == Upto(n, T, base, step)
             N == {n \in Nat : Up(n) # {}}
             U == {n \in Nat : \A m \in Nat : m >= n =>
                     \A g \in Up(n), h \in Up(m) : g[n] = h[n]}
  <1>0. ASSUME NEW n \in Nat, NEW g \in Up(n)
        PROVE  /\ g \in [0..n -> T]
               /\ g[n] \in T
               /\ g[0] = base
               /\ \A i \in Nat : i < n => g[i + 1] = step[g[i]]
    BY DEF Upto
  <1>1. 0 \in N
    <2>1. [i \in 0..0 |-> base] \in Upto(0, T, base, step)
      BY DEF Upto
    <2> QED
      BY <2>1
  <1>2. ASSUME NEW n \in Nat, n \in N PROVE n + 1 \in N
    <2>0. PICK g : g \in Up(n)
      BY <1>2
    <2> DEFINE h == [i \in 0..(n+1) |-> IF i = n + 1 THEN step[g[n]] ELSE g[i]]
    <2>1. h \in Up(n + 1)
      <3>1. h \in [0..(n+1) -> T]
        BY <1>0, <2>0
      <3>2. h[0] = base
        BY <1>0, <2>0
      <3>3. ASSUME NEW i \in Nat, i < n + 1 PROVE h[i + 1] = step[h[i]]
        <4>1. CASE i = n
          BY <4>1
        <4>2. CASE i # n
          <5>1. i < n /\ i \in 0..n /\ i + 1 \in 0..n
            BY <3>3, <4>2
          <5>2. h[i] = g[i] /\ h[i + 1] = g[i + 1]
            BY <5>1
          <5> HIDE DEF h
          <5> QED
            BY <1>0, <2>0, <5>1, <5>2
        <4> QED
          BY <4>1, <4>2
      <3> HIDE DEF h
      <3> QED
        BY <3>1, <3>2, <3>3 DEF Upto
    <2> HIDE DEF h
    <2> QED
      BY <2>1
  <1>3. \A n \in Nat : n \in N
    <2> HIDE DEF N
    <2> QED
      BY <1>1, <1>2, Induction
  <1>4. 0 \in U
    BY <1>0
  <1>5. ASSUME NEW n \in Nat, n \in U PROVE n + 1 \in U
    <2> SUFFICES ASSUME NEW m \in Nat, m >= n + 1, NEW g \in Up(n + 1), NEW h \in Up(m)
                 PROVE  g[n + 1] = h[n + 1]
      OBVIOUS
    <2> DEFINE k == [i \in 0..n |-> g[i]]
    <2>1. k \in Upto(n, T, base, step) /\ k[n] = g[n]
      <3>1. k \in [0..n -> T] /\ k[0] = base /\ k[n] = g[n]
        BY <1>0
      <3>2. ASSUME NEW i \in Nat, i < n PROVE k[i + 1] = step[k[i]]
        <4>1. k[i] = g[i] /\ k[i + 1] = g[i + 1] /\ i < n + 1
          BY <3>2
        <4> HIDE DEF k
        <4> QED
          BY <1>0, <4>1
      <3> HIDE DEF k
      <3> QED
        BY <3>1, <3>2 DEF Upto
    <2> HIDE DEF k
    <2>2. g[n] = h[n]
      <3>1. m >= n
        OBVIOUS
      <3> QED
        BY <1>5, <2>1, <3>1
    <2>3. g[n + 1] = step[g[n]] /\ h[n + 1] = step[h[n]]
      <3>1. n < n + 1 /\ n < m
        OBVIOUS
      <3> QED
        BY <1>0, <3>1
    <2> QED
      BY <2>2, <2>3
  <1>6. \A n \in Nat : n \in U
    <2> HIDE DEF U
    <2> QED
      BY <1>4, <1>5, Induction
  <1> DEFINE pick == [n \in Nat |-> CHOOSE h : h \in Up(n)]
             g == [n \in Nat |-> pick[n][n]]
  <1>7. ASSUME NEW n \in Nat PROVE pick[n] \in Up(n)
    <2>1. Up(n) # {}
      BY <1>3
    <2> QED
      BY <2>1
  <1>8. ASSUME NEW n \in Nat PROVE pick[n + 1][n] = pick[n][n]
    <2>1. n \in U /\ n + 1 >= n /\ n + 1 \in Nat
      BY <1>6
    <2>2. pick[n] \in Up(n) /\ pick[n + 1] \in Up(n + 1)
      BY <1>7
    <2> HIDE DEF pick
    <2> QED
      BY <2>1, <2>2
  <1> HIDE DEF pick
  <1>9. g \in [Nat -> T] /\ g[0] = base
    BY <1>0, <1>7
  <1>10. ASSUME NEW n \in Nat PROVE g[n + 1] = step[g[n]]
    <2>1. pick[n + 1] \in Up(n + 1) /\ n < n + 1
      BY <1>7
    <2>2. pick[n + 1][n + 1] = step[pick[n + 1][n]]
      BY <1>0, <2>1
    <2> QED
      BY <1>8, <2>2
  <1> QED
    BY <1>9, <1>10
-----------------------------------------------------------------------------
\* Induction over the subsets of a finite set, an element more at a time.
LEMMA SubsetInduction ==
  ASSUME NEW S, IsFiniteSet(S), NEW G, {} \in G,
         \A s \in SUBSET S : s # {} /\ (\A x \in s : s \ {x} \in G) => s \in G
  PROVE  \A s \in SUBSET S : s \in G
  <1> DEFINE N == {n \in Nat : \A s \in SUBSET S : Cardinality(s) = n => s \in G}
  <1>1. ASSUME NEW s \in SUBSET S
        PROVE  IsFiniteSet(s) /\ Cardinality(s) \in Nat
    BY FS_Subset, FS_CardinalityType
  <1>2. 0 \in N
    BY <1>1, FS_EmptySet
  <1>3. ASSUME NEW n \in Nat, n \in N PROVE n + 1 \in N
    <2> SUFFICES ASSUME NEW s \in SUBSET S, Cardinality(s) = n + 1 PROVE s \in G
      OBVIOUS
    <2>1. s # {}
      BY FS_EmptySet
    <2>2. ASSUME NEW x \in s PROVE s \ {x} \in G
      <3>1. Cardinality(s \ {x}) = n
        BY <1>1, FS_RemoveElement
      <3> QED
        BY <1>3, <3>1
    <2> QED
      BY <2>1, <2>2
  <1>4. \A n \in Nat : n \in N
    <2> HIDE DEF N
    <2> QED
      BY <1>2, <1>3, Induction
  <1> QED
    BY <1>1, <1>4

-----------------------------------------------------------------------------
(* The recursion of SumFunctionOnSet *)

Pick(s) == CHOOSE x \in s : TRUE

\* h sums f over every subset of S.
IsSum(h, f, S) ==
  h = [s \in SUBSET S |-> IF s = {} THEN 0 ELSE f[Pick(s)] + h[s \ {Pick(s)}]]

LEMMA Picked ==
  ASSUME NEW S, NEW s \in SUBSET S, s # {}
  PROVE  Pick(s) \in s /\ Pick(s) \in S /\ s \ {Pick(s)} \in SUBSET S
  <1>1. Pick(s) \in s
    BY DEF Pick
  <1> QED
    BY <1>1

LEMMA SumExists ==
  ASSUME NEW S, IsFiniteSet(S), NEW f, \A x \in S : f[x] \in Int
  PROVE  \E h : IsSum(h, f, S)
  <1> DEFINE T == [SUBSET S -> Int]
             zero == [s \in SUBSET S |-> 0]
             more(G) == [s \in SUBSET S |->
                           IF s = {} THEN 0 ELSE f[Pick(s)] + G[s \ {Pick(s)}]]
             step == [G \in T |-> more(G)]
  <1>2. zero \in T
    OBVIOUS
  <1>3. step \in [T -> T]
    <2>1. ASSUME NEW G \in T PROVE more(G) \in T
      <3> SUFFICES ASSUME NEW s \in SUBSET S, s # {}
                   PROVE  f[Pick(s)] + G[s \ {Pick(s)}] \in Int
        OBVIOUS
      <3> QED
        BY Picked
    <2> HIDE DEF T, more
    <2> QED
      BY <2>1
  <1>4. PICK H \in [Nat -> T] : H[0] = zero /\ \A n \in Nat : H[n + 1] = step[H[n]]
    <2> HIDE DEF T, zero, step
    <2> QED
      BY <1>2, <1>3, Recursion
  <1>5. ASSUME NEW s \in SUBSET S
        PROVE  IsFiniteSet(s) /\ Cardinality(s) \in Nat
    BY FS_Subset, FS_CardinalityType
  <1> DEFINE h == [s \in SUBSET S |-> H[Cardinality(s)][s]]
  <1>7. ASSUME NEW s \in SUBSET S
        PROVE  h[s] = IF s = {} THEN 0 ELSE f[Pick(s)] + h[s \ {Pick(s)}]
    <2>1. CASE s = {}
      BY <1>4, <2>1, FS_EmptySet
    <2>2. CASE s # {}
      <3> DEFINE r == s \ {Pick(s)}
      <3>1. r \in SUBSET S /\ Pick(s) \in s
        BY Picked, <2>2
      <3>2. Cardinality(r) = Cardinality(s) - 1 /\ Cardinality(r) \in Nat
        BY <1>5, <3>1, FS_RemoveElement
      <3>3. H[Cardinality(r) + 1] = more(H[Cardinality(r)])
        BY <1>4, <3>2
      <3>4. Cardinality(r) + 1 = Cardinality(s)
        BY <1>5, <3>2
      <3>5. H[Cardinality(s)][s] = f[Pick(s)] + H[Cardinality(r)][r]
        BY <2>2, <3>3, <3>4
      <3> QED
        BY <2>2, <3>1, <3>5
    <2> QED
      BY <2>1, <2>2
  <1>8. h = [s \in SUBSET S |-> h[s]]
    OBVIOUS
  <1> HIDE DEF h
  <1> QED
    BY <1>7, <1>8 DEF IsSum

\* SumFunctionOnSet is such a sum at S.
LEMMA SumIs ==
  ASSUME NEW S, IsFiniteSet(S), NEW f, \A x \in S : f[x] \in Int
  PROVE  \E h : IsSum(h, f, S) /\ SumFunctionOnSet(f, S) = h[S]
  <1> DEFINE Eq(h) == h = [s \in SUBSET S |-> IF s = {} THEN 0
                             ELSE f[CHOOSE x \in s : TRUE] + h[s \ {CHOOSE x \in s : TRUE}]]
             iter == CHOOSE h : Eq(h)
  <1>1. \A h : IsSum(h, f, S) <=> Eq(h)
    BY DEF IsSum, Pick
  <1>2. \E h : Eq(h)
    <2> HIDE DEF Eq
    <2> QED
      BY <1>1, SumExists
  <1>3. Eq(iter)
    <2> HIDE DEF Eq
    <2> QED
      BY <1>2
  <1>4. SumFunctionOnSet(f, S) = iter[S]
    BY DEF SumFunctionOnSet, FoldFunctionOnSet, MapThenFoldSet
  <1> HIDE DEF iter, Eq
  <1> QED
    BY <1>1, <1>3, <1>4

\* h sums f over every subset of S: an integer each.
LEMMA SumInt ==
  ASSUME NEW S, IsFiniteSet(S), NEW f, \A x \in S : f[x] \in Int,
         NEW h, IsSum(h, f, S)
  PROVE  /\ h[{}] = 0
         /\ \A s \in SUBSET S : h[s] \in Int
  <1> DEFINE G == {s \in SUBSET S : h[s] \in Int}
  <1>1. ASSUME NEW s \in SUBSET S
        PROVE  h[s] = IF s = {} THEN 0 ELSE f[Pick(s)] + h[s \ {Pick(s)}]
    BY DEF IsSum
  <1>2. h[{}] = 0
    <2>1. {} \in SUBSET S
      OBVIOUS
    <2> QED
      BY <1>1, <2>1
  <1>3. {} \in G
    BY <1>2
  <1>4. ASSUME NEW s \in SUBSET S, s # {}, \A x \in s : s \ {x} \in G
        PROVE  s \in G
    <2>1. Pick(s) \in s /\ Pick(s) \in S
      BY <1>4, Picked
    <2>2. h[s] = f[Pick(s)] + h[s \ {Pick(s)}]
      BY <1>1, <1>4
    <2>3. h[s \ {Pick(s)}] \in Int /\ f[Pick(s)] \in Int
      BY <1>4, <2>1
    <2> QED
      BY <2>2, <2>3
  <1> HIDE DEF G
  <1>5. \A s \in SUBSET S : s \in G
    BY <1>3, <1>4, SubsetInduction
  <1> QED
    BY <1>2, <1>5 DEF G

\* Whichever element leaves the set first, the sum is the same.
LEMMA SumOrder ==
  ASSUME NEW S, IsFiniteSet(S), NEW f, \A x \in S : f[x] \in Int,
         NEW h, IsSum(h, f, S), NEW t \in SUBSET S, NEW z \in t
  PROVE  h[t] = f[z] + h[t \ {z}]
  <1> DEFINE G == {s \in SUBSET S : \A x \in s : h[s] = f[x] + h[s \ {x}]}
  <1>1. \A s \in SUBSET S : h[s] \in Int
    BY SumInt
  <1>2. {} \in G
    OBVIOUS
  <1>3. ASSUME NEW s \in SUBSET S, s # {}, \A x \in s : s \ {x} \in G
        PROVE  s \in G
    <2> DEFINE c == Pick(s)
    <2>1. c \in s /\ c \in S
      BY <1>3, Picked
    <2>2. h[s] = f[c] + h[s \ {c}]
      BY <1>3 DEF IsSum
    <2> HIDE DEF c
    <2>4. ASSUME NEW x \in s, x # c PROVE h[s] = f[x] + h[s \ {x}]
      <3>1. h[s \ {c}] = f[x] + h[(s \ {c}) \ {x}]
        BY <1>3, <2>1, <2>4
      <3>2. h[s \ {x}] = f[c] + h[(s \ {x}) \ {c}]
        BY <1>3, <2>1, <2>4
      <3>3. (s \ {c}) \ {x} = (s \ {x}) \ {c}
        OBVIOUS
      <3>4. f[c] \in Int /\ f[x] \in Int /\ h[(s \ {c}) \ {x}] \in Int
        BY <1>1, <2>1
      <3>5. h[s] = f[c] + (f[x] + h[(s \ {c}) \ {x}])
        BY <2>2, <3>1
      <3>6. h[s \ {x}] = f[c] + h[(s \ {c}) \ {x}]
        BY <3>2, <3>3
      <3>7. \A a, b, d \in Int : a + (b + d) = b + (a + d)
        OBVIOUS
      <3> QED
        BY <3>4, <3>5, <3>6, <3>7
    <2> QED
      BY <2>2, <2>4
  <1> HIDE DEF G
  <1>4. \A s \in SUBSET S : s \in G
    BY <1>2, <1>3, SubsetInduction
  <1> QED
    BY <1>4 DEF G

\* The sums over the subsets of a set do not depend on the set.
LEMMA SumLocal ==
  ASSUME NEW S, IsFiniteSet(S), NEW T \in SUBSET S,
         NEW f, NEW g, \A x \in T : f[x] = g[x],
         NEW h, IsSum(h, f, S), NEW k, IsSum(k, g, T)
  PROVE  \A s \in SUBSET T : h[s] = k[s]
  <1> DEFINE G == {s \in SUBSET T : h[s] = k[s]}
  <1>1. {} \in G
    <2>1. {} \in SUBSET S /\ {} \in SUBSET T
      OBVIOUS
    <2>2. h[{}] = 0 /\ k[{}] = 0
      BY <2>1 DEF IsSum
    <2> QED
      BY <2>1, <2>2
  <1>2. ASSUME NEW s \in SUBSET T, s # {}, \A x \in s : s \ {x} \in G
        PROVE  s \in G
    <2>1. Pick(s) \in s /\ Pick(s) \in T
      BY <1>2, Picked
    <2>2. h[s] = f[Pick(s)] + h[s \ {Pick(s)}]
      <3>1. s \in SUBSET S
        OBVIOUS
      <3> QED
        BY <1>2, <3>1 DEF IsSum
    <2>3. k[s] = g[Pick(s)] + k[s \ {Pick(s)}]
      BY <1>2 DEF IsSum
    <2> QED
      BY <1>2, <2>1, <2>2, <2>3
  <1>3. IsFiniteSet(T)
    BY FS_Subset
  <1> HIDE DEF G
  <1>4. \A s \in SUBSET T : s \in G
    BY <1>1, <1>2, <1>3, SubsetInduction
  <1> QED
    BY <1>4 DEF G

-----------------------------------------------------------------------------
(* What users of SumFunctionOnSet need *)

LEMMA SumEmpty ==
  ASSUME NEW f
  PROVE  SumFunctionOnSet(f, {}) = 0
  <1>1. IsFiniteSet({}) /\ \A x \in {} : f[x] \in Int
    BY FS_EmptySet
  <1> QED
    BY <1>1, SumIs, SumInt

LEMMA SumAdd ==
  ASSUME NEW S, IsFiniteSet(S), NEW f, \A y \in S : f[y] \in Int, NEW x \in S
  PROVE  /\ SumFunctionOnSet(f, S) \in Int
         /\ SumFunctionOnSet(f, S \ {x}) \in Int
         /\ SumFunctionOnSet(f, S) = f[x] + SumFunctionOnSet(f, S \ {x})
  <1> DEFINE T == S \ {x}
  <1>1. IsFiniteSet(T) /\ T \in SUBSET S /\ \A y \in T : f[y] \in Int
    BY FS_Subset
  <1>2. PICK h : IsSum(h, f, S) /\ SumFunctionOnSet(f, S) = h[S]
    BY SumIs
  <1>3. PICK k : IsSum(k, f, T) /\ SumFunctionOnSet(f, T) = k[T]
    BY <1>1, SumIs
  <1>4. h[T] = k[T]
    <2> HIDE DEF T
    <2>1. \A s \in SUBSET T : h[s] = k[s]
      BY <1>1, <1>2, <1>3, SumLocal
    <2> QED
      BY <2>1
  <1>5. h[S] \in Int /\ h[T] \in Int
    BY <1>1, <1>2, SumInt
  <1>6. S \in SUBSET S
    OBVIOUS
  <1>7. h[S] = f[x] + h[S \ {x}]
    <2>1. IsSum(h, f, S)
      BY <1>2
    <2> QED
      BY <1>6, <2>1, SumOrder
  <1> QED
    BY <1>2, <1>3, <1>4, <1>5, <1>7

\* Two functions that agree on a set have the same sum over it.
LEMMA SumSame ==
  ASSUME NEW S, IsFiniteSet(S), NEW f, NEW g, \A x \in S : f[x] \in Int /\ g[x] = f[x]
  PROVE  SumFunctionOnSet(f, S) = SumFunctionOnSet(g, S)
  <1>1. PICK h : IsSum(h, f, S) /\ SumFunctionOnSet(f, S) = h[S]
    BY SumIs
  <1>2. PICK k : IsSum(k, g, S) /\ SumFunctionOnSet(g, S) = k[S]
    BY SumIs
  <1>3. IsSum(h, f, S) /\ IsSum(k, g, S)
    BY <1>1, <1>2
  <1>4. S \in SUBSET S /\ \A x \in S : f[x] = g[x]
    OBVIOUS
  <1>5. \A s \in SUBSET S : h[s] = k[s]
    BY <1>3, <1>4, SumLocal
  <1> QED
    BY <1>1, <1>2, <1>4, <1>5

\* The sum of naturals is one.
LEMMA SumNat ==
  ASSUME NEW S, IsFiniteSet(S), NEW f, \A x \in S : f[x] \in Nat
  PROVE  SumFunctionOnSet(f, S) \in Nat
  <1> DEFINE G == {s \in SUBSET S : SumFunctionOnSet(f, s) \in Nat}
  <1>1. {} \in G
    BY SumEmpty
  <1>2. ASSUME NEW s \in SUBSET S, s # {}, \A x \in s : s \ {x} \in G
        PROVE  s \in G
    <2>1. PICK x : x \in s
      BY <1>2
    <2>2. IsFiniteSet(s) /\ \A y \in s : f[y] \in Int
      BY FS_Subset
    <2>3. SumFunctionOnSet(f, s) = f[x] + SumFunctionOnSet(f, s \ {x})
      BY <2>1, <2>2, SumAdd
    <2> QED
      BY <1>2, <2>1, <2>3
  <1> HIDE DEF G
  <1>3. \A s \in SUBSET S : s \in G
    BY <1>1, <1>2, SubsetInduction
  <1> QED
    BY <1>3 DEF G

\* A set has at least the sum of its subsets.
LEMMA SumSubset ==
  ASSUME NEW S, IsFiniteSet(S), NEW f, \A x \in S : f[x] \in Nat, NEW T \in SUBSET S
  PROVE  SumFunctionOnSet(f, T) <= SumFunctionOnSet(f, S)
  <1> DEFINE G == {s \in SUBSET S : T \subseteq s =>
                     SumFunctionOnSet(f, T) <= SumFunctionOnSet(f, s)}
  <1>1. ASSUME NEW s \in SUBSET S
        PROVE  /\ IsFiniteSet(s)
               /\ \A x \in s : f[x] \in Nat
               /\ \A x \in s : f[x] \in Int
               /\ SumFunctionOnSet(f, s) \in Nat
    <2>1. IsFiniteSet(s) /\ \A x \in s : f[x] \in Nat
      BY FS_Subset
    <2> QED
      BY <2>1, SumNat
  <1>2. {} \in G
    <2>1. ASSUME T \subseteq {} PROVE SumFunctionOnSet(f, T) <= SumFunctionOnSet(f, {})
      <3>1. T = {}
        BY <2>1
      <3> QED
        BY <1>1, <3>1
    <2> QED
      BY <2>1
  <1>3. ASSUME NEW s \in SUBSET S, s # {}, \A x \in s : s \ {x} \in G
        PROVE  s \in G
    <2> SUFFICES ASSUME T \subseteq s, T # s
                 PROVE  SumFunctionOnSet(f, T) <= SumFunctionOnSet(f, s)
      BY <1>1
    <2>1. PICK x \in s : x \notin T
      OBVIOUS
    <2>2. SumFunctionOnSet(f, T) <= SumFunctionOnSet(f, s \ {x})
      BY <1>3, <2>1
    <2>3. SumFunctionOnSet(f, s) = f[x] + SumFunctionOnSet(f, s \ {x})
      BY <1>1, SumAdd
    <2>4. /\ f[x] \in Nat
          /\ SumFunctionOnSet(f, s \ {x}) \in Nat
          /\ SumFunctionOnSet(f, T) \in Nat
      BY <1>1, s \ {x} \in SUBSET S
    <2> QED
      BY <2>2, <2>3, <2>4
  <1> HIDE DEF G
  <1>4. \A s \in SUBSET S : s \in G
    BY <1>2, <1>3, SubsetInduction
  <1> QED
    BY <1>4 DEF G

=============================================================================

------------------------------ MODULE Induction ------------------------------
(***************************************************************************)
(* Induction without operator parameters: the property is a set of numbers,  *)
(* so that every instance is a first-order fact. From it follow what a      *)
(* function defined by recursion is at each argument, and what the sums of   *)
(* FiniteSetsExt (MapThenSumSet, a CHOOSE of a table of all subsets) are.    *)
(***************************************************************************)
EXTENDS Integers, FiniteSetTheorems, WellFoundedInduction, TLAPS

(* Every set of natural numbers that has an element has a least one.          *)
LEMMA Least ==
  ASSUME NEW T, T \subseteq Nat, T # {}
  PROVE  \E x \in T : \A y \in T : x <= y
<1>1. \E x \in T : \A y \in T : ~(<<y, x>> \in OpToRel(<, Nat))
  BY NatLessThanWellFounded, WFMin, Zenon
<1>2. \E x \in T : \A y \in T : ~(y < x)
  BY <1>1, Zenon DEF OpToRel
<1>. QED  BY <1>2

(* Induction over an interval, for the numbers of a set.                      *)
LEMMA Upwards ==
  ASSUME NEW lo \in Int, NEW hi \in Int, NEW G, lo \in G,
         \A i \in lo..(hi - 1) : i \in G => i + 1 \in G
  PROVE  \A i \in lo..hi : i \in G
<1>. SUFFICES ASSUME NEW i \in lo..hi, i \notin G
              PROVE  FALSE
  OBVIOUS
<1>. DEFINE T == {k \in Nat : lo + k \in lo..hi /\ lo + k \notin G}
<1>1. i - lo \in T
  OBVIOUS
<1>2. PICK k \in T : \A j \in T : k <= j
  BY <1>1, Least
<1>3. k # 0
  OBVIOUS
<1>4. k - 1 \in Nat /\ lo + (k - 1) \in lo..(hi - 1)
  BY <1>3
<1>5. lo + (k - 1) \in G
  BY <1>2, <1>4
<1>6. lo + k \in G
  <2>1. (lo + (k - 1)) + 1 = lo + k
    OBVIOUS
  <2>. QED  BY <1>4, <1>5, <2>1
<1>. QED  BY <1>6

(* A set of numbers that is bounded has a greatest one.                      *)
LEMMA Greatest ==
  ASSUME NEW lo \in Int, NEW hi \in Int, NEW T, T \subseteq lo..hi, T # {}
  PROVE  \E x \in T : \A y \in T : x >= y
<1>. DEFINE D == {hi - x : x \in T}
<1>1. D \subseteq Nat /\ D # {}
  OBVIOUS
<1>. HIDE DEF D
<1>2. PICK d \in D : \A e \in D : d <= e
  BY <1>1, Least
<1>3. PICK x \in T : d = hi - x
  BY <1>2 DEF D
<1>4. \A y \in T : hi - y \in D
  BY DEF D
<1>5. \A y \in T : x >= y
  BY <1>2, <1>3, <1>4
<1>. QED  BY <1>3, <1>5

(* h begins with v and applies F at every step.                              *)
Follows(h, lo, hi, v, F) ==
  h[lo] = v /\ \A i \in (lo + 1)..hi : h[i] = F[i][h[i - 1]]

(* There is a function that does.                                           *)
LEMMA Recursion ==
  ASSUME NEW lo \in Int, NEW hi \in Int, lo <= hi, NEW V, NEW v \in V,
         NEW F \in [(lo + 1)..hi -> [V -> V]]
  PROVE  \E h \in [lo..hi -> V] : Follows(h, lo, hi, v, F)
<1>. DEFINE Reaches(m, h) == Follows(h, lo, m, v, F)
            G == {m \in lo..hi : \E h \in [lo..m -> V] : Reaches(m, h)}
<1>1. lo \in G
  <2>1. Reaches(lo, [i \in lo..lo |-> v])
    BY DEF Follows
  <2>. QED  BY <2>1
<1>2. ASSUME NEW m \in lo..(hi - 1), m \in G
      PROVE  m + 1 \in G
  <2>1. PICK h \in [lo..m -> V] : Reaches(m, h)
    BY <1>2
  <2>. DEFINE k == [i \in lo..(m + 1) |-> IF i <= m THEN h[i] ELSE F[m + 1][h[m]]]
  <2>2. k \in [lo..(m + 1) -> V]
    OBVIOUS
  <2>3. \A i \in (lo + 1)..(m + 1) : k[i] = F[i][k[i - 1]]
    <3>. TAKE i \in (lo + 1)..(m + 1)
    <3>1. CASE i <= m
      BY <2>1, <3>1 DEF Follows
    <3>2. CASE i = m + 1
      <4>1. k[i] = F[m + 1][h[m]] /\ k[i - 1] = h[m]
        BY <3>2
      <4>. QED  BY <3>2, <4>1
    <3>. QED  BY <3>1, <3>2
  <2>4. k[lo] = v
    BY <2>1 DEF Follows
  <2>5. Reaches(m + 1, k)
    BY <2>3, <2>4 DEF Follows
  <2>. HIDE DEF k, Reaches
  <2>. QED  BY <2>2, <2>5
<1>. HIDE DEF G
<1>3. \A m \in lo..hi : m \in G
  BY <1>1, <1>2, Upwards
<1>. QED  BY <1>3 DEF G

-----------------------------------------------------------------------------
(* Sums over finite sets, as the community modules define them: a table of the *)
(* sums of all subsets, each made of one element and the sum of the others.   *)
Table(f, S, g) ==
  [s \in SUBSET S |->
     IF s = {} THEN 0
     ELSE f[CHOOSE x \in s : TRUE] + g[s \ {CHOOSE x \in s : TRUE}]]

SumOver(f, S) == (CHOOSE g : g = Table(f, S, g))[S]

(* The values that are summed, and the element that the table takes first.    *)
Numbers(f, S) == \A x \in S : f[x] \in Int

One(s) == CHOOSE x \in s : TRUE

(* The choice is one of the set.                                            *)
LEMMA OneIn == \A s : s # {} => One(s) \in s
  BY DEF One

(* The subsets of a finite set are finite, and smaller by one without one.     *)
LEMMA Smallish ==
  ASSUME NEW S, IsFiniteSet(S), NEW s \in SUBSET S
  PROVE  /\ IsFiniteSet(s) /\ Cardinality(s) \in 0..Cardinality(S)
         /\ s # {} => /\ s \ {One(s)} \in SUBSET S
                      /\ Cardinality(s \ {One(s)}) = Cardinality(s) - 1
                      /\ Cardinality(s) > 0
<1>1. IsFiniteSet(s) /\ Cardinality(s) \in Nat /\ Cardinality(S) \in Nat
      /\ Cardinality(s) <= Cardinality(S)
  BY FS_Subset, FS_CardinalityType
<1>2. s # {} => Cardinality(s \ {One(s)}) = Cardinality(s) - 1
  BY <1>1, OneIn, FS_RemoveElement
<1>3. s # {} => Cardinality(s) > 0
  BY <1>1, FS_EmptySet
<1>. QED  BY <1>1, <1>2, <1>3

(* The table exists: it is made for larger and larger subsets.               *)
LEMMA TableExists ==
  ASSUME NEW S, IsFiniteSet(S), NEW f, Numbers(f, S)
  PROVE  \E g \in [SUBSET S -> Int] : g = Table(f, S, g)
<1>. DEFINE Up(k) == {s \in SUBSET S : Cardinality(s) <= k}
            Right(k, h) ==
              \A s \in Up(k) :
                h[s] = IF s = {} THEN 0 ELSE f[One(s)] + h[s \ {One(s)}]
            G == {k \in 0..Cardinality(S) : \E h \in [Up(k) -> Int] : Right(k, h)}
<1>0. Cardinality(S) \in Nat
  BY FS_CardinalityType
<1>a. \A s \in SUBSET S :
        /\ Cardinality(s) \in Nat /\ Cardinality(s) <= Cardinality(S)
        /\ s # {} => /\ s \ {One(s)} \in SUBSET S
                     /\ Cardinality(s \ {One(s)}) = Cardinality(s) - 1
                     /\ Cardinality(s) > 0
  <2>. TAKE s \in SUBSET S
  <2>. QED  BY <1>0, Smallish
<1>1. 0 \in G
  <2>1. ASSUME NEW s \in Up(0) PROVE s = {}
    <3>1. s \in SUBSET S /\ Cardinality(s) <= 0
      OBVIOUS
    <3>2. Cardinality(s) \in Nat /\ (s # {} => Cardinality(s) > 0)
      BY <3>1, <1>a
    <3>. HIDE DEF Up
    <3>. QED  BY <3>1, <3>2
  <2>. DEFINE h == [s \in Up(0) |-> 0]
  <2>2. Right(0, h)
    <3>. HIDE DEF Up
    <3>. QED  BY <2>1
  <2>3. h \in [Up(0) -> Int]
    <3>. HIDE DEF Up
    <3>. QED  OBVIOUS
  <2>. HIDE DEF h, Right, Up
  <2>. QED  BY <1>0, <2>2, <2>3
<1>2. ASSUME NEW k \in 0..(Cardinality(S) - 1), k \in G
      PROVE  k + 1 \in G
  <2>1. PICK h \in [Up(k) -> Int] : Right(k, h)
    BY <1>2
  <2>. DEFINE u == [s \in Up(k + 1) |->
                      IF s = {} THEN 0 ELSE f[One(s)] + h[s \ {One(s)}]]
  <2>2. ASSUME NEW s \in Up(k + 1), s # {}
        PROVE  s \ {One(s)} \in Up(k) /\ One(s) \in S
    <3>1. s \in SUBSET S /\ Cardinality(s) <= k + 1
      OBVIOUS
    <3>2. /\ s \ {One(s)} \in SUBSET S
          /\ Cardinality(s \ {One(s)}) = Cardinality(s) - 1 /\ Cardinality(s) \in Nat
      BY <2>2, <3>1, <1>a
    <3>3. One(s) \in s
      BY <2>2, OneIn
    <3>. QED  BY <3>1, <3>2, <3>3
  <2>3. u \in [Up(k + 1) -> Int]
    <3>. HIDE DEF Up
    <3>. QED  BY <2>2 DEF Numbers
  <2>4. ASSUME NEW s \in Up(k)
        PROVE  s \in Up(k + 1) /\ u[s] = h[s]
    <3>1. s \in SUBSET S /\ Cardinality(s) <= k
      OBVIOUS
    <3>2. Cardinality(s) \in Nat
      BY <3>1, <1>a
    <3>3. s \in Up(k + 1)
      BY <3>1, <3>2
    <3>. HIDE DEF Up
    <3>. QED  BY <2>1, <3>3
  <2>5. Right(k + 1, u)
    <3>. HIDE DEF Up
    <3>. QED  BY <2>2, <2>4
  <2>. HIDE DEF u, Right, Up
  <2>. QED  BY <1>0, <2>3, <2>5
<1>3. Cardinality(S) \in G
  <2>. DEFINE lo == 0
              hi == Cardinality(S)
  <2>0. lo \in Int /\ hi \in Int /\ hi \in lo..hi
    BY <1>0
  <2>1. lo \in G
    BY <1>1
  <2>2. \A k \in lo..(hi - 1) : k \in G => k + 1 \in G
    BY <1>2
  <2>. HIDE DEF G, lo, hi
  <2>3. \A k \in lo..hi : k \in G
    BY <2>0, <2>1, <2>2, Upwards
  <2>4. hi \in G
    BY <2>0, <2>3
  <2>. QED  BY <2>4 DEF hi
<1>4. PICK h \in [Up(Cardinality(S)) -> Int] : Right(Cardinality(S), h)
  BY <1>3
<1>5. Up(Cardinality(S)) = SUBSET S
  <2>1. ASSUME NEW s \in SUBSET S PROVE s \in Up(Cardinality(S))
    BY <1>0, <1>a
  <2>. QED  BY <2>1
<1>. HIDE DEF Up
<1>6. h = Table(f, S, h)
  BY <1>4, <1>5 DEF Table, One
<1>. QED  BY <1>4, <1>5, <1>6

(* There is one such table, whichever set of which S is a part it is made for. *)
LEMMA TablesAgree ==
  ASSUME NEW S, IsFiniteSet(S), NEW U, S \subseteq U, NEW f,
         NEW g, g = Table(f, S, g), NEW h, h = Table(f, U, h)
  PROVE  \A s \in SUBSET S : g[s] = h[s]
<1>. DEFINE Rest(s) == s \ {One(s)}
            T == {k \in Nat : \E s \in SUBSET S : Cardinality(s) = k /\ g[s] # h[s]}
<1>1. \A s \in SUBSET S : g[s] = IF s = {} THEN 0 ELSE f[One(s)] + g[Rest(s)]
  BY DEF Table, One
<1>2. \A s \in SUBSET S : h[s] = IF s = {} THEN 0 ELSE f[One(s)] + h[Rest(s)]
  <2>1. \A s \in SUBSET U : h[s] = IF s = {} THEN 0 ELSE f[One(s)] + h[Rest(s)]
    BY DEF Table, One
  <2>. QED  BY <2>1
<1>. SUFFICES ASSUME NEW z \in SUBSET S, g[z] # h[z]
              PROVE  FALSE
  OBVIOUS
<1>3. Cardinality(z) \in T
  BY Smallish, FS_CardinalityType
<1>4. PICK k \in T : \A j \in T : k <= j
  BY <1>3, Least
<1>5. PICK s \in SUBSET S : Cardinality(s) = k /\ g[s] # h[s]
  BY <1>4
<1>6. s # {}
  BY <1>1, <1>2, <1>5
<1>7. Rest(s) \in SUBSET S /\ Cardinality(Rest(s)) = k - 1 /\ k \in Nat /\ k > 0
  BY <1>4, <1>5, <1>6, Smallish
<1>8. g[Rest(s)] # h[Rest(s)]
  BY <1>1, <1>2, <1>5, <1>6
<1>9. k - 1 \in T
  BY <1>7, <1>8
<1>. QED  BY <1>4, <1>7, <1>9

(* The sum of a set is made of one element and the sum of the others, in the      *)
(* order of the choices that the table makes.                                *)
LEMMA SumUnfolds ==
  ASSUME NEW S, IsFiniteSet(S), NEW f, Numbers(f, S)
  PROVE  /\ SumOver(f, S) \in Int
         /\ SumOver(f, S) = IF S = {} THEN 0 ELSE f[One(S)] + SumOver(f, S \ {One(S)})
<1>. DEFINE g == CHOOSE h : h = Table(f, S, h)
            Rest == S \ {One(S)}
            r == CHOOSE h : h = Table(f, Rest, h)
<1>1. PICK t \in [SUBSET S -> Int] : t = Table(f, S, t)
  BY TableExists
<1>2. g = Table(f, S, g)
  BY <1>1, Zenon
<1>3. \A s \in SUBSET S : g[s] = t[s]
  <2>. HIDE DEF g
  <2>. QED  BY <1>1, <1>2, TablesAgree
<1>4. SumOver(f, S) = g[S]
  BY DEF SumOver
<1>5. IsFiniteSet(Rest) /\ Rest \subseteq S /\ Numbers(f, Rest)
  BY FS_Subset DEF Numbers
<1>6. r = Table(f, Rest, r)
  <2>1. \E h : h = Table(f, Rest, h)
    <3>. HIDE DEF Rest
    <3>. QED  BY <1>5, TableExists
  <2>. QED  BY <2>1, Zenon
<1>7. r[Rest] = g[Rest]
  <2>. HIDE DEF g, r, Rest
  <2>. QED  BY <1>2, <1>5, <1>6, TablesAgree
<1>8. SumOver(f, Rest) = r[Rest]
  BY DEF SumOver
<1>9. g[S] = IF S = {} THEN 0 ELSE f[One(S)] + g[Rest]
  <2>. HIDE DEF g
  <2>. QED  BY <1>2 DEF Table, One
<1>. HIDE DEF g, r
<1>. QED  BY <1>1, <1>3, <1>4, <1>7, <1>8, <1>9

(* Any element can be taken out of a sum.                                    *)
LEMMA SumAdd ==
  ASSUME NEW S, IsFiniteSet(S), NEW f, Numbers(f, S), NEW x \in S
  PROVE  SumOver(f, S) = f[x] + SumOver(f, S \ {x})
<1>. DEFINE Off(s, y) == SumOver(f, s) # f[y] + SumOver(f, s \ {y})
            T == {k \in Nat : \E s \in SUBSET S : Cardinality(s) = k
                                 /\ \E y \in s : Off(s, y)}
<1>. SUFFICES ASSUME Off(S, x)
              PROVE  FALSE
  OBVIOUS
<1>0. \A s \in SUBSET S : /\ IsFiniteSet(s) /\ Numbers(f, s) /\ SumOver(f, s) \in Int
                          /\ Cardinality(s) \in Nat
  BY FS_Subset, FS_CardinalityType, SumUnfolds DEF Numbers
<1>1. Cardinality(S) \in T
  <2>. HIDE DEF Off
  <2>. QED  BY <1>0
<1>2. PICK k \in T : \A j \in T : k <= j
  BY <1>1, Least
<1>3. PICK s \in SUBSET S : Cardinality(s) = k /\ \E y \in s : Off(s, y)
  BY <1>2
<1>3a. PICK y \in s : Off(s, y)
  BY <1>3
<1>. DEFINE z == One(s)
<1>4. z \in s /\ f[z] \in Int /\ f[y] \in Int
  BY <1>3a, OneIn DEF Numbers
<1>. HIDE DEF z
<1>5. SumOver(f, s) = f[z] + SumOver(f, s \ {z})
  BY <1>0, <1>3a, SumUnfolds DEF z
<1>6. z # y
  BY <1>3a, <1>5
<1>7. \A u \in s : Cardinality(s \ {u}) = k - 1 /\ s \ {u} \in SUBSET S
  BY <1>0, <1>3, FS_RemoveElement
<1>8. k \in Nat /\ k - 1 \in Nat
  BY <1>0, <1>7, <1>4
<1>9. \A u \in s : \A v \in s \ {u} : ~Off(s \ {u}, v)
  <2>1. k - 1 \notin T
    BY <1>2, <1>8
  <2>. HIDE DEF Off
  <2>. QED  BY <1>7, <1>8, <2>1
<1>10. SumOver(f, s \ {z}) = f[y] + SumOver(f, (s \ {z}) \ {y})
  BY <1>4, <1>6, <1>9
<1>11. SumOver(f, s \ {y}) = f[z] + SumOver(f, (s \ {y}) \ {z})
  BY <1>4, <1>6, <1>9
<1>12. (s \ {z}) \ {y} = (s \ {y}) \ {z} /\ (s \ {z}) \ {y} \in SUBSET S
  OBVIOUS
<1>13. SumOver(f, (s \ {z}) \ {y}) \in Int
  BY <1>0, <1>12
<1>. QED  BY <1>3a, <1>4, <1>5, <1>10, <1>11, <1>12, <1>13

(* The empty sum.                                                          *)
LEMMA SumNone == \A f : SumOver(f, {}) = 0
<1>. TAKE f
<1>1. IsFiniteSet({}) /\ Numbers(f, {})
  BY FS_EmptySet DEF Numbers
<1>. QED  BY <1>1, SumUnfolds

(* Only the values at the elements matter.                                   *)
LEMMA SumSame ==
  ASSUME NEW S, NEW f, NEW h, \A x \in S : f[x] = h[x]
  PROVE  SumOver(f, S) = SumOver(h, S)
<1>1. ASSUME NEW g PROVE Table(f, S, g) = Table(h, S, g)
  <2>1. \A s \in SUBSET S : s # {} => f[One(s)] = h[One(s)]
    BY OneIn
  <2>. QED  BY <2>1 DEF Table, One
<1>2. \A g : g = Table(f, S, g) <=> g = Table(h, S, g)
  BY <1>1
<1>3. (CHOOSE g : g = Table(f, S, g)) = (CHOOSE g : g = Table(h, S, g))
  BY <1>2
<1>. QED  BY <1>3 DEF SumOver

-----------------------------------------------------------------------------
(* Sums over intervals.                                                     *)
(* The sum of an interval and of one more.                                   *)
LEMMA SumUp ==
  ASSUME NEW lo \in Int, NEW k \in Int, lo <= k, NEW f, Numbers(f, lo..k)
  PROVE  /\ SumOver(f, lo..k) = SumOver(f, lo..(k - 1)) + f[k]
         /\ SumOver(f, lo..(k - 1)) \in Int /\ f[k] \in Int /\ SumOver(f, lo..k) \in Int
<1>1. IsFiniteSet(lo..k) /\ IsFiniteSet(lo..(k - 1)) /\ k \in lo..k
  BY FS_Interval
<1>2. (lo..k) \ {k} = lo..(k - 1)
  OBVIOUS
<1>3. Numbers(f, lo..(k - 1)) /\ f[k] \in Int
  BY DEF Numbers
<1>4. SumOver(f, lo..k) \in Int /\ SumOver(f, lo..(k - 1)) \in Int
  BY <1>1, <1>3, SumUnfolds
<1>5. SumOver(f, lo..k) = f[k] + SumOver(f, (lo..k) \ {k})
  BY <1>1, SumAdd
<1>6. SumOver(f, lo..k) = f[k] + SumOver(f, lo..(k - 1))
  BY <1>2, <1>5
<1>7. \A p, q \in Int : p + q = q + p
  OBVIOUS
<1>. QED  BY <1>3, <1>4, <1>6, <1>7

(* The interval that is empty.                                             *)
LEMMA SumNothing ==
  ASSUME NEW lo \in Int, NEW hi \in Int, hi < lo, NEW f
  PROVE  SumOver(f, lo..hi) = 0
<1>1. lo..hi = {}
  OBVIOUS
<1>. QED  BY <1>1, SumNone

(* A sum of numbers is a number.                                            *)
LEMMA SumOfInterval ==
  ASSUME NEW lo \in Int, NEW hi \in Int, NEW f, Numbers(f, lo..hi)
  PROVE  SumOver(f, lo..hi) \in Int
  BY FS_Interval, SumUnfolds

(* An interval that is cut in two.                                          *)
LEMMA SumSplit ==
  ASSUME NEW lo \in Int, NEW mid \in Int, NEW hi \in Int, lo <= mid + 1, mid <= hi,
         NEW f, Numbers(f, lo..hi)
  PROVE  SumOver(f, lo..hi) = SumOver(f, lo..mid) + SumOver(f, (mid + 1)..hi)
<1>. DEFINE Splits(k) == SumOver(f, lo..k) = SumOver(f, lo..mid) + SumOver(f, (mid + 1)..k)
            G == {k \in mid..hi : Splits(k)}
<1>1. mid \in G
  <2>1. SumOver(f, (mid + 1)..mid) = 0
    BY SumNothing
  <2>2. SumOver(f, lo..mid) \in Int
    BY SumOfInterval DEF Numbers
  <2>. QED  BY <2>1, <2>2
<1>2. ASSUME NEW k \in mid..(hi - 1), k \in G
      PROVE  k + 1 \in G
  <2>1. /\ lo \in Int /\ k + 1 \in Int /\ lo <= k + 1 /\ mid + 1 \in Int
        /\ mid + 1 <= k + 1 /\ (k + 1) - 1 = k /\ k + 1 \in mid..hi
        /\ lo..(k + 1) \subseteq lo..hi /\ (mid + 1)..(k + 1) \subseteq lo..hi
    OBVIOUS
  <2>2. Numbers(f, lo..(k + 1)) /\ Numbers(f, (mid + 1)..(k + 1))
    BY <2>1 DEF Numbers
  <2>3. /\ SumOver(f, lo..(k + 1)) = SumOver(f, lo..k) + f[k + 1]
        /\ SumOver(f, lo..k) \in Int /\ f[k + 1] \in Int
    BY <2>1, <2>2, SumUp
  <2>4. /\ SumOver(f, (mid + 1)..(k + 1)) = SumOver(f, (mid + 1)..k) + f[k + 1]
        /\ SumOver(f, (mid + 1)..k) \in Int
    BY <2>1, <2>2, SumUp
  <2>5. SumOver(f, lo..mid) \in Int
    BY SumOfInterval DEF Numbers
  <2>. QED  BY <1>2, <2>1, <2>3, <2>4, <2>5
<1>3. hi \in mid..hi
  OBVIOUS
<1>. HIDE DEF G
<1>4. hi \in G
  BY <1>1, <1>2, <1>3, Upwards
<1>. QED  BY <1>4 DEF G

(* A value that does not change.                                            *)
LEMMA SumConstant ==
  ASSUME NEW lo \in Int, NEW hi \in Int, lo <= hi + 1, NEW c \in Int,
         NEW f, \A k \in lo..hi : f[k] = c
  PROVE  SumOver(f, lo..hi) = c * (hi + 1 - lo)
<1>. DEFINE G == {k \in (lo - 1)..hi : SumOver(f, lo..k) = c * (k + 1 - lo)}
            start == lo - 1
<1>0. \A p \in Int : c * (p + 1) = c * p + c /\ c * 0 = 0 /\ c * p \in Int
  OBVIOUS
<1>1. start \in G
  <2>1. SumOver(f, lo..(lo - 1)) = 0
    BY SumNothing
  <2>. QED  BY <1>0, <2>1
<1>2. ASSUME NEW k \in start..(hi - 1), k \in G
      PROVE  k + 1 \in G
  <2>1. /\ k + 1 \in Int /\ lo <= k + 1 /\ (k + 1) - 1 = k /\ k + 1 \in start..hi
        /\ k + 1 \in lo..hi /\ lo..(k + 1) \subseteq lo..hi
    OBVIOUS
  <2>2. Numbers(f, lo..(k + 1))
    BY <2>1 DEF Numbers
  <2>3. SumOver(f, lo..(k + 1)) = SumOver(f, lo..k) + f[k + 1]
    BY <2>1, <2>2, SumUp
  <2>4. SumOver(f, lo..(k + 1)) = c * (k + 1 - lo) + c
    BY <1>2, <2>1, <2>3
  <2>5. (k + 1) + 1 - lo = (k + 1 - lo) + 1 /\ k + 1 - lo \in Int
    OBVIOUS
  <2>6. SumOver(f, lo..(k + 1)) = c * ((k + 1) + 1 - lo)
    BY <1>0, <2>4, <2>5
  <2>. QED  BY <2>1, <2>6
<1>3. hi \in start..hi /\ start \in Int
  OBVIOUS
<1>. HIDE DEF G, start
<1>4. hi \in G
  BY <1>1, <1>2, <1>3, Upwards
<1>. QED  BY <1>4 DEF G

(* If each value is at most b times its weight, so is the sum.                *)
LEMMA SumBounded ==
  ASSUME NEW n \in Nat, NEW f, Numbers(f, 1..n), NEW w, Numbers(w, 1..n),
         NEW b \in Int, \A k \in 1..n : f[k] <= b * w[k]
  PROVE  SumOver(f, 1..n) <= b * SumOver(w, 1..n)
<1>. DEFINE G == {k \in 0..n : SumOver(f, 1..k) <= b * SumOver(w, 1..k)}
<1>0. \A p, q \in Int : b * (p + q) = b * p + b * q /\ b * p \in Int /\ b * 0 = 0
  OBVIOUS
<1>1. 0 \in G
  <2>1. SumOver(f, 1..0) = 0 /\ SumOver(w, 1..0) = 0
    BY SumNothing
  <2>. QED  BY <1>0, <2>1
<1>2. ASSUME NEW k \in 0..(n - 1), k \in G
      PROVE  k + 1 \in G
  <2>1. /\ k + 1 \in Int /\ 1 <= k + 1 /\ (k + 1) - 1 = k /\ k + 1 \in 1..n
        /\ k + 1 \in 0..n /\ 1..(k + 1) \subseteq 1..n
    OBVIOUS
  <2>2. Numbers(f, 1..(k + 1)) /\ Numbers(w, 1..(k + 1))
    BY <2>1 DEF Numbers
  <2>3. /\ SumOver(f, 1..(k + 1)) = SumOver(f, 1..k) + f[k + 1]
        /\ SumOver(f, 1..k) \in Int /\ f[k + 1] \in Int
    BY <2>1, <2>2, SumUp
  <2>4. /\ SumOver(w, 1..(k + 1)) = SumOver(w, 1..k) + w[k + 1]
        /\ SumOver(w, 1..k) \in Int /\ w[k + 1] \in Int
    BY <2>1, <2>2, SumUp
  <2>5. b * SumOver(w, 1..(k + 1)) = b * SumOver(w, 1..k) + b * w[k + 1]
        /\ b * SumOver(w, 1..k) \in Int /\ b * w[k + 1] \in Int
    BY <1>0, <2>4
  <2>6. f[k + 1] <= b * w[k + 1] /\ SumOver(f, 1..k) <= b * SumOver(w, 1..k)
    BY <1>2, <2>1
  <2>. QED  BY <2>1, <2>3, <2>5, <2>6
<1>3. 0 \in Int /\ n \in Int /\ n \in 0..n
  OBVIOUS
<1>. HIDE DEF G
<1>4. n \in G
  BY <1>1, <1>2, <1>3, Upwards
<1>. QED  BY <1>4 DEF G

(* A sum of weights is positive if one of them is.                           *)
LEMMA SumPositive ==
  ASSUME NEW n \in Nat, NEW w, \A k \in 1..n : w[k] \in Nat,
         NEW j \in 1..n, w[j] > 0
  PROVE  SumOver(w, 1..n) \in Nat \ {0}
<1>. DEFINE G == {k \in 0..n : SumOver(w, 1..k) \in Nat /\ (j <= k => SumOver(w, 1..k) > 0)}
<1>1. 0 \in G
  <2>1. SumOver(w, 1..0) = 0
    BY SumNothing
  <2>. QED  BY <2>1
<1>2. ASSUME NEW k \in 0..(n - 1), k \in G
      PROVE  k + 1 \in G
  <2>1. /\ k + 1 \in Int /\ 1 <= k + 1 /\ (k + 1) - 1 = k /\ k + 1 \in 1..n
        /\ k + 1 \in 0..n /\ 1..(k + 1) \subseteq 1..n
    OBVIOUS
  <2>2. Numbers(w, 1..(k + 1)) /\ w[k + 1] \in Nat
    BY <2>1 DEF Numbers
  <2>3. SumOver(w, 1..(k + 1)) = SumOver(w, 1..k) + w[k + 1]
    BY <2>1, <2>2, SumUp
  <2>4. j <= k + 1 => j <= k \/ j = k + 1
    OBVIOUS
  <2>. QED  BY <1>2, <2>1, <2>2, <2>3, <2>4
<1>3. 0 \in Int /\ n \in Int /\ n \in 0..n
  OBVIOUS
<1>. HIDE DEF G
<1>4. n \in G
  BY <1>1, <1>2, <1>3, Upwards
<1>. QED  BY <1>4 DEF G
=============================================================================

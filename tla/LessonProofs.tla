---------------------------- MODULE LessonProofs ----------------------------
(***************************************************************************)
(* Proofs about LessonAnalysis, for lessons of any length, any answers of  *)
(* TIAS, and any settings.                                                 *)
(***************************************************************************)
EXTENDS LessonAnalysis, FiniteSetTheorems, TLAPS

-----------------------------------------------------------------------------
(* Counting upwards                                                        *)

LEMMA LeastNatural ==
  ASSUME NEW S \in SUBSET Nat, S # {}
  PROVE  \E n \in S : \A m \in S : n <= m
<1> DEFINE R == OpToRel(<, Nat)
<1>1. IsWellFoundedOn(R, Nat)
  BY NatLessThanWellFounded
<1>2. \A m, n \in Nat : m < n => <<m, n>> \in R
  BY DEF OpToRel
<1> HIDE DEF R
<1>3. PICK n \in S : \A m \in S : <<m, n>> \notin R
  BY <1>1, WFMin
<1>4. \A m \in S : ~(m < n)
  BY <1>2, <1>3
<1> QED BY <1>4

\* A set with 0, and with each number's successor up to n, has all up to n.
LEMMA CountUp ==
  ASSUME NEW n \in Nat, NEW G, 0 \in G, \A i \in 0 .. n - 1 : i \in G => i + 1 \in G
  PROVE  0 .. n \subseteq G
<1> DEFINE Missing == {i \in 0 .. n : i \notin G}
<1>1. SUFFICES ASSUME Missing # {} PROVE FALSE
  OBVIOUS
<1>2. PICK m \in Missing : \A i \in Missing : m <= i
  <2>1. Missing \in SUBSET Nat
    OBVIOUS
  <2> HIDE DEF Missing
  <2> QED BY <1>1, <2>1, LeastNatural
<1>3. m # 0 /\ m \in 1 .. n
  BY <1>2
<1>4. m - 1 \in 0 .. n - 1 /\ m - 1 \notin Missing
  BY <1>2, <1>3
<1>5. m - 1 + 1 \in G
  BY <1>4
<1> QED BY <1>2, <1>3, <1>5

\* f begins with base and goes from f[i - 1] to f[i] by step[i].
Steps(n, S) == [1 .. n -> [S -> S]]

Iterates(f, n, S, base, step) ==
  /\ f \in [0 .. n -> S]
  /\ f[0] = base
  /\ \A i \in 1 .. n : f[i] = step[i][f[i - 1]]

\* There is such a function, whatever the steps are.
LEMMA IterationExists ==
  ASSUME NEW n \in Nat, NEW S, NEW base \in S, NEW step \in Steps(n, S)
  PROVE  \E f : Iterates(f, n, S, base, step)
<1> DEFINE G == {m \in 0 .. n : \E f : Iterates(f, m, S, base, step)}
<1>1. 0 \in G
  <2>1. Iterates([i \in 0 .. 0 |-> base], 0, S, base, step)
    BY DEF Iterates
  <2> QED BY <2>1
<1>2. ASSUME NEW m \in 0 .. n - 1, m \in G PROVE m + 1 \in G
  <2>1. PICK f : Iterates(f, m, S, base, step)
    BY <1>2
  <2> DEFINE g == [i \in 0 .. m + 1 |-> IF i = m + 1 THEN step[m + 1][f[m]] ELSE f[i]]
  <2>2. step[m + 1][f[m]] \in S
    BY <2>1 DEF Steps, Iterates
  <2>3. g \in [0 .. m + 1 -> S] /\ g[0] = base
    BY <2>1, <2>2 DEF Iterates
  <2>4. ASSUME NEW i \in 1 .. m + 1 PROVE g[i] = step[i][g[i - 1]]
    <3>1. CASE i = m + 1
      <4>1. g[i] = step[m + 1][f[m]] /\ g[i - 1] = f[m]
        BY <3>1
      <4> QED BY <3>1, <4>1
    <3>2. CASE i # m + 1
      <4>1. i \in 1 .. m
        BY <3>2
      <4>2. g[i] = f[i] /\ g[i - 1] = f[i - 1]
        BY <4>1
      <4> QED BY <2>1, <4>1, <4>2 DEF Iterates
    <3> QED BY <3>1, <3>2
  <2> HIDE DEF g
  <2>5. Iterates(g, m + 1, S, base, step)
    BY <2>3, <2>4 DEF Iterates
  <2>6. m + 1 \in 0 .. n
    OBVIOUS
  <2> QED BY <2>5, <2>6
<1> HIDE DEF G
<1>3. 0 .. n \subseteq G
  BY <1>1, <1>2, CountUp
<1>4. n \in G
  BY <1>3
<1> QED BY <1>4 DEF G

-----------------------------------------------------------------------------
(* Alerts                                                                  *)

\* What the window holds after each frame.
LEMMA WindowSteps ==
  ASSUME NEW ts, Len(ts) \in Nat, NEW n \in Nat \ {0}
  PROVE  LET w == Window(ts, n)
         IN  /\ w \in [0 .. Len(ts) -> 0 .. n - 1]
             /\ w[0] = 0
             /\ \A i \in 1 .. Len(ts) :
                  w[i] = IF ~IsAlert(ts[i]) \/ w[i - 1] + 1 >= n THEN 0 ELSE w[i - 1] + 1
<1> DEFINE S == 0 .. n - 1
           Next1(v, i) == IF ~IsAlert(ts[i]) \/ v + 1 >= n THEN 0 ELSE v + 1
           step == [i \in 1 .. Len(ts) |-> [v \in S |-> Next1(v, i)]]
           Def(f) == [i \in 0 .. Len(ts) |->
                        IF i = 0 \/ ~IsAlert(ts[i]) \/ f[i - 1] + 1 >= n THEN 0 ELSE f[i - 1] + 1]
<1>1. step \in Steps(Len(ts), S) /\ 0 \in S
  BY DEF Steps
<1>2. \A v \in S : \A i \in 1 .. Len(ts) : step[i][v] = Next1(v, i)
  OBVIOUS
<1> HIDE DEF step, Next1
<1>3. PICK f : Iterates(f, Len(ts), S, 0, step)
  <2> HIDE DEF S
  <2> QED BY <1>1, IterationExists
<1>4. f[0] = 0 /\ \A i \in 1 .. Len(ts) : f[i] = Next1(f[i - 1], i)
  BY <1>2, <1>3 DEF Iterates
<1>5. f = Def(f)
  BY <1>3, <1>4 DEF Next1, Iterates
<1> DEFINE w == Window(ts, n)
<1>6. w = Def(w)
  BY <1>5 DEF Window
<1> HIDE DEF w
<1> DEFINE G == {i \in 0 .. Len(ts) : w[i] \in S}
<1>7. 0 \in G
  BY <1>6
<1>8. \A i \in 0 .. Len(ts) - 1 : i \in G => i + 1 \in G
  BY <1>6
<1> HIDE DEF G
<1>9. 0 .. Len(ts) \subseteq G
  BY <1>7, <1>8, CountUp
<1>10. w \in [0 .. Len(ts) -> S]
  BY <1>6, <1>9 DEF G
<1>11. w[0] = 0
  BY <1>6
<1>12. ASSUME NEW i \in 1 .. Len(ts) PROVE w[i] = Next1(w[i - 1], i)
  <2>1. i \in 0 .. Len(ts) /\ i # 0
    OBVIOUS
  <2> QED BY <1>6, <2>1 DEF Next1
<1> QED BY <1>10, <1>11, <1>12 DEF w, Next1

LEMMA QuotientIs ==
  ASSUME NEW n \in Nat \ {0}, NEW q \in Nat, NEW r \in 0 .. n - 1
  PROVE  (n * q + r) \div n = q
<1>1. PICK x \in Nat : x = n * q + r
  OBVIOUS
<1>2. PICK d \in Int : d = x \div n
  OBVIOUS
<1>3. n * d <= x /\ x < n * d + n
  BY <1>2
<1>4. ~(d < q)
  <2>1. SUFFICES ASSUME d < q PROVE FALSE
    OBVIOUS
  <2>2. PICK k \in Nat : q = d + 1 + k
    <3>1. q - d - 1 \in Nat
      BY <2>1
    <3> QED BY <3>1
  <2>3. n * q = n * d + n + n * k /\ n * k \in Nat
    BY <2>2
  <2> QED BY <1>1, <1>3, <2>3
<1>5. ~(q < d)
  <2>1. SUFFICES ASSUME q < d PROVE FALSE
    OBVIOUS
  <2>2. PICK k \in Nat : d = q + 1 + k
    <3>1. d - q - 1 \in Nat
      BY <2>1
    <3> QED BY <3>1
  <2>3. n * d = n * q + n + n * k /\ n * k \in Nat
    BY <2>2
  <2> QED BY <1>1, <1>3, <2>3
<1> QED BY <1>1, <1>2, <1>4, <1>5

LEMMA OneMore ==
  ASSUME NEW S, NEW T, NEW x, IsFiniteSet(S), T = S \cup {x}, x \notin S
  PROVE  IsFiniteSet(T) /\ Cardinality(T) = Cardinality(S) + 1
BY FS_AddElement

\* Within a run of alert frames that began at a, the frames so far are the
\* windows emptied, n frames each, and what the window holds.
LEMMA RunsAreCounted ==
  ASSUME NEW ts, Len(ts) \in Nat, NEW n \in Nat \ {0}, DOMAIN ts = 1 .. Len(ts),
         NEW a \in DOMAIN ts, NEW b \in DOMAIN ts, a <= b,
         \A i \in a .. b : IsAlert(ts[i]), a = 1 \/ ~IsAlert(ts[a - 1])
  PROVE  Cardinality(AlertFrames(ts, n) \cap (a .. b)) = (b - a + 1) \div n
<1> DEFINE w == Window(ts, n)
           seen(k) == AlertFrames(ts, n) \cap (a .. a - 1 + k)
           G == {k \in Nat : /\ IsFiniteSet(seen(k)) /\ Cardinality(seen(k)) \in Nat
                             /\ k = n * Cardinality(seen(k)) + w[a - 1 + k]}
<1>1. /\ w \in [0 .. Len(ts) -> 0 .. n - 1]
      /\ w[0] = 0
      /\ \A i \in 1 .. Len(ts) :
           w[i] = IF ~IsAlert(ts[i]) \/ w[i - 1] + 1 >= n THEN 0 ELSE w[i - 1] + 1
  BY WindowSteps
<1>2. AlertFrames(ts, n) = {i \in DOMAIN ts : IsAlert(ts[i]) /\ w[i - 1] + 1 >= n}
  BY DEF AlertFrames
<1> HIDE DEF w
<1>t. a \in Nat /\ b \in Nat /\ 1 <= a /\ b <= Len(ts)
  OBVIOUS
<1>3. 0 \in G
  <2>1. seen(0) = {}
    BY <1>t
  <2>2. w[a - 1 + 0] = 0
    BY <1>1, <1>t
  <2>3. n * 0 + 0 = 0
    OBVIOUS
  <2> HIDE DEF seen
  <2>4. IsFiniteSet(seen(0)) /\ Cardinality(seen(0)) = 0
    BY <2>1, FS_EmptySet
  <2> QED BY <2>2, <2>3, <2>4
<1>4. ASSUME NEW k \in 0 .. b - a, k \in G PROVE k + 1 \in G
  <2> DEFINE j == a + k
  <2>1. j \in a .. b /\ j \in 1 .. Len(ts) /\ IsAlert(ts[j]) /\ j - 1 = a - 1 + k
        /\ j = a - 1 + (k + 1)
    BY <1>t
  <2>2. w[j] = IF w[j - 1] + 1 >= n THEN 0 ELSE w[j - 1] + 1
    BY <1>1, <2>1
  <2>3. j \in AlertFrames(ts, n) <=> w[j - 1] + 1 >= n
    BY <1>2, <2>1
  <2>4. w[j - 1] \in 0 .. n - 1
    BY <1>1, <2>1
  <2> HIDE DEF seen
  <2>g. IsFiniteSet(seen(k)) /\ Cardinality(seen(k)) \in Nat
        /\ k = n * Cardinality(seen(k)) + w[j - 1]
    BY <1>4, <2>1
  <2>c. PICK c \in Nat : c = Cardinality(seen(k))
    BY <2>g
  <2>n. PICK p \in Nat : p = n * c
    OBVIOUS
  <2>k. k \in Nat /\ k = p + w[j - 1]
    BY <1>t, <2>g, <2>c, <2>n
  <2>5. CASE w[j - 1] + 1 >= n
    <3>1. seen(k + 1) = seen(k) \cup {j} /\ j \notin seen(k)
      BY <2>1, <2>3, <2>5 DEF seen
    <3>2. IsFiniteSet(seen(k + 1)) /\ Cardinality(seen(k + 1)) = Cardinality(seen(k)) + 1
      BY <2>g, <3>1, OneMore
    <3>3. w[j] = 0 /\ w[j - 1] + 1 = n
      BY <2>2, <2>4, <2>5
    <3>4. n * Cardinality(seen(k + 1)) = p + n /\ Cardinality(seen(k + 1)) \in Nat
      <4>1. n * (c + 1) = n * c + n
        OBVIOUS
      <4>2. n * (c + 1) = p + n
        BY <2>n, <4>1
      <4>3. Cardinality(seen(k + 1)) = c + 1
        BY <2>c, <3>2
      <4> QED BY <4>2, <4>3
    <3> HIDE DEF j
    <3>5. k + 1 = n * Cardinality(seen(k + 1)) + w[j]
      <4>1. k + 1 = p + n
        BY <2>k, <2>4, <3>3
      <4> QED BY <4>1, <3>3, <3>4
    <3> QED BY <1>t, <2>1, <3>2, <3>4, <3>5
  <2>6. CASE ~(w[j - 1] + 1 >= n)
    <3>1. seen(k + 1) = seen(k)
      BY <2>1, <2>3, <2>6 DEF seen
    <3>2. w[j] = w[j - 1] + 1
      BY <2>2, <2>6
    <3> HIDE DEF j
    <3>3. k + 1 = n * Cardinality(seen(k + 1)) + w[j]
      <4>1. n * Cardinality(seen(k + 1)) = p
        BY <2>c, <2>n, <3>1
      <4> QED BY <2>k, <2>4, <3>2, <4>1
    <3> QED BY <1>t, <2>1, <2>g, <3>1, <3>3
  <2> QED BY <2>5, <2>6
<1> DEFINE l == b - a + 1
<1>5. l \in Nat /\ l - 1 = b - a /\ a - 1 + l = b
  OBVIOUS
<1>6. l \in G
  <2> HIDE DEF G, l
  <2>1. 0 .. l \subseteq G
    BY <1>3, <1>4, <1>5, CountUp
  <2> QED BY <1>5, <2>1
<1>7. seen(l) = AlertFrames(ts, n) \cap (a .. b)
  BY <1>5
<1>8. w[a - 1 + l] \in 0 .. n - 1
  BY <1>1, <1>5
<1> HIDE DEF seen, l
<1> QED BY <1>6, <1>7, <1>8, QuotientIs DEF l

-----------------------------------------------------------------------------
(* Sorting and folding                                                     *)

StrictOrder(R, S) ==
  /\ \A x, y \in S : x # y => <<x, y>> \in R \/ <<y, x>> \in R
  /\ \A x \in S : <<x, x>> \notin R
  /\ \A x, y, z \in S : <<x, y>> \in R /\ <<y, z>> \in R => <<x, z>> \in R

Rank(R, S, x) == Cardinality({y \in S : <<y, x>> \in R})

\* Sorting by the number of those before it gives each element its own place.
LEMMA RanksArePlaces ==
  ASSUME NEW S, IsFiniteSet(S), NEW R, StrictOrder(R, S)
  PROVE  /\ Cardinality(S) \in Nat
         /\ \A x \in S : Rank(R, S, x) \in 0 .. Cardinality(S) - 1
         /\ \A x, y \in S : <<x, y>> \in R => Rank(R, S, x) < Rank(R, S, y)
         /\ \A i \in 1 .. Cardinality(S) : \E x \in S : Rank(R, S, x) = i - 1
<1> DEFINE before(x) == {y \in S : <<y, x>> \in R}
<1>1. PICK n \in Nat : n = Cardinality(S)
  BY FS_CardinalityType
<1>2. ASSUME NEW x \in S PROVE IsFiniteSet(before(x)) /\ Rank(R, S, x) \in 0 .. n - 1
  <2>1. before(x) \in SUBSET S /\ before(x) # S
    BY DEF StrictOrder
  <2>2. IsFiniteSet(before(x)) /\ Cardinality(before(x)) <= n /\ Cardinality(before(x)) # n
    <3> HIDE DEF before
    <3> QED BY <1>1, <2>1, FS_Subset
  <2>3. Cardinality(before(x)) \in Nat
    BY <2>2, FS_CardinalityType
  <2> QED BY <1>1, <2>2, <2>3 DEF Rank
<1>3. ASSUME NEW x \in S, NEW y \in S, <<x, y>> \in R PROVE Rank(R, S, x) < Rank(R, S, y)
  <2>1. before(x) \in SUBSET before(y) /\ before(x) # before(y)
    BY <1>3 DEF StrictOrder
  <2> HIDE DEF before
  <2>2. Cardinality(before(x)) <= Cardinality(before(y))
        /\ Cardinality(before(x)) # Cardinality(before(y))
    BY <1>2, <2>1, FS_Subset
  <2>3. Cardinality(before(x)) \in Nat /\ Cardinality(before(y)) \in Nat
    BY <1>2, FS_CardinalityType
  <2>4. Cardinality(before(x)) < Cardinality(before(y))
    BY <2>2, <2>3
  <2> QED BY <2>4 DEF before, Rank
<1>t. ASSUME NEW x \in S PROVE Rank(R, S, x) \in Nat
  <2>1. Rank(R, S, x) \in 0 .. n - 1
    BY <1>2
  <2> QED BY <2>1
<1>4. ASSUME NEW i \in 1 .. n PROVE \E x \in S : Rank(R, S, x) = i - 1
  <2> DEFINE T == 0 .. n - 1
             r == [x \in S |-> Rank(R, S, x)]
  <2>1. r \in [S -> T]
    BY <1>2
  <2>2. \A x, y \in S : r[x] = r[y] => x = y
    <3>1. \A x, y \in S : x # y => Rank(R, S, x) # Rank(R, S, y)
      <4>1. SUFFICES ASSUME NEW x \in S, NEW y \in S, x # y PROVE Rank(R, S, x) # Rank(R, S, y)
        OBVIOUS
      <4>2. <<x, y>> \in R \/ <<y, x>> \in R
        BY <4>1 DEF StrictOrder
      <4>3. Rank(R, S, x) < Rank(R, S, y) \/ Rank(R, S, y) < Rank(R, S, x)
        BY <1>3, <4>2
      <4> QED BY <1>t, <4>3
    <3> QED BY <3>1
  <2>3. r \in Injection(S, T)
    BY <2>1, <2>2 DEF Injection, IsInjective
  <2>4. IsFiniteSet(T) /\ Cardinality(T) = n
    <3>1. \A a, b \in Int : IsFiniteSet(a .. b)
            /\ Cardinality(a .. b) = IF a > b THEN 0 ELSE b - a + 1
      BY FS_Interval
    <3>2. IsFiniteSet(0 .. n - 1) /\ Cardinality(0 .. n - 1) = IF 0 > n - 1 THEN 0 ELSE n - 1 - 0 + 1
      BY <3>1
    <3> QED BY <3>2
  <2>5. r \in Surjection(S, T)
    <3> HIDE DEF r, T
    <3> QED BY <1>1, <2>3, <2>4, FS_Injection
  <2>6. i - 1 \in T
    OBVIOUS
  <2> QED BY <2>5, <2>6 DEF Surjection
<1> HIDE DEF before
<1> QED BY <1>1, <1>2, <1>3, <1>4

LEMMA SortedByRank ==
  ASSUME NEW S, IsFiniteSet(S), NEW R, StrictOrder(R, S), NEW o,
         \A i \in 1 .. Cardinality(S) : o[i] \in S /\ Rank(R, S, o[i]) = i - 1
  PROVE  /\ \A e \in S : \E i \in 1 .. Cardinality(S) : o[i] = e
         /\ \A i, j \in 1 .. Cardinality(S) : i < j => <<o[i], o[j]>> \in R
<1>1. PICK n \in Nat : n = Cardinality(S)
  BY FS_CardinalityType
<1>2. \A i \in 1 .. n : o[i] \in S /\ Rank(R, S, o[i]) = i - 1
  BY <1>1
<1>3. /\ \A e \in S : Rank(R, S, e) \in 0 .. n - 1
      /\ \A e, f \in S : <<e, f>> \in R => Rank(R, S, e) < Rank(R, S, f)
  BY <1>1, RanksArePlaces
<1>4. ASSUME NEW e \in S, NEW f \in S, Rank(R, S, e) = Rank(R, S, f) PROVE e = f
  <2>1. Rank(R, S, e) \in Int /\ Rank(R, S, f) \in Int
    BY <1>3
  <2>2. SUFFICES ASSUME e # f PROVE FALSE
    OBVIOUS
  <2>3. <<e, f>> \in R \/ <<f, e>> \in R
    BY <2>2 DEF StrictOrder
  <2>4. Rank(R, S, e) < Rank(R, S, f) \/ Rank(R, S, f) < Rank(R, S, e)
    BY <1>3, <2>3
  <2> QED BY <1>4, <2>1, <2>4
<1>5. ASSUME NEW e \in S PROVE \E i \in 1 .. n : o[i] = e
  <2>1. PICK k \in 1 .. n : k - 1 = Rank(R, S, e)
    <3>1. Rank(R, S, e) \in 0 .. n - 1
      BY <1>3
    <3>2. PICK r \in 0 .. n - 1 : r = Rank(R, S, e)
      BY <3>1
    <3>3. r + 1 \in 1 .. n /\ r + 1 - 1 = r
      OBVIOUS
    <3> QED BY <3>2, <3>3
  <2>2. o[k] \in S /\ Rank(R, S, o[k]) = Rank(R, S, e)
    BY <1>2, <2>1
  <2>3. o[k] = e
    BY <1>4, <2>2
  <2> QED BY <2>3
<1>6. ASSUME NEW i \in 1 .. n, NEW j \in 1 .. n, i < j PROVE <<o[i], o[j]>> \in R
  <2>1. o[i] \in S /\ Rank(R, S, o[i]) = i - 1 /\ o[j] \in S /\ Rank(R, S, o[j]) = j - 1
    BY <1>2
  <2>2. o[i] # o[j]
    BY <1>6, <2>1
  <2>3. ~(<<o[j], o[i]>> \in R)
    BY <1>3, <1>6, <2>1
  <2> QED BY <2>1, <2>2, <2>3 DEF StrictOrder
<1> QED BY <1>1, <1>5, <1>6

\* What FoldLeft computes with: a value for each set of indexes.
Folds(h, n, S, base, step) ==
  /\ h \in [SUBSET (1 .. n) -> S]
  /\ \A s \in SUBSET (1 .. n) :
       h[s] = IF s = {} THEN base ELSE step[Max(s)][h[s \ {Max(s)}]]

LEMMA MaxIs ==
  ASSUME NEW n \in Nat, NEW s \in SUBSET (0 .. n), n \in s
  PROVE  Max(s) = n
<1>1. \A y \in s : n >= y /\ y \in Nat
  OBVIOUS
<1>2. Max(s) \in s /\ \A y \in s : Max(s) >= y
  BY <1>1 DEF Max
<1>3. Max(s) \in Nat /\ n >= Max(s) /\ Max(s) >= n
  BY <1>1, <1>2
<1> QED BY <1>3

LEMMA MaxExists ==
  ASSUME NEW n \in Nat, NEW s \in SUBSET (0 .. n), s # {}
  PROVE  Max(s) \in s /\ \A x \in s : x <= Max(s)
<1> DEFINE bounds == {m \in Nat : \A x \in s : x <= m}
<1>1. bounds \in SUBSET Nat /\ n \in bounds
  OBVIOUS
<1>2. PICK m \in bounds : \A k \in bounds : m <= k
  <2> HIDE DEF bounds
  <2> QED BY <1>1, LeastNatural
<1>3. m \in s
  <2>1. SUFFICES ASSUME m \notin s PROVE FALSE
    OBVIOUS
  <2>2. \A x \in s : x <= m - 1 /\ x \in Nat
    BY <1>2, <2>1
  <2>3. m - 1 \in Nat
    <3>1. PICK x \in s : TRUE
      OBVIOUS
    <3>2. m \in Nat
      BY <1>2
    <3>3. x <= m - 1 /\ x \in Nat
      BY <2>2
    <3> HIDE DEF bounds
    <3> QED BY <3>2, <3>3
  <2> QED BY <1>2, <2>2, <2>3
<1>4. \A x \in s : m >= x
  BY <1>2
<1> QED BY <1>3, <1>4 DEF Max

LEMMA FoldExists ==
  ASSUME NEW n \in Nat, NEW S, NEW base \in S, NEW step \in Steps(n, S)
  PROVE  \E h : Folds(h, n, S, base, step)
<1> DEFINE G == {m \in 0 .. n : \E h : Folds(h, m, S, base, step)}
<1>1. 0 \in G
  <2> DEFINE h0 == [s \in SUBSET (1 .. 0) |-> base]
  <2>1. h0 \in [SUBSET (1 .. 0) -> S] /\ \A s \in SUBSET (1 .. 0) : s = {} /\ h0[s] = base
    OBVIOUS
  <2> HIDE DEF h0
  <2>2. Folds(h0, 0, S, base, step)
    BY <2>1 DEF Folds
  <2> QED BY <2>2
<1>2. ASSUME NEW m \in 0 .. n - 1, m \in G PROVE m + 1 \in G
  <2>1. PICK h : Folds(h, m, S, base, step)
    BY <1>2
  <2> DEFINE new(s) == IF m + 1 \in s THEN step[m + 1][h[s \ {m + 1}]] ELSE h[s]
             g == [s \in SUBSET (1 .. m + 1) |-> new(s)]
  <2>2. ASSUME NEW s \in SUBSET (1 .. m + 1)
        PROVE  /\ g[s] \in S
               /\ g[s] = IF s = {} THEN base ELSE step[Max(s)][g[s \ {Max(s)}]]
    <3>1. CASE m + 1 \in s
      <4>1. s \ {m + 1} \in SUBSET (1 .. m) /\ s \ {m + 1} \in SUBSET (1 .. m + 1)
        OBVIOUS
      <4>2. Max(s) = m + 1
        <5>1. s \in SUBSET (0 .. m + 1) /\ m + 1 \in Nat
          OBVIOUS
        <5> QED BY <3>1, <5>1, MaxIs
      <4>3. g[s] = step[m + 1][h[s \ {m + 1}]] /\ g[s \ {m + 1}] = h[s \ {m + 1}]
        BY <3>1, <4>1
      <4>4. h[s \ {m + 1}] \in S /\ m + 1 \in 1 .. n
        BY <2>1, <4>1 DEF Folds
      <4>5. step[m + 1][h[s \ {m + 1}]] \in S
        BY <4>4 DEF Steps
      <4> HIDE DEF g
      <4> QED BY <3>1, <4>2, <4>3, <4>5
    <3>2. CASE m + 1 \notin s
      <4>s. s \in SUBSET (1 .. m)
        <5> HIDE DEF g
        <5> QED BY <3>2
      <4>1. s \in SUBSET (1 .. m) /\ g[s] = h[s]
        BY <3>2, <4>s
      <4>2. CASE s = {}
        BY <2>1, <4>1, <4>2 DEF Folds
      <4>3. CASE s # {}
        <5> DEFINE t == s \ {Max(s)}
        <5>1. t \in SUBSET (1 .. m) /\ m + 1 \notin t /\ t \in SUBSET (1 .. m + 1)
          <6> HIDE DEF g
          <6> QED BY <3>2, <4>s
        <5>2. g[t] = h[t]
          <6> HIDE DEF t
          <6> QED BY <5>1
        <5> HIDE DEF g
        <5> QED BY <2>1, <4>1, <4>3, <5>1, <5>2 DEF Folds
      <4> QED BY <4>2, <4>3
    <3> QED BY <3>1, <3>2
  <2>3. g \in [SUBSET (1 .. m + 1) -> S]
    <3>1. \A s \in SUBSET (1 .. m + 1) : new(s) \in S
      BY <2>2
    <3> HIDE DEF new
    <3> QED BY <3>1
  <2> HIDE DEF g
  <2>4. Folds(g, m + 1, S, base, step)
    BY <2>2, <2>3 DEF Folds
  <2>5. m + 1 \in 0 .. n
    OBVIOUS
  <2> QED BY <2>4, <2>5
<1> HIDE DEF G
<1>3. 0 .. n \subseteq G
  BY <1>1, <1>2, CountUp
<1>4. n \in G
  BY <1>3
<1> QED BY <1>4 DEF G

\* The values for 1 .. i are those of an iteration.
LEMMA FoldTurns ==
  ASSUME NEW n \in Nat, NEW S, NEW base \in S, NEW step \in Steps(n, S),
         NEW iter, iter[{}] = base,
         \A s \in SUBSET (1 .. n) :
           s # {} /\ iter[s \ {Max(s)}] \in S => iter[s] = step[Max(s)][iter[s \ {Max(s)}]]
  PROVE  Iterates([i \in 0 .. n |-> iter[1 .. i]], n, S, base, step)
<1> DEFINE f == [i \in 0 .. n |-> iter[1 .. i]]
           G == {i \in 0 .. n : f[i] \in S}
<1>1. f[0] = base
  <2>1. 1 .. 0 = {} /\ 0 \in 0 .. n
    OBVIOUS
  <2> QED BY <2>1
<1>2. ASSUME NEW i \in 1 .. n, f[i - 1] \in S PROVE f[i] = step[i][f[i - 1]] /\ f[i] \in S
  <2>1. 1 .. i \in SUBSET (1 .. n) /\ 1 .. i # {} /\ (1 .. i) \ {i} = 1 .. i - 1
    <3>1. i \in 1 .. i
      OBVIOUS
    <3>2. \A x : x \in 1 .. i => x \in 1 .. n
      OBVIOUS
    <3>3. (1 .. i) \ {i} = 1 .. i - 1
      OBVIOUS
    <3> QED BY <3>1, <3>2, <3>3
  <2>2. Max(1 .. i) = i
    <3>1. i \in Nat /\ 1 .. i \in SUBSET (0 .. i) /\ i \in 1 .. i
      OBVIOUS
    <3> QED BY <3>1, MaxIs
  <2>3. f[i] = iter[1 .. i] /\ f[i - 1] = iter[1 .. i - 1]
    OBVIOUS
  <2> HIDE DEF f
  <2>4. f[i] = step[i][f[i - 1]]
    BY <1>2, <2>1, <2>2, <2>3
  <2> QED BY <1>2, <2>4 DEF Steps
<1>3. 0 \in G
  BY <1>1
<1>4. ASSUME NEW i \in 0 .. n - 1, i \in G PROVE i + 1 \in G
  <2> HIDE DEF f
  <2>1. i + 1 \in 1 .. n /\ i + 1 - 1 = i /\ i + 1 \in 0 .. n
    OBVIOUS
  <2>2. f[i + 1] \in S
    BY <1>2, <1>4, <2>1
  <2> QED BY <2>1, <2>2
<1>5. \A i \in 0 .. n : f[i] \in S
  <2> HIDE DEF f, G
  <2>1. 0 .. n \subseteq G
    BY <1>3, <1>4, CountUp
  <2> QED BY <2>1 DEF G
<1>6. f \in [0 .. n -> S]
  BY <1>5
<1>7. \A i \in 1 .. n : f[i] = step[i][f[i - 1]]
  <2> HIDE DEF f
  <2>1. \A i \in 1 .. n : i - 1 \in 0 .. n
    OBVIOUS
  <2> QED BY <1>2, <1>5, <2>1
<1> HIDE DEF f
<1>8. Iterates(f, n, S, base, step)
  BY <1>1, <1>6, <1>7 DEF Iterates
<1> QED BY <1>8 DEF f

-----------------------------------------------------------------------------
(* Thinning out                                                            *)

\* The place of the first kept candidate that e is too close to, or 0.
Conflict(kept, e) == SelectInSeq(kept, LAMBDA k : Close(k, e))

LEMMA ConflictFound ==
  ASSUME NEW E, NEW kept \in Seq(E), NEW e
  PROVE  \/ /\ Conflict(kept, e) = 0
            /\ \A i \in 1 .. Len(kept) : ~Close(kept[i], e)
         \/ /\ Conflict(kept, e) \in 1 .. Len(kept)
            /\ Close(kept[Conflict(kept, e)], e)
<1> DEFINE I == {i \in 1 .. Len(kept) : Close(kept[i], e)}
<1>1. Conflict(kept, e) = IF I # {} THEN Min(I) ELSE 0
  BY DEF Conflict, SelectInSeq
<1>2. CASE I = {}
  BY <1>1, <1>2
<1>3. CASE I # {}
  <2>1. I \in SUBSET Nat
    OBVIOUS
  <2>2. Min(I) \in I
    <3> HIDE DEF I
    <3>1. PICK i \in I : \A j \in I : i <= j
      BY <1>3, <2>1, LeastNatural
    <3> QED BY <3>1 DEF Min
  <2> QED BY <1>1, <1>3, <2>2
<1> QED BY <1>2, <1>3

LEMMA ThinType ==
  ASSUME NEW E, NEW kept \in Seq(E), NEW e \in E
  PROVE  Thin(kept, e) \in Seq(E)
<1> DEFINE c == Conflict(kept, e)
<1>1. c = 0 \/ c \in 1 .. Len(kept)
  BY ConflictFound
<1> HIDE DEF c
<1>2. Thin(kept, e) = IF c = 0 THEN Append(kept, e)
                      ELSE IF e.rate > kept[c].rate THEN [kept EXCEPT ![c] = e]
                      ELSE kept
  BY DEF Thin, Conflict, c
<1>3. [kept EXCEPT ![c] = e] \in Seq(E) \/ c = 0
  BY <1>1
<1> QED BY <1>2, <1>3

\* f[i] is what is kept after i turns.
ThinnedBy(f, n, E, ordered) ==
  /\ f \in [0 .. n -> Seq(E)]
  /\ f[0] = <<>>
  /\ \A i \in 1 .. n : f[i] = Thin(f[i - 1], ordered[i])

\* The loop of _dedupe_same_type, turn by turn.
LEMMA ThinTurns ==
  ASSUME NEW E, NEW n \in Nat, NEW ordered \in [1 .. n -> E]
  PROVE  \E f : ThinnedBy(f, n, E, ordered) /\ FoldLeft(Thin, <<>>, ordered) = f[n]
<1> DEFINE S == Seq(E)
           step == [i \in 1 .. n |-> [v \in S |-> Thin(v, ordered[i])]]
           Def(g) == [s \in SUBSET (DOMAIN ordered) |->
                        IF s = {} THEN <<>>
                        ELSE Thin(g[s \ {Max(s)}], ordered[Max(s)])]
           iter == CHOOSE g : g = Def(g)
<1>1. step \in Steps(n, S) /\ <<>> \in S
  BY ThinType DEF Steps
<1>2. \A v \in S : \A i \in 1 .. n : step[i][v] = Thin(v, ordered[i])
  OBVIOUS
<1> HIDE DEF step
<1>3. PICK h : Folds(h, n, S, <<>>, step)
  <2> HIDE DEF S
  <2> QED BY <1>1, FoldExists
<1>4. FoldLeft(Thin, <<>>, ordered) = iter[DOMAIN ordered]
  BY DEF FoldLeft, MapThenFoldSet
<1>5. \E g : g = Def(g)
  <2>1. h \in [SUBSET (1 .. n) -> S]
    BY <1>3 DEF Folds
  <2>2. ASSUME NEW s \in SUBSET (1 .. n)
        PROVE  h[s] = IF s = {} THEN <<>> ELSE Thin(h[s \ {Max(s)}], ordered[Max(s)])
    <3>1. CASE s = {}
      BY <1>3, <3>1 DEF Folds
    <3>2. CASE s # {}
      <4>1. Max(s) \in 1 .. n
        <5>1. s \in SUBSET (0 .. n)
          OBVIOUS
        <5>2. Max(s) \in s
          BY <3>2, <5>1, MaxExists
        <5> QED BY <5>2
      <4>2. h[s \ {Max(s)}] \in S
        <5>1. s \ {Max(s)} \in SUBSET (1 .. n)
          OBVIOUS
        <5> HIDE DEF S
        <5> QED BY <2>1, <5>1
      <4>3. h[s] = step[Max(s)][h[s \ {Max(s)}]]
        BY <1>3, <3>2 DEF Folds
      <4> HIDE DEF S
      <4>4. h[s] = Thin(h[s \ {Max(s)}], ordered[Max(s)])
        BY <1>2, <4>1, <4>2, <4>3
      <4> QED BY <3>2, <4>4
    <3> QED BY <3>1, <3>2
  <2>3. DOMAIN ordered = 1 .. n
    OBVIOUS
  <2>4. h = Def(h)
    <3> HIDE DEF S
    <3> QED BY <2>1, <2>2, <2>3
  <2> HIDE DEF Def
  <2> QED BY <2>4
<1>6. iter = Def(iter)
  <2> HIDE DEF Def
  <2> QED BY <1>5
<1> HIDE DEF iter
<1>7. \A s \in SUBSET (1 .. n) :
        iter[s] = IF s = {} THEN <<>> ELSE Thin(iter[s \ {Max(s)}], ordered[Max(s)])
  BY <1>6
<1>8. iter[{}] = <<>>
  BY <1>7
<1>9. ASSUME NEW s \in SUBSET (1 .. n), s # {}, iter[s \ {Max(s)}] \in S
      PROVE  iter[s] = step[Max(s)][iter[s \ {Max(s)}]]
  <2>1. Max(s) \in 1 .. n
    <3>1. s \in SUBSET (0 .. n)
      OBVIOUS
    <3>2. Max(s) \in s
      BY <1>9, <3>1, MaxExists
    <3> QED BY <3>2
  <2>2. iter[s] = Thin(iter[s \ {Max(s)}], ordered[Max(s)])
    BY <1>7, <1>9
  <2> HIDE DEF S
  <2> QED BY <1>2, <1>9, <2>1, <2>2
<1> DEFINE f == [i \in 0 .. n |-> iter[1 .. i]]
<1>10. Iterates(f, n, S, <<>>, step)
  <2> HIDE DEF S
  <2> QED BY <1>1, <1>8, <1>9, FoldTurns
<1>11. FoldLeft(Thin, <<>>, ordered) = f[n]
  <2>1. DOMAIN ordered = 1 .. n /\ f[n] = iter[1 .. n]
    OBVIOUS
  <2> HIDE DEF f
  <2> QED BY <1>4, <2>1
<1> HIDE DEF f
<1>12. ASSUME NEW i \in 1 .. n PROVE f[i] = Thin(f[i - 1], ordered[i])
  <2>1. i - 1 \in 0 .. n
    OBVIOUS
  <2>2. f[i] = step[i][f[i - 1]] /\ f[i - 1] \in S
    BY <1>10, <2>1 DEF Iterates
  <2> HIDE DEF S
  <2> QED BY <1>2, <2>2
<1>13. ThinnedBy(f, n, E, ordered)
  BY <1>10, <1>12 DEF ThinnedBy, Iterates
<1> QED BY <1>11, <1>13

\* Candidates that Dedupe can put in order.
Sortable(events) ==
  /\ IsFiniteSet(events)
  /\ \A e \in events : e.type \in DOMAIN Priority /\ e.second \in Int /\ e.rate \in Int
  /\ \A e, f \in events : e.type = f.type /\ e.second = f.second => e = f

Ordered(events) ==
  [i \in 1 .. Cardinality(events) |->
     CHOOSE e \in events : Cardinality({f \in events : Earlier(f, e)}) = i - 1]

LEMMA EarlierIsStrict ==
  ASSUME NEW events, Sortable(events)
  PROVE  /\ \A e, f \in events : e # f => Earlier(e, f) \/ Earlier(f, e)
         /\ \A e \in events : ~Earlier(e, e)
         /\ \A e, f, g \in events : Earlier(e, f) /\ Earlier(f, g) => Earlier(e, g)
<1>1. \A e \in events : Priority[e.type] \in Int
  BY DEF Sortable, Priority
<1>2. \A e, f \in events : Priority[e.type] = Priority[f.type] => e.type = f.type
  BY DEF Sortable, Priority
<1> QED BY <1>1, <1>2 DEF Sortable, Earlier

\* The candidates in the order of the sort key, each once.
LEMMA OrderedIsSorted ==
  ASSUME NEW events, Sortable(events)
  PROVE  /\ Cardinality(events) \in Nat
         /\ Ordered(events) \in [1 .. Cardinality(events) -> events]
         /\ \A e \in events : \E i \in 1 .. Cardinality(events) : Ordered(events)[i] = e
         /\ \A i, j \in 1 .. Cardinality(events) :
              i < j => Earlier(Ordered(events)[i], Ordered(events)[j])
<1> DEFINE R == {p \in events \X events : Earlier(p[1], p[2])}
           n == Cardinality(events)
           o == Ordered(events)
<1>1. \A e, f \in events : <<e, f>> \in R <=> Earlier(e, f)
  OBVIOUS
<1> HIDE DEF R
<1>2. StrictOrder(R, events)
  BY <1>1, EarlierIsStrict DEF StrictOrder
<1>3. ASSUME NEW e \in events
      PROVE  Rank(R, events, e) = Cardinality({f \in events : Earlier(f, e)})
  <2>1. {f \in events : <<f, e>> \in R} = {f \in events : Earlier(f, e)}
    BY <1>1
  <2> QED BY <2>1 DEF Rank
<1>4. n \in Nat /\ \A i \in 1 .. n : \E e \in events : Rank(R, events, e) = i - 1
  BY <1>2, RanksArePlaces DEF Sortable
<1>5. ASSUME NEW i \in 1 .. n PROVE o[i] \in events /\ Rank(R, events, o[i]) = i - 1
  <2>1. o[i] = CHOOSE e \in events : Cardinality({f \in events : Earlier(f, e)}) = i - 1
    BY DEF Ordered
  <2>2. \E e \in events : Cardinality({f \in events : Earlier(f, e)}) = i - 1
    BY <1>3, <1>4
  <2>3. o[i] \in events /\ Cardinality({f \in events : Earlier(f, o[i])}) = i - 1
    BY <2>1, <2>2
  <2> QED BY <1>3, <2>3
<1>6. o \in [1 .. n -> events]
  <2> DEFINE at(i) == CHOOSE e \in events : Cardinality({f \in events : Earlier(f, e)}) = i - 1
  <2>1. o = [i \in 1 .. n |-> at(i)]
    BY Zenon DEF Ordered
  <2> HIDE DEF at, o, n
  <2>2. \A i \in 1 .. n : at(i) \in events
    BY <1>5, <2>1
  <2> QED BY <2>1, <2>2
<1> HIDE DEF o
<1>7. /\ \A e \in events : \E i \in 1 .. n : o[i] = e
      /\ \A i, j \in 1 .. n : i < j => <<o[i], o[j]>> \in R
  BY <1>2, <1>5, SortedByRank DEF Sortable
<1> HIDE DEF n
<1>8. ASSUME NEW i \in 1 .. n, NEW j \in 1 .. n, i < j PROVE Earlier(o[i], o[j])
  BY <1>1, <1>5, <1>7, <1>8
<1> QED BY <1>4, <1>6, <1>7, <1>8 DEF n, o

\* What holds after i turns of the loop: the kept ones are spaced, come from
\* the first i, and each of those that is gone went for a stronger one.
ThinnedTo(kept, o, i, events) ==
  /\ \A p, q \in 1 .. Len(kept) : p # q => ~Close(kept[p], kept[q])
  /\ \A p \in 1 .. Len(kept) : \E j \in 1 .. i : kept[p] = o[j]
  /\ \A j \in 1 .. i :
       \/ \E p \in 1 .. Len(kept) : kept[p] = o[j]
       \/ \E f \in events \ {o[j]} : Close(o[j], f) /\ f.rate >= o[j].rate

\* A candidate later than two that are spaced cannot be close to both.
LEMMA CloseToOne ==
  ASSUME Policy.minInterval \in Int, NEW events, Sortable(events),
         NEW d \in events, NEW c \in events, NEW e \in events,
         Earlier(d, e), Earlier(c, e), ~Close(d, c), Close(c, e)
  PROVE  ~Close(d, e)
<1>1. SUFFICES ASSUME Close(d, e) PROVE FALSE
  OBVIOUS
<1>2. /\ d.type = e.type /\ c.type = e.type
      /\ d.second \in Int /\ c.second \in Int /\ e.second \in Int
      /\ Priority[e.type] \in Int
  BY <1>1 DEF Close, Sortable, Priority
<1>3. d.second < e.second /\ c.second < e.second
  BY <1>2 DEF Earlier
<1>4. e.second - d.second < Policy.minInterval /\ e.second - c.second < Policy.minInterval
  BY <1>1 DEF Close
<1> QED BY <1>2, <1>3, <1>4 DEF Close

LEMMA ThinKeepsSpacing ==
  ASSUME Policy.minInterval \in Int, NEW events, Sortable(events),
         NEW n \in Nat, NEW o \in [1 .. n -> events],
         \A i, j \in 1 .. n : i < j => Earlier(o[i], o[j]),
         NEW kept \in Seq(events), NEW i \in 0 .. n - 1, ThinnedTo(kept, o, i, events)
  PROVE  ThinnedTo(Thin(kept, o[i + 1]), o, i + 1, events)
<1> DEFINE e == o[i + 1]
           c == Conflict(kept, e)
           new == Thin(kept, e)
<1>1. /\ i + 1 \in 1 .. n /\ e \in events /\ Len(kept) \in Nat
      /\ \A p \in 1 .. Len(kept) : kept[p] \in events
      /\ \A j \in 1 .. i : j \in 1 .. n /\ o[j] \in events /\ Earlier(o[j], e)
      /\ \A j : j \in 1 .. i + 1 <=> j \in 1 .. i \/ j = i + 1
  OBVIOUS
<1>2. new = IF c = 0 THEN Append(kept, e)
            ELSE IF e.rate > kept[c].rate THEN [kept EXCEPT ![c] = e]
            ELSE kept
  BY DEF Thin, Conflict
<1>3. \/ c = 0 /\ \A p \in 1 .. Len(kept) : ~Close(kept[p], e)
      \/ c \in 1 .. Len(kept) /\ Close(kept[c], e)
  BY ConflictFound
<1> HIDE DEF e, c, new
<1>4. \A d, f \in events : (Close(d, f) <=> Close(f, d)) /\ d.rate \in Int /\ ~Earlier(d, d)
  BY EarlierIsStrict DEF Close, Sortable
<1>5. \A p \in 1 .. Len(kept) : Earlier(kept[p], e) /\ kept[p] # e
  BY <1>1, <1>4 DEF ThinnedTo
<1>6. CASE c = 0
  <2>1. /\ Len(new) = Len(kept) + 1 /\ new[Len(kept) + 1] = e
        /\ \A p \in 1 .. Len(kept) : new[p] = kept[p] /\ p \in 1 .. Len(new)
        /\ \A p \in 1 .. Len(new) : p \in 1 .. Len(kept) \/ p = Len(kept) + 1
    BY <1>1, <1>2, <1>6
  <2>2. \A p, q \in 1 .. Len(new) : p # q => ~Close(new[p], new[q])
    <3>1. SUFFICES ASSUME NEW p \in 1 .. Len(new), NEW q \in 1 .. Len(new), p # q
                   PROVE  ~Close(new[p], new[q])
      OBVIOUS
    <3>2. \A k \in 1 .. Len(kept) : ~Close(kept[k], e) /\ ~Close(e, kept[k])
      <4>1. \A k \in 1 .. Len(kept) : ~Close(kept[k], e)
        BY <1>3, <1>6
      <4> QED BY <1>1, <1>4, <4>1
    <3>3. CASE p \in 1 .. Len(kept) /\ q \in 1 .. Len(kept)
      BY <2>1, <3>1, <3>3 DEF ThinnedTo
    <3>4. CASE p = Len(kept) + 1 \/ q = Len(kept) + 1
      BY <2>1, <3>1, <3>2, <3>4
    <3> QED BY <2>1, <3>3, <3>4
  <2>3. \A p \in 1 .. Len(new) : \E j \in 1 .. i + 1 : new[p] = o[j]
    BY <1>1, <2>1 DEF ThinnedTo, e
  <2>4. ASSUME NEW j \in 1 .. i + 1
        PROVE  \/ \E p \in 1 .. Len(new) : new[p] = o[j]
               \/ \E f \in events \ {o[j]} : Close(o[j], f) /\ f.rate >= o[j].rate
    <3>1. CASE j = i + 1
      BY <1>1, <2>1, <3>1 DEF e
    <3>2. CASE j \in 1 .. i
      BY <2>1, <3>2 DEF ThinnedTo
    <3> QED BY <1>1, <3>1, <3>2
  <2> QED BY <2>2, <2>3, <2>4 DEF ThinnedTo, new, e
<1>7. CASE c \in 1 .. Len(kept) /\ Close(kept[c], e) /\ e.rate > kept[c].rate
  <2>1. /\ Len(new) = Len(kept) /\ new[c] = e /\ c \in 1 .. Len(kept)
        /\ \A p \in 1 .. Len(kept) : p # c => new[p] = kept[p]
    BY <1>1, <1>2, <1>7
  <2>2. ASSUME NEW p \in 1 .. Len(kept), p # c PROVE ~Close(kept[p], e)
    <3>1. ~Close(kept[p], kept[c])
      BY <1>7, <2>2 DEF ThinnedTo
    <3> QED BY <1>1, <1>5, <1>7, <3>1, CloseToOne
  <2>3. \A p, q \in 1 .. Len(new) : p # q => ~Close(new[p], new[q])
    BY <1>1, <1>4, <2>1, <2>2 DEF ThinnedTo
  <2>4. \A p \in 1 .. Len(new) : \E j \in 1 .. i + 1 : new[p] = o[j]
    BY <1>1, <2>1 DEF ThinnedTo, e
  <2>5. ASSUME NEW j \in 1 .. i + 1
        PROVE  \/ \E p \in 1 .. Len(new) : new[p] = o[j]
               \/ \E f \in events \ {o[j]} : Close(o[j], f) /\ f.rate >= o[j].rate
    <3>1. CASE j = i + 1
      BY <1>1, <2>1, <3>1 DEF e
    <3>2. CASE j \in 1 .. i /\ o[j] = kept[c]
      BY <1>1, <1>4, <1>5, <1>7, <3>2
    <3>3. CASE j \in 1 .. i /\ o[j] # kept[c]
      BY <2>1, <3>3 DEF ThinnedTo
    <3> QED BY <1>1, <3>1, <3>2, <3>3
  <2> QED BY <2>3, <2>4, <2>5 DEF ThinnedTo, new, e
<1>8. CASE c \in 1 .. Len(kept) /\ Close(kept[c], e) /\ ~(e.rate > kept[c].rate)
  <2>1. new = kept
    BY <1>1, <1>2, <1>8
  <2>2. ASSUME NEW j \in 1 .. i + 1
        PROVE  \/ \E p \in 1 .. Len(new) : new[p] = o[j]
               \/ \E f \in events \ {o[j]} : Close(o[j], f) /\ f.rate >= o[j].rate
    <3>1. CASE j = i + 1
      <4>1. kept[c] \in events \ {e} /\ Close(e, kept[c]) /\ kept[c].rate >= e.rate
        BY <1>1, <1>4, <1>5, <1>8
      <4> QED BY <3>1, <4>1 DEF e
    <3>2. CASE j \in 1 .. i
      BY <2>1, <3>2 DEF ThinnedTo
    <3> QED BY <1>1, <3>1, <3>2
  <2>3. \A p \in 1 .. Len(new) : \E j \in 1 .. i + 1 : new[p] = o[j]
    BY <1>1, <2>1 DEF ThinnedTo
  <2> QED BY <2>1, <2>2, <2>3 DEF ThinnedTo, new, e
<1> QED BY <1>3, <1>6, <1>7, <1>8

LEMMA DedupeThins ==
  ASSUME NEW events, Sortable(events)
  PROVE  /\ Dedupe(events) \subseteq events
         /\ \A e, f \in Dedupe(events) : e # f => ~Close(e, f)
         /\ \A e \in events \ Dedupe(events) :
              \E f \in events \ {e} : Close(e, f) /\ f.rate >= e.rate
<1>p. Policy.minInterval \in Int
  BY PolicyAssumption DEF PolicyFields
<1>1. CASE Policy.minInterval <= 0
  <2>1. Dedupe(events) = events
    BY <1>1 DEF Dedupe
  <2>2. \A e, f \in events : ~Close(e, f)
    BY <1>p, <1>1 DEF Close, Sortable
  <2> QED BY <2>1, <2>2
<1>2. CASE ~(Policy.minInterval <= 0)
  <2> DEFINE n == Cardinality(events)
             o == Ordered(events)
  <2>1. /\ n \in Nat
        /\ o \in [1 .. n -> events]
        /\ \A e \in events : \E i \in 1 .. n : o[i] = e
        /\ \A i, j \in 1 .. n : i < j => Earlier(o[i], o[j])
    BY OrderedIsSorted
  <2>2. Dedupe(events) = ToSet(FoldLeft(Thin, <<>>, o))
    BY <1>2 DEF Dedupe, Ordered
  <2> HIDE DEF n, o
  <2>f. PICK f : ThinnedBy(f, n, events, o) /\ FoldLeft(Thin, <<>>, o) = f[n]
    BY <2>1, ThinTurns
  <2>3. /\ f \in [0 .. n -> Seq(events)]
        /\ f[0] = <<>>
        /\ \A i \in 1 .. n : f[i] = Thin(f[i - 1], o[i])
        /\ FoldLeft(Thin, <<>>, o) = f[n]
    BY <2>f DEF ThinnedBy
  <2> DEFINE G == {i \in 0 .. n : ThinnedTo(f[i], o, i, events)}
  <2>4. 0 \in G
    <3>1. 0 \in 0 .. n /\ Len(<<>>) = 0
      BY <2>1
    <3>2. ThinnedTo(<<>>, o, 0, events)
      BY <3>1 DEF ThinnedTo
    <3> QED BY <2>3, <3>1, <3>2
  <2>5. ASSUME NEW i \in 0 .. n - 1, i \in G PROVE i + 1 \in G
    <3>1. i \in 0 .. n /\ i + 1 \in 1 .. n /\ i + 1 \in 0 .. n /\ i + 1 - 1 = i
      BY <2>1
    <3>2. f[i] \in Seq(events) /\ ThinnedTo(f[i], o, i, events)
      BY <2>3, <2>5, <3>1
    <3>3. f[i + 1] = Thin(f[i + 1 - 1], o[i + 1])
      BY <2>3, <3>1
    <3>4. ThinnedTo(Thin(f[i], o[i + 1]), o, i + 1, events)
      BY <1>p, <2>1, <3>2, ThinKeepsSpacing
    <3> QED BY <3>1, <3>3, <3>4
  <2> HIDE DEF G
  <2>6. 0 .. n \subseteq G
    BY <2>1, <2>4, <2>5, CountUp
  <2> DEFINE kept == f[n]
  <2>7. ThinnedTo(kept, o, n, events) /\ kept \in Seq(events)
    BY <2>1, <2>3, <2>6 DEF G
  <2>8. Dedupe(events) = {kept[p] : p \in 1 .. Len(kept)}
    <3>1. Dedupe(events) = {kept[p] : p \in DOMAIN kept}
      BY <2>2, <2>3 DEF ToSet
    <3> HIDE DEF kept
    <3> QED BY <2>7, <3>1
  <2> HIDE DEF kept
  <2>9. Dedupe(events) \subseteq events
    BY <2>7, <2>8
  <2>10. \A e, g \in Dedupe(events) : e # g => ~Close(e, g)
    BY <2>7, <2>8 DEF ThinnedTo
  <2>11. ASSUME NEW e \in events \ Dedupe(events)
         PROVE  \E g \in events \ {e} : Close(e, g) /\ g.rate >= e.rate
    <3>1. PICK j \in 1 .. n : o[j] = e
      BY <2>1
    <3>2. ~ \E p \in 1 .. Len(kept) : kept[p] = o[j]
      BY <2>8, <2>11, <3>1
    <3> QED BY <2>7, <3>1, <3>2 DEF ThinnedTo
  <2> QED BY <2>9, <2>10, <2>11
<1> QED BY <1>1, <1>2

-----------------------------------------------------------------------------
(* Candidates                                                              *)

\* The candidate of a type that frame k would make.
CandidateAt(ss, type, k) ==
  Event(type, k,
        IF type = "teacher" THEN Unit
        ELSE Rate(IF type = "headUp" THEN ss[k].face
                  ELSE IF type = "read" THEN ss[k].read
                  ELSE IF type = "sleep" THEN ss[k].sleep
                  ELSE ss[k].phone, ss[k].present))

LEMMA RateIsNumber ==
  ASSUME NEW a \in Nat, NEW b \in Nat \ {0}
  PROVE  Rate(a, b) \in Nat
BY DEF Rate, Unit

LEMMA FramesHaveSeconds ==
  ASSUME NEW i \in Nat, NEW j \in Nat
  PROVE  Second(i) \in Int /\ (Second(i) = Second(j) => i = j)
<1>1. \A k \in Nat : Second(k) \in Int
  BY IntervalAssumption DEF Second
<1>2. ASSUME NEW k \in Nat, NEW l \in Nat, k < l PROVE Second(k) < Second(l)
  <2> DEFINE a == (2 * k - 1) * FrameInterval
             b == (2 * l - 1) * FrameInterval
  <2>1. PICK d \in Nat : l = k + 1 + d
    <3>1. l - k - 1 \in Nat
      BY <1>2
    <3> QED BY <3>1
  <2>2. a \in Int /\ b = a + 2 * FrameInterval + 2 * (d * FrameInterval)
    BY <2>1, IntervalAssumption
  <2>3. d * FrameInterval \in Nat
    BY IntervalAssumption
  <2> HIDE DEF a, b
  <2>4. b \in Int /\ b >= a + 2
    BY <2>2, <2>3, IntervalAssumption
  <2>5. a \div 2 < b \div 2
    BY <2>2, <2>4
  <2> QED BY <2>5 DEF Second, a, b
<1> QED BY <1>1, <1>2

LEMMA ImageIsFinite ==
  ASSUME NEW D, IsFiniteSet(D), NEW F, F = [x \in D |-> F[x]]
  PROVE  IsFiniteSet({F[x] : x \in D})
<1> DEFINE T == {F[x] : x \in D}
<1>1. F \in Surjection(D, T)
  BY DEF Surjection
<1> QED BY <1>1, FS_Surjection

LEMMA CandidatesSort ==
  ASSUME NEW ss \in Seq(StudentMetrics), NEW ts \in Seq(TeacherMetrics)
  PROVE  Sortable(Candidates(ss, ts))
<1> DEFINE all == Candidates(ss, ts)
           n == Len(ss) + Len(ts)
           D == (DOMAIN Priority) \X (1 .. n)
           F == [x \in D |-> CandidateAt(ss, x[1], x[2])]
<1>1. /\ n \in Nat
      /\ \A k \in Valid(ss) : /\ k \in 1 .. n /\ ss[k].present \in Nat \ {0}
                               /\ ss[k].face \in Nat /\ ss[k].read \in Nat
                               /\ ss[k].sleep \in Nat /\ ss[k].phone \in Nat
  <2>1. Len(ss) \in Nat /\ Len(ts) \in Nat /\ DOMAIN ss = 1 .. Len(ss)
    OBVIOUS
  <2>2. ASSUME NEW k \in Valid(ss)
        PROVE  k \in 1 .. Len(ss) /\ ss[k] \in StudentMetrics /\ ss[k].present > 0
    BY DEF Valid
  <2>3. \A m \in StudentMetrics : m.present \in Nat /\ m.face \in Nat /\ m.read \in Nat
                                 /\ m.sleep \in Nat /\ m.phone \in Nat
    BY DEF StudentMetrics
  <2> QED BY <2>1, <2>2, <2>3
<1>2. ASSUME NEW e \in all
      PROVE  \E type \in DOMAIN Priority, k \in 1 .. n :
               e = CandidateAt(ss, type, k) /\ e.rate \in Int
  <2>1. CASE e \in TopK(ss, "face", Policy.headUpTopK, Policy.headUpMinRate, "headUp")
    <3>1. PICK k \in Valid(ss) : e = Event("headUp", k, Rate(ss[k].face, ss[k].present))
      BY <2>1 DEF TopK
    <3>2. e = CandidateAt(ss, "headUp", k) /\ e.rate = Rate(ss[k].face, ss[k].present)
      BY <3>1 DEF CandidateAt, Event
    <3>3. e.rate \in Int
      BY <1>1, <3>2, RateIsNumber
    <3> QED BY <1>1, <3>2, <3>3 DEF Priority
  <2>2. CASE e \in TopK(ss, "read", Policy.readTopK, Policy.readMinRate, "read")
    <3>1. PICK k \in Valid(ss) : e = Event("read", k, Rate(ss[k].read, ss[k].present))
      BY <2>2 DEF TopK
    <3>2. e = CandidateAt(ss, "read", k) /\ e.rate = Rate(ss[k].read, ss[k].present)
      BY <3>1 DEF CandidateAt, Event
    <3>3. e.rate \in Int
      BY <1>1, <3>2, RateIsNumber
    <3> QED BY <1>1, <3>2, <3>3 DEF Priority
  <2>3. CASE e \in Threshold(ss, "sleep", Policy.sleepMinCount, Policy.sleepMinRate, "sleep")
    <3>1. PICK k \in Valid(ss) : e = Event("sleep", k, Rate(ss[k].sleep, ss[k].present))
      BY <2>3 DEF Threshold
    <3>2. e = CandidateAt(ss, "sleep", k) /\ e.rate = Rate(ss[k].sleep, ss[k].present)
      BY <3>1 DEF CandidateAt, Event
    <3>3. e.rate \in Int
      BY <1>1, <3>2, RateIsNumber
    <3> QED BY <1>1, <3>2, <3>3 DEF Priority
  <2>4. CASE e \in Threshold(ss, "phone", Policy.phoneMinCount, Policy.phoneMinRate, "phone")
    <3>1. PICK k \in Valid(ss) : e = Event("phone", k, Rate(ss[k].phone, ss[k].present))
      BY <2>4 DEF Threshold
    <3>2. e = CandidateAt(ss, "phone", k) /\ e.rate = Rate(ss[k].phone, ss[k].present)
      BY <3>1 DEF CandidateAt, Event
    <3>3. e.rate \in Int
      BY <1>1, <3>2, RateIsNumber
    <3> QED BY <1>1, <3>2, <3>3 DEF Priority
  <2>5. CASE e \in {Event("teacher", i, Unit) : i \in AlertFrames(ts, Policy.consecutiveFrames)}
    <3>1. PICK k \in 1 .. Len(ts) : e = Event("teacher", k, Unit)
      BY <2>5 DEF AlertFrames
    <3>2. e = CandidateAt(ss, "teacher", k) /\ e.rate \in Int /\ k \in 1 .. n
      BY <3>1 DEF CandidateAt, Event, Unit
    <3> QED BY <3>2 DEF Priority
  <2> QED BY <2>1, <2>2, <2>3, <2>4, <2>5 DEF Candidates
<1>3. ASSUME NEW type \in DOMAIN Priority, NEW k \in 1 .. n
      PROVE  LET e == CandidateAt(ss, type, k) IN e.type = type /\ e.second = Second(k)
  BY DEF CandidateAt, Event
<1>4. \A k, l \in 1 .. n : Second(k) \in Int /\ (Second(k) = Second(l) => k = l)
  BY <1>1, FramesHaveSeconds
<1> HIDE DEF all, n
<1>5. IsFiniteSet(all)
  <2>1. IsFiniteSet(DOMAIN Priority)
    <3>1. DOMAIN Priority = ((({"headUp"} \cup {"read"}) \cup {"teacher"}) \cup {"sleep"}) \cup {"phone"}
      BY DEF Priority
    <3>2. IsFiniteSet({"headUp"})
      BY FS_Singleton
    <3>3. IsFiniteSet({"headUp"} \cup {"read"})
      BY <3>2, FS_AddElement
    <3>4. IsFiniteSet(({"headUp"} \cup {"read"}) \cup {"teacher"})
      BY <3>3, FS_AddElement
    <3>5. IsFiniteSet((({"headUp"} \cup {"read"}) \cup {"teacher"}) \cup {"sleep"})
      BY <3>4, FS_AddElement
    <3>6. IsFiniteSet(((({"headUp"} \cup {"read"}) \cup {"teacher"}) \cup {"sleep"}) \cup {"phone"})
      BY <3>5, FS_AddElement
    <3> QED BY <3>1, <3>6
  <2>2. IsFiniteSet(1 .. n)
    BY <1>1, FS_Interval
  <2>3. IsFiniteSet(D)
    BY <2>1, <2>2, FS_Product
  <2>4. F = [x \in D |-> F[x]]
    OBVIOUS
  <2>5. all \subseteq {F[x] : x \in D}
    <3>1. SUFFICES ASSUME NEW e \in all PROVE \E x \in D : e = F[x]
      OBVIOUS
    <3>2. PICK type \in DOMAIN Priority, k \in 1 .. n : e = CandidateAt(ss, type, k)
      BY <1>2
    <3>3. <<type, k>> \in D /\ F[<<type, k>>] = e
      BY <3>2
    <3> QED BY <3>3
  <2> HIDE DEF D, F
  <2>6. IsFiniteSet({F[x] : x \in D})
    BY <2>3, <2>4, ImageIsFinite
  <2> QED BY <2>5, <2>6, FS_Subset
<1>6. \A e \in all : e.type \in DOMAIN Priority /\ e.second \in Int /\ e.rate \in Int
  BY <1>2, <1>3, <1>4
<1>7. \A e, f \in all : e.type = f.type /\ e.second = f.second => e = f
  BY <1>2, <1>3, <1>4
<1> QED BY <1>5, <1>6, <1>7 DEF Sortable, all

-----------------------------------------------------------------------------
(* Sums                                                                    *)

SumOf(c, S) == MapThenSumSet(LAMBDA m : c[m], S)

Chosen(s) == CHOOSE x \in s : TRUE

\* What MapThenSumSet computes with: a sum for each subset.
Sums(h, S, c) ==
  \A s \in SUBSET S : h[s] = IF s = {} THEN 0 ELSE c[Chosen(s)] + h[s \ {Chosen(s)}]

LEMMA ChosenIsIn ==
  ASSUME NEW s, s # {}
  PROVE  Chosen(s) \in s
BY DEF Chosen

\* What holds of a set when it holds of all smaller ones holds of each subset.
LEMMA SubsetInduction ==
  ASSUME NEW S, IsFiniteSet(S), NEW G,
         \A s \in SUBSET S : (\A t \in SUBSET s : t # s => t \in G) => s \in G
  PROVE  SUBSET S \subseteq G
<1> DEFINE Missing == {s \in SUBSET S : s \notin G}
           R == StrictSubsetOrdering(S)
<1>1. IsWellFoundedOn(R, SUBSET S)
  BY FS_StrictSubsetOrderingWellFounded, FS_FiniteSubsetsOfFinite
<1>2. \A s, t \in SUBSET S : t \subseteq s /\ t # s => <<t, s>> \in R
  BY DEF StrictSubsetOrdering
<1> HIDE DEF R
<1>3. SUFFICES ASSUME Missing # {} PROVE FALSE
  OBVIOUS
<1>4. PICK s \in Missing : \A t \in Missing : ~(<<t, s>> \in R)
  <2>1. Missing \subseteq SUBSET S
    OBVIOUS
  <2> HIDE DEF Missing
  <2> QED BY <1>1, <1>3, <2>1, WFMin
<1>5. \A t \in SUBSET s : t # s => t \in G
  <2>1. SUFFICES ASSUME NEW t \in SUBSET s, t # s, t \notin G PROVE FALSE
    OBVIOUS
  <2>2. t \in Missing /\ s \in SUBSET S /\ t \in SUBSET S
    BY <1>4, <2>1
  <2>3. <<t, s>> \in R
    <3> HIDE DEF Missing
    <3> QED BY <1>2, <2>1, <2>2
  <2> QED BY <1>4, <2>2, <2>3
<1> QED BY <1>4, <1>5

LEMMA SumsExist ==
  ASSUME NEW S, IsFiniteSet(S), NEW c, \A m \in S : c[m] \in Nat
  PROVE  \E h : h \in [SUBSET S -> Nat] /\ Sums(h, S, c)
<1> DEFINE Up(h, k) ==
             /\ h \in [SUBSET S -> Nat]
             /\ \A s \in SUBSET S : Cardinality(s) <= k =>
                  h[s] = IF s = {} THEN 0 ELSE c[Chosen(s)] + h[s \ {Chosen(s)}]
           n == Cardinality(S)
           G == {k \in 0 .. n : \E h : Up(h, k)}
<1>1. n \in Nat /\ \A s \in SUBSET S : IsFiniteSet(s) /\ Cardinality(s) \in Nat /\ Cardinality(s) <= n
  BY FS_CardinalityType, FS_Subset
<1>2. ASSUME NEW s \in SUBSET S, s # {}
      PROVE  /\ Chosen(s) \in s /\ s \ {Chosen(s)} \in SUBSET S
             /\ Cardinality(s \ {Chosen(s)}) = Cardinality(s) - 1
  <2>1. Chosen(s) \in s
    BY <1>2, ChosenIsIn
  <2> QED BY <1>1, <2>1, FS_RemoveElement
<1> HIDE DEF n
<1>3. 0 \in G
  <2> DEFINE h0 == [s \in SUBSET S |-> 0]
  <2>1. h0 \in [SUBSET S -> Nat] /\ \A s \in SUBSET S : h0[s] = 0
    OBVIOUS
  <2>2. \A s \in SUBSET S : Cardinality(s) <= 0 => s = {}
    BY <1>1, FS_EmptySet
  <2> HIDE DEF h0
  <2>3. Up(h0, 0)
    BY <2>1, <2>2
  <2> HIDE DEF Up
  <2> QED BY <1>1, <2>3
<1>4. ASSUME NEW k \in 0 .. n - 1, k \in G PROVE k + 1 \in G
  <2>1. PICK h : Up(h, k)
    BY <1>4
  <2> DEFINE next(s) == IF s = {} THEN 0 ELSE c[Chosen(s)] + h[s \ {Chosen(s)}]
             g == [s \in SUBSET S |-> IF Cardinality(s) <= k THEN h[s] ELSE next(s)]
  <2>2. ASSUME NEW s \in SUBSET S PROVE next(s) \in Nat
    <3>1. CASE s = {}
      BY <3>1
    <3>2. CASE s # {}
      <4>1. c[Chosen(s)] \in Nat /\ h[s \ {Chosen(s)}] \in Nat
        BY <1>2, <2>1, <3>2
      <4> QED BY <3>2, <4>1
    <3> QED BY <3>1, <3>2
  <2>3. \A s \in SUBSET S : h[s] \in Nat
    BY <2>1
  <2>4. \A s \in SUBSET S : g[s] = IF Cardinality(s) <= k THEN h[s] ELSE next(s)
    OBVIOUS
  <2>5. g \in [SUBSET S -> Nat]
    <3> HIDE DEF next
    <3> QED BY <2>2, <2>3
  <2> HIDE DEF g
  <2>6. ASSUME NEW s \in SUBSET S, Cardinality(s) <= k + 1
        PROVE  g[s] = IF s = {} THEN 0 ELSE c[Chosen(s)] + g[s \ {Chosen(s)}]
    <3>1. g[s] = next(s)
      <4>1. CASE Cardinality(s) <= k
        BY <2>1, <2>4, <4>1
      <4>2. CASE ~(Cardinality(s) <= k)
        BY <2>4, <4>2
      <4> QED BY <4>1, <4>2
    <3>2. CASE s = {}
      BY <3>1, <3>2
    <3>3. CASE s # {}
      <4> DEFINE t == s \ {Chosen(s)}
      <4>1. t \in SUBSET S /\ Cardinality(t) <= k
        BY <1>1, <1>2, <2>6, <3>3
      <4>2. g[t] = h[t]
        <5> HIDE DEF t
        <5> QED BY <2>4, <4>1
      <4> QED BY <3>1, <3>3, <4>2
    <3> QED BY <3>2, <3>3
  <2>7. Up(g, k + 1)
    BY <2>5, <2>6
  <2>8. k + 1 \in 0 .. n
    BY <1>1
  <2> HIDE DEF Up
  <2> QED BY <2>7, <2>8
<1> HIDE DEF G
<1>5. 0 .. n \subseteq G
  BY <1>1, <1>3, <1>4, CountUp
<1>6. n \in G
  BY <1>1, <1>5
<1>7. PICK h : Up(h, n)
  BY <1>6 DEF G
<1>8. Sums(h, S, c)
  BY <1>1, <1>7 DEF Sums, n
<1> QED BY <1>7, <1>8

\* The sums do not depend on which elements are chosen, nor on the set they
\* are subsets of.
LEMMA SumsAreSums ==
  ASSUME NEW S, IsFiniteSet(S), NEW c, \A m \in S : c[m] \in Nat, NEW h, Sums(h, S, c)
  PROVE  \A s \in SUBSET S : h[s] \in Nat /\ \A x \in s : h[s] = c[x] + h[s \ {x}]
<1> DEFINE G == {s \in SUBSET S : h[s] \in Nat /\ \A x \in s : h[s] = c[x] + h[s \ {x}]}
<1>1. ASSUME NEW s \in SUBSET S, \A t \in SUBSET s : t # s => t \in G PROVE s \in G
  <2>1. CASE s = {}
    <3>1. h[s] = 0
      BY <2>1 DEF Sums
    <3> QED BY <2>1, <3>1
  <2>2. CASE s # {}
    <3> DEFINE y == Chosen(s)
    <3>1. y \in s /\ h[s] = c[y] + h[s \ {y}]
      BY <2>2, ChosenIsIn DEF Sums
    <3> HIDE DEF y
    <3>2. s \ {y} \in G /\ c[y] \in Nat
      BY <1>1, <3>1
    <3>3. h[s \ {y}] \in Nat /\ h[s] \in Nat
      BY <3>1, <3>2
    <3>4. ASSUME NEW x \in s PROVE h[s] = c[x] + h[s \ {x}]
      <4>1. CASE x = y
        BY <3>1, <4>1
      <4>2. CASE x # y
        <5>1. /\ x \in s \ {y} /\ y \in s \ {x}
              /\ (s \ {y}) \ {x} = (s \ {x}) \ {y}
              /\ s \ {x} \in SUBSET s /\ s \ {x} # s
              /\ (s \ {x}) \ {y} \in SUBSET s /\ (s \ {x}) \ {y} # s
          BY <3>1, <4>2
        <5>2. s \ {x} \in G /\ (s \ {x}) \ {y} \in G /\ c[x] \in Nat
          BY <1>1, <5>1
        <5>3. h[s \ {y}] = c[x] + h[(s \ {y}) \ {x}]
          BY <3>2, <5>1
        <5>4. h[s \ {x}] = c[y] + h[(s \ {x}) \ {y}]
          BY <5>1, <5>2
        <5>5. h[(s \ {x}) \ {y}] \in Nat
          BY <5>2
        <5>6. h[s \ {y}] = c[x] + h[(s \ {x}) \ {y}]
          BY <5>1, <5>3
        <5> HIDE DEF G
        <5> QED BY <3>1, <3>2, <5>2, <5>4, <5>5, <5>6
      <4> QED BY <4>1, <4>2
    <3> QED BY <3>3, <3>4
  <2> QED BY <2>1, <2>2
<1> HIDE DEF G
<1>2. SUBSET S \subseteq G
  BY <1>1, SubsetInduction
<1> QED BY <1>2 DEF G

LEMMA SumsAgree ==
  ASSUME NEW S, IsFiniteSet(S), NEW T \in SUBSET S, NEW c, NEW h, NEW g,
         Sums(h, S, c), Sums(g, T, c)
  PROVE  h[T] = g[T]
<1> DEFINE G == {s \in SUBSET T : h[s] = g[s]}
<1>1. ASSUME NEW s \in SUBSET T, \A t \in SUBSET s : t # s => t \in G PROVE s \in G
  <2>1. s \in SUBSET S
    OBVIOUS
  <2>2. CASE s = {}
    BY <2>1, <2>2 DEF Sums
  <2>3. CASE s # {}
    <3>1. Chosen(s) \in s
      BY <2>3, ChosenIsIn
    <3>2. s \ {Chosen(s)} \in G
      BY <1>1, <3>1
    <3> QED BY <2>1, <2>3, <3>2 DEF Sums
  <2> QED BY <2>2, <2>3
<1>2. IsFiniteSet(T)
  BY FS_Subset
<1> HIDE DEF G
<1>3. SUBSET T \subseteq G
  BY <1>1, <1>2, SubsetInduction
<1>4. T \in G
  BY <1>3
<1> QED BY <1>4 DEF G

LEMMA SumOfIs ==
  ASSUME NEW S, IsFiniteSet(S), NEW c, \A m \in S : c[m] \in Nat
  PROVE  \E h : Sums(h, S, c) /\ SumOf(c, S) = h[S]
<1> DEFINE Def(g) == [s \in SUBSET S |-> IF s = {} THEN 0 ELSE c[Chosen(s)] + g[s \ {Chosen(s)}]]
           iter == CHOOSE g : g = Def(g)
<1>1. SumOf(c, S) = iter[S]
  BY DEF SumOf, MapThenSumSet, MapThenFoldSet, Chosen
<1>2. \E g : g = Def(g)
  <2>1. PICK h : h \in [SUBSET S -> Nat] /\ Sums(h, S, c)
    BY SumsExist
  <2>2. h = Def(h)
    BY <2>1 DEF Sums
  <2> HIDE DEF Def
  <2> QED BY <2>2
<1>3. iter = Def(iter)
  <2> HIDE DEF Def
  <2> QED BY <1>2
<1> HIDE DEF iter
<1>4. Sums(iter, S, c)
  BY <1>3 DEF Sums
<1> QED BY <1>1, <1>4

LEMMA SumGrows ==
  ASSUME NEW S, IsFiniteSet(S), NEW c, \A m \in S : c[m] \in Nat, NEW x \in S
  PROVE  /\ SumOf(c, S) \in Nat /\ SumOf(c, S \ {x}) \in Nat
         /\ SumOf(c, S) = SumOf(c, S \ {x}) + c[x]
<1>1. PICK h : Sums(h, S, c) /\ SumOf(c, S) = h[S]
  BY SumOfIs
<1>2. S \ {x} \in SUBSET S /\ IsFiniteSet(S \ {x})
  BY FS_RemoveElement
<1>3. PICK g : Sums(g, S \ {x}, c) /\ SumOf(c, S \ {x}) = g[S \ {x}]
  BY <1>2, SumOfIs
<1>4. h[S \ {x}] = g[S \ {x}]
  BY <1>1, <1>2, <1>3, SumsAgree
<1>5. h[S] \in Nat /\ h[S] = c[x] + h[S \ {x}] /\ h[S \ {x}] \in Nat
  <2>1. \A s \in SUBSET S : h[s] \in Nat /\ \A y \in s : h[s] = c[y] + h[s \ {y}]
    BY <1>1, SumsAreSums
  <2> QED BY <1>2, <2>1
<1>6. c[x] \in Nat
  OBVIOUS
<1> QED BY <1>1, <1>3, <1>4, <1>5, <1>6

LEMMA SumOfNone == ASSUME NEW c PROVE SumOf(c, {}) = 0
<1>1. PICK h : Sums(h, {}, c) /\ SumOf(c, {}) = h[{}]
  BY FS_EmptySet, SumOfIs
<1> QED BY <1>1 DEF Sums

-----------------------------------------------------------------------------
(* Segments                                                                *)

PeakOf(c, a, b) == Max({c[m] : m \in a .. b})

SegmentOf(c, a, b) ==
  [start |-> a, end |-> b, total |-> SumOf(c, a .. b), peak |-> PeakOf(c, a, b)]

IsRun(D, a, b) == a \in D /\ b \in D /\ a <= b /\ a .. b \subseteq D /\ a - 1 \notin D /\ b + 1 \notin D

\* The longest runs of minutes in D.
RunsOf(c, D) == {SegmentOf(c, p[1], p[2]) : p \in {q \in D \X D : IsRun(D, q[1], q[2])}}

LEMMA MaxIsGreatest ==
  ASSUME NEW V \in SUBSET Int, NEW v \in V, \A u \in V : v >= u
  PROVE  Max(V) = v
<1>1. Max(V) \in V /\ \A u \in V : Max(V) >= u
  BY DEF Max
<1>2. Max(V) \in Int /\ v \in Int /\ Max(V) >= v /\ v >= Max(V)
  BY <1>1
<1> QED BY <1>2

\* The greatest of the counts of a run of minutes, with one minute more.
LEMMA PeakGrows ==
  ASSUME NEW a \in Int, NEW b \in Int, a <= b, NEW c, \A m \in a .. b : c[m] \in Nat
  PROVE  /\ PeakOf(c, a, b) \in Nat
         /\ PeakOf(c, a, a) = c[a]
         /\ a < b => PeakOf(c, a, b) =
                      IF c[b] > PeakOf(c, a, b - 1) THEN c[b] ELSE PeakOf(c, a, b - 1)
<1> DEFINE V(e) == {c[m] : m \in a .. e}
           Greatest(e) == Max(V(e)) \in V(e) /\ \A u \in V(e) : Max(V(e)) >= u
           G == {k \in 0 .. b - a : Greatest(a + k)}
<1>1. \A e \in a .. b : V(e) \in SUBSET Nat
  OBVIOUS
<1>2. V(a) = {c[a]} /\ Max(V(a)) = c[a]
  <2>1. a .. a = {a}
    OBVIOUS
  <2>2. V(a) = {c[a]} /\ c[a] \in Nat
    BY <2>1
  <2> HIDE DEF V
  <2> QED BY <2>2, MaxIsGreatest
<1>3. ASSUME NEW e \in a .. b - 1, Greatest(e)
      PROVE  /\ Greatest(e + 1)
             /\ Max(V(e + 1)) = IF c[e + 1] > Max(V(e)) THEN c[e + 1] ELSE Max(V(e))
  <2>1. V(e + 1) = V(e) \cup {c[e + 1]}
    <3>1. \A m : m \in a .. e + 1 <=> m \in a .. e \/ m = e + 1
      OBVIOUS
    <3> QED BY <3>1
  <2>2. c[e + 1] \in Nat /\ V(e) \in SUBSET Nat /\ V(e + 1) \in SUBSET Int
    BY <1>1, <2>1
  <2> HIDE DEF V
  <2> DEFINE v == IF c[e + 1] > Max(V(e)) THEN c[e + 1] ELSE Max(V(e))
  <2>3. v \in V(e + 1) /\ \A u \in V(e + 1) : v >= u
    BY <1>3, <2>1, <2>2
  <2> HIDE DEF v
  <2>4. Max(V(e + 1)) = v
    BY <2>2, <2>3, MaxIsGreatest
  <2> QED BY <2>3, <2>4 DEF v
<1> HIDE DEF V
<1>4. 0 \in G
  <2>1. Greatest(a)
    BY <1>1, <1>2
  <2>2. a + 0 = a /\ 0 \in 0 .. b - a
    OBVIOUS
  <2> HIDE DEF Greatest
  <2> QED BY <2>1, <2>2
<1>5. ASSUME NEW k \in 0 .. b - a - 1, k \in G PROVE k + 1 \in G
  <2>1. a + k \in a .. b - 1 /\ a + (k + 1) = a + k + 1 /\ k + 1 \in 0 .. b - a
    OBVIOUS
  <2>2. Greatest(a + k)
    BY <1>5
  <2>3. Greatest(a + k + 1)
    BY <1>3, <2>1, <2>2
  <2> HIDE DEF Greatest
  <2> QED BY <2>1, <2>3
<1>6. ASSUME NEW e \in a .. b PROVE Greatest(e)
  <2>1. b - a \in Nat /\ e - a \in 0 .. b - a /\ a + (e - a) = e
    OBVIOUS
  <2> HIDE DEF G
  <2>2. 0 .. b - a \subseteq G
    BY <1>4, <1>5, <2>1, CountUp
  <2>3. e - a \in G
    BY <2>1, <2>2
  <2>4. Greatest(a + (e - a))
    BY <2>3 DEF G
  <2> HIDE DEF Greatest
  <2> QED BY <2>1, <2>4
<1>7. Max(V(b)) \in Nat
  BY <1>1, <1>6
<1>8. a < b => Max(V(b)) = IF c[b] > Max(V(b - 1)) THEN c[b] ELSE Max(V(b - 1))
  <2>1. SUFFICES ASSUME a < b
                 PROVE  Max(V(b)) = IF c[b] > Max(V(b - 1)) THEN c[b] ELSE Max(V(b - 1))
    OBVIOUS
  <2>2. b - 1 \in a .. b - 1 /\ b - 1 \in a .. b /\ b - 1 + 1 = b
    BY <2>1
  <2>3. Greatest(b - 1)
    BY <1>6, <2>2
  <2> HIDE DEF Greatest
  <2> QED BY <1>3, <2>2, <2>3
<1> QED BY <1>2, <1>7, <1>8 DEF V, PeakOf

\* A segment of one minute, and a segment with one minute more.
LEMMA SegmentGrows ==
  ASSUME NEW a \in Int, NEW b \in Int, a <= b, NEW c, \A m \in a .. b : c[m] \in Nat
  PROVE  /\ SegmentOf(c, a, b) \in [start : Int, end : Int, total : Nat, peak : Nat]
         /\ SegmentOf(c, a, a) = [start |-> a, end |-> a, total |-> c[a], peak |-> c[a]]
         /\ a < b =>
              LET last == SegmentOf(c, a, b - 1)
              IN  SegmentOf(c, a, b) =
                    [start |-> a, end |-> b, total |-> last.total + c[b],
                     peak |-> IF c[b] > last.peak THEN c[b] ELSE last.peak]
<1>1. \A e, f \in Int : IsFiniteSet(e .. f)
  BY FS_Interval
<1>2. SumOf(c, a .. b) \in Nat /\ SumOf(c, a .. b) = SumOf(c, a .. b - 1) + c[b]
  <2>1. b \in a .. b /\ (a .. b) \ {b} = a .. b - 1
    OBVIOUS
  <2> QED BY <1>1, <2>1, SumGrows
<1>3. SumOf(c, a .. a) = c[a]
  <2>1. a \in a .. a /\ (a .. a) \ {a} = {} /\ \A m \in a .. a : c[m] \in Nat
    OBVIOUS
  <2>2. SumOf(c, a .. a) = SumOf(c, {}) + c[a] /\ c[a] \in Nat
    BY <1>1, <2>1, SumGrows
  <2> QED BY <2>2, SumOfNone
<1> QED BY <1>2, <1>3, PeakGrows DEF SegmentOf

\* What holds after i turns of the loop of _build_segments.
Built(segments, c, M, i) ==
  LET seen == {M[j] : j \in 1 .. i}
  IN  /\ {segments[k] : k \in 1 .. Len(segments)} = RunsOf(c, seen)
      /\ i = 0 => segments = <<>>
      /\ i > 0 => /\ Len(segments) > 0
                  /\ segments[Len(segments)].end = M[i]
                  /\ \A k \in 1 .. Len(segments) - 1 : segments[k].end < M[i]

\* How the longest runs change when a later minute is seen.
LEMMA RunsWithOneMore ==
  ASSUME NEW D \in SUBSET Int, NEW m \in Int, \A d \in D : d < m, NEW a, NEW b
  PROVE  IsRun(D \cup {m}, a, b) <=>
           \/ IsRun(D, a, b) /\ b # m - 1
           \/ b = m /\ a = m /\ m - 1 \notin D
           \/ b = m /\ IsRun(D, a, m - 1)
<1>1. CASE b = m /\ a = m
  BY <1>1 DEF IsRun
<1>2. CASE b = m /\ a # m
  <2>1. ASSUME a \in D PROVE a .. m \subseteq D \cup {m} <=> a .. m - 1 \subseteq D
    BY <2>1
  <2>2. ASSUME a \in D PROVE m - 1 \in a .. m - 1 /\ a <= m - 1
    BY <2>2
  <2>3. m \notin D /\ m + 1 \notin D
    OBVIOUS
  <2>4. ASSUME a \in D PROVE a - 1 \in D \cup {m} <=> a - 1 \in D
    BY <2>4
  <2>5. m - 1 + 1 = m /\ m # m - 1 /\ b \notin D
    BY <1>2
  <2>6. CASE a \in D
    <3>1. m - 1 \in a .. m - 1 /\ a <= m - 1 /\ a <= m
      BY <2>6
    <3>2. IsRun(D \cup {m}, a, m) <=> a .. m - 1 \subseteq D /\ a - 1 \notin D
      BY <2>1, <2>3, <2>4, <2>6, <3>1 DEF IsRun
    <3>3. IsRun(D, a, m - 1) <=> a .. m - 1 \subseteq D /\ a - 1 \notin D
      BY <2>3, <2>5, <2>6, <3>1 DEF IsRun
    <3>4. ~IsRun(D, a, b)
      BY <2>5 DEF IsRun
    <3> QED BY <1>2, <3>2, <3>3, <3>4
  <2>7. CASE a \notin D
    BY <1>2, <2>7 DEF IsRun
  <2> QED BY <2>6, <2>7
<1>3. CASE b # m
  <2>1. ASSUME a \in D, b \in D
        PROVE  /\ a .. b \subseteq D \cup {m} <=> a .. b \subseteq D
               /\ a - 1 \in D \cup {m} <=> a - 1 \in D
               /\ b + 1 \in D \cup {m} <=> b + 1 \in D \/ b = m - 1
    BY <2>1
  <2>2. ASSUME a \in D \cup {m}, b \in D, a <= b PROVE a \in D
    BY <2>2
  <2> QED BY <1>3, <2>1, <2>2 DEF IsRun
<1> QED BY <1>1, <1>2, <1>3

LEMMA RunsOfHas ==
  ASSUME NEW c, NEW D, NEW r
  PROVE  r \in RunsOf(c, D) <=> \E a, b \in D : IsRun(D, a, b) /\ r = SegmentOf(c, a, b)
<1>1. ASSUME r \in RunsOf(c, D)
      PROVE  \E a, b \in D : IsRun(D, a, b) /\ r = SegmentOf(c, a, b)
  <2>1. PICK q \in D \X D : IsRun(D, q[1], q[2]) /\ r = SegmentOf(c, q[1], q[2])
    BY <1>1 DEF RunsOf
  <2> QED BY <2>1
<1>2. ASSUME NEW a \in D, NEW b \in D, IsRun(D, a, b), r = SegmentOf(c, a, b)
      PROVE  r \in RunsOf(c, D)
  <2>1. <<a, b>> \in {q \in D \X D : IsRun(D, q[1], q[2])}
    BY <1>2
  <2>2. r = SegmentOf(c, <<a, b>>[1], <<a, b>>[2])
    BY <1>2
  <2> QED BY <2>1, <2>2 DEF RunsOf
<1> QED BY <1>1, <1>2

LEMMA OneRunToEachEnd ==
  ASSUME NEW D \in SUBSET Int, NEW a, NEW x, NEW b, IsRun(D, a, b), IsRun(D, x, b)
  PROVE  a = x
<1>1. a \in Int /\ x \in Int /\ b \in Int
  BY DEF IsRun
<1>2. ~(a < x)
  <2>1. SUFFICES ASSUME a < x PROVE FALSE
    OBVIOUS
  <2>2. x - 1 \in a .. b
    BY <1>1, <2>1 DEF IsRun
  <2> QED BY <2>2 DEF IsRun
<1>3. ~(x < a)
  <2>1. SUFFICES ASSUME x < a PROVE FALSE
    OBVIOUS
  <2>2. a - 1 \in x .. b
    BY <1>1, <2>1 DEF IsRun
  <2> QED BY <2>2 DEF IsRun
<1> QED BY <1>1, <1>2, <1>3

SegmentRecords == [start : Int, end : Int, total : Int, peak : Int]

LEMMA ExtendBuilds ==
  ASSUME NEW D \in SUBSET Int, NEW c, \A m \in D : c[m] \in Nat,
         NEW n \in Nat, NEW M \in [1 .. n -> D],
         \A i, j \in 1 .. n : i < j => M[i] < M[j],
         NEW segments \in Seq(SegmentRecords), NEW i \in 0 .. n - 1, Built(segments, c, M, i)
  PROVE  Built(Extend(segments, M[i + 1], c[M[i + 1]]), c, M, i + 1)
<1> DEFINE m == M[i + 1]
           S == {M[j] : j \in 1 .. i}
           L == Len(segments)
           new == Extend(segments, m, c[m])
           last == segments[L]
           longer == [start |-> last.start, end |-> m, total |-> last.total + c[m],
                      peak |-> IF c[m] > last.peak THEN c[m] ELSE last.peak]
           short == [start |-> m, end |-> m, total |-> c[m], peak |-> c[m]]
<1>1. /\ i + 1 \in 1 .. n /\ m \in D /\ m \in Int /\ S \in SUBSET D /\ S \in SUBSET Int
      /\ \A d \in S : d < m
      /\ S \cup {m} = {M[j] : j \in 1 .. i + 1}
      /\ i > 0 => M[i] \in S /\ \A d \in S : d <= M[i]
  <2>1. i + 1 \in 1 .. n /\ \A j \in 1 .. i : j \in 1 .. n /\ j < i + 1
    OBVIOUS
  <2>2. m \in D /\ S \in SUBSET D /\ \A d \in S : d < m
    BY <2>1
  <2>3. S \cup {m} = {M[j] : j \in 1 .. i + 1}
    <3>1. \A j : j \in 1 .. i + 1 <=> j \in 1 .. i \/ j = i + 1
      OBVIOUS
    <3> QED BY <3>1
  <2>4. ASSUME i > 0 PROVE M[i] \in S /\ \A d \in S : d <= M[i]
    <3>1. i \in 1 .. i /\ \A j \in 1 .. i : j = i \/ j < i
      BY <2>4
    <3>2. \A j \in 1 .. i : M[j] \in Int
      BY <2>1
    <3> QED BY <2>1, <3>1, <3>2
  <2>5. m \in Int /\ S \in SUBSET Int
    BY <2>2
  <2> QED BY <2>1, <2>2, <2>3, <2>4, <2>5
<1>2. /\ {segments[k] : k \in 1 .. L} = RunsOf(c, S)
      /\ i = 0 => segments = <<>>
      /\ i > 0 => L > 0 /\ last.end = M[i] /\ \A k \in 1 .. L - 1 : segments[k].end < M[i]
      /\ L \in Nat
  BY DEF Built
<1>3. new = IF segments # <<>> /\ m = last.end + 1
            THEN [segments EXCEPT ![L] = longer]
            ELSE Append(segments, short)
  BY DEF Extend
<1> HIDE DEF new, m, S, L
<1>4. ASSUME NEW k \in 1 .. L
      PROVE  \E a, b \in S : IsRun(S, a, b) /\ segments[k] = SegmentOf(c, a, b)
                            /\ segments[k].end = b
  <2>1. segments[k] \in RunsOf(c, S)
    BY <1>2
  <2> QED BY <2>1, RunsOfHas DEF SegmentOf
<1>7. ASSUME Len(new) > 0, new[Len(new)].end = m,
             \A k \in 1 .. Len(new) - 1 : new[k].end < m,
             {new[k] : k \in 1 .. Len(new)} = RunsOf(c, S \cup {m})
      PROVE  Built(new, c, M, i + 1)
  <2>1. i + 1 # 0 /\ M[i + 1] = m /\ S \cup {m} = {M[j] : j \in 1 .. i + 1}
    BY <1>1 DEF m
  <2> QED BY <1>7, <2>1 DEF Built
<1>5. ASSUME segments # <<>> /\ m = last.end + 1 PROVE Built(new, c, M, i + 1)
  <2>1. i > 0 /\ L > 0 /\ L \in 1 .. L /\ last.end = M[i] /\ M[i] = m - 1 /\ m - 1 \in S
    <3>1. i # 0 /\ i > 0
      BY <1>2, <1>5
    <3>2. L > 0 /\ L \in Nat /\ last.end = M[i] /\ M[i] \in S /\ M[i] \in Int
      BY <1>1, <1>2, <3>1
    <3>3. m = M[i] + 1 /\ m \in Int
      BY <1>1, <1>5, <3>2
    <3>4. M[i] = m - 1
      BY <3>2, <3>3
    <3>5. L \in 1 .. L
      BY <3>2
    <3> QED BY <3>1, <3>2, <3>4, <3>5
  <2>2. PICK a \in S : IsRun(S, a, m - 1) /\ last = SegmentOf(c, a, m - 1)
    <3>1. PICK a \in S, b \in S : IsRun(S, a, b) /\ last = SegmentOf(c, a, b) /\ last.end = b
      BY <1>4, <2>1 DEF L
    <3> QED BY <2>1, <3>1
  <2>3. a \in Int /\ a < m /\ a <= m /\ \A k \in a .. m : c[k] \in Nat
    <3>1. a \in Int /\ a < m
      BY <1>1
    <3>2. \A k \in a .. m : k \in a .. m - 1 \/ k = m
      BY <1>1, <3>1
    <3> QED BY <1>1, <2>2, <3>1, <3>2 DEF IsRun
  <2>4. longer = SegmentOf(c, a, m)
    <3> DEFINE before == SegmentOf(c, a, m - 1)
    <3>1. SegmentOf(c, a, m) =
            [start |-> a, end |-> m, total |-> before.total + c[m],
             peak |-> IF c[m] > before.peak THEN c[m] ELSE before.peak]
      BY <1>1, <2>3, SegmentGrows
    <3> HIDE DEF before
    <3>3. before = last
      BY <2>2 DEF before
    <3>2. last.start = a
      BY <2>2 DEF SegmentOf
    <3> QED BY <3>1, <3>2, <3>3
  <2> HIDE DEF longer, short
  <2>5. /\ Len(new) = L /\ new[L] = longer
        /\ \A k \in 1 .. L - 1 : new[k] = segments[k] /\ k \in 1 .. L
        /\ \A k \in 1 .. L : k \in 1 .. L - 1 \/ k = L
    BY <1>2, <1>3, <1>5, <2>1 DEF L
  <2>6. ASSUME NEW k \in 1 .. L PROVE new[k] \in RunsOf(c, S \cup {m})
    <3>1. CASE k = L
      <4>1. IsRun(S \cup {m}, a, m)
        BY <1>1, <2>2, RunsWithOneMore
      <4>2. SegmentOf(c, a, m) \in RunsOf(c, S \cup {m})
        BY <4>1, RunsOfHas DEF IsRun
      <4> QED BY <2>4, <2>5, <3>1, <4>2
    <3>2. CASE k \in 1 .. L - 1
      <4>1. PICK x \in S, y \in S : IsRun(S, x, y) /\ segments[k] = SegmentOf(c, x, y)
                                   /\ segments[k].end = y
        BY <1>4
      <4>2. y < m - 1
        BY <1>2, <2>1, <3>2, <4>1
      <4>3. y # m - 1 /\ IsRun(S, x, y)
        BY <1>1, <4>1, <4>2
      <4>4. IsRun(S \cup {m}, x, y)
        <5> HIDE DEF last
        <5> QED BY <1>1, <4>3, RunsWithOneMore
      <4> QED BY <2>5, <3>2, <4>1, <4>4, RunsOfHas
    <3> QED BY <2>5, <3>1, <3>2
  <2>7. ASSUME NEW r \in RunsOf(c, S \cup {m}) PROVE \E k \in 1 .. L : r = new[k]
    <3>1. PICK x, y : IsRun(S \cup {m}, x, y) /\ r = SegmentOf(c, x, y)
      BY <2>7, RunsOfHas
    <3>2. \/ IsRun(S, x, y) /\ y # m - 1
          \/ y = m /\ IsRun(S, x, m - 1)
      BY <1>1, <2>1, <3>1, RunsWithOneMore
    <3>3. CASE IsRun(S, x, y) /\ y # m - 1
      <4>1. r \in RunsOf(c, S) /\ r.end = y
        BY <3>1, <3>3, RunsOfHas DEF IsRun, SegmentOf
      <4>2. PICK k \in 1 .. L : segments[k] = r
        BY <1>2, <4>1
      <4>3. k # L
        BY <2>1, <3>3, <4>1, <4>2 DEF L
      <4> QED BY <2>5, <4>2, <4>3
    <3>4. CASE y = m /\ IsRun(S, x, m - 1)
      <4>1. x = a
        BY <1>1, <2>2, <3>4, OneRunToEachEnd
      <4> QED BY <2>1, <2>4, <2>5, <3>1, <3>4, <4>1
    <3> QED BY <3>2, <3>3, <3>4
  <2>8. new[L].end = m /\ \A k \in 1 .. L - 1 : new[k].end < m
    <3>1. new[L].end = m
      BY <2>4, <2>5 DEF SegmentOf
    <3>2. ASSUME NEW k \in 1 .. L - 1 PROVE new[k].end < m
      <4>1. PICK y \in S : segments[k].end = y
        BY <1>4, <2>5
      <4> QED BY <1>1, <2>5, <4>1
    <3> QED BY <3>1, <3>2
  <2>9. {new[k] : k \in 1 .. Len(new)} = RunsOf(c, S \cup {m})
    <3>1. {new[k] : k \in 1 .. L} = RunsOf(c, S \cup {m})
      <4>1. \A k \in 1 .. L : new[k] \in RunsOf(c, S \cup {m})
        BY <2>6
      <4>2. \A r \in RunsOf(c, S \cup {m}) : \E k \in 1 .. L : r = new[k]
        BY <2>7
      <4> QED BY <4>1, <4>2
    <3> QED BY <2>5, <3>1
  <2> QED BY <1>1, <2>1, <2>5, <2>8, <2>9, <1>7
<1>6. ASSUME ~(segments # <<>> /\ m = last.end + 1) PROVE Built(new, c, M, i + 1)
  <2>1. m - 1 \notin S
    <3>1. SUFFICES ASSUME m - 1 \in S PROVE FALSE
      OBVIOUS
    <3>2. i > 0
      BY <3>1 DEF S
    <3>3. M[i] \in Int /\ M[i] < m /\ m - 1 <= M[i]
      BY <1>1, <3>1, <3>2
    <3>4. last.end = m - 1 /\ L > 0
      BY <1>1, <1>2, <3>2, <3>3
    <3> QED BY <1>1, <1>6, <3>4 DEF L
  <2>2. short = SegmentOf(c, m, m)
    <3>1. \A k \in m .. m : c[k] \in Nat
      BY <1>1
    <3> QED BY <1>1, <3>1, SegmentGrows
  <2> HIDE DEF longer, short
  <2>3. /\ Len(new) = L + 1 /\ new[L + 1] = short /\ L + 1 - 1 = L
        /\ \A k \in 1 .. L : new[k] = segments[k] /\ k \in 1 .. L + 1
        /\ \A k \in 1 .. L + 1 : k \in 1 .. L \/ k = L + 1
    BY <1>2, <1>3, <1>6 DEF L
  <2>4. ASSUME NEW k \in 1 .. L + 1 PROVE new[k] \in RunsOf(c, S \cup {m})
    <3>1. CASE k = L + 1
      <4>1. IsRun(S \cup {m}, m, m)
        BY <1>1, <2>1, RunsWithOneMore
      <4> QED BY <2>2, <2>3, <3>1, <4>1, RunsOfHas
    <3>2. CASE k \in 1 .. L
      <4>1. PICK x \in S, y \in S : IsRun(S, x, y) /\ segments[k] = SegmentOf(c, x, y)
        BY <1>4, <3>2
      <4>2. y # m - 1
        BY <2>1, <4>1
      <4>3. IsRun(S \cup {m}, x, y)
        BY <1>1, <4>1, <4>2, RunsWithOneMore
      <4> QED BY <2>3, <3>2, <4>1, <4>3, RunsOfHas
    <3> QED BY <2>3, <3>1, <3>2
  <2>5. ASSUME NEW r \in RunsOf(c, S \cup {m}) PROVE \E k \in 1 .. L + 1 : r = new[k]
    <3>1. PICK x, y : IsRun(S \cup {m}, x, y) /\ r = SegmentOf(c, x, y)
      BY <2>5, RunsOfHas
    <3>2. IsRun(S, x, y) \/ (x = m /\ y = m)
      <4>1. ~IsRun(S, x, m - 1)
        BY <2>1 DEF IsRun
      <4> QED BY <1>1, <3>1, <4>1, RunsWithOneMore
    <3>3. CASE IsRun(S, x, y)
      <4>1. r \in RunsOf(c, S)
        BY <3>1, <3>3, RunsOfHas DEF IsRun
      <4>2. PICK k \in 1 .. L : segments[k] = r
        BY <1>2, <4>1
      <4> QED BY <2>3, <4>2
    <3>4. CASE x = m /\ y = m
      <4>1. L + 1 \in 1 .. L + 1
        BY <1>2
      <4> QED BY <2>2, <2>3, <3>1, <3>4, <4>1
    <3> QED BY <3>2, <3>3, <3>4
  <2>6. new[L + 1].end = m
    BY <2>2, <2>3 DEF SegmentOf
  <2>7. ASSUME NEW k \in 1 .. L PROVE new[k].end < m
    <3>1. PICK y \in S : segments[k].end = y
      BY <1>4
    <3> QED BY <1>1, <2>3, <3>1
  <2>8. {new[k] : k \in 1 .. Len(new)} = RunsOf(c, S \cup {m})
    <3>1. \A k \in 1 .. L + 1 : new[k] \in RunsOf(c, S \cup {m})
      BY <2>4
    <3>2. \A r \in RunsOf(c, S \cup {m}) : \E k \in 1 .. L + 1 : r = new[k]
      BY <2>5
    <3> QED BY <2>3, <3>1, <3>2
  <2>9. L + 1 > 0
    BY <1>2
  <2>10. \A k \in 1 .. Len(new) - 1 : new[k].end < m
    BY <2>3, <2>7
  <2> QED BY <2>3, <2>6, <2>8, <2>9, <2>10, <1>7
<1>8. Built(new, c, M, i + 1)
  <2> HIDE DEF last
  <2> QED BY <1>5, <1>6
<1> QED BY <1>8 DEF new, m

LEMMA ExtendType ==
  ASSUME NEW segments \in Seq(SegmentRecords), NEW m \in Int, NEW count \in Int
  PROVE  Extend(segments, m, count) \in Seq(SegmentRecords)
<1> DEFINE L == Len(segments)
           last == segments[L]
           longer == [start |-> last.start, end |-> m, total |-> last.total + count,
                      peak |-> IF count > last.peak THEN count ELSE last.peak]
           short == [start |-> m, end |-> m, total |-> count, peak |-> count]
<1>1. Extend(segments, m, count) =
        IF segments # <<>> /\ m = last.end + 1
        THEN [segments EXCEPT ![L] = longer]
        ELSE Append(segments, short)
  BY DEF Extend
<1>2. short \in SegmentRecords
  BY DEF SegmentRecords
<1>3. ASSUME segments # <<>> PROVE longer \in SegmentRecords /\ L \in 1 .. Len(segments)
  <2>1. last \in SegmentRecords /\ L \in 1 .. Len(segments)
    BY <1>3
  <2> HIDE DEF last
  <2> QED BY <2>1 DEF SegmentRecords
<1> HIDE DEF longer, short, L
<1>4. ASSUME segments # <<>> PROVE [segments EXCEPT ![L] = longer] \in Seq(SegmentRecords)
  BY <1>3, <1>4
<1> QED BY <1>1, <1>2, <1>4

Loop(c, M) == FoldLeft(LAMBDA segments, m : Extend(segments, m, c[m]), <<>>, M)

\* f[i] are the segments after i turns.
BuiltBy(f, n, c, M) ==
  /\ f \in [0 .. n -> Seq(SegmentRecords)]
  /\ f[0] = <<>>
  /\ \A i \in 1 .. n : f[i] = Extend(f[i - 1], M[i], c[M[i]])

\* The loop of _build_segments, turn by turn.
LEMMA ExtendTurns ==
  ASSUME NEW D \in SUBSET Int, NEW c, \A m \in D : c[m] \in Nat,
         NEW n \in Nat, NEW M \in [1 .. n -> D]
  PROVE  \E f : BuiltBy(f, n, c, M) /\ Loop(c, M) = f[n]
<1> DEFINE S == Seq(SegmentRecords)
           turn(v, i) == Extend(v, M[i], c[M[i]])
           step == [i \in 1 .. n |-> [v \in S |-> turn(v, i)]]
           Def(g) == [s \in SUBSET (DOMAIN M) |->
                        IF s = {} THEN <<>>
                        ELSE Extend(g[s \ {Max(s)}], M[Max(s)], c[M[Max(s)]])]
           iter == CHOOSE g : g = Def(g)
<1>0. \A v \in S : \A i \in 1 .. n : turn(v, i) \in S
  <2> HIDE DEF S, step, iter
  <2>1. ASSUME NEW i \in 1 .. n PROVE M[i] \in Int /\ c[M[i]] \in Int
    <3>1. M[i] \in D
      OBVIOUS
    <3>2. M[i] \in Int /\ c[M[i]] \in Nat
      BY <3>1
    <3> QED BY <3>2
  <2>2. ASSUME NEW v \in S, NEW i \in 1 .. n PROVE turn(v, i) \in S
    <3>1. v \in Seq(SegmentRecords)
      BY DEF S
    <3>2. Extend(v, M[i], c[M[i]]) \in Seq(SegmentRecords)
      BY <2>1, <3>1, ExtendType
    <3> QED BY <3>2 DEF S
  <2> HIDE DEF turn
  <2> QED BY <2>2
<1> HIDE DEF turn
<1>1. step \in Steps(n, S) /\ <<>> \in S
  BY <1>0 DEF Steps
<1>2. \A v \in S : \A i \in 1 .. n : step[i][v] = turn(v, i)
  OBVIOUS
<1> HIDE DEF step
<1>3. PICK h : Folds(h, n, S, <<>>, step)
  <2> HIDE DEF S
  <2> QED BY <1>1, FoldExists
<1>4. Loop(c, M) = iter[DOMAIN M]
  BY DEF Loop, FoldLeft, MapThenFoldSet
<1>d. DOMAIN M = 1 .. n
  OBVIOUS
<1>e. \A g : Def(g) = [s \in SUBSET (1 .. n) |->
                         IF s = {} THEN <<>> ELSE turn(g[s \ {Max(s)}], Max(s))]
  BY <1>d DEF turn
<1> HIDE DEF Def
<1>5. \E g : g = Def(g)
  <2>1. h \in [SUBSET (1 .. n) -> S]
    BY <1>3 DEF Folds
  <2>2. ASSUME NEW s \in SUBSET (1 .. n)
        PROVE  h[s] = IF s = {} THEN <<>> ELSE turn(h[s \ {Max(s)}], Max(s))
    <3>1. CASE s = {}
      BY <1>3, <3>1 DEF Folds
    <3>2. CASE s # {}
      <4>1. Max(s) \in 1 .. n
        <5>1. s \in SUBSET (0 .. n)
          OBVIOUS
        <5>2. Max(s) \in s
          BY <3>2, <5>1, MaxExists
        <5> QED BY <5>2
      <4>2. h[s \ {Max(s)}] \in S
        <5>1. s \ {Max(s)} \in SUBSET (1 .. n)
          OBVIOUS
        <5> HIDE DEF S
        <5> QED BY <2>1, <5>1
      <4>3. h[s] = step[Max(s)][h[s \ {Max(s)}]]
        BY <1>3, <3>2 DEF Folds
      <4> HIDE DEF S
      <4> QED BY <1>2, <3>2, <4>1, <4>2, <4>3
    <3> QED BY <3>1, <3>2
  <2>3. h = Def(h)
    <3> HIDE DEF S
    <3> QED BY <1>e, <2>1, <2>2
  <2> QED BY <2>3
<1>6. iter = Def(iter)
  BY <1>5
<1> HIDE DEF iter
<1>7. \A s \in SUBSET (1 .. n) :
        iter[s] = IF s = {} THEN <<>> ELSE turn(iter[s \ {Max(s)}], Max(s))
  BY <1>6, <1>e
<1>8. iter[{}] = <<>>
  BY <1>7
<1>9. ASSUME NEW s \in SUBSET (1 .. n), s # {}, iter[s \ {Max(s)}] \in S
      PROVE  iter[s] = step[Max(s)][iter[s \ {Max(s)}]]
  <2>1. Max(s) \in 1 .. n
    <3>1. s \in SUBSET (0 .. n)
      OBVIOUS
    <3>2. Max(s) \in s
      BY <1>9, <3>1, MaxExists
    <3> QED BY <3>2
  <2>2. iter[s] = turn(iter[s \ {Max(s)}], Max(s))
    BY <1>7, <1>9
  <2> HIDE DEF S
  <2> QED BY <1>2, <1>9, <2>1, <2>2
<1> DEFINE f == [i \in 0 .. n |-> iter[1 .. i]]
<1>10. Iterates(f, n, S, <<>>, step)
  <2>1. \A s \in SUBSET (1 .. n) :
          s # {} /\ iter[s \ {Max(s)}] \in S => iter[s] = step[Max(s)][iter[s \ {Max(s)}]]
    BY <1>9
  <2> HIDE DEF S
  <2> QED BY <1>1, <1>8, <2>1, FoldTurns
<1>11. Loop(c, M) = f[n]
  <2>1. f[n] = iter[1 .. n]
    OBVIOUS
  <2> HIDE DEF f
  <2> QED BY <1>4, <1>d, <2>1
<1> HIDE DEF f
<1>12. ASSUME NEW i \in 1 .. n PROVE f[i] = Extend(f[i - 1], M[i], c[M[i]])
  <2>1. i - 1 \in 0 .. n
    OBVIOUS
  <2>2. f[i] = step[i][f[i - 1]] /\ f[i - 1] \in S
    BY <1>10, <2>1 DEF Iterates
  <2> HIDE DEF S
  <2>3. f[i] = turn(f[i - 1], i)
    BY <1>2, <2>2
  <2> QED BY <2>3 DEF turn
<1>13. BuiltBy(f, n, c, M)
  BY <1>10, <1>12 DEF BuiltBy, Iterates
<1> QED BY <1>11, <1>13

Increasing(M, n, D) == M \in [1 .. n -> D] /\ \A i, j \in 1 .. n : i < j => M[i] < M[j]

\* What the loop has built when it is over.
LEMMA LoopBuilds ==
  ASSUME NEW D \in SUBSET Int, NEW c, \A m \in D : c[m] \in Nat,
         NEW n \in Nat, NEW M, Increasing(M, n, D)
  PROVE  ToSet(Loop(c, M)) = RunsOf(c, {M[j] : j \in 1 .. n})
<1> USE DEF Increasing
<1>1. PICK f : BuiltBy(f, n, c, M) /\ Loop(c, M) = f[n]
  BY ExtendTurns
<1> DEFINE G == {i \in 0 .. n : Built(f[i], c, M, i)}
<1>2. 0 \in G
  <2>1. f[0] = <<>> /\ {M[j] : j \in 1 .. 0} = {}
    BY <1>1 DEF BuiltBy
  <2>2. RunsOf(c, {M[j] : j \in 1 .. 0}) = {}
    <3>1. RunsOf(c, {}) = {}
      BY DEF RunsOf
    <3> QED BY <2>1, <3>1
  <2>3. {f[0][k] : k \in 1 .. Len(f[0])} = {}
    BY <2>1
  <2>4. Built(f[0], c, M, 0)
    BY <2>1, <2>2, <2>3 DEF Built
  <2> QED BY <2>4
<1>3. ASSUME NEW i \in 0 .. n - 1, i \in G PROVE i + 1 \in G
  <2>1. i + 1 \in 1 .. n /\ i + 1 \in 0 .. n /\ i + 1 - 1 = i /\ i \in 0 .. n
    OBVIOUS
  <2>2. f[i] \in Seq(SegmentRecords) /\ f[i + 1] = Extend(f[i], M[i + 1], c[M[i + 1]])
    BY <1>1, <2>1 DEF BuiltBy
  <2>3. Built(f[i], c, M, i)
    BY <1>3
  <2>4. Built(Extend(f[i], M[i + 1], c[M[i + 1]]), c, M, i + 1)
    BY <2>2, <2>3, ExtendBuilds
  <2> QED BY <2>1, <2>2, <2>4
<1>4. n \in G
  <2> HIDE DEF G
  <2>1. 0 .. n \subseteq G
    BY <1>2, <1>3, CountUp
  <2> QED BY <2>1
<1>5. {f[n][k] : k \in 1 .. Len(f[n])} = RunsOf(c, {M[j] : j \in 1 .. n})
  BY <1>4 DEF Built
<1>6. DOMAIN f[n] = 1 .. Len(f[n])
  <2>1. n \in 0 .. n
    OBVIOUS
  <2>2. f[n] \in Seq(SegmentRecords)
    BY <1>1, <2>1 DEF BuiltBy
  <2> QED BY <2>2
<1> QED BY <1>1, <1>5, <1>6 DEF ToSet

\* The minutes in order, as _build_segments goes through them.
InOrder(D) ==
  [i \in 1 .. Cardinality(D) |->
     CHOOSE m \in D : Cardinality({n \in D : n < m}) = i - 1]

\* For any counts of finitely many minutes.
LEMMA SegmentsAreLongest ==
  ASSUME NEW D \in SUBSET Int, IsFiniteSet(D), NEW c \in [D -> Nat]
  PROVE  Segments(c) = RunsOf(c, D)
<1> DEFINE R == {p \in D \X D : p[1] < p[2]}
           n == Cardinality(D)
           M == InOrder(D)
<1>1. n \in Nat
  BY FS_CardinalityType
<1>2. DOMAIN c = D
  OBVIOUS
<1>3. \A x, y \in D : <<x, y>> \in R <=> x < y
  OBVIOUS
<1> HIDE DEF R
<1>4. StrictOrder(R, D)
  <2>1. \A x, y, z \in D : ~(x < x) /\ (x # y => x < y \/ y < x) /\ (x < y /\ y < z => x < z)
    OBVIOUS
  <2> QED BY <1>3, <2>1 DEF StrictOrder
<1>5. ASSUME NEW x \in D PROVE Rank(R, D, x) = Cardinality({m \in D : m < x})
  <2>1. {y \in D : <<y, x>> \in R} = {m \in D : m < x}
    BY <1>3
  <2> QED BY <2>1 DEF Rank
<1>6. ASSUME NEW i \in 1 .. n PROVE M[i] \in D /\ Rank(R, D, M[i]) = i - 1
  <2>1. \E x \in D : Rank(R, D, x) = i - 1
    BY <1>1, <1>4, RanksArePlaces
  <2>2. \E x \in D : Cardinality({m \in D : m < x}) = i - 1
    BY <1>5, <2>1
  <2>3. M[i] = CHOOSE m \in D : Cardinality({k \in D : k < m}) = i - 1
    BY <1>1 DEF InOrder
  <2> HIDE DEF M
  <2>4. M[i] \in D /\ Cardinality({m \in D : m < M[i]}) = i - 1
    BY <2>2, <2>3
  <2> QED BY <1>5, <2>4
<1>7. M \in [1 .. n -> D]
  <2>1. M = [i \in 1 .. n |-> M[i]]
    BY <1>1 DEF InOrder
  <2> HIDE DEF M
  <2> QED BY <1>6, <2>1
<1> HIDE DEF n
<1>8. Segments(c) = ToSet(Loop(c, M))
  BY <1>2 DEF Segments, Loop, InOrder
<1> HIDE DEF M
<1>9. /\ \A e \in D : \E i \in 1 .. n : M[i] = e
      /\ \A i, j \in 1 .. n : i < j => <<M[i], M[j]>> \in R
  <2>1. \A i \in 1 .. Cardinality(D) : M[i] \in D /\ Rank(R, D, M[i]) = i - 1
    BY <1>6 DEF n
  <2> QED BY <1>4, <2>1, SortedByRank DEF n
<1>10. \A i, j \in 1 .. n : i < j => M[i] < M[j]
  BY <1>3, <1>6, <1>9
<1>11. {M[j] : j \in 1 .. n} = D
  BY <1>6, <1>9
<1>12. \A m \in D : c[m] \in Nat
  OBVIOUS
<1>13. ToSet(Loop(c, M)) = RunsOf(c, {M[j] : j \in 1 .. n})
  <2>1. Increasing(M, n, D)
    BY <1>7, <1>10 DEF Increasing
  <2>2. ASSUME NEW k \in Nat, Increasing(M, k, D)
        PROVE  ToSet(Loop(c, M)) = RunsOf(c, {M[j] : j \in 1 .. k})
    BY <1>12, <2>2, LoopBuilds
  <2> QED BY <1>1, <2>1, <2>2
<1> QED BY <1>8, <1>11, <1>13

FieldSum(ss, field, S) == MapThenSumSet(LAMBDA k : ss[k][field], S)

LEMMA FieldSumIsNatural ==
  ASSUME NEW S, IsFiniteSet(S), NEW ss, NEW field, \A k \in S : ss[k][field] \in Nat
  PROVE  FieldSum(ss, field, S) \in Nat
<1> DEFINE c == [k \in S |-> ss[k][field]]
           Def(g) == [s \in SUBSET S |->
                        IF s = {} THEN 0 ELSE ss[Chosen(s)][field] + g[s \ {Chosen(s)}]]
           iter == CHOOSE g : g = Def(g)
<1>1. FieldSum(ss, field, S) = iter[S]
  BY DEF FieldSum, MapThenSumSet, MapThenFoldSet, Chosen
<1>2. \A k \in S : c[k] \in Nat /\ c[k] = ss[k][field]
  OBVIOUS
<1> HIDE DEF c
<1>3. ASSUME NEW s \in SUBSET S, s # {} PROVE c[Chosen(s)] = ss[Chosen(s)][field]
  <2>1. Chosen(s) \in S
    BY <1>3, ChosenIsIn
  <2> QED BY <1>2, <2>1
<1>4. \E g : g = Def(g)
  <2>1. PICK h : h \in [SUBSET S -> Nat] /\ Sums(h, S, c)
    BY <1>2, SumsExist
  <2>2. h = Def(h)
    BY <1>3, <2>1 DEF Sums
  <2> HIDE DEF Def
  <2> QED BY <2>2
<1>5. iter = Def(iter)
  <2> HIDE DEF Def
  <2> QED BY <1>4
<1> HIDE DEF iter
<1>6. Sums(iter, S, c)
  BY <1>3, <1>5 DEF Sums
<1>7. iter[S] \in Nat
  BY <1>2, <1>6, SumsAreSums
<1> QED BY <1>1, <1>7

LEMMA MinuteCountsType ==
  ASSUME NEW ss \in Seq(StudentMetrics), NEW field \in {"phone", "sleep"}
  PROVE  \E D \in SUBSET Int : IsFiniteSet(D) /\ MinuteCounts(ss, field) \in [D -> Nat]
<1> DEFINE counted == {k \in Valid(ss) : Minute(k) >= StartMinute /\ ss[k][field] > 0}
           D == {Minute(k) : k \in counted}
           of(m) == {k \in counted : Minute(k) = m}
<1>1. counted \in SUBSET (1 .. Len(ss)) /\ Len(ss) \in Nat
  BY DEF Valid
<1>2. \A k \in counted : ss[k][field] \in Nat
  <2>1. \A k \in counted : ss[k] \in StudentMetrics
    BY <1>1
  <2> HIDE DEF counted
  <2> QED BY <2>1 DEF StudentMetrics
<1>3. MinuteCounts(ss, field) = [m \in D |-> FieldSum(ss, field, of(m))]
  BY DEF MinuteCounts, FieldSum
<1> HIDE DEF counted
<1>4. IsFiniteSet(counted)
  <2>1. IsFiniteSet(1 .. Len(ss))
    <3>1. \A a, b \in Int : IsFiniteSet(a .. b)
      BY FS_Interval
    <3> QED BY <1>1, <3>1
  <2> QED BY <1>1, <2>1, FS_Subset
<1>5. ASSUME NEW m \in D PROVE FieldSum(ss, field, of(m)) \in Nat
  <2>1. of(m) \in SUBSET counted
    OBVIOUS
  <2>2. IsFiniteSet(of(m)) /\ \A k \in of(m) : ss[k][field] \in Nat
    <3> HIDE DEF of
    <3> QED BY <1>2, <1>4, <2>1, FS_Subset
  <2> HIDE DEF of
  <2> QED BY <2>2, FieldSumIsNatural
<1>6. IsFiniteSet(D)
  <2> DEFINE F == [k \in counted |-> Minute(k)]
  <2>1. D = {F[k] : k \in counted} /\ F = [k \in counted |-> F[k]]
    OBVIOUS
  <2> HIDE DEF F, D
  <2> QED BY <1>4, <2>1, ImageIsFinite
<1>7. D \in SUBSET Int
  <2>1. ASSUME NEW k \in counted PROVE Minute(k) \in Int
    <3>1. k \in Nat
      BY <1>1
    <3>2. Second(k) \in Int
      BY <3>1, FramesHaveSeconds
    <3> QED BY <3>2 DEF Minute
  <2> QED BY <2>1
<1> HIDE DEF D, of
<1>8. MinuteCounts(ss, field) \in [D -> Nat]
  BY <1>3, <1>5
<1> QED BY <1>6, <1>7, <1>8

-----------------------------------------------------------------------------
(* The specification                                                       *)

\* The frames of both videos are lists of metrics.
LessonInv ==
  /\ students \in Seq(StudentMetrics)
  /\ teachers \in Seq(TeacherMetrics)

LEMMA StudentMetricType ==
  ASSUME NEW results \in ResultLists
  PROVE  StudentMetric(results) \in StudentMetrics
<1> DEFINE of(name) == {i \in DOMAIN results : results[i].type = ObjectType[name]}
           names == {"present", "face", "phone", "sleep", "read"}
           count(name) == IF of(name) = {} THEN 0 ELSE results[Max(of(name))].count
<1>1. ASSUME NEW name PROVE count(name) \in Nat
  <2>1. CASE of(name) = {}
    BY <2>1
  <2>2. CASE of(name) # {}
    <3>1. Len(results) \in Nat /\ DOMAIN results = 1 .. Len(results)
          /\ \A i \in DOMAIN results : results[i].count \in Nat
      <4> DEFINE Result == [type : Nat \cup {-1}, count : Nat]
      <4>1. results \in Seq(Result)
        BY DEF ResultLists
      <4>2. \A r \in Result : r.count \in Nat
        OBVIOUS
      <4> HIDE DEF Result, of, count
      <4>3. \A i \in DOMAIN results : results[i] \in Result
        BY <4>1
      <4>4. Len(results) \in Nat /\ DOMAIN results = 1 .. Len(results)
        BY <4>1
      <4> QED BY <4>2, <4>3, <4>4
    <3>2. of(name) \in SUBSET (0 .. Len(results))
      BY <3>1
    <3>3. Max(of(name)) \in of(name)
      <4> HIDE DEF of
      <4> QED BY <2>2, <3>1, <3>2, MaxExists
    <3> QED BY <2>2, <3>1, <3>3
  <2> QED BY <2>1, <2>2
<1>2. StudentMetric(results) = [name \in names |-> count(name)]
  BY DEF StudentMetric, ObjectType
<1> HIDE DEF count
<1> QED BY <1>1, <1>2 DEF StudentMetrics

LEMMA LessonTypes == Spec => []LessonInv
<1>1. Init => LessonInv
  BY DEF Init, LessonInv
<1>2. LessonInv /\ [Next]_vars => LessonInv'
  <2>1. SUFFICES ASSUME LessonInv, [Next]_vars PROVE LessonInv'
    OBVIOUS
  <2>2. CASE NextFrame
    <3>1. PICK f \in Frames :
            /\ students' = Append(students, StudentMetric(f[1]))
            /\ teachers' = Append(teachers, TeacherMetric(f[2]))
      BY <2>2 DEF NextFrame
    <3>2. f[1] \in ResultLists /\ f[2] \in Poses
      BY LessonAssumption
    <3>3. StudentMetric(f[1]) \in StudentMetrics
      BY <3>2, StudentMetricType
    <3>4. TeacherMetric(f[2]) \in TeacherMetrics
      BY <3>2 DEF TeacherMetric, TeacherMetrics, Poses
    <3> QED BY <2>1, <3>1, <3>3, <3>4 DEF LessonInv
  <2>3. CASE UNCHANGED vars
    BY <2>1, <2>3 DEF vars, LessonInv
  <2> QED BY <2>1, <2>2, <2>3 DEF Next
<1> QED BY <1>1, <1>2, PTL DEF Spec

\* No two snapshots of one type are closer than the interval, for lessons of
\* any length and any settings (_dedupe_same_type, snapshots.py:153-182).
THEOREM SnapshotsAreSpaced == Spec => []SnapshotsSpaced
<1>1. LessonInv => SnapshotsSpaced
  <2>1. SUFFICES ASSUME LessonInv PROVE SnapshotsSpaced
    OBVIOUS
  <2>2. Sortable(Candidates(students, teachers))
    BY <2>1, CandidatesSort DEF LessonInv
  <2>3. Snapshots(students, teachers) \subseteq Dedupe(Candidates(students, teachers))
    BY DEF Snapshots
  <2>4. \A e, f \in Dedupe(Candidates(students, teachers)) : e # f => ~Close(e, f)
    BY <2>2, DedupeThins
  <2> QED BY <2>3, <2>4 DEF SnapshotsSpaced
<1> QED BY <1>1, LessonTypes, PTL

\* A candidate is only thinned out for a stronger one close by, however long
\* the chain of replacements (_dedupe_same_type, snapshots.py:153-182).
THEOREM DroppedForAStronger == Spec => []DroppedForStronger
<1>1. LessonInv => DroppedForStronger
  <2>1. SUFFICES ASSUME LessonInv PROVE DroppedForStronger
    OBVIOUS
  <2>2. Sortable(Candidates(students, teachers))
    BY <2>1, CandidatesSort DEF LessonInv
  <2> QED BY <2>2, DedupeThins DEF DroppedForStronger
<1> QED BY <1>1, LessonTypes, PTL

\* A run of alert frames gives one alert per full window, for any length of
\* the run and any size of the window (_teacher_alert_events,
\* snapshots.py:134-150).
THEOREM AlertsAreCounted == Spec => []AlertsPerRun
<1>1. LessonInv => AlertsPerRun
  <2> DEFINE n == Policy.consecutiveFrames
             alert(i) == i \in DOMAIN teachers /\ IsAlert(teachers[i])
  <2>1. SUFFICES ASSUME LessonInv, n > 0,
                        NEW a \in DOMAIN teachers, NEW b \in DOMAIN teachers, a <= b,
                        \A i \in a .. b : alert(i), ~alert(a - 1), ~alert(b + 1)
                 PROVE  Cardinality(AlertFrames(teachers, n) \cap (a .. b)) = (b - a + 1) \div n
    BY DEF AlertsPerRun
  <2>2. Len(teachers) \in Nat /\ DOMAIN teachers = 1 .. Len(teachers)
    BY <2>1 DEF LessonInv
  <2>3. n \in Nat \ {0}
    BY <2>1, PolicyAssumption DEF PolicyFields
  <2>4. a = 1 \/ ~IsAlert(teachers[a - 1])
    BY <2>1, <2>2
  <2>5. \A i \in a .. b : IsAlert(teachers[i])
    BY <2>1
  <2> HIDE DEF n
  <2> QED BY <2>1, <2>2, <2>3, <2>4, <2>5, RunsAreCounted
<1> QED BY <1>1, LessonTypes, PTL


\* The right side of SegmentsAreRuns.
LongestRuns(counts) ==
  LET seen == DOMAIN counts
      run(a, b) == a .. b \subseteq seen /\ a - 1 \notin seen /\ b + 1 \notin seen
  IN  {[start |-> p[1], end |-> p[2],
        total |-> MapThenSumSet(LAMBDA m : counts[m], p[1] .. p[2]),
        peak |-> Max({counts[m] : m \in p[1] .. p[2]})] :
         p \in {q \in seen \X seen : q[1] <= q[2] /\ run(q[1], q[2])}}

\* The segments of a behaviour are its longest runs of minutes, with their
\* counts (_build_segments, behavior_stats.py:80-94).
THEOREM SegmentsAreLongestRuns == Spec => []SegmentsAreRuns
<1>1. LessonInv => SegmentsAreRuns
  <2>1. SUFFICES ASSUME LessonInv PROVE SegmentsAreRuns
    OBVIOUS
  <2>2. ASSUME NEW field \in {"phone", "sleep"}
        PROVE  Segments(MinuteCounts(students, field)) = LongestRuns(MinuteCounts(students, field))
    <3> DEFINE c == MinuteCounts(students, field)
    <3>1. PICK D \in SUBSET Int : IsFiniteSet(D) /\ c \in [D -> Nat]
      BY <2>1, MinuteCountsType DEF LessonInv
    <3> HIDE DEF c
    <3>2. DOMAIN c = D /\ Segments(c) = RunsOf(c, D)
      BY <3>1, SegmentsAreLongest
    <3> DEFINE P == {q \in D \X D : q[1] <= q[2] /\ (/\ q[1] .. q[2] \subseteq D
                                                     /\ q[1] - 1 \notin D
                                                     /\ q[2] + 1 \notin D)}
    <3>3. {q \in D \X D : IsRun(D, q[1], q[2])} = P
      BY DEF IsRun
    <3>4. LongestRuns(c) = {SegmentOf(c, p[1], p[2]) : p \in P}
      BY <3>2 DEF LongestRuns, SegmentOf, SumOf, PeakOf
    <3>5. RunsOf(c, D) = {SegmentOf(c, p[1], p[2]) : p \in P}
      BY <3>3 DEF RunsOf
    <3> QED BY <3>2, <3>4, <3>5 DEF c
  <2> QED BY <2>2 DEF SegmentsAreRuns, LongestRuns
<1> QED BY <1>1, LessonTypes, PTL

=============================================================================

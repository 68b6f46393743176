------------------------- MODULE BookkeepingProofs -------------------------
(***************************************************************************)
(* Lemmas about the computations of Bookkeeping: what a sum is, that it is *)
(* an integer, and what one more summand does to it.                       *)
(***************************************************************************)
EXTENDS Bookkeeping, FiniteSetTheorems, TLAPS

\* Every non-empty set of naturals has a least element.
LEMMA LeastNat ==
  ASSUME NEW T, T \subseteq Nat, T # {}
  PROVE  \E n \in T : \A m \in T : n <= m
<1>1. PICK n \in T : \A m \in T : ~ (<<m, n>> \in OpToRel(<, Nat))
  BY NatLessThanWellFounded, WFMin
<1>2. \A m \in T : ~ (m < n)
  BY <1>1 DEF OpToRel
<1> QED BY <1>2

Ints(s) == Len(s) \in Nat /\ \A i \in 1..Len(s) : s[i] \in Int

\* f[i] is the sum of the first i members of s, for every i up to n.
SumsTo(f, s, n) ==
  f \in [0..n -> Int] /\ f[0] = 0 /\ \A i \in 1..n : f[i] = f[i - 1] + s[i]

LEMMA SumsExist ==
  ASSUME NEW s, Ints(s)
  PROVE  \A n \in 0..Len(s) : \E f : SumsTo(f, s, n)
<1> DEFINE Bad == {n \in 0..Len(s) : ~ \E f : SumsTo(f, s, n)}
<1>1. SUFFICES ASSUME Bad # {} PROVE FALSE
  OBVIOUS
<1>0. Bad \subseteq Nat
  BY DEF Ints
<1>2. PICK n \in Bad : \A m \in Bad : n <= m
  <2> HIDE DEF Bad
  <2> QED BY <1>0, <1>1, LeastNat
<1>3. n \in 0..Len(s) /\ Len(s) \in Nat
  BY DEF Ints
<1>4. CASE n = 0
  <2>1. SumsTo([i \in 0..0 |-> 0], s, 0)
    BY DEF SumsTo
  <2> QED BY <1>4, <2>1
<1>5. CASE n # 0
  <2>1. n - 1 \in 0..Len(s) /\ n - 1 \notin Bad
    BY <1>2, <1>3, <1>5
  <2>2. PICK f : SumsTo(f, s, n - 1)
    BY <2>1
  <2> DEFINE g == [i \in 0..n |-> IF i = n THEN f[n - 1] + s[n] ELSE f[i]]
  <2>3. s[n] \in Int
    BY <1>3, <1>5 DEF Ints
  <2>4. f[n - 1] \in Int
    BY <1>3, <1>5, <2>2 DEF SumsTo
  <2>5. g \in [0..n -> Int]
    BY <1>3, <2>2, <2>3, <2>4 DEF SumsTo
  <2>6. g[0] = 0 /\ g[n] = g[n - 1] + s[n]
    BY <1>3, <1>5, <2>2 DEF SumsTo
  <2>7. ASSUME NEW i \in 1..(n - 1) PROVE g[i] = g[i - 1] + s[i]
    BY <1>3, <2>2 DEF SumsTo
  <2>8. \A i \in 1..n : i = n \/ i \in 1..(n - 1)
    BY <1>3
  <2> HIDE DEF g
  <2>9. SumsTo(g, s, n)
    BY <2>5, <2>6, <2>7, <2>8 DEF SumsTo
  <2> QED BY <2>9
<1> QED BY <1>4, <1>5

LEMMA PartialSumsFacts ==
  ASSUME NEW s, Ints(s)
  PROVE  SumsTo(PartialSums(s), s, Len(s))
<1> DEFINE n == Len(s)
           Rule(f) == f = [i \in 0..n |-> IF i = 0 THEN 0 ELSE f[i - 1] + s[i]]
<1>1. n \in Nat
  BY DEF Ints
<1>2. PICK f : SumsTo(f, s, n)
  BY <1>1, SumsExist
<1>3. Rule(f)
  BY <1>1, <1>2 DEF SumsTo
<1>4. Rule(PartialSums(s))
  BY <1>3 DEF PartialSums
<1> DEFINE g == PartialSums(s)
<1> HIDE DEF g
<1>5. Rule(g)
  BY <1>4 DEF g
<1>6. DOMAIN g = 0..n /\ g[0] = 0 /\ \A i \in 1..n : g[i] = g[i - 1] + s[i]
  BY <1>1, <1>5
<1>7. \A i \in 0..n : g[i] = f[i]
  <2> DEFINE Bad == {i \in 0..n : g[i] # f[i]}
  <2> SUFFICES ASSUME Bad # {} PROVE FALSE
    OBVIOUS
  <2>0. Bad \subseteq Nat
    BY <1>1
  <2>1. PICK i \in Bad : \A j \in Bad : i <= j
    <3> HIDE DEF Bad
    <3> QED BY <2>0, LeastNat
  <2>2. i # 0 /\ i \in 1..n
    BY <1>1, <1>2, <1>6 DEF SumsTo
  <2>3. i - 1 \in 0..n /\ i - 1 \notin Bad
    BY <1>1, <2>1, <2>2
  <2> QED BY <1>2, <1>6, <2>1, <2>2, <2>3 DEF SumsTo
<1>8. g = f
  BY <1>2, <1>5, <1>7 DEF SumsTo
<1> QED BY <1>2, <1>8 DEF g

\* A sum of integers is an integer.
LEMMA SumType ==
  ASSUME NEW s, Ints(s)
  PROVE  Sum(s) \in Int
BY PartialSumsFacts DEF Sum, SumsTo, Ints

LEMMA SumEmpty ==
  ASSUME NEW s, Len(s) = 0
  PROVE  Sum(s) = 0
<1>1. Ints(s)
  BY DEF Ints
<1> QED BY <1>1, PartialSumsFacts DEF Sum, SumsTo

LEMMA SumOfTwo ==
  ASSUME NEW s, Len(s) = 2, s[1] \in Int, s[2] \in Int
  PROVE  Sum(s) = s[1] + s[2]
<1>1. Ints(s)
  BY DEF Ints
<1> DEFINE f == PartialSums(s)
<1>2. SumsTo(f, s, 2) /\ Sum(s) = f[2]
  BY <1>1, PartialSumsFacts DEF Sum
<1> HIDE DEF f
<1>3. f[0] = 0 /\ f[1] = f[0] + s[1] /\ f[2] = f[1] + s[2]
  BY <1>2 DEF SumsTo
<1> QED BY <1>2, <1>3

\* One more summand at the end adds itself.
LEMMA SumAppend ==
  ASSUME NEW s, NEW t, Ints(s), Ints(t), Len(t) = Len(s) + 1,
         \A i \in 1..Len(s) : t[i] = s[i]
  PROVE  Sum(t) = Sum(s) + t[Len(t)]
<1> DEFINE n == Len(s)  f == PartialSums(s)  g == PartialSums(t)
<1>1. n \in Nat /\ Len(t) = n + 1
  BY DEF Ints
<1> HIDE DEF n, f, g
<1>2. SumsTo(f, s, n) /\ SumsTo(g, t, n + 1)
  BY <1>1, PartialSumsFacts DEF n, f, g
<1>3. \A i \in 1..n : t[i] = s[i]
  BY DEF n
<1>4. \A i \in 0..n : g[i] = f[i]
  <2> DEFINE Bad == {i \in 0..n : g[i] # f[i]}
  <2> SUFFICES ASSUME Bad # {} PROVE FALSE
    OBVIOUS
  <2>0. Bad \subseteq Nat
    BY <1>1
  <2>1. PICK i \in Bad : \A j \in Bad : i <= j
    <3> HIDE DEF Bad
    <3> QED BY <2>0, LeastNat
  <2>2. i # 0 /\ i \in 1..n
    BY <1>1, <1>2 DEF SumsTo
  <2>3. i - 1 \in 0..n /\ i - 1 \notin Bad
    BY <1>1, <2>1, <2>2
  <2> QED BY <1>1, <1>2, <1>3, <2>1, <2>2, <2>3 DEF SumsTo
<1>5. g[n + 1] = g[n] + t[n + 1]
  BY <1>1, <1>2 DEF SumsTo
<1>6. Sum(s) = f[n] /\ Sum(t) = g[n + 1]
  BY <1>1 DEF Sum, n, f, g
<1> QED BY <1>1, <1>4, <1>5, <1>6

-----------------------------------------------------------------------------
(* A sum does not depend on the order of its summands, so the sum over a   *)
(* set is well defined and one more member adds its own value.             *)

\* A sum of zeros.
LEMMA SumZeros ==
  ASSUME NEW s, Len(s) \in Nat, \A i \in 1..Len(s) : s[i] = 0
  PROVE  Sum(s) = 0
<1> DEFINE n == Len(s)  f == PartialSums(s)
<1>1. Ints(s)
  BY DEF Ints
<1>2. SumsTo(f, s, n)
  BY <1>1, PartialSumsFacts
<1> DEFINE Bad == {i \in 0..n : f[i] # 0}
<1> HIDE DEF f
<1>3. SUFFICES ASSUME Bad # {} PROVE FALSE
  BY DEF Sum, f
<1>4. PICK i \in Bad : \A j \in Bad : i <= j
  <2>1. Bad \subseteq Nat
    OBVIOUS
  <2> HIDE DEF Bad
  <2> QED BY <1>3, <2>1, LeastNat
<1>5. i # 0 /\ i \in 1..n
  BY <1>2 DEF SumsTo
<1>6. i - 1 \in 0..n /\ i - 1 \notin Bad
  BY <1>4, <1>5
<1> QED BY <1>2, <1>4, <1>5, <1>6 DEF SumsTo

\* Replacing one summand moves the sum by the difference.
LEMMA SumReplace ==
  ASSUME NEW s, NEW t, Ints(s), Ints(t), Len(t) = Len(s), NEW k \in 1..Len(s),
         \A i \in 1..Len(s) : i # k => t[i] = s[i]
  PROVE  Sum(t) = Sum(s) - s[k] + t[k]
<1> DEFINE n == Len(s)  f == PartialSums(s)  g == PartialSums(t)
<1>1. n \in Nat /\ s[k] \in Int /\ t[k] \in Int
  BY DEF Ints
<1>2. SumsTo(f, s, n) /\ SumsTo(g, t, n)
  BY PartialSumsFacts
<1>3. \A i \in 1..n : i # k => t[i] = s[i]
  OBVIOUS
<1>4. Sum(s) = f[n] /\ Sum(t) = g[n]
  BY DEF Sum
<1> HIDE DEF n, f, g
<1> DEFINE Right(i) == g[i] = IF i < k THEN f[i] ELSE f[i] - s[k] + t[k]
           Bad == {i \in 0..n : ~Right(i)}
<1>5. Bad = {}
  <2> SUFFICES ASSUME Bad # {} PROVE FALSE
    OBVIOUS
  <2>1. PICK i \in Bad : \A j \in Bad : i <= j
    <3>1. Bad \subseteq Nat
      BY <1>1
    <3> HIDE DEF Bad
    <3> QED BY <3>1, LeastNat
  <2>2. i # 0 /\ i \in 1..n
    BY <1>1, <1>2 DEF SumsTo, n
  <2>3. i - 1 \in 0..n /\ i - 1 \notin Bad
    BY <1>1, <2>1, <2>2
  <2>4. /\ f[i] = f[i - 1] + s[i] /\ g[i] = g[i - 1] + t[i]
        /\ f[i - 1] \in Int /\ f[i] \in Int
    BY <1>2, <2>2, <2>3 DEF SumsTo
  <2>5. Right(i - 1) /\ ~Right(i)
    BY <2>1, <2>3
  <2>6. CASE i = k
    BY <1>1, <2>2, <2>4, <2>5, <2>6
  <2>7. CASE i # k
    <3>1. t[i] = s[i] /\ s[i] \in Int /\ i \in Int /\ k \in Int
      BY <1>1, <1>3, <2>2, <2>7 DEF n, Ints
    <3>2. CASE i < k
      <4>1. i - 1 < k
        BY <3>1, <3>2
      <4> QED BY <1>1, <2>4, <2>5, <3>1, <3>2, <4>1
    <3>3. CASE ~(i < k)
      <4>1. ~(i - 1 < k)
        BY <2>7, <3>1, <3>3
      <4> QED BY <1>1, <2>4, <2>5, <3>1, <3>3, <4>1, SMTT(30)
    <3> QED BY <3>2, <3>3
  <2> QED BY <2>6, <2>7
<1>6. n \in 0..n /\ ~(n < k)
  BY <1>1 DEF n
<1> QED BY <1>4, <1>5, <1>6

\* f lists the n members of S, each once.
Lists(f, n, S) ==
  /\ f \in [1..n -> S]
  /\ \A i, j \in 1..n : f[i] = f[j] => i = j
  /\ \A x \in S : \E i \in 1..n : f[i] = x

Listed(F, f, n) == Sum([i \in 1..n |-> F[f[i]]])

Picks(f, n, S) == f \in [1..n -> S]
Summands(F, S) == F \in [S -> Int]

\* The list f of m + 1 members without the last, and without the k-th, whose
\* place the last one takes.
Firsts(f, m)     == [i \in 1..m |-> f[i]]
Without(f, k, m) == [i \in 1..m |-> IF i = k THEN f[m + 1] ELSE f[i]]

\* The last of a list of summands is taken off.
LEMMA ListedLast ==
  ASSUME NEW m \in Nat, NEW S, NEW F, Summands(F, S), NEW f, Picks(f, m + 1, S)
  PROVE  Listed(F, f, m + 1) = Listed(F, Firsts(f, m), m) + F[f[m + 1]]
<1> DEFINE n == m + 1
           h == Firsts(f, m)
           s == [i \in 1..m |-> F[h[i]]]
           t == [i \in 1..n |-> F[f[i]]]
<1>0. \A i \in 1..m : h[i] = f[i] /\ i \in 1..n
  BY DEF Firsts
<1> HIDE DEF h
<1>1. Len(s) = m /\ Len(t) = n /\ t[n] = F[f[n]]
  OBVIOUS
<1>2. \A i \in 1..m : t[i] = s[i] /\ s[i] \in Int
  BY <1>0 DEF Picks, Summands
<1>3. \A i \in 1..n : t[i] \in Int
  BY DEF Picks, Summands
<1>4. Listed(F, f, n) = Sum(t) /\ Listed(F, h, m) = Sum(s)
  BY DEF Listed
<1> HIDE DEF s, t
<1>5. Ints(s) /\ Ints(t)
  BY <1>1, <1>2, <1>3 DEF Ints
<1>6. Len(t) = Len(s) + 1 /\ \A i \in 1..Len(s) : t[i] = s[i]
  BY <1>1, <1>2
<1>7. Sum(t) = Sum(s) + t[n]
  BY <1>1, <1>5, <1>6, SumAppend
<1> QED BY <1>1, <1>4, <1>7 DEF h

\* So is any other one of them, when the last one takes its place.
LEMMA ListedWithout ==
  ASSUME NEW m \in Nat, NEW S, NEW F, Summands(F, S), NEW g, Picks(g, m + 1, S),
         NEW k \in 1..(m + 1)
  PROVE  Listed(F, g, m + 1) = Listed(F, Without(g, k, m), m) + F[g[k]]
<1> DEFINE n == m + 1
           r == Firsts(g, m)
           h == Without(g, k, m)
<1>1. Listed(F, g, n) = Listed(F, r, m) + F[g[n]]
  BY ListedLast
<1>2. CASE k = n
  <2>1. h = r
    BY <1>2 DEF Firsts, Without
  <2> HIDE DEF h, r
  <2> QED BY <1>1, <1>2, <2>1 DEF h
<1>3. CASE k # n
  <2> DEFINE s == [i \in 1..m |-> F[r[i]]]
             t == [i \in 1..m |-> F[h[i]]]
  <2>1. k \in 1..m
    BY <1>3
  <2>2. \A i \in 1..m : r[i] = g[i] /\ h[i] = IF i = k THEN g[n] ELSE g[i]
    BY DEF Firsts, Without
  <2>3. Listed(F, r, m) = Sum(s) /\ Listed(F, h, m) = Sum(t)
    BY DEF Listed
  <2> HIDE DEF h, r
  <2>4. Len(s) = m /\ Len(t) = m
    OBVIOUS
  <2>5. \A i \in 1..m : s[i] = F[g[i]] /\ t[i] = F[IF i = k THEN g[n] ELSE g[i]]
    BY <2>2
  <2>6. \A i \in 1..n : F[g[i]] \in Int
    BY DEF Picks, Summands
  <2>7. n \in 1..n /\ \A i \in 1..m : i \in 1..n
    OBVIOUS
  <2> HIDE DEF s, t
  <2>8. \A i \in 1..m : s[i] \in Int /\ t[i] \in Int
    BY <2>5, <2>6, <2>7
  <2>9. s[k] = F[g[k]] /\ t[k] = F[g[n]] /\ \A i \in 1..m : i # k => t[i] = s[i]
    BY <2>1, <2>5
  <2>10. Ints(s) /\ Ints(t)
    BY <2>4, <2>8 DEF Ints
  <2>11. Sum(t) = Sum(s) - s[k] + t[k]
    <3>1. k \in 1..Len(s) /\ Len(t) = Len(s) /\ \A i \in 1..Len(s) : i # k => t[i] = s[i]
      BY <2>1, <2>4, <2>9
    <3> QED BY <2>10, <3>1, SumReplace
  <2>12. Sum(s) \in Int /\ s[k] \in Int /\ t[k] \in Int
    BY <2>1, <2>8, <2>10, SumType
  <2> QED BY <1>1, <2>3, <2>9, <2>11, <2>12 DEF h, r
<1> QED BY <1>2, <1>3

LEMMA SumAnyOrder ==
  ASSUME NEW n \in Nat, NEW S, NEW F \in [S -> Int],
         NEW f, Lists(f, n, S), NEW g, Lists(g, n, S)
  PROVE  Listed(F, f, n) = Listed(F, g, n)
<1> DEFINE Good(m, T, a, b) == Lists(a, m, T) /\ Lists(b, m, T) => Listed(F, a, m) = Listed(F, b, m)
           Bad == {m \in 0..n : \E T \in SUBSET S : \E a, b : ~Good(m, T, a, b)}
<1>1. SUFFICES ASSUME Bad # {} PROVE FALSE
  OBVIOUS
<1>2. PICK m \in Bad : \A j \in Bad : m <= j
  <2>1. Bad \subseteq Nat
    OBVIOUS
  <2> HIDE DEF Bad
  <2> QED BY <1>1, <2>1, LeastNat
<1>3. PICK T \in SUBSET S : \E a, b : ~Good(m, T, a, b)
  BY <1>2
<1>4. PICK a, b : Lists(a, m, T) /\ Lists(b, m, T) /\ Listed(F, a, m) # Listed(F, b, m)
  BY <1>3
<1>5. m # 0
  BY <1>4 DEF Listed
<1>6. m \in Nat /\ m # 0 /\ m - 1 \in 0..n /\ m - 1 \notin Bad
  BY <1>2, <1>5
<1> DEFINE x == a[m]
<1>7. PICK k \in 1..m : b[k] = x
  BY <1>4, <1>6 DEF Lists
<1>8. PICK l \in Nat : l = m - 1 /\ m = l + 1
  BY <1>6
<1> DEFINE c == Firsts(a, l)
           d == Without(b, k, l)
<1>9. /\ m \in 1..m /\ \A i \in 1..m : a[i] \in T /\ b[i] \in T
      /\ \A i, j \in 1..m : a[i] = a[j] => i = j
      /\ \A i, j \in 1..m : b[i] = b[j] => i = j
      /\ \A y \in T : \E i \in 1..m : a[i] = y
      /\ \A y \in T : \E i \in 1..m : b[i] = y
  <2>1. a \in [1..m -> T] /\ b \in [1..m -> T] /\ T \subseteq S
    BY <1>4 DEF Lists
  <2>2. m \in 1..m /\ \A i \in 1..m : a[i] \in T /\ b[i] \in T
    BY <1>6, <2>1
  <2>3. /\ \A i, j \in 1..m : a[i] = a[j] => i = j
        /\ \A y \in T : \E i \in 1..m : a[i] = y
    BY <1>4 DEF Lists
  <2>4. /\ \A i, j \in 1..m : b[i] = b[j] => i = j
        /\ \A y \in T : \E i \in 1..m : b[i] = y
    BY <1>4 DEF Lists
  <2> QED BY <2>2, <2>3, <2>4
<1>10. \A i : i \in 1..l <=> i \in 1..m /\ i # m
  BY <1>8
<1>11. Lists(c, l, T \ {x})
  <2>1. \A i \in 1..l : c[i] = a[i]
    BY DEF Firsts
  <2>2. \A i \in 1..l : a[i] \in T \ {x}
    BY <1>9, <1>10
  <2>3. \A y \in T \ {x} : \E i \in 1..l : c[i] = y
    BY <1>9, <1>10, <2>1
  <2>4. \A i, j \in 1..l : c[i] = c[j] => i = j
    BY <1>9, <1>10, <2>1
  <2>5. c \in [1..l -> T \ {x}]
    BY <2>2 DEF Firsts
  <2> QED BY <2>3, <2>4, <2>5 DEF Lists
<1>12. Lists(d, l, T \ {x})
  <2>1. \A i \in 1..l : d[i] = IF i = k THEN b[m] ELSE b[i]
    BY <1>8 DEF Without
  <2>2. \A i \in 1..l : (IF i = k THEN b[m] ELSE b[i]) \in T \ {x}
    BY <1>7, <1>9, <1>10
  <2>3. \A y \in T \ {x} : \E i \in 1..l : d[i] = y
    <3> TAKE y \in T \ {x}
    <3>1. PICK i \in 1..m : b[i] = y /\ i # k
      BY <1>7, <1>9
    <3>2. CASE i = m
      BY <1>10, <2>1, <3>1, <3>2
    <3>3. CASE i # m
      BY <1>10, <2>1, <3>1, <3>3
    <3> QED BY <3>2, <3>3
  <2>4. ASSUME NEW i \in 1..l, NEW j \in 1..l, d[i] = d[j] PROVE i = j
    <3>1. i \in 1..m /\ i # m /\ j \in 1..m /\ j # m
      BY <1>10
    <3> QED BY <1>9, <2>1, <2>4, <3>1
  <2>5. d \in [1..l -> T \ {x}]
    BY <1>8, <2>2 DEF Without
  <2> QED BY <2>3, <2>4, <2>5 DEF Lists
<1>13. Listed(F, c, l) = Listed(F, d, l)
  <2>1. T \ {x} \in SUBSET S /\ l \in 0..n /\ l \notin Bad
    BY <1>6, <1>8
  <2>2. Good(l, T \ {x}, c, d)
    <3> HIDE DEF Good, c, d
    <3> QED BY <2>1
  <2> HIDE DEF c, d
  <2> QED BY <1>11, <1>12, <2>2
<1>14. Picks(a, l + 1, S) /\ Picks(b, l + 1, S) /\ k \in 1..(l + 1) /\ Summands(F, S)
  <2>1. a \in [1..m -> T] /\ b \in [1..m -> T] /\ T \subseteq S
    BY <1>4 DEF Lists
  <2>2. a \in [1..m -> S] /\ b \in [1..m -> S]
    BY <2>1
  <2> QED BY <1>7, <1>8, <2>2 DEF Picks, Summands
<1>15. Listed(F, a, l + 1) = Listed(F, c, l) + F[a[l + 1]]
  BY <1>14, ListedLast
<1>16. Listed(F, b, l + 1) = Listed(F, d, l) + F[b[k]]
  BY <1>14, ListedWithout
<1> HIDE DEF c, d
<1> QED BY <1>4, <1>7, <1>8, <1>13, <1>15, <1>16

\* A finite set is listed without gaps or repetitions.
LEMMA ListingComplete ==
  ASSUME NEW S, IsFiniteSet(S)
  PROVE  Cardinality(S) \in Nat /\ Lists(SetToSeq(S), Cardinality(S), S)
<1> DEFINE n == Cardinality(S)
           f == SetToSeq(S)
<1>1. n \in Nat /\ ExistsBijection(1..n, S)
  BY FS_CardinalityType
<1>2. \E g \in [1..n -> S] : IsInjective(g)
  BY <1>1 DEF ExistsBijection, Bijection, Injection
<1>3. f \in [1..n -> S] /\ IsInjective(f)
  BY <1>2 DEF SetToSeq
<1> HIDE DEF f
<1>4. f \in Injection(1..n, S) /\ \A i, j \in 1..n : f[i] = f[j] => i = j
  BY <1>3 DEF Injection, IsInjective
<1>5. IsFiniteSet(1..n) /\ Cardinality(1..n) = n
  BY <1>1, FS_Interval
<1>6. f \in Surjection(1..n, S)
  BY <1>4, <1>5, FS_Injection
<1> QED BY <1>1, <1>3, <1>4, <1>6 DEF Lists, Surjection, f

\* The sum over a set with one more member.
LEMMA SumOneMore ==
  ASSUME NEW S, IsFiniteSet(S), NEW x, x \notin S, NEW F, Summands(F, S \cup {x})
  PROVE  Listed(F, SetToSeq(S \cup {x}), Cardinality(S \cup {x}))
           = Listed(F, SetToSeq(S), Cardinality(S)) + F[x]
<1> DEFINE T == S \cup {x}
           f == SetToSeq(S)
           g == SetToSeq(T)
<1>1. PICK n \in Nat : n = Cardinality(S) /\ Lists(f, n, S)
  BY ListingComplete
<1>2. Cardinality(T) = n + 1 /\ IsFiniteSet(T)
  BY <1>1, FS_AddElement
<1>3. Lists(g, n + 1, T)
  BY <1>2, ListingComplete
<1> DEFINE h == [i \in 1..(n + 1) |-> IF i = n + 1 THEN x ELSE f[i]]
<1> HIDE DEF f, g
<1>4. /\ f \in [1..n -> S]
      /\ \A i, j \in 1..n : f[i] = f[j] => i = j
      /\ \A y \in S : \E i \in 1..n : f[i] = y
  BY <1>1 DEF Lists
<1>5. \A i : i \in 1..n <=> i \in 1..(n + 1) /\ i # n + 1
  OBVIOUS
<1>6. n + 1 \in 1..(n + 1) /\ h[n + 1] = x /\ \A i \in 1..n : h[i] = f[i] /\ f[i] \in S
  BY <1>4, <1>5
<1>7. Lists(h, n + 1, T)
  <2>1. h \in [1..(n + 1) -> T]
    BY <1>4, <1>5
  <2> HIDE DEF h
  <2>2. \A y \in T : \E i \in 1..(n + 1) : h[i] = y
    BY <1>4, <1>5, <1>6
  <2>3. \A i, j \in 1..(n + 1) : h[i] = h[j] => i = j
    BY <1>4, <1>5, <1>6
  <2> QED BY <2>1, <2>2, <2>3 DEF Lists
<1>8. Firsts(h, n) = f
  BY <1>4, <1>6 DEF Firsts
<1>9. Picks(h, n + 1, T) /\ F \in [T -> Int] /\ n + 1 \in Nat
  BY <1>7 DEF Lists, Picks, Summands
<1> HIDE DEF h, T
<1>10. Listed(F, h, n + 1) = Listed(F, f, n) + F[x]
  <2>1. Listed(F, h, n + 1) = Listed(F, Firsts(h, n), n) + F[h[n + 1]]
    BY <1>9, ListedLast DEF Summands
  <2> QED BY <1>6, <1>8, <2>1
<1>11. Listed(F, h, n + 1) = Listed(F, g, n + 1)
  BY <1>3, <1>7, <1>9, SumAnyOrder
<1> QED BY <1>1, <1>2, <1>10, <1>11 DEF f, g, T

-----------------------------------------------------------------------------
(* Sums over finite sets.                                                  *)

OverSet(F, S) == Listed(F, SetToSeq(S), Cardinality(S))

\* Induction over the subsets of a finite set: where there is a bad one, there
\* is one that is good again without some member, unless the empty one is bad.
LEMMA SmallestBad ==
  ASSUME NEW S, IsFiniteSet(S), NEW Bad, Bad \subseteq SUBSET S, Bad # {}, {} \notin Bad
  PROVE  \E T \in Bad : \E x \in T : T \ {x} \notin Bad
<1> DEFINE Sizes == {Cardinality(T) : T \in Bad}
<1>1. \A T \in Bad : T \subseteq S /\ IsFiniteSet(T) /\ Cardinality(T) \in Nat
  BY FS_Subset, FS_CardinalityType
<1>2. Sizes \subseteq Nat /\ Sizes # {}
  BY <1>1
<1> HIDE DEF Sizes
<1>3. PICK n \in Sizes : \A k \in Sizes : n <= k
  BY <1>2, LeastNat
<1>4. PICK T \in Bad : Cardinality(T) = n
  BY <1>3 DEF Sizes
<1>5. PICK x : x \in T
  BY <1>4
<1>6. IsFiniteSet(T \ {x}) /\ Cardinality(T \ {x}) = Cardinality(T) - 1
  BY <1>1, <1>4, <1>5, FS_RemoveElement
<1>7. T \ {x} \notin Bad
  <2> SUFFICES ASSUME T \ {x} \in Bad PROVE FALSE
    OBVIOUS
  <2>1. Cardinality(T \ {x}) \in Sizes
    BY DEF Sizes
  <2> QED BY <1>1, <1>3, <1>4, <1>6, <2>1
<1> QED BY <1>4, <1>5, <1>7

LEMMA OverEmpty ==
  ASSUME NEW F
  PROVE  OverSet(F, {}) = 0
<1> DEFINE n == Cardinality({})
           s == [i \in 1..n |-> F[SetToSeq({})[i]]]
<1>1. n = 0
  BY FS_EmptySet
<1>2. Len(s) = 0
  BY <1>1
<1>3. OverSet(F, {}) = Sum(s)
  BY DEF OverSet, Listed
<1> HIDE DEF s
<1> QED BY <1>2, <1>3, SumEmpty

\* The sum depends on the summands of the set alone.
LEMMA OverSame ==
  ASSUME NEW S, IsFiniteSet(S), NEW F, NEW G, \A x \in S : F[x] = G[x]
  PROVE  OverSet(F, S) = OverSet(G, S)
<1> DEFINE f == SetToSeq(S)
           n == Cardinality(S)
<1>1. f \in [1..n -> S]
  BY ListingComplete DEF Lists
<1> HIDE DEF f, n
<1>2. [i \in 1..n |-> F[f[i]]] = [i \in 1..n |-> G[f[i]]]
  BY <1>1
<1> QED BY <1>2 DEF OverSet, Listed, f, n

LEMMA OverType ==
  ASSUME NEW S, IsFiniteSet(S), NEW F, \A x \in S : F[x] \in Int
  PROVE  OverSet(F, S) \in Int
<1> DEFINE f == SetToSeq(S)
           n == Cardinality(S)
           s == [i \in 1..n |-> F[f[i]]]
<1>1. n \in Nat /\ f \in [1..n -> S]
  BY ListingComplete DEF Lists
<1> HIDE DEF f, n
<1>2. Len(s) = n /\ \A i \in 1..n : s[i] \in Int
  BY <1>1
<1>3. OverSet(F, S) = Sum(s)
  BY DEF OverSet, Listed, f, n
<1> HIDE DEF s
<1>4. Ints(s)
  BY <1>1, <1>2 DEF Ints
<1> QED BY <1>3, <1>4, SumType

LEMMA OverOneMore ==
  ASSUME NEW S, IsFiniteSet(S), NEW x, x \notin S, NEW F, \A y \in S \cup {x} : F[y] \in Int
  PROVE  OverSet(F, S \cup {x}) = OverSet(F, S) + F[x]
<1> DEFINE T == S \cup {x}
           G == [y \in T |-> F[y]]
<1>1. IsFiniteSet(T)
  BY FS_AddElement
<1>2. Summands(G, T)
  BY DEF Summands
<1>3. \A y \in T : G[y] = F[y]
  OBVIOUS
<1>4. OverSet(G, T) = OverSet(F, T) /\ OverSet(G, S) = OverSet(F, S)
  <2> HIDE DEF G
  <2>1. OverSet(G, T) = OverSet(F, T)
    <3> HIDE DEF T
    <3> QED BY <1>1, <1>3, OverSame
  <2>2. \A y \in S : G[y] = F[y]
    BY <1>3
  <2> QED BY <2>1, <2>2, OverSame
<1> HIDE DEF G
<1>5. OverSet(G, T) = OverSet(G, S) + G[x]
  BY <1>2, SumOneMore DEF OverSet
<1> QED BY <1>3, <1>4, <1>5

\* A sum written over the order of a set is the sum over the set.
LEMMA ListedSum ==
  ASSUME NEW S, IsFiniteSet(S), NEW G, NEW s, s = [i \in 1..Cardinality(S) |-> s[i]],
         \A i \in 1..Cardinality(S) : s[i] = G[SetToSeq(S)[i]]
  PROVE  Sum(s) = OverSet(G, S)
<1>1. s = [i \in 1..Cardinality(S) |-> G[SetToSeq(S)[i]]]
  OBVIOUS
<1> QED BY <1>1 DEF OverSet, Listed

\* Sums are added summand by summand.
LEMMA OverAdd ==
  ASSUME NEW S, IsFiniteSet(S), NEW F, NEW G, NEW H,
         \A x \in S : F[x] \in Int /\ G[x] \in Int /\ H[x] = F[x] + G[x]
  PROVE  OverSet(H, S) = OverSet(F, S) + OverSet(G, S)
<1> DEFINE Right(T) == OverSet(H, T) = OverSet(F, T) + OverSet(G, T)
           Bad == {T \in SUBSET S : ~Right(T)}
<1>1. SUFFICES ASSUME Bad # {} PROVE FALSE
  OBVIOUS
<1>2. {} \notin Bad
  BY OverEmpty
<1>3. PICK T \in Bad : \E x \in T : T \ {x} \notin Bad
  <2>1. Bad \subseteq SUBSET S
    OBVIOUS
  <2> HIDE DEF Bad
  <2> QED BY <1>1, <1>2, <2>1, SmallestBad
<1>4. PICK x \in T : T \ {x} \notin Bad
  BY <1>3
<1> DEFINE R == T \ {x}
<1>5. R \cup {x} = T /\ x \notin R /\ R \subseteq S /\ T \subseteq S
  BY <1>3, <1>4
<1>6. Right(R) /\ ~Right(T)
  BY <1>3, <1>4, <1>5
<1>7. IsFiniteSet(R)
  BY <1>5, FS_Subset
<1>8. \A y \in R \cup {x} : F[y] \in Int /\ G[y] \in Int /\ H[y] \in Int
  BY <1>5
<1> HIDE DEF R, Bad
<1>9. /\ OverSet(F, R \cup {x}) = OverSet(F, R) + F[x]
      /\ OverSet(G, R \cup {x}) = OverSet(G, R) + G[x]
      /\ OverSet(H, R \cup {x}) = OverSet(H, R) + H[x]
  BY <1>5, <1>7, <1>8, OverOneMore
<1>10. OverSet(F, R) \in Int /\ OverSet(G, R) \in Int
  BY <1>7, <1>8, OverType
<1>11. H[x] = F[x] + G[x] /\ F[x] \in Int /\ G[x] \in Int
  BY <1>5
<1>12. /\ OverSet(F, T) = OverSet(F, R) + F[x] /\ OverSet(G, T) = OverSet(G, R) + G[x]
       /\ OverSet(H, T) = OverSet(H, R) + H[x]
  BY <1>5, <1>9
<1>13. OverSet(H, R) = OverSet(F, R) + OverSet(G, R)
  BY <1>6
<1>14. OverSet(H, T) = OverSet(F, T) + OverSet(G, T)
  BY <1>10, <1>11, <1>12, <1>13
<1> QED BY <1>6, <1>14

LEMMA OverZeros ==
  ASSUME NEW S, IsFiniteSet(S), NEW F, \A x \in S : F[x] = 0
  PROVE  OverSet(F, S) = 0
<1>0. \A x \in S : F[x] \in Int /\ F[x] = F[x] + F[x]
  OBVIOUS
<1>1. OverSet(F, S) = OverSet(F, S) + OverSet(F, S)
  BY <1>0, OverAdd
<1>2. OverSet(F, S) \in Int
  BY OverType
<1> QED BY <1>1, <1>2, SMTT(30)

\* The opposite summands have the opposite sum.
LEMMA OverNegate ==
  ASSUME NEW S, IsFiniteSet(S), NEW F, NEW G, \A x \in S : F[x] \in Int /\ G[x] = -F[x]
  PROVE  OverSet(G, S) = -OverSet(F, S)
<1> DEFINE Z == [x \in S |-> 0]
<1>1. \A x \in S : F[x] \in Int /\ G[x] \in Int /\ Z[x] = F[x] + G[x] /\ Z[x] = 0
  OBVIOUS
<1> HIDE DEF Z
<1>2. OverSet(Z, S) = OverSet(F, S) + OverSet(G, S) /\ OverSet(Z, S) = 0
  BY <1>1, OverAdd, OverZeros
<1>3. OverSet(F, S) \in Int /\ OverSet(G, S) \in Int
  BY <1>1, OverType
<1> QED BY <1>2, <1>3

\* A set in two parts.
LEMMA OverParts ==
  ASSUME NEW S, IsFiniteSet(S), NEW P, P \subseteq S, NEW F, \A x \in S : F[x] \in Int
  PROVE  OverSet(F, S) = OverSet(F, P) + OverSet(F, S \ P)
<1> DEFINE Right(T) == OverSet(F, P \cup T) = OverSet(F, P) + OverSet(F, T)
           Bad == {T \in SUBSET (S \ P) : ~Right(T)}
<1>0. IsFiniteSet(P) /\ IsFiniteSet(S \ P)
  BY FS_Subset
<1>1. SUFFICES ASSUME Bad # {} PROVE FALSE
  <2>1. P \cup (S \ P) = S
    OBVIOUS
  <2>2. Bad = {} => Right(S \ P)
    OBVIOUS
  <2> QED BY <2>1, <2>2
<1>2. {} \notin Bad
  <2>1. OverSet(F, P) \in Int /\ P \cup {} = P
    BY <1>0, OverType
  <2>2. OverSet(F, {}) = 0
    BY OverEmpty
  <2> QED BY <2>1, <2>2
<1>3. PICK T \in Bad : \E x \in T : T \ {x} \notin Bad
  <2>1. Bad \subseteq SUBSET (S \ P)
    OBVIOUS
  <2> HIDE DEF Bad
  <2> QED BY <1>0, <1>1, <1>2, <2>1, SmallestBad
<1>4. PICK x \in T : T \ {x} \notin Bad
  BY <1>3
<1> DEFINE R == T \ {x}
<1>5. /\ R \cup {x} = T /\ x \notin R /\ R \subseteq S \ P /\ T \subseteq S \ P
      /\ (P \cup R) \cup {x} = P \cup T /\ x \notin P \cup R
  BY <1>3, <1>4
<1>6. Right(R) /\ ~Right(T)
  BY <1>3, <1>4, <1>5
<1>7. IsFiniteSet(R) /\ IsFiniteSet(P \cup R)
  <2>1. P \cup R \subseteq S
    BY <1>5
  <2> QED BY <1>0, <1>5, <2>1, FS_Subset
<1>8. /\ \A y \in R \cup {x} : F[y] \in Int
      /\ \A y \in (P \cup R) \cup {x} : F[y] \in Int
  BY <1>5
<1> HIDE DEF R, Bad
<1>9. OverSet(F, R \cup {x}) = OverSet(F, R) + F[x]
  BY <1>5, <1>7, <1>8, OverOneMore
<1> DEFINE Q == P \cup R
<1>10. OverSet(F, Q \cup {x}) = OverSet(F, Q) + F[x]
  <2>1. IsFiniteSet(Q) /\ x \notin Q /\ \A y \in Q \cup {x} : F[y] \in Int
    BY <1>5, <1>7, <1>8
  <2> HIDE DEF Q
  <2> QED BY <2>1, OverOneMore
<1>11. OverSet(F, R) \in Int /\ OverSet(F, P) \in Int /\ F[x] \in Int
  BY <1>0, <1>7, <1>8, OverType
<1>12. OverSet(F, T) = OverSet(F, R) + F[x] /\ OverSet(F, P \cup T) = OverSet(F, Q) + F[x]
  BY <1>5, <1>9, <1>10
<1>13. OverSet(F, Q) = OverSet(F, P) + OverSet(F, R)
  BY <1>6
<1>14. OverSet(F, P \cup T) = OverSet(F, P) + OverSet(F, T)
  BY <1>11, <1>12, <1>13
<1> QED BY <1>6, <1>14

-----------------------------------------------------------------------------
(* Sums over a list, split by what its members belong to.                  *)

IntList(s, n) == s \in [1..n -> Int]

LEMMA SumPlus ==
  ASSUME NEW n \in Nat, NEW s, IntList(s, n), NEW t, IntList(t, n), NEW u, IntList(u, n),
         \A i \in 1..n : u[i] = s[i] + t[i]
  PROVE  Sum(u) = Sum(s) + Sum(t)
<1> DEFINE f == PartialSums(s)  g == PartialSums(t)  h == PartialSums(u)
<1>1. Ints(s) /\ Ints(t) /\ Ints(u) /\ Len(s) = n /\ Len(t) = n /\ Len(u) = n
  BY DEF Ints, IntList
<1>2. SumsTo(f, s, n) /\ SumsTo(g, t, n) /\ SumsTo(h, u, n)
  BY <1>1, PartialSumsFacts
<1>3. Sum(s) = f[n] /\ Sum(t) = g[n] /\ Sum(u) = h[n]
  BY <1>1 DEF Sum
<1> HIDE DEF f, g, h
<1> DEFINE Bad == {i \in 0..n : h[i] # f[i] + g[i]}
<1>4. SUFFICES ASSUME Bad # {} PROVE FALSE
  BY <1>3
<1>5. PICK i \in Bad : \A j \in Bad : i <= j
  <2>1. Bad \subseteq Nat
    OBVIOUS
  <2> HIDE DEF Bad
  <2> QED BY <1>4, <2>1, LeastNat
<1>6. i # 0 /\ i \in 1..n
  BY <1>2, <1>5 DEF SumsTo
<1>7. i - 1 \in 0..n /\ h[i - 1] = f[i - 1] + g[i - 1]
  BY <1>5, <1>6
<1>8. h[i] = h[i - 1] + u[i] /\ f[i] = f[i - 1] + s[i] /\ g[i] = g[i - 1] + t[i]
  BY <1>2, <1>6 DEF SumsTo
<1>9. f[i - 1] \in Int /\ g[i - 1] \in Int /\ s[i] \in Int /\ t[i] \in Int /\ u[i] = s[i] + t[i]
  BY <1>2, <1>6, <1>7 DEF SumsTo, IntList
<1>10. h[i] = f[i] + g[i]
  BY <1>7, <1>8, <1>9
<1> QED BY <1>5, <1>10

LEMMA SumOpposite ==
  ASSUME NEW n \in Nat, NEW s, IntList(s, n), NEW t, IntList(t, n),
         \A i \in 1..n : t[i] = -s[i]
  PROVE  Sum(t) = -Sum(s)
<1> DEFINE z == [i \in 1..n |-> 0]
<1>1. IntList(z, n) /\ Len(z) = n
  BY DEF IntList
<1>2. \A i \in 1..n : z[i] = s[i] + t[i] /\ z[i] = 0
  BY DEF IntList
<1> HIDE DEF z
<1>3. Sum(z) = Sum(s) + Sum(t)
  BY <1>1, <1>2, SumPlus
<1>4. Sum(z) = 0
  BY <1>1, <1>2, SumZeros
<1>5. Ints(s) /\ Ints(t)
  BY DEF Ints, IntList
<1>6. Sum(s) \in Int /\ Sum(t) \in Int
  BY <1>5, SumType
<1> QED BY <1>3, <1>4, <1>6

\* One member of a set weighs w and the others nothing.
LEMMA OverOnly ==
  ASSUME NEW S, IsFiniteSet(S), NEW x \in S, NEW w \in Int, NEW F,
         F[x] = w, \A y \in S \ {x} : F[y] = 0
  PROVE  OverSet(F, S) = w
<1> DEFINE R == S \ {x}
<1>1. IsFiniteSet(R) /\ R \cup {x} = S /\ x \notin R
  BY FS_Subset
<1>2. \A y \in R \cup {x} : F[y] \in Int
  BY <1>1
<1>3. \A y \in R : F[y] = 0
  OBVIOUS
<1> HIDE DEF R
<1>4. OverSet(F, R \cup {x}) = OverSet(F, R) + F[x]
  BY <1>1, <1>2, OverOneMore
<1>5. OverSet(F, R) = 0
  BY <1>1, <1>3, OverZeros
<1> QED BY <1>1, <1>4, <1>5

\* The first m values, where their class is a.
Own(c, v, i, a)   == IF c[i] = a THEN v[i] ELSE 0
Class(c, v, m, a) == Sum([i \in 1..m |-> Own(c, v, i, a)])

LEMMA ClassEmpty ==
  ASSUME NEW c, NEW v, NEW a
  PROVE  Class(c, v, 0, a) = 0
<1> DEFINE s == [i \in 1..0 |-> Own(c, v, i, a)]
<1>1. Len(s) = 0 /\ Class(c, v, 0, a) = Sum(s)
  BY DEF Class
<1> HIDE DEF s
<1> QED BY <1>1, SumEmpty

LEMMA ClassFacts ==
  ASSUME NEW n \in Nat, NEW c, NEW v, IntList(v, n), NEW a
  PROVE  /\ \A m \in 0..n : Class(c, v, m, a) \in Int
         /\ \A m \in 1..n : Class(c, v, m, a)
              = Class(c, v, m - 1, a) + Own(c, v, m, a)
<1> DEFINE w == [i \in 1..n |-> Own(c, v, i, a)]
           s(m) == [i \in 1..m |-> Own(c, v, i, a)]
<1>1. ASSUME NEW m \in 0..n
      PROVE  /\ Len(s(m)) = m /\ Ints(s(m)) /\ \A i \in 1..m : s(m)[i] = w[i]
             /\ Class(c, v, m, a) = Sum(s(m))
  <2>1. \A i \in 1..m : i \in 1..n
    OBVIOUS
  <2>2. Len(s(m)) = m /\ \A i \in 1..m : s(m)[i] = w[i] /\ s(m)[i] \in Int
    BY <2>1 DEF Own, IntList
  <2>3. Class(c, v, m, a) = Sum(s(m))
    BY DEF Class
  <2>4. Ints(s(m))
    <3> DEFINE t == s(m)
    <3>1. Len(t) = m /\ \A i \in 1..m : t[i] \in Int
      BY ONLY <2>2
    <3>0. m \in Nat
      OBVIOUS
    <3> HIDE DEF t
    <3>2. Ints(t)
      BY <3>0, <3>1 DEF Ints
    <3> QED BY <3>2 DEF t
  <2> QED BY <2>2, <2>3, <2>4
<1>2. \A m \in 0..n : Class(c, v, m, a) \in Int
  <2> HIDE DEF s
  <2> QED BY <1>1, SumType
<1>3. ASSUME NEW m \in 1..n
      PROVE  Class(c, v, m, a) = Class(c, v, m - 1, a) + Own(c, v, m, a)
  <2> DEFINE p == s(m - 1)
             t == s(m)
  <2>1. m \in 0..n /\ m - 1 \in 0..n /\ m \in Nat
    OBVIOUS
  <2>2. /\ Ints(p) /\ Ints(t) /\ Len(t) = Len(p) + 1 /\ Len(t) = m
        /\ Class(c, v, m - 1, a) = Sum(p) /\ Class(c, v, m, a) = Sum(t)
    BY <1>1, <2>1
  <2>3. \A i \in 1..Len(p) : t[i] = p[i]
    <3>1. Len(p) = m - 1
      BY <2>1, <2>2
    <3>2. \A i \in 1..(m - 1) : i \in 1..m
      OBVIOUS
    <3> QED BY <1>1, <2>1, <3>1, <3>2
  <2>4. t[m] = w[m]
    BY <1>1, <2>1
  <2> HIDE DEF p, t
  <2>5. Sum(t) = Sum(p) + t[m]
    BY <2>2, <2>3, SumAppend
  <2> QED BY <2>2, <2>4, <2>5
<1> QED BY <1>2, <1>3

\* The values of all classes together are all values.
LEMMA SpreadOver ==
  ASSUME NEW A, IsFiniteSet(A), NEW n \in Nat, NEW c \in [1..n -> A], NEW v \in [1..n -> Int],
         NEW F, \A a \in A : F[a] = Class(c, v, n, a)
  PROVE  OverSet(F, A) = Sum(v)
<1> DEFINE G(m) == [a \in A |-> Class(c, v, m, a)]
           f == PartialSums(v)
<1>1. Len(v) = n /\ Ints(v) /\ IntList(v, n)
  BY DEF Ints, IntList
<1>2. SumsTo(f, v, n) /\ Sum(v) = f[n]
  BY <1>1, PartialSumsFacts DEF Sum
<1> HIDE DEF f
<1> DEFINE Bad == {m \in 0..n : OverSet(G(m), A) # f[m]}
<1>3. Bad = {}
  <2> SUFFICES ASSUME Bad # {} PROVE FALSE
    OBVIOUS
  <2>1. PICK m \in Bad : \A j \in Bad : m <= j
    <3>1. Bad \subseteq Nat
      OBVIOUS
    <3> HIDE DEF Bad
    <3> QED BY <3>1, LeastNat
  <2>2. m # 0
    <3>0. \A a \in A : Class(c, v, 0, a) = 0
      BY ClassEmpty
    <3>1. \A a \in A : G(0)[a] = 0
      BY <3>0
    <3>2. OverSet(G(0), A) = 0
      <4> HIDE DEF G
      <4> QED BY <3>1, OverZeros
    <3> QED BY <1>2, <2>1, <3>2 DEF SumsTo
  <2>3. m \in 1..n /\ m - 1 \in 0..n /\ m - 1 \notin Bad /\ m \in 0..n
    BY <2>1, <2>2
  <2> DEFINE D == [a \in A |-> Own(c, v, m, a)]
             P == G(m - 1)
             Q == G(m)
  <2>4. ASSUME NEW a \in A
        PROVE  P[a] \in Int /\ D[a] \in Int /\ Q[a] = P[a] + D[a]
    <3>0. \A k \in 1..n : Class(c, v, k, a) = Class(c, v, k - 1, a) + Own(c, v, k, a)
      BY <1>1, ClassFacts
    <3>1. Class(c, v, m, a) = Class(c, v, m - 1, a) + Own(c, v, m, a)
      BY <2>3, <3>0
    <3>2. \A k \in 0..n : Class(c, v, k, a) \in Int
      BY <1>1, ClassFacts
    <3>3. Class(c, v, m - 1, a) \in Int
      BY <2>3, <3>2
    <3>4. Own(c, v, m, a) \in Int
      BY <2>3 DEF Own
    <3> QED BY <3>1, <3>3, <3>4
  <2>5. OverSet(Q, A) = OverSet(P, A) + OverSet(D, A)
    <3> HIDE DEF P, D, Q
    <3> QED BY <2>4, OverAdd
  <2>6. OverSet(D, A) = v[m]
    <3>1. c[m] \in A /\ v[m] \in Int /\ D[c[m]] = v[m] /\ \A y \in A \ {c[m]} : D[y] = 0
      BY <2>3 DEF Own
    <3> HIDE DEF D
    <3> QED BY <3>1, OverOnly
  <2>7. OverSet(P, A) = f[m - 1]
    BY <2>3
  <2>8. f[m] = f[m - 1] + v[m]
    BY <1>2, <2>3 DEF SumsTo
  <2> QED BY <2>1, <2>5, <2>6, <2>7, <2>8
<1>4. OverSet(G(n), A) = f[n]
  BY <1>3, SMTT(30)
<1>5. \A a \in A : F[a] = G(n)[a]
  OBVIOUS
<1>6. OverSet(F, A) = OverSet(G(n), A)
  <2> HIDE DEF G
  <2> QED BY <1>5, OverSame
<1> QED BY <1>2, <1>4, <1>6

-----------------------------------------------------------------------------
(* Lines and the sums over them.                                           *)

LEMMA SeqFacts ==
  ASSUME NEW T, NEW ls \in Seq(T)
  PROVE  Len(ls) \in Nat /\ ls \in [1..Len(ls) -> T] /\ \A i \in 1..Len(ls) : ls[i] \in T
OBVIOUS

LEMMA LineFacts ==
  ASSUME NEW l \in LineDto
  PROVE  /\ l.account \in Account /\ l.debit \in Nat /\ l.credit \in Nat
         /\ l.debit \in Int /\ l.credit \in Int
         /\ Natural(l) \in Int /\ l.credit - l.debit \in Int
BY DEF LineDto, Natural

LEMMA CheckedLines ==
  ASSUME NEW ls \in Seq(LineDto), AssertBalanced(ls)
  PROVE  ls \in Seq(Line)
<1>1. \A i \in 1..Len(ls) : ls[i] \in Line
  BY DEF AssertBalanced, Line
<1> QED BY <1>1

LEMMA MirrorTyped ==
  ASSUME NEW ls \in Seq(Line)
  PROVE  Mirror(ls) \in Seq(Line)
<1> DEFINE M(i) == [account |-> ls[i].account, debit |-> ls[i].credit,
                    credit |-> ls[i].debit]
<1>1. \A i \in 1..Len(ls) : M(i) \in Line
  BY DEF Line, LineDto, OneSided
<1> HIDE DEF M
<1>2. [i \in 1..Len(ls) |-> M(i)] \in Seq(Line)
  BY <1>1
<1> QED BY <1>2 DEF Mirror, M

LEMMA DeltaType ==
  ASSUME NEW ls \in Seq(Line), NEW a
  PROVE  Delta(ls, a) \in Int
<1> DEFINE s == [i \in 1..Len(ls) |-> IF ls[i].account = a THEN Natural(ls[i]) ELSE 0]
<1>1. \A i \in 1..Len(ls) : s[i] \in Int
  <2>1. \A i \in 1..Len(ls) : Natural(ls[i]) \in Int
    BY LineFacts DEF Line
  <2> QED BY <2>1
<1>2. Len(s) = Len(ls) /\ Len(s) \in Nat
  OBVIOUS
<1> HIDE DEF s
<1>3. Ints(s)
  BY <1>1, <1>2 DEF Ints
<1> QED BY <1>3, SumType DEF Delta, s

LEMMA NetIncomeType ==
  ASSUME NEW ls \in Seq(Line)
  PROVE  NetIncome(ls) \in Int
<1> DEFINE s == [i \in 1..Len(ls) |-> IF ls[i].account \in Income \cup Expense
                                      THEN ls[i].credit - ls[i].debit ELSE 0]
<1>1. \A i \in 1..Len(ls) : s[i] \in Int
  <2>1. \A i \in 1..Len(ls) : ls[i].credit - ls[i].debit \in Int
    BY LineFacts DEF Line
  <2> QED BY <2>1
<1>2. Len(s) = Len(ls) /\ Len(s) \in Nat
  OBVIOUS
<1> HIDE DEF s
<1>3. Ints(s)
  BY <1>1, <1>2 DEF Ints
<1> QED BY <1>3, SumType DEF NetIncome, s

LEMMA ClosingTyped ==
  ASSUME NEW net \in Int
  PROVE  ClosingLines(net) \in Seq(Line)
<1> DEFINE Leg(a, d, c) == [account |-> a, debit |-> d, credit |-> c]
<1>1. Summary \in Account /\ Retained \in Account
  BY AccountAssumption DEF AccountAssumption
<1>2. CASE net > 0
  <2>1. Leg(Summary, net, 0) \in Line /\ Leg(Retained, 0, net) \in Line
    BY <1>1, <1>2 DEF Line, LineDto, OneSided
  <2>2. ClosingLines(net) = << Leg(Summary, net, 0), Leg(Retained, 0, net) >>
    BY <1>2 DEF ClosingLines
  <2> HIDE DEF Leg
  <2> QED BY <2>1, <2>2
<1>3. CASE net < 0
  <2>1. Leg(Retained, -net, 0) \in Line /\ Leg(Summary, 0, -net) \in Line
    BY <1>1, <1>3 DEF Line, LineDto, OneSided
  <2>2. ClosingLines(net) = << Leg(Retained, -net, 0), Leg(Summary, 0, -net) >>
    BY <1>3 DEF ClosingLines
  <2> HIDE DEF Leg
  <2> QED BY <2>1, <2>2
<1>4. CASE net = 0
  <2>1. ClosingLines(net) = << >>
    BY <1>4 DEF ClosingLines
  <2> QED BY <2>1
<1> QED BY <1>2, <1>3, <1>4

\* A finite set can be listed.
LEMMA ListingExists ==
  ASSUME NEW S, IsFiniteSet(S)
  PROVE  /\ Cardinality(S) \in Nat
         /\ SetToSeq(S) \in [1..Cardinality(S) -> S]
<1>1. Cardinality(S) \in Nat /\ ExistsBijection(1..Cardinality(S), S)
  BY FS_CardinalityType
<1>2. \E f \in [1..Cardinality(S) -> S] : IsInjective(f)
  BY <1>1 DEF ExistsBijection, Bijection, Injection
<1> QED BY <1>1, <1>2 DEF SetToSeq

LEMMA BalanceOverType ==
  ASSUME NEW table, NEW S, IsFiniteSet(S), \A e \in S : table[e].lines \in Seq(Line), NEW a
  PROVE  BalanceOver(table, S, a) \in Int
<1> DEFINE order == SetToSeq(S)
           s == [i \in 1..Cardinality(S) |-> Delta(table[order[i]].lines, a)]
<1>1. Cardinality(S) \in Nat /\ \A i \in 1..Cardinality(S) : order[i] \in S
  BY ListingExists
<1>2. \A i \in 1..Cardinality(S) : s[i] \in Int
  <2> HIDE DEF order
  <2> QED BY <1>1, DeltaType
<1>3. Len(s) = Cardinality(S)
  BY <1>1
<1>4. BalanceOver(table, S, a) = Sum(s)
  BY DEF BalanceOver, SumOver
<1> HIDE DEF s
<1>5. Ints(s)
  BY <1>1, <1>2, <1>3 DEF Ints
<1> QED BY <1>4, <1>5, SumType

LEMMA PeriodNetType ==
  ASSUME NEW table, NEW q, IsFiniteSet(DOMAIN table),
         \A e \in DOMAIN table : table[e].lines \in Seq(Line)
  PROVE  PeriodNet(table, q) \in Int
<1> DEFINE S == PostedIn(table) \cap InPeriod(table, q)
           order == SetToSeq(S)
           s == [i \in 1..Cardinality(S) |-> NetIncome(table[order[i]].lines)]
<1>0. S \subseteq DOMAIN table /\ IsFiniteSet(S)
  BY FS_Subset DEF PostedIn, InPeriod
<1>1. Cardinality(S) \in Nat /\ \A i \in 1..Cardinality(S) : order[i] \in S
  <2> HIDE DEF S
  <2> QED BY <1>0, ListingExists
<1>2. \A i \in 1..Cardinality(S) : s[i] \in Int
  <2> HIDE DEF order, S
  <2> QED BY <1>0, <1>1, NetIncomeType
<1>3. Len(s) = Cardinality(S)
  BY <1>1
<1>4. PeriodNet(table, q) = Sum(s)
  BY DEF PeriodNet, SumOver
<1> HIDE DEF s, S
<1>5. Ints(s)
  BY <1>1, <1>2, <1>3 DEF Ints
<1> QED BY <1>4, <1>5, SumType

\* An entry moves the balance of no account but those of its lines.
LEMMA DeltaElsewhere ==
  ASSUME NEW ls \in Seq(Line), NEW a, a \notin AccountsOf(ls)
  PROVE  Delta(ls, a) = 0
<1> DEFINE s == [i \in 1..Len(ls) |-> IF ls[i].account = a THEN Natural(ls[i]) ELSE 0]
<1>1. Len(ls) \in Nat /\ \A i \in 1..Len(ls) : ls[i].account # a
  BY SeqFacts DEF AccountsOf
<1>2. Len(s) = Len(ls) /\ \A i \in 1..Len(s) : s[i] = 0
  BY <1>1
<1>3. Delta(ls, a) = Sum(s)
  BY DEF Delta
<1> HIDE DEF s
<1> QED BY <1>1, <1>2, <1>3, SumZeros

\* The mirrored lines are on the same accounts.
LEMMA MirrorAccounts ==
  ASSUME NEW ls \in Seq(Line)
  PROVE  AccountsOf(Mirror(ls)) = AccountsOf(ls)
<1>1. Len(ls) \in Nat
  BY SeqFacts
<1>2. Len(Mirror(ls)) = Len(ls) /\ \A i \in 1..Len(ls) : Mirror(ls)[i].account = ls[i].account
  BY <1>1 DEF Mirror
<1> QED BY <1>2 DEF AccountsOf

LEMMA BalanceOverNone ==
  ASSUME NEW table, NEW a
  PROVE  BalanceOver(table, {}, a) = 0
<1> DEFINE n == Cardinality({})
           s == [i \in 1..n |-> Delta(table[SetToSeq({})[i]].lines, a)]
<1>1. n = 0
  BY FS_EmptySet
<1>2. Len(s) = 0
  BY <1>1
<1>3. BalanceOver(table, {}, a) = Sum(s)
  BY DEF BalanceOver, SumOver
<1> HIDE DEF s
<1> QED BY <1>2, <1>3, SumEmpty

LEMMA BalanceIsOver ==
  ASSUME NEW table, NEW S, IsFiniteSet(S), NEW a
  PROVE  BalanceOver(table, S, a) = OverSet([e \in S |-> Delta(table[e].lines, a)], S)
<1> DEFINE f == SetToSeq(S)
           G == [e \in S |-> Delta(table[e].lines, a)]
           s == [i \in 1..Cardinality(S) |-> Delta(table[f[i]].lines, a)]
<1>1. \A i \in 1..Cardinality(S) : f[i] \in S
  BY ListingExists
<1>2. s = [i \in 1..Cardinality(S) |-> s[i]] /\ \A i \in 1..Cardinality(S) : s[i] = G[f[i]]
  BY <1>1
<1>3. BalanceOver(table, S, a) = Sum(s)
  BY DEF BalanceOver, SumOver
<1> HIDE DEF s, G
<1>4. Sum(s) = OverSet(G, S)
  BY <1>2, ListedSum
<1> QED BY <1>3, <1>4 DEF G

\* The balance over a set of entries with one more of them.
LEMMA BalanceOneMore ==
  ASSUME NEW table, NEW S, IsFiniteSet(S), NEW e, e \notin S, NEW a,
         \A x \in S \cup {e} : table[x].lines \in Seq(Line)
  PROVE  BalanceOver(table, S \cup {e}, a)
           = BalanceOver(table, S, a) + Delta(table[e].lines, a)
<1> DEFINE T == S \cup {e}
           F == [x \in T |-> Delta(table[x].lines, a)]
<1>1. Summands(F, T)
  BY DeltaType DEF Summands
<1>2. Listed(F, SetToSeq(T), Cardinality(T)) = Listed(F, SetToSeq(S), Cardinality(S)) + F[e]
  <2> HIDE DEF F
  <2> QED BY <1>1, SumOneMore
<1>3. ASSUME NEW U, U \subseteq T, IsFiniteSet(U)
      PROVE  Listed(F, SetToSeq(U), Cardinality(U)) = BalanceOver(table, U, a)
  <2> DEFINE f == SetToSeq(U)
             n == Cardinality(U)
  <2>1. f \in [1..n -> U]
    BY <1>3, ListingComplete DEF Lists
  <2> HIDE DEF f, n
  <2>2. [i \in 1..n |-> F[f[i]]] = [i \in 1..n |-> Delta(table[f[i]].lines, a)]
    BY <1>3, <2>1
  <2>3. BalanceOver(table, U, a) = Sum([i \in 1..n |-> Delta(table[f[i]].lines, a)])
    BY DEF BalanceOver, SumOver, f, n
  <2> HIDE DEF F
  <2> QED BY <2>2, <2>3 DEF Listed, f, n
<1>4. IsFiniteSet(T)
  BY FS_AddElement
<1>5. F[e] = Delta(table[e].lines, a)
  OBVIOUS
<1> HIDE DEF F
<1> QED BY <1>2, <1>3, <1>4, <1>5

\* Entries that keep their lines keep their balance.
LEMMA BalanceSame ==
  ASSUME NEW S, IsFiniteSet(S), NEW s, NEW t, NEW a, \A x \in S : t[x].lines = s[x].lines
  PROVE  BalanceOver(t, S, a) = BalanceOver(s, S, a)
<1> DEFINE f == SetToSeq(S)
           n == Cardinality(S)
<1>1. f \in [1..n -> S]
  BY ListingComplete DEF Lists
<1> HIDE DEF f, n
<1>2. [i \in 1..n |-> Delta(t[f[i]].lines, a)] = [i \in 1..n |-> Delta(s[f[i]].lines, a)]
  BY <1>1
<1> QED BY <1>2 DEF BalanceOver, SumOver, f, n

-----------------------------------------------------------------------------
(* The net result of a period.                                             *)

NetOver(table, S) == OverSet([e \in S |-> NetIncome(table[e].lines)], S)

LEMMA PeriodNetOver ==
  ASSUME NEW table, NEW q, NEW S, S = PostedIn(table) \cap InPeriod(table, q), IsFiniteSet(S)
  PROVE  PeriodNet(table, q) = NetOver(table, S)
<1> DEFINE f == SetToSeq(S)
           n == Cardinality(S)
           F == [e \in S |-> NetIncome(table[e].lines)]
<1>1. f \in [1..n -> S]
  BY ListingComplete DEF Lists
<1>2. PeriodNet(table, q) = Sum([i \in 1..n |-> NetIncome(table[f[i]].lines)])
  BY DEF PeriodNet, SumOver
<1>3. NetOver(table, S) = Sum([i \in 1..n |-> F[f[i]]])
  BY DEF NetOver, OverSet, Listed
<1> HIDE DEF f, n
<1>4. [i \in 1..n |-> F[f[i]]] = [i \in 1..n |-> NetIncome(table[f[i]].lines)]
  BY <1>1
<1> QED BY <1>2, <1>3, <1>4

LEMMA NetSame ==
  ASSUME NEW S, IsFiniteSet(S), NEW s, NEW t, \A e \in S : t[e].lines = s[e].lines
  PROVE  NetOver(t, S) = NetOver(s, S)
<1>1. [e \in S |-> NetIncome(t[e].lines)] = [e \in S |-> NetIncome(s[e].lines)]
  OBVIOUS
<1> QED BY <1>1 DEF NetOver

LEMMA NetOneMore ==
  ASSUME NEW table, NEW S, IsFiniteSet(S), NEW e, e \notin S,
         \A x \in S \cup {e} : table[x].lines \in Seq(Line)
  PROVE  NetOver(table, S \cup {e}) = NetOver(table, S) + NetIncome(table[e].lines)
<1> DEFINE T == S \cup {e}
           F == [x \in T |-> NetIncome(table[x].lines)]
           G == [x \in S |-> NetIncome(table[x].lines)]
<1>1. \A x \in T : F[x] \in Int
  BY NetIncomeType
<1>2. /\ \A x \in S : F[x] = G[x]
      /\ F[e] = NetIncome(table[e].lines)
  OBVIOUS
<1>3. NetOver(table, T) = OverSet(F, T) /\ NetOver(table, S) = OverSet(G, S)
  BY DEF NetOver
<1> HIDE DEF F, G
<1>4. OverSet(F, S) = OverSet(G, S)
  BY <1>2, OverSame
<1>5. OverSet(F, T) = OverSet(F, S) + F[e]
  BY <1>1, OverOneMore
<1> QED BY <1>2, <1>3, <1>4, <1>5

\* Both accounts of the closing entry are of the result, or neither is.
ClosingAccounts == Summary \in Income \cup Expense <=> Retained \in Income \cup Expense

\* The closing entry itself then adds nothing to the result of its period.
LEMMA ClosingNet ==
  ASSUME NEW net \in Int, ClosingAccounts
  PROVE  NetIncome(ClosingLines(net)) = 0
<1> DEFINE ls == ClosingLines(net)
           s == [i \in 1..Len(ls) |-> IF ls[i].account \in Income \cup Expense
                                      THEN ls[i].credit - ls[i].debit ELSE 0]
<1>1. NetIncome(ls) = Sum(s)
  BY DEF NetIncome
<1>2. CASE net = 0
  <2>1. ls = << >>
    BY <1>2 DEF ClosingLines
  <2>2. Len(s) = 0
    BY <2>1
  <2> HIDE DEF s
  <2> QED BY <1>1, <2>2, SumEmpty
<1>3. ASSUME NEW a, NEW b, NEW d, NEW w \in Int, a \in Income \cup Expense <=> b \in Income \cup Expense,
             d \in Int, d = -w,
             ls = << [account |-> a, debit |-> w, credit |-> 0],
                     [account |-> b, debit |-> 0, credit |-> w] >>
      PROVE  NetIncome(ls) = 0
  <2>0. /\ Len(ls) = 2
        /\ ls[1].account = a /\ ls[1].debit = w /\ ls[1].credit = 0
        /\ ls[2].account = b /\ ls[2].debit = 0 /\ ls[2].credit = w
    BY <1>3
  <2> HIDE DEF ls
  <2>1. Len(s) = 2 /\ s[1] \in Int /\ s[2] \in Int /\ s[1] = -s[2]
    BY <1>3, <2>0
  <2>2. NetIncome(ls) = Sum(s)
    BY <1>1 DEF ls
  <2> HIDE DEF s
  <2>3. Sum(s) = s[1] + s[2]
    BY <2>1, SumOfTwo
  <2> QED BY <2>1, <2>2, <2>3
<1>4. CASE net > 0
  BY <1>3, <1>4 DEF ClosingLines, ClosingAccounts
<1>5. CASE net < 0
  BY <1>3, <1>5 DEF ClosingLines, ClosingAccounts
<1> QED BY <1>2, <1>4, <1>5

-----------------------------------------------------------------------------
(* Rows and tables.                                                        *)

\* An entry that does not touch the account can be left out.
LEMMA BalanceDrop ==
  ASSUME NEW table, NEW S, IsFiniteSet(S), NEW e, NEW a,
         \A x \in S : table[x].lines \in Seq(Line),
         e \in S => a \notin AccountsOf(table[e].lines)
  PROVE  BalanceOver(table, S, a) = BalanceOver(table, S \ {e}, a)
<1> DEFINE R == S \ {e}
<1>1. IsFiniteSet(R)
  BY FS_Subset
<1>2. CASE e \notin S
  <2>1. R = S
    BY <1>2
  <2> QED BY <2>1
<1>3. CASE e \in S
  <2>1. R \cup {e} = S /\ e \notin R
    BY <1>3
  <2>2. \A x \in R \cup {e} : table[x].lines \in Seq(Line)
    BY <2>1
  <2>3. Delta(table[e].lines, a) = 0
    BY <1>3, DeltaElsewhere
  <2>4. BalanceOver(table, R, a) \in Int
    BY <1>1, <2>2, BalanceOverType
  <2> HIDE DEF R
  <2>5. BalanceOver(table, R \cup {e}, a) = BalanceOver(table, R, a) + Delta(table[e].lines, a)
    BY <1>1, <2>1, <2>2, BalanceOneMore
  <2>6. BalanceOver(table, S, a) = BalanceOver(table, R, a)
    BY <2>1, <2>3, <2>4, <2>5
  <2> QED BY <2>6 DEF R
<1> QED BY <1>2, <1>3

\* Two tables that differ in two entries at most, neither of which has the
\* account in the ledger, give it the same balance.
LEMMA BalanceApart ==
  ASSUME NEW E, IsFiniteSet(DOMAIN E), \A e \in DOMAIN E : E[e].lines \in Seq(Line),
         NEW F, IsFiniteSet(DOMAIN F), \A e \in DOMAIN F : F[e].lines \in Seq(Line),
         NEW x, NEW y, NEW a,
         \A e : e # x /\ e # y => (e \in DOMAIN E <=> e \in DOMAIN F),
         \A e \in DOMAIN E : e # x /\ e # y => F[e] = E[e],
         x \in PostedIn(E) => a \notin AccountsOf(E[x].lines),
         y \in PostedIn(E) => a \notin AccountsOf(E[y].lines),
         x \in PostedIn(F) => a \notin AccountsOf(F[x].lines),
         y \in PostedIn(F) => a \notin AccountsOf(F[y].lines)
  PROVE  BalanceOver(E, PostedIn(E), a) = BalanceOver(F, PostedIn(F), a)
<1> DEFINE Rest(T) == (PostedIn(T) \ {x}) \ {y}
<1>1. PostedIn(E) \subseteq DOMAIN E /\ PostedIn(F) \subseteq DOMAIN F
  BY DEF PostedIn
<1>2. /\ IsFiniteSet(PostedIn(E)) /\ \A e \in PostedIn(E) : E[e].lines \in Seq(Line)
      /\ IsFiniteSet(PostedIn(F)) /\ \A e \in PostedIn(F) : F[e].lines \in Seq(Line)
  BY <1>1, FS_Subset
<1>3. BalanceOver(E, PostedIn(E), a) = BalanceOver(E, Rest(E), a)
  <2> DEFINE S == PostedIn(E) \ {x}
  <2>1. BalanceOver(E, PostedIn(E), a) = BalanceOver(E, S, a)
    BY <1>2, BalanceDrop
  <2>2. IsFiniteSet(S) /\ \A e \in S : E[e].lines \in Seq(Line)
    BY <1>2, FS_Subset
  <2>3. y \in S => a \notin AccountsOf(E[y].lines)
    OBVIOUS
  <2> HIDE DEF S
  <2>4. BalanceOver(E, S, a) = BalanceOver(E, S \ {y}, a)
    BY <2>2, <2>3, BalanceDrop
  <2> QED BY <2>1, <2>4 DEF S
<1>4. BalanceOver(F, PostedIn(F), a) = BalanceOver(F, Rest(F), a)
  <2> DEFINE S == PostedIn(F) \ {x}
  <2>1. BalanceOver(F, PostedIn(F), a) = BalanceOver(F, S, a)
    BY <1>2, BalanceDrop
  <2>2. IsFiniteSet(S) /\ \A e \in S : F[e].lines \in Seq(Line)
    BY <1>2, FS_Subset
  <2>3. y \in S => a \notin AccountsOf(F[y].lines)
    OBVIOUS
  <2> HIDE DEF S
  <2>4. BalanceOver(F, S, a) = BalanceOver(F, S \ {y}, a)
    BY <2>2, <2>3, BalanceDrop, SMTT(30)
  <2> QED BY <2>1, <2>4 DEF S
<1>5. Rest(F) = Rest(E)
  BY DEF PostedIn
<1>6. IsFiniteSet(Rest(E)) /\ \A e \in Rest(E) : F[e].lines = E[e].lines
  BY <1>1, <1>2, FS_Subset
<1>7. BalanceOver(F, Rest(E), a) = BalanceOver(E, Rest(E), a)
  <2> HIDE DEF Rest
  <2> QED BY <1>6, BalanceSame
<1> QED BY <1>3, <1>4, <1>5, <1>7

LEMMA RowTypes ==
  /\ \A d \in Date, ls \in Seq(Line), src \in Entry \cup {None} : DraftRow(d, ls, src) \in Row
  /\ \A d \in Date, ls \in Seq(Line) : ClosingRow(d, ls) \in Row
  /\ \A r \in Row : PostedRow(r) \in Row
BY PeriodAssumption DEF PeriodAssumption, DraftRow, ClosingRow, PostedRow, Row, JournalStatus

LEMMA PutFacts ==
  ASSUME NEW table, NEW id, NEW r
  PROVE  /\ DOMAIN Put(table, id, r) = DOMAIN table \cup {id}
         /\ Put(table, id, r)[id] = r
         /\ \A x \in DOMAIN table \ {id} : Put(table, id, r)[x] = table[x]
BY DEF Put

LEMMA PutTyped ==
  ASSUME NEW table, DOMAIN table \subseteq Entry, IsFiniteSet(DOMAIN table),
         table \in [DOMAIN table -> Row],
         NEW id \in Entry, NEW r \in Row
  PROVE  /\ DOMAIN Put(table, id, r) \subseteq Entry
         /\ IsFiniteSet(DOMAIN Put(table, id, r))
         /\ Put(table, id, r) \in [DOMAIN Put(table, id, r) -> Row]
<1>1. IsFiniteSet(DOMAIN table \cup {id})
  BY FS_AddElement
<1> QED BY <1>1 DEF Put
=============================================================================

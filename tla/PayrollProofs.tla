---------------------------- MODULE PayrollProofs ----------------------------
(***************************************************************************)
(* What holds of the payroll for any number of workers, runs, periods and  *)
(* people and any salaries and percentages.  The first part is about sums  *)
(* over sets: they are integers, may be taken in any order and split term  *)
(* by term.  Induction is on the number of summands, by the least one for  *)
(* which a claim fails.                                                    *)
(***************************************************************************)
EXTENDS Payroll, FiniteSetTheorems, TLAPS

\* Every non-empty set of naturals has a least element.
LEMMA LeastNat ==
  ASSUME NEW T, T \subseteq Nat, T # {}
  PROVE  \E n \in T : \A m \in T : n <= m
<1>1. PICK n \in T : \A m \in T : ~ (<<m, n>> \in OpToRel(<, Nat))
  BY NatLessThanWellFounded, WFMin
<1>2. \A m \in T : ~ (m < n)
  BY <1>1 DEF OpToRel
<1> QED BY <1>2

Ints(f, S) == IsFiniteSet(S) /\ \A x \in S : f[x] \in Int

First(s) == CHOOSE x \in s : TRUE
Rest(s)  == s \ {First(s)}

LEMMA RestFacts ==
  ASSUME NEW S, IsFiniteSet(S), NEW s \in SUBSET S, s # {}
  PROVE  /\ First(s) \in s /\ Rest(s) \in SUBSET S
         /\ Cardinality(s) \in Nat /\ Cardinality(Rest(s)) = Cardinality(s) - 1
         /\ Cardinality(Rest(s)) \in Nat
<1>1. First(s) \in s
  BY DEF First
<1>2. IsFiniteSet(s) /\ IsFiniteSet(Rest(s))
  BY FS_Subset DEF Rest
<1> QED BY <1>1, <1>2, FS_RemoveElement, FS_CardinalityType DEF Rest

\* g has the sum of f over every subset of S with n members at most.
Upto(S, n) == {s \in SUBSET S : Cardinality(s) <= n}

SumsTo(g, f, S, n) ==
  /\ g \in [Upto(S, n) -> Int] /\ g[{}] = 0
  /\ \A s \in Upto(S, n) : s # {} => g[s] = f[First(s)] + g[Rest(s)]

LEMMA SumsExist ==
  ASSUME NEW f, NEW S, Ints(f, S)
  PROVE  \A n \in Nat : \E g : SumsTo(g, f, S, n)
<1> DEFINE Bad == {n \in Nat : ~ \E g : SumsTo(g, f, S, n)}
<1> SUFFICES ASSUME Bad # {} PROVE FALSE
  OBVIOUS
<1>1. PICK n \in Bad : \A m \in Bad : n <= m
  <2> HIDE DEF Bad
  <2>1. Bad \subseteq Nat
    BY DEF Bad
  <2> QED BY <2>1, LeastNat
<1>2. IsFiniteSet(S) /\ {} \in SUBSET S /\ Cardinality({}) = 0
  BY FS_EmptySet DEF Ints
<1>3. \A s \in SUBSET S : IsFiniteSet(s) /\ Cardinality(s) \in Nat /\ (Cardinality(s) = 0 <=> s = {})
  BY <1>2, FS_Subset, FS_CardinalityType, FS_EmptySet
<1>4. CASE n = 0
  <2>1. Upto(S, 0) = {{}}
    BY <1>2, <1>3 DEF Upto
  <2>2. SumsTo([s \in {{}} |-> 0], f, S, 0)
    BY <2>1 DEF SumsTo
  <2> QED BY <1>4, <2>2
<1>5. CASE n # 0
  <2>1. n - 1 \in Nat /\ n - 1 \notin Bad
    BY <1>1, <1>5
  <2>2. PICK h : SumsTo(h, f, S, n - 1)
    BY <2>1
  <2> DEFINE g == [s \in Upto(S, n) |->
                     IF s \in Upto(S, n - 1) THEN h[s] ELSE f[First(s)] + h[Rest(s)]]
  <2>3. Upto(S, n - 1) \subseteq Upto(S, n) /\ {} \in Upto(S, n - 1)
    BY <1>1, <1>2, <1>3, <2>1 DEF Upto
  <2>4. ASSUME NEW s \in Upto(S, n), s # {}
        PROVE  Rest(s) \in Upto(S, n - 1) /\ f[First(s)] \in Int
    BY <1>1, <1>2, <2>4, RestFacts DEF Upto, Ints
  <2>5. \A s \in Upto(S, n - 1) : h[s] \in Int
    BY <2>2 DEF SumsTo
  <2>6. g \in [Upto(S, n) -> Int]
    <3>1. ASSUME NEW s \in Upto(S, n)
          PROVE  (IF s \in Upto(S, n - 1) THEN h[s] ELSE f[First(s)] + h[Rest(s)]) \in Int
      <4>1. CASE s \in Upto(S, n - 1)
        BY <2>5, <4>1
      <4>2. CASE s \notin Upto(S, n - 1)
        <5>1. f[First(s)] \in Int /\ h[Rest(s)] \in Int
          BY <2>3, <2>4, <2>5, <4>2
        <5> QED BY <4>2, <5>1
      <4> QED BY <4>1, <4>2
    <3> QED BY <3>1
  <2>7. g[{}] = 0
    BY <2>2, <2>3 DEF SumsTo
  <2>8. ASSUME NEW s \in Upto(S, n), s # {} PROVE g[s] = f[First(s)] + g[Rest(s)]
    BY <2>2, <2>3, <2>4, <2>8 DEF SumsTo
  <2> HIDE DEF g
  <2>9. SumsTo(g, f, S, n)
    BY <2>6, <2>7, <2>8 DEF SumsTo
  <2> QED BY <1>1, <2>9
<1> QED BY <1>4, <1>5

\* g has the sum of f over every subset of S.
Sums(g, f, S) ==
  /\ g \in [SUBSET S -> Int] /\ g[{}] = 0
  /\ \A s \in SUBSET S : s # {} => g[s] = f[First(s)] + g[Rest(s)]

LEMMA SumsOfAll ==
  ASSUME NEW f, NEW S, Ints(f, S)
  PROVE  \E g : Sums(g, f, S)
<1>1. IsFiniteSet(S) /\ Cardinality(S) \in Nat
  BY FS_CardinalityType DEF Ints
<1>2. Upto(S, Cardinality(S)) = SUBSET S
  BY <1>1, FS_Subset DEF Upto
<1>3. PICK g : SumsTo(g, f, S, Cardinality(S))
  BY <1>1, SumsExist
<1> QED BY <1>2, <1>3 DEF SumsTo, Sums

\* The fold of the library computes it.
LEMMA FoldIsSum ==
  ASSUME NEW f, NEW S, Ints(f, S), NEW g, Sums(g, f, S)
  PROVE  SumFunctionOnSet(f, S) = g[S]
<1> DEFINE Rule(h) == h = [s \in SUBSET S |-> IF s = {} THEN 0 ELSE f[First(s)] + h[Rest(s)]]
           iter == CHOOSE h : Rule(h)
<1>1. Rule(g)
  BY DEF Sums
<1>2. Rule(iter)
  <2> HIDE DEF Rule
  <2> QED BY <1>1
<1>3. SumFunctionOnSet(f, S) = iter[S]
  BY DEF SumFunctionOnSet, FoldFunctionOnSet, MapThenFoldSet, First, Rest
<1> HIDE DEF iter
<1>4. \A s \in SUBSET S : iter[s] = IF s = {} THEN 0 ELSE f[First(s)] + iter[Rest(s)]
  BY <1>2
<1>5. \A s \in SUBSET S : iter[s] = g[s]
  <2> DEFINE Bad == {Cardinality(s) : s \in {t \in SUBSET S : iter[t] # g[t]}}
  <2>1. SUFFICES ASSUME NEW t \in SUBSET S, iter[t] # g[t] PROVE FALSE
    OBVIOUS
  <2>2. IsFiniteSet(S) /\ \A s \in SUBSET S : Cardinality(s) \in Nat
    BY FS_Subset, FS_CardinalityType DEF Ints
  <2>3. Bad \subseteq Nat /\ Bad # {}
    BY <2>1, <2>2
  <2>4. PICK n \in Bad : \A m \in Bad : n <= m
    <3> HIDE DEF Bad
    <3> QED BY <2>3, LeastNat
  <2>5. PICK s \in SUBSET S : iter[s] # g[s] /\ Cardinality(s) = n
    BY <2>4
  <2>6. s # {}
    BY <1>4, <2>5 DEF Sums
  <2>7. Rest(s) \in SUBSET S /\ Cardinality(Rest(s)) < n
    BY <2>2, <2>5, <2>6, RestFacts
  <2>8. iter[Rest(s)] = g[Rest(s)]
    BY <2>2, <2>3, <2>4, <2>7
  <2> QED BY <1>4, <2>5, <2>6, <2>8 DEF Sums
<1> QED BY <1>3, <1>5

\* The sums may be taken in any order.
LEMMA SumsAnyOrder ==
  ASSUME NEW f, NEW S, Ints(f, S), NEW g, Sums(g, f, S)
  PROVE  \A s \in SUBSET S : \A y \in s : g[s] = f[y] + g[s \ {y}]
<1> DEFINE Fails(s) == \E y \in s : g[s] # f[y] + g[s \ {y}]
           Bad == {Cardinality(s) : s \in {t \in SUBSET S : Fails(t)}}
<1>1. SUFFICES ASSUME NEW t \in SUBSET S, Fails(t) PROVE FALSE
  OBVIOUS
<1>2. IsFiniteSet(S) /\ \A s \in SUBSET S : Cardinality(s) \in Nat
  BY FS_Subset, FS_CardinalityType DEF Ints
<1>3. Bad \subseteq Nat /\ Bad # {}
  <2> HIDE DEF Fails
  <2> QED BY <1>1, <1>2
<1>4. PICK n \in Bad : \A m \in Bad : n <= m
  <2> HIDE DEF Bad
  <2> QED BY <1>3, LeastNat
<1>5. PICK s \in SUBSET S : Fails(s) /\ Cardinality(s) = n
  <2> HIDE DEF Fails
  <2> QED BY <1>4
<1>6. PICK y \in s : g[s] # f[y] + g[s \ {y}]
  BY <1>5
<1> DEFINE x == First(s)
           r == s \ {x, y}
<1>7. /\ x \in s /\ Rest(s) = s \ {x} /\ Rest(s) \in SUBSET S
      /\ g[s] = f[x] + g[s \ {x}]
  BY <1>2, <1>6, RestFacts DEF Sums, Rest
<1>8. y # x
  BY <1>6, <1>7
<1>9. \A z \in s : s \ {z} \in SUBSET S /\ Cardinality(s \ {z}) < n
  <2>1. IsFiniteSet(s) /\ Cardinality(s) \in Nat
    BY <1>2, FS_Subset
  <2>2. \A z \in s : Cardinality(s \ {z}) = Cardinality(s) - 1
    BY <2>1, FS_RemoveElement
  <2>3. Cardinality(s) = n
    BY <1>5
  <2> QED BY <2>1, <2>2, <2>3
<1>10. \A z \in s : ~Fails(s \ {z})
  <2> HIDE DEF Fails
  <2> SUFFICES ASSUME NEW z \in s, Fails(s \ {z}) PROVE FALSE
    OBVIOUS
  <2>1. s \ {z} \in SUBSET S
    BY <1>9
  <2>2. Cardinality(s \ {z}) \in Bad
    BY <2>1
  <2>3. n <= Cardinality(s \ {z})
    BY <1>4, <2>2
  <2> QED BY <1>2, <1>3, <1>4, <1>9, <2>1, <2>3
<1>11. (s \ {x}) \ {y} = r /\ (s \ {y}) \ {x} = r
  OBVIOUS
<1>12. g[s \ {x}] = f[y] + g[r]
  BY <1>7, <1>8, <1>10, <1>11
<1>13. g[s \ {y}] = f[x] + g[r]
  BY <1>6, <1>7, <1>8, <1>10, <1>11
<1>14. f[x] \in Int /\ f[y] \in Int /\ g[r] \in Int
  BY <1>7 DEF Ints, Sums
<1> QED BY <1>6, <1>7, <1>12, <1>13, <1>14

\* The sum over a set, with and without one of its members.
LEMMA SumInsert ==
  ASSUME NEW f, NEW S, NEW y, y \notin S, Ints(f, S \cup {y})
  PROVE  /\ SumFunctionOnSet(f, S) \in Int
         /\ SumFunctionOnSet(f, S \cup {y}) = SumFunctionOnSet(f, S) + f[y]
<1> DEFINE T == S \cup {y}
<1>1. PICK g : Sums(g, f, T)
  BY SumsOfAll
<1>2. Ints(f, S)
  BY FS_Subset DEF Ints
<1>3. PICK h : Sums(h, f, S)
  BY <1>2, SumsOfAll
<1>4. SumFunctionOnSet(f, T) = g[T] /\ SumFunctionOnSet(f, S) = h[S]
  BY <1>1, <1>2, <1>3, FoldIsSum
<1>5. T \ {y} = S /\ y \in T
  OBVIOUS
<1>6. g[T] = f[y] + g[S]
  BY <1>1, <1>5, SumsAnyOrder
<1> DEFINE k == [s \in SUBSET S |-> g[s]]
<1>7. Sums(k, f, S)
  <2>1. \A s \in SUBSET S : s # {} => Rest(s) \in SUBSET S /\ s \in SUBSET T
    BY DEF Rest
  <2> QED BY <1>1, <2>1 DEF Sums
<1>8. SumFunctionOnSet(f, S) = k[S]
  <2> HIDE DEF k
  <2> QED BY <1>2, <1>7, FoldIsSum
<1>9. f[y] \in Int /\ g[S] \in Int
  BY <1>1 DEF Ints, Sums
<1> QED BY <1>4, <1>6, <1>8, <1>9

LEMMA SumEmpty ==
  ASSUME NEW f
  PROVE  SumFunctionOnSet(f, {}) = 0
<1>1. Ints(f, {})
  BY FS_EmptySet DEF Ints
<1>2. PICK g : Sums(g, f, {})
  BY <1>1, SumsOfAll
<1> QED BY <1>1, <1>2, FoldIsSum DEF Sums

LEMMA SumType ==
  ASSUME NEW f, Ints(f, DOMAIN f)
  PROVE  SumFunction(f) \in Int
<1>1. PICK g : Sums(g, f, DOMAIN f)
  BY SumsOfAll
<1>2. SumFunctionOnSet(f, DOMAIN f) = g[DOMAIN f]
  BY <1>1, FoldIsSum
<1>3. g[DOMAIN f] \in Int
  BY <1>1 DEF Sums
<1> QED BY <1>2, <1>3 DEF SumFunction

\* Positive terms have a positive sum.
LEMMA SumPositive ==
  ASSUME NEW f, Ints(f, DOMAIN f), \A x \in DOMAIN f : f[x] > 0, DOMAIN f # {}
  PROVE  SumFunction(f) > 0
<1> DEFINE S == DOMAIN f
<1>1. PICK g : Sums(g, f, S)
  BY SumsOfAll
<1>2. \A s \in SUBSET S : s # {} => g[s] > 0
  <2> DEFINE Bad == {Cardinality(s) : s \in {t \in SUBSET S : t # {} /\ ~(g[t] > 0)}}
  <2>1. SUFFICES ASSUME NEW t \in SUBSET S, t # {}, ~(g[t] > 0) PROVE FALSE
    OBVIOUS
  <2>2. IsFiniteSet(S) /\ \A s \in SUBSET S : Cardinality(s) \in Nat
    BY FS_Subset, FS_CardinalityType DEF Ints
  <2>3. Bad \subseteq Nat /\ Bad # {}
    BY <2>1, <2>2
  <2>4. PICK n \in Bad : \A m \in Bad : n <= m
    <3> HIDE DEF Bad
    <3> QED BY <2>3, LeastNat
  <2>5. PICK s \in SUBSET S : s # {} /\ ~(g[s] > 0) /\ Cardinality(s) = n
    BY <2>4
  <2>6. /\ Rest(s) \in SUBSET S /\ Cardinality(Rest(s)) < n
        /\ First(s) \in S /\ g[s] = f[First(s)] + g[Rest(s)]
    BY <1>1, <2>2, <2>5, RestFacts DEF Sums
  <2>7. f[First(s)] \in Int /\ f[First(s)] > 0 /\ g[Rest(s)] \in Int
    BY <1>1, <2>6 DEF Ints, Sums
  <2>8. Rest(s) = {} \/ g[Rest(s)] > 0
    BY <2>2, <2>3, <2>4, <2>6
  <2>9. Rest(s) = {} => g[Rest(s)] = 0
    BY <1>1 DEF Sums
  <2> QED BY <2>5, <2>6, <2>7, <2>8, <2>9
<1>3. SumFunction(f) = g[S]
  BY <1>1, FoldIsSum DEF SumFunction
<1> QED BY <1>2, <1>3

\* Term by term, a sum of three sums.
LEMMA SumSplits ==
  ASSUME NEW S, NEW f, NEW a, NEW b, NEW c,
         DOMAIN f = S, DOMAIN a = S, DOMAIN b = S, DOMAIN c = S,
         Ints(f, S), Ints(a, S), Ints(b, S), Ints(c, S),
         \A x \in S : f[x] = a[x] + b[x] + c[x]
  PROVE  SumFunction(f) = SumFunction(a) + SumFunction(b) + SumFunction(c)
<1>1. PICK F, A, B, C : Sums(F, f, S) /\ Sums(A, a, S) /\ Sums(B, b, S) /\ Sums(C, c, S)
  BY SumsOfAll
<1> DEFINE Agrees(s) == F[s] = A[s] + B[s] + C[s]
<1>2. \A s \in SUBSET S : Agrees(s)
  <2> DEFINE Bad == {Cardinality(s) : s \in {t \in SUBSET S : ~Agrees(t)}}
  <2>1. SUFFICES ASSUME NEW t \in SUBSET S, ~Agrees(t) PROVE FALSE
    OBVIOUS
  <2>2. IsFiniteSet(S) /\ \A s \in SUBSET S : Cardinality(s) \in Nat
    BY FS_Subset, FS_CardinalityType DEF Ints
  <2>3. Bad \subseteq Nat /\ Bad # {}
    <3> HIDE DEF Agrees
    <3> QED BY <2>1, <2>2
  <2>4. PICK n \in Bad : \A m \in Bad : n <= m
    <3> HIDE DEF Bad
    <3> QED BY <2>3, LeastNat
  <2>5. PICK s \in SUBSET S : ~Agrees(s) /\ Cardinality(s) = n
    <3> HIDE DEF Agrees
    <3> QED BY <2>4
  <2>6. s # {}
    <3>1. F[{}] = 0 /\ A[{}] = 0 /\ B[{}] = 0 /\ C[{}] = 0
      BY <1>1 DEF Sums
    <3>2. Agrees({})
      BY <3>1
    <3> HIDE DEF Agrees
    <3> QED BY <2>5, <3>2
  <2>7. Rest(s) \in SUBSET S /\ Cardinality(Rest(s)) < n /\ First(s) \in S
    BY <2>2, <2>5, <2>6, RestFacts
  <2>8. Agrees(Rest(s))
    <3> HIDE DEF Agrees
    <3>1. SUFFICES ASSUME ~Agrees(Rest(s)) PROVE FALSE
      OBVIOUS
    <3>2. Cardinality(Rest(s)) \in Bad
      BY <2>7, <3>1
    <3> QED BY <2>2, <2>3, <2>4, <2>7, <3>2
  <2>9. /\ F[s] = f[First(s)] + F[Rest(s)] /\ A[s] = a[First(s)] + A[Rest(s)]
        /\ B[s] = b[First(s)] + B[Rest(s)] /\ C[s] = c[First(s)] + C[Rest(s)]
    BY <1>1, <2>6 DEF Sums
  <2>10. /\ A[Rest(s)] \in Int /\ B[Rest(s)] \in Int /\ C[Rest(s)] \in Int
         /\ a[First(s)] \in Int /\ b[First(s)] \in Int /\ c[First(s)] \in Int
    BY <1>1, <2>7 DEF Ints, Sums
  <2>11. f[First(s)] = a[First(s)] + b[First(s)] + c[First(s)]
    BY <2>7
  <2> QED BY <2>5, <2>8, <2>9, <2>10, <2>11
<1>3. /\ SumFunction(f) = F[S] /\ SumFunction(a) = A[S]
      /\ SumFunction(b) = B[S] /\ SumFunction(c) = C[S]
  BY <1>1, FoldIsSum DEF SumFunction
<1> QED BY <1>2, <1>3

-----------------------------------------------------------------------------
(* The inductive invariant.                                                *)

Slip == [person : Person, base : Nat, tax : Nat, insurance : Nat, net : Int, pct : Percent]

RunRow == [st : {"none", "DRAFT", "POSTED"}, period : Period \cup {None},
           slips : SUBSET Slip, net : Int, entry : Nat \cup {None}]

Inserting == {"slips", "total", "commit"}

Job == [pc : {"idle", "check", "insert", "post"} \cup Inserting,
        run : Run \cup {None}, period : Period \cup {None},
        pct : Percent \cup {None}, slips : SUBSET Slip, net : Int]

Typed == /\ staff \in [Person -> [salary : Salary, active : BOOLEAN]]
         /\ runs \in [Run -> RunRow] /\ locks \in [Run -> Worker \cup {None}]
         /\ work \in [Worker -> Job] /\ IsFiniteSet(books)

\* The payslips that createRun makes of whatever salaries it finds.
Payslips(S) ==
  /\ IsFiniteSet(S)
  /\ \A s \in S : /\ s.base > 0
                  /\ s.tax = Deduction(s.base, s.pct.tax)
                  /\ s.insurance = Deduction(s.base, s.pct.insurance)
                  /\ s.net = s.base - s.tax - s.insurance

RunsOK == \A r \in Run : /\ Payslips(runs[r].slips)
                         /\ runs[r].st # "none" => runs[r].net = Net(runs[r].slips)

\* What a request knows at each step.
Knows(j) ==
  /\ Payslips(j.slips)
  /\ j.pc \in {"check", "insert"} \cup Inserting => j.period \in Period /\ j.pct \in Percent
  /\ j.pc \in Inserting => j.run \in Run /\ runs[j.run].st = "none" /\ Of(j.period) = {}
  /\ j.pc = "commit" => j.net = Net(j.slips)
  /\ j.pc = "post" => j.run \in Run /\ runs[j.run].st = "DRAFT"

\* The index keeps the transactions that insert runs apart.
Apart == \A v, w \in Worker :
  v # w /\ work[v].pc \in Inserting /\ work[w].pc \in Inserting =>
    work[v].run # work[w].run /\ work[v].period # work[w].period

LocksOK ==
  /\ \A w \in Worker : work[w].pc = "post" => locks[work[w].run] = w
  /\ \A r \in Run : locks[r] # None => work[locks[r]].pc = "post" /\ work[locks[r]].run = r

OnePerPeriod == \A r, s \in Run :
  runs[r].st # "none" /\ runs[s].st # "none" /\ runs[r].period = runs[s].period => r = s

\* Entries and posted runs are one to one, and an entry is the lines of its run.
BooksOK ==
  /\ \A e \in books : /\ e.run \in Run /\ runs[e.run].st = "POSTED"
                      /\ e.no = runs[e.run].entry /\ e.lines = Lines(runs[e.run].slips)
  /\ \A d, e \in books : d.run = e.run => d = e
  /\ \A r \in Run : runs[r].st = "POSTED" => \E e \in books : e.run = r

IInv == /\ Typed /\ RunsOK /\ (\A w \in Worker : Knows(work[w]))
        /\ Apart /\ LocksOK /\ OnePerPeriod /\ BooksOK

-----------------------------------------------------------------------------
(* Lemmas about payslips.                                                  *)

LEMMA DeductionFacts ==
  ASSUME NEW b \in Nat, NEW p \in 0..100
  PROVE  Deduction(b, p) \in Nat /\ 100 * Deduction(b, p) <= b * p
<1> DEFINE m == b * p
<1>1. m \in Nat
  OBVIOUS
<1> HIDE DEF m
<1>2. m \div 100 \in Nat /\ 100 * (m \div 100) <= m
  BY <1>1
<1> QED BY <1>2 DEF Deduction, m

LEMMA NetType ==
  ASSUME NEW S \in SUBSET Slip, Payslips(S)
  PROVE  Net(S) \in Int
<1> DEFINE f == [s \in S |-> s.net]
<1>1. Ints(f, DOMAIN f)
  BY DEF Ints, Payslips, Slip
<1> HIDE DEF f
<1>2. SumFunction(f) \in Int
  BY <1>1, SumType
<1> QED BY <1>2 DEF Net, f

LEMMA NoSlips == Payslips({}) /\ {} \in SUBSET Slip
BY FS_EmptySet DEF Payslips

LEMMA NoWorkFacts == /\ NoWork \in Job /\ NoWork.pc = "idle" /\ NoWork.slips = {}
                     /\ NoWork.run = None
BY DEF NoWork, Job

LEMMA SlipsMade ==
  ASSUME Typed, NEW pct \in Percent
  PROVE  /\ {Payslip(p, pct) : p \in Payable} \in SUBSET Slip
         /\ Payslips({Payslip(p, pct) : p \in Payable})
<1> DEFINE S == {Payslip(p, pct) : p \in Payable}
<1>1. IsFiniteSet(Payable)
  BY FS_Subset, PayrollAssumption DEF Payable
<1>2. IsFiniteSet(S)
  <2> DEFINE f == [p \in Payable |-> Payslip(p, pct)]
  <2>1. f \in Surjection(Payable, S)
    BY DEF Surjection
  <2> HIDE DEF f, S
  <2> QED BY <1>1, <2>1, FS_Surjection
<1>3. ASSUME NEW p \in Payable
      PROVE  /\ Payslip(p, pct) \in Slip
             /\ Payslip(p, pct).base > 0 /\ Payslip(p, pct).pct = pct
             /\ Payslip(p, pct).tax = Deduction(Payslip(p, pct).base, pct.tax)
             /\ Payslip(p, pct).insurance = Deduction(Payslip(p, pct).base, pct.insurance)
             /\ Payslip(p, pct).net = Payslip(p, pct).base - Payslip(p, pct).tax
                                        - Payslip(p, pct).insurance
  <2>1. p \in Person /\ staff[p].salary \in Nat /\ staff[p].salary > 0
    BY PayrollAssumption DEF Payable, Typed
  <2>2. pct.tax \in 0..100 /\ pct.insurance \in 0..100
    BY PayrollAssumption
  <2>3. /\ Deduction(staff[p].salary, pct.tax) \in Nat
        /\ Deduction(staff[p].salary, pct.insurance) \in Nat
    BY <2>1, <2>2, DeductionFacts
  <2> QED BY <2>1, <2>3 DEF Payslip, Slip
<1> QED BY <1>2, <1>3 DEF Payslips


-----------------------------------------------------------------------------
(* Every step keeps the invariant.                                         *)

LEMMA InitIInv == Init => IInv
<1> SUFFICES ASSUME Init PROVE IInv
  OBVIOUS
<1>1. \A r \in Run : runs[r] = NoRun /\ locks[r] = None
  BY DEF Init
<1>2. \A w \in Worker : work[w] = NoWork
  BY DEF Init
<1>3. NoRun \in RunRow /\ NoRun.st = "none" /\ NoRun.slips = {}
  BY DEF NoRun, RunRow
<1>4. Typed
  <2>1. runs \in [Run -> RunRow]
    BY <1>3 DEF Init
  <2>2. work \in [Worker -> Job]
    BY NoWorkFacts DEF Init
  <2> QED BY <2>1, <2>2, FS_EmptySet DEF Init, Typed
<1>5. RunsOK
  BY <1>1, <1>3, NoSlips DEF RunsOK
<1>6. \A w \in Worker : Knows(work[w])
  BY <1>2, NoWorkFacts, NoSlips DEF Knows, Inserting
<1>7. Apart /\ LocksOK
  BY <1>1, <1>2, NoWorkFacts DEF Apart, LocksOK, Inserting
<1>8. OnePerPeriod
  BY <1>1, <1>3 DEF OnePerPeriod
<1>9. BooksOK
  <2>1. books = {}
    BY DEF Init
  <2> QED BY <1>1, <1>3, <2>1 DEF BooksOK
<1> QED BY <1>4, <1>5, <1>6, <1>7, <1>8, <1>9 DEF IInv

\* A step that only takes a request that holds no lock to its next step.
LEMMA WorkKeeps ==
  ASSUME IInv, NEW w \in Worker, NEW j \in Job,
         work' = [work EXCEPT ![w] = j], UNCHANGED <<staff, runs, books, locks>>,
         work[w].pc # "post", j.pc # "post", Knows(j),
         j.pc \in Inserting => \A v \in Worker : v # w /\ work[v].pc \in Inserting =>
           work[v].run # j.run /\ work[v].period # j.period
  PROVE  IInv'
<1>1. work \in [Worker -> Job] /\ work'[w] = j /\ \A v \in Worker : v # w => work'[v] = work[v]
  BY DEF IInv, Typed
<1>2. Typed'
  BY <1>1 DEF IInv, Typed
<1>3. RunsOK' /\ OnePerPeriod' /\ BooksOK'
  BY DEF IInv, RunsOK, OnePerPeriod, BooksOK
<1>4. \A v \in Worker : Knows(work'[v])
  BY <1>1 DEF IInv
<1>5. (\A v \in Worker : Knows(work[v]))'
  BY <1>4 DEF Knows, Of
<1>6. Apart'
  <2> SUFFICES ASSUME NEW u \in Worker, NEW v \in Worker, u # v,
                      work'[u].pc \in Inserting, work'[v].pc \in Inserting
               PROVE  work'[u].run # work'[v].run /\ work'[u].period # work'[v].period
    BY DEF Apart
  <2>1. CASE u = w
    BY <1>1, <2>1
  <2>2. CASE v = w
    BY <1>1, <2>2
  <2>3. CASE u # w /\ v # w
    BY <1>1, <2>3 DEF IInv, Apart
  <2> QED BY <2>1, <2>2, <2>3
<1>7. LocksOK'
  <2>1. \A v \in Worker : work'[v].pc = "post" => locks'[work'[v].run] = v
    BY <1>1 DEF IInv, LocksOK
  <2>2. ASSUME NEW r \in Run, locks'[r] # None
        PROVE  work'[locks'[r]].pc = "post" /\ work'[locks'[r]].run = r
    <3>1. locks'[r] = locks[r] /\ locks[r] \in Worker
      BY <2>2 DEF IInv, Typed
    <3>2. work[locks[r]].pc = "post" /\ work[locks[r]].run = r
      BY <2>2, <3>1 DEF IInv, LocksOK
    <3> QED BY <1>1, <3>1, <3>2
  <2> QED BY <2>1, <2>2 DEF LocksOK
<1> QED BY <1>2, <1>3, <1>5, <1>6, <1>7 DEF IInv

LEMMA ChangeStaffKeeps ==
  ASSUME IInv, ChangeStaff
  PROVE  IInv'
<1>1. staff' \in [Person -> [salary : Salary, active : BOOLEAN]]
  <2>1. PICK p \in Person, x \in [salary : Salary, active : BOOLEAN] : staff' = [staff EXCEPT ![p] = x]
    BY DEF ChangeStaff
  <2> QED BY <2>1 DEF IInv, Typed
<1>2. UNCHANGED <<runs, books, locks, work>>
  BY DEF ChangeStaff
<1>3. Typed'
  BY <1>1, <1>2 DEF IInv, Typed
<1>4. RunsOK' /\ OnePerPeriod' /\ BooksOK' /\ Apart' /\ LocksOK'
  BY <1>2 DEF IInv, RunsOK, OnePerPeriod, BooksOK, Apart, LocksOK
<1>5. (\A w \in Worker : Knows(work[w]))'
  BY <1>2 DEF IInv, Knows, Of
<1> QED BY <1>3, <1>4, <1>5 DEF IInv

LEMMA NoWorkKnows == Knows(NoWork)
BY NoWorkFacts, NoSlips DEF Knows, Inserting

\* A request that gives up before it holds a lock.
LEMMA GivesUp ==
  ASSUME IInv, NEW w \in Worker, work' = [work EXCEPT ![w] = NoWork],
         UNCHANGED <<staff, runs, books, locks>>, work[w].pc # "post"
  PROVE  IInv'
BY WorkKeeps, NoWorkFacts, NoWorkKnows DEF Inserting

LEMMA CountActiveKeeps ==
  ASSUME IInv, NEW w \in Worker, CountActive(w)
  PROVE  IInv'
<1>1. PICK c \in Period, pct \in Percent :
        work' = [work EXCEPT ![w] = [NoWork EXCEPT !.pc = "check", !.period = c, !.pct = pct]]
  BY DEF CountActive
<1> SUFFICES ASSUME NEW j, j = [NoWork EXCEPT !.pc = "check", !.period = c, !.pct = pct] PROVE IInv'
  OBVIOUS
<1>2. work' = [work EXCEPT ![w] = j]
  BY <1>1
<1>3. j \in Job /\ j.pc = "check" /\ j.slips = {} /\ j.period = c /\ j.pct = pct
  BY NoWorkFacts DEF Job
<1>4. Knows(j)
  BY <1>3, NoSlips DEF Knows, Inserting
<1>5. work[w].pc # "post"
  BY NoWorkFacts DEF CountActive
<1> QED BY <1>2, <1>3, <1>4, <1>5, WorkKeeps DEF CountActive, Inserting

LEMMA CheckPeriodKeeps ==
  ASSUME IInv, NEW w \in Worker, CheckPeriod(w)
  PROVE  IInv'
<1> SUFFICES ASSUME NEW i \in Job, i = work[w] PROVE IInv'
  BY DEF IInv, Typed
<1>1. i.pc = "check" /\ Knows(i) /\ UNCHANGED <<staff, runs, books, locks>>
  BY DEF CheckPeriod, IInv
<1>2. CASE Of(i.period) # {}
  <2>1. work' = [work EXCEPT ![w] = NoWork]
    BY <1>2 DEF CheckPeriod
  <2> QED BY <1>1, <2>1, GivesUp
<1>3. CASE Of(i.period) = {}
  <2> SUFFICES ASSUME NEW j, j = [i EXCEPT !.pc = "insert"] PROVE IInv'
    OBVIOUS
  <2>1. work' = [work EXCEPT ![w] = j]
    BY <1>3 DEF CheckPeriod, IInv, Typed
  <2>2. j \in Job /\ j.pc = "insert" /\ j.slips = i.slips /\ j.period = i.period /\ j.pct = i.pct
    BY DEF Job
  <2>3. Knows(j)
    BY <1>1, <2>2 DEF Knows, Inserting
  <2> QED BY <1>1, <2>1, <2>2, <2>3, WorkKeeps DEF Inserting
<1> QED BY <1>2, <1>3

LEMMA InsertRunKeeps ==
  ASSUME IInv, NEW w \in Worker, InsertRun(w)
  PROVE  IInv'
<1> SUFFICES ASSUME NEW i \in Job, i = work[w] PROVE IInv'
  BY DEF IInv, Typed
<1>1. i.pc = "insert" /\ Knows(i) /\ IndexFree(i.period) /\ UNCHANGED <<staff, runs, books, locks>>
  BY DEF InsertRun, IInv
<1>2. CASE Of(i.period) # {}
  <2>1. work' = [work EXCEPT ![w] = NoWork]
    BY <1>2 DEF InsertRun
  <2> QED BY <1>1, <2>1, GivesUp
<1>3. CASE Of(i.period) = {}
  <2>1. PICK r \in Run : /\ runs[r].st = "none" /\ \A v \in Worker : work[v].run # r
                         /\ work' = [work EXCEPT ![w].pc = "slips", ![w].run = r]
    BY <1>3 DEF InsertRun
  <2> SUFFICES ASSUME NEW j, j = [i EXCEPT !.pc = "slips", !.run = r] PROVE IInv'
    OBVIOUS
  <2>2. work' = [work EXCEPT ![w] = j]
    BY <2>1 DEF IInv, Typed
  <2>3. /\ j \in Job /\ j.pc = "slips" /\ j.run = r /\ j.slips = i.slips
        /\ j.period = i.period /\ j.pct = i.pct
    BY DEF Job, Inserting
  <2>4. Knows(j)
    BY <1>1, <1>3, <2>1, <2>3 DEF Knows, Inserting
  <2>5. ASSUME NEW v \in Worker, work[v].pc \in Inserting
        PROVE  work[v].run # r /\ work[v].period # i.period
    <3>1. work[v].run # r
      BY <2>1
    <3>2. work[v].run # None
      BY <2>5, PayrollAssumption DEF IInv, Knows
    <3>3. v \notin Inserted(i.period)
      BY <1>1 DEF IndexFree
    <3> QED BY <2>5, <3>1, <3>2, <3>3 DEF Inserted, Inserting
  <2>6. \A v \in Worker : v # w /\ work[v].pc \in Inserting =>
          work[v].run # j.run /\ work[v].period # j.period
    BY <2>3, <2>5
  <2> QED BY <1>1, <2>2, <2>3, <2>4, <2>6, WorkKeeps
<1> QED BY <1>2, <1>3

LEMMA InsertPayslipsKeeps ==
  ASSUME IInv, NEW w \in Worker, InsertPayslips(w)
  PROVE  IInv'
<1> SUFFICES ASSUME NEW i \in Job, i = work[w] PROVE IInv'
  BY DEF IInv, Typed
<1>1. i.pc = "slips" /\ Knows(i) /\ UNCHANGED <<staff, runs, books, locks>>
  BY DEF InsertPayslips, IInv
<1> SUFFICES ASSUME NEW S, S = {Payslip(p, i.pct) : p \in Payable} PROVE IInv'
  OBVIOUS
<1>2. S \in SUBSET Slip /\ Payslips(S)
  BY <1>1, SlipsMade DEF IInv, Knows, Inserting
<1> SUFFICES ASSUME NEW j, j = [i EXCEPT !.pc = "total", !.slips = S] PROVE IInv'
  OBVIOUS
<1>3. work' = [work EXCEPT ![w] = j]
  <2>1. work \in [Worker -> Job]
    BY DEF IInv, Typed
  <2> QED BY <2>1 DEF InsertPayslips
<1>4. /\ j \in Job /\ j.pc = "total" /\ j.slips = S
      /\ j.run = i.run /\ j.period = i.period /\ j.pct = i.pct
  BY <1>2 DEF Job, Inserting
<1>5. Knows(j)
  BY <1>1, <1>2, <1>4 DEF Knows, Inserting
<1>6. \A v \in Worker : v # w /\ work[v].pc \in Inserting =>
        work[v].run # j.run /\ work[v].period # j.period
  BY <1>1, <1>4 DEF IInv, Apart, Inserting
<1> QED BY <1>1, <1>3, <1>4, <1>5, <1>6, WorkKeeps

LEMMA SetTotalKeeps ==
  ASSUME IInv, NEW w \in Worker, SetTotal(w)
  PROVE  IInv'
<1> SUFFICES ASSUME NEW i \in Job, i = work[w] PROVE IInv'
  BY DEF IInv, Typed
<1>1. i.pc = "total" /\ Knows(i) /\ UNCHANGED <<staff, runs, books, locks>>
  BY DEF SetTotal, IInv
<1>2. Net(i.slips) \in Int
  BY <1>1, NetType DEF Job, Knows
<1> SUFFICES ASSUME NEW j, j = [i EXCEPT !.pc = "commit", !.net = Net(i.slips)] PROVE IInv'
  OBVIOUS
<1>3. work' = [work EXCEPT ![w] = j]
  BY DEF SetTotal, IInv, Typed
<1>4. /\ j \in Job /\ j.pc = "commit" /\ j.slips = i.slips /\ j.net = Net(i.slips)
      /\ j.run = i.run /\ j.period = i.period /\ j.pct = i.pct
  BY <1>2 DEF Job, Inserting
<1>5. Knows(j)
  BY <1>1, <1>4 DEF Knows, Inserting
<1>6. \A v \in Worker : v # w /\ work[v].pc \in Inserting =>
        work[v].run # j.run /\ work[v].period # j.period
  BY <1>1, <1>4 DEF IInv, Apart, Inserting
<1> QED BY <1>1, <1>3, <1>4, <1>5, <1>6, WorkKeeps

LEMMA CommitRunKeeps ==
  ASSUME IInv, NEW w \in Worker, CommitRun(w)
  PROVE  IInv'
<1> SUFFICES ASSUME NEW i \in Job, i = work[w] PROVE IInv'
  BY DEF IInv, Typed
<1>1. i.pc = "commit" /\ Knows(i) /\ UNCHANGED <<staff, books, locks>>
  BY DEF CommitRun, IInv
<1>2. /\ i.run \in Run /\ runs[i.run].st = "none" /\ Of(i.period) = {}
      /\ i.period \in Period /\ Payslips(i.slips) /\ i.net = Net(i.slips)
  BY <1>1 DEF Knows, Inserting
<1> SUFFICES ASSUME NEW x, x = [st |-> "DRAFT", period |-> i.period, slips |-> i.slips,
                                net |-> i.net, entry |-> None] PROVE IInv'
  OBVIOUS
<1>3. /\ x \in RunRow /\ x.st = "DRAFT" /\ x.period = i.period
      /\ x.slips = i.slips /\ x.net = i.net
  BY <1>2 DEF RunRow, Job
<1>4. runs' = [runs EXCEPT ![i.run] = x] /\ work' = [work EXCEPT ![w] = NoWork]
  BY DEF CommitRun
<1>5. runs'[i.run] = x /\ \A r \in Run : r # i.run => runs'[r] = runs[r]
  BY <1>2, <1>4 DEF IInv, Typed
<1>6. work'[w] = NoWork /\ \A v \in Worker : v # w => work'[v] = work[v]
  BY <1>4 DEF IInv, Typed
<1>7. Typed'
  BY <1>1, <1>2, <1>3, <1>4, NoWorkFacts DEF IInv, Typed
<1>8. RunsOK'
  BY <1>2, <1>3, <1>5 DEF IInv, RunsOK
<1>9. ASSUME NEW v \in Worker PROVE Knows(work[v])'
  <2>1. CASE v = w
    BY <1>6, <2>1, NoWorkFacts, NoSlips DEF Knows, Inserting
  <2>2. CASE v # w
    <3> SUFFICES ASSUME NEW j, j = work[v], j = work'[v], Knows(j) PROVE Knows(j)'
      <4>1. work'[v] = work[v] /\ Knows(work[v])
        BY <1>6, <2>2 DEF IInv
      <4> QED BY <4>1 DEF Knows, Of
    <3>1. ASSUME j.pc \in Inserting
          PROVE  runs'[j.run].st = "none" /\ Of(j.period)' = {}
      <4>1. j.run # i.run /\ j.period # i.period
        BY <1>1, <2>2, <3>1 DEF IInv, Apart, Inserting
      <4>2. j.run \in Run /\ runs[j.run].st = "none" /\ Of(j.period) = {}
        BY <3>1 DEF Knows
      <4>3. Of(j.period)' = {}
        BY <1>3, <1>5, <4>1, <4>2 DEF Of
      <4> QED BY <1>5, <4>1, <4>2, <4>3
    <3>2. ASSUME j.pc = "post"
          PROVE  runs'[j.run].st = "DRAFT"
      BY <1>2, <1>5, <3>2 DEF Knows
    <3> QED BY <3>1, <3>2 DEF Knows
  <2> QED BY <2>1, <2>2
<1>10. Apart'
  BY <1>6, NoWorkFacts DEF IInv, Apart, Inserting
<1>11. LocksOK'
  <2>1. \A v \in Worker : work'[v].pc = "post" => locks'[work'[v].run] = v
    BY <1>1, <1>6, NoWorkFacts DEF IInv, LocksOK
  <2>2. ASSUME NEW r \in Run, locks'[r] # None
        PROVE  work'[locks'[r]].pc = "post" /\ work'[locks'[r]].run = r
    <3>1. locks'[r] = locks[r] /\ locks[r] \in Worker
      BY <1>1, <2>2 DEF IInv, Typed
    <3>2. work[locks[r]].pc = "post" /\ work[locks[r]].run = r
      BY <2>2, <3>1 DEF IInv, LocksOK
    <3>3. locks[r] # w
      BY <1>1, <3>2
    <3> QED BY <1>6, <3>1, <3>2, <3>3
  <2> QED BY <2>1, <2>2 DEF LocksOK
<1>12. OnePerPeriod'
  BY <1>2, <1>3, <1>5 DEF IInv, OnePerPeriod, Of
<1>13. BooksOK'
  <2>1. ASSUME NEW e \in books'
        PROVE  /\ e.run \in Run /\ runs'[e.run].st = "POSTED" /\ e.no = runs'[e.run].entry
               /\ e.lines = Lines(runs'[e.run].slips)
    <3>1. /\ e.run \in Run /\ runs[e.run].st = "POSTED" /\ e.no = runs[e.run].entry
          /\ e.lines = Lines(runs[e.run].slips)
      BY <1>1, <2>1 DEF IInv, BooksOK
    <3>2. runs'[e.run] = runs[e.run]
      BY <1>2, <1>5, <3>1
    <3> QED BY <3>1, <3>2
  <2>2. \A d, e \in books' : d.run = e.run => d = e
    BY <1>1 DEF IInv, BooksOK
  <2>3. \A r \in Run : runs'[r].st = "POSTED" => \E e \in books' : e.run = r
    BY <1>1, <1>3, <1>5 DEF IInv, BooksOK
  <2> QED BY <2>1, <2>2, <2>3 DEF BooksOK, Lines, Gross, Net, Tax, Insurance
<1> QED BY <1>7, <1>8, <1>9, <1>10, <1>11, <1>12, <1>13 DEF IInv

LEMMA LockRunKeeps ==
  ASSUME IInv, NEW w \in Worker, NEW r \in Run, LockRun(w, r)
  PROVE  IInv'
<1> SUFFICES ASSUME NEW j, j = [NoWork EXCEPT !.pc = "post", !.run = r] PROVE IInv'
  OBVIOUS
<1>1. /\ runs[r].st = "DRAFT" /\ locks[r] = None /\ work[w] = NoWork
      /\ UNCHANGED <<staff, runs, books>> /\ locks' = [locks EXCEPT ![r] = w]
      /\ work' = [work EXCEPT ![w] = j]
  BY DEF LockRun
<1>2. j \in Job /\ j.pc = "post" /\ j.run = r /\ j.slips = {}
  BY NoWorkFacts DEF Job
<1>3. work'[w] = j /\ \A v \in Worker : v # w => work'[v] = work[v]
  BY <1>1 DEF IInv, Typed
<1>4. locks'[r] = w /\ \A s \in Run : s # r => locks'[s] = locks[s]
  BY <1>1 DEF IInv, Typed
<1>5. Typed'
  BY <1>1, <1>2 DEF IInv, Typed
<1>6. RunsOK' /\ OnePerPeriod' /\ BooksOK'
  BY <1>1 DEF IInv, RunsOK, OnePerPeriod, BooksOK
<1>7. Knows(j)
  BY <1>1, <1>2, NoSlips DEF Knows, Inserting
<1>8. \A v \in Worker : Knows(work'[v])
  BY <1>3, <1>7 DEF IInv
<1>9. (\A v \in Worker : Knows(work[v]))'
  BY <1>1, <1>8 DEF Knows, Of
<1>10. Apart'
  <2>1. work'[w].pc \notin Inserting
    BY <1>2, <1>3 DEF Inserting
  <2>2. \A u, v \in Worker : u # v /\ work'[u].pc \in Inserting /\ work'[v].pc \in Inserting =>
          work'[u].run # work'[v].run /\ work'[u].period # work'[v].period
    <3> SUFFICES ASSUME NEW u \in Worker, NEW v \in Worker, u # v,
                        work'[u].pc \in Inserting, work'[v].pc \in Inserting
                 PROVE  work'[u].run # work'[v].run /\ work'[u].period # work'[v].period
      OBVIOUS
    <3>1. work'[u] = work[u] /\ work'[v] = work[v]
      BY <1>3, <2>1
    <3>2. Apart
      BY DEF IInv
    <3> QED BY <3>1, <3>2 DEF Apart
  <2> QED BY <2>2 DEF Apart, Inserting
<1>11. LocksOK'
  <2>1. ASSUME NEW v \in Worker, work'[v].pc = "post"
        PROVE  locks'[work'[v].run] = v
    <3>1. CASE v = w
      BY <1>2, <1>3, <1>4, <3>1
    <3>2. CASE v # w
      <4>1. work'[v] = work[v] /\ locks[work[v].run] = v /\ work[v].run \in Run
        BY <1>3, <2>1, <3>2 DEF IInv, LocksOK, Knows
      <4>2. v # None
        BY PayrollAssumption
      <4>3. work[v].run # r
        BY <1>1, <4>1, <4>2
      <4> QED BY <1>4, <4>1, <4>3
    <3> QED BY <3>1, <3>2
  <2>2. ASSUME NEW s \in Run, locks'[s] # None
        PROVE  work'[locks'[s]].pc = "post" /\ work'[locks'[s]].run = s
    <3>1. CASE s = r
      BY <1>2, <1>3, <1>4, <3>1
    <3>2. CASE s # r
      <4>1. locks'[s] = locks[s] /\ locks[s] \in Worker
        BY <1>4, <2>2, <3>2 DEF IInv, Typed
      <4>2. work[locks[s]].pc = "post" /\ work[locks[s]].run = s
        BY <2>2, <4>1 DEF IInv, LocksOK
      <4>3. locks[s] # w
        BY <1>1, <4>2, NoWorkFacts
      <4> QED BY <1>3, <4>1, <4>2, <4>3
    <3> QED BY <3>1, <3>2
  <2> QED BY <2>1, <2>2 DEF LocksOK
<1> QED BY <1>5, <1>6, <1>9, <1>10, <1>11 DEF IInv

\* A request that ends, with or without a lock, leaves the others theirs.
LEMMA Ends ==
  ASSUME Typed, LocksOK, \A v \in Worker : Knows(work[v]), Apart, NEW w \in Worker,
         work' = [work EXCEPT ![w] = NoWork], locks' = Unlocked(w)
  PROVE  /\ work' \in [Worker -> Job] /\ locks' \in [Run -> Worker \cup {None}]
         /\ work'[w] = NoWork /\ \A v \in Worker : v # w => work'[v] = work[v]
         /\ LocksOK' /\ Apart'
<1>1. work'[w] = NoWork /\ \A v \in Worker : v # w => work'[v] = work[v]
  BY DEF Typed
<1>2. work' \in [Worker -> Job]
  BY NoWorkFacts DEF Typed
<1>3. locks' \in [Run -> Worker \cup {None}]
  BY DEF Typed, Unlocked
<1>4. ASSUME NEW v \in Worker, work'[v].pc = "post"
      PROVE  locks'[work'[v].run] = v
  <2>1. v # w /\ work'[v] = work[v]
    BY <1>1, <1>4, NoWorkFacts
  <2>2. locks[work[v].run] = v /\ work[v].run \in Run
    BY <1>4, <2>1 DEF LocksOK, Knows
  <2> QED BY <2>1, <2>2 DEF Unlocked
<1>5. ASSUME NEW r \in Run, locks'[r] # None
      PROVE  work'[locks'[r]].pc = "post" /\ work'[locks'[r]].run = r
  <2>1. locks[r] # w /\ locks'[r] = locks[r]
    BY <1>5 DEF Unlocked
  <2>2. locks[r] \in Worker
    BY <1>5, <2>1 DEF Typed
  <2> QED BY <1>1, <1>5, <2>1, <2>2 DEF LocksOK
<1>6. LocksOK'
  BY <1>4, <1>5 DEF LocksOK
<1>7. Apart'
  BY <1>1, NoWorkFacts DEF Apart, Inserting
<1> QED BY <1>1, <1>2, <1>3, <1>6, <1>7

LEMMA RollbackKeeps ==
  ASSUME IInv, NEW w \in Worker, Rollback(w)
  PROVE  IInv'
<1>1. /\ work' = [work EXCEPT ![w] = NoWork] /\ locks' = Unlocked(w)
      /\ UNCHANGED <<staff, runs, books>>
  BY DEF Rollback
<1>2. /\ work' \in [Worker -> Job] /\ locks' \in [Run -> Worker \cup {None}]
      /\ work'[w] = NoWork /\ \A v \in Worker : v # w => work'[v] = work[v]
      /\ LocksOK' /\ Apart'
  BY <1>1, Ends DEF IInv
<1>3. Typed' /\ RunsOK' /\ OnePerPeriod' /\ BooksOK'
  BY <1>1, <1>2 DEF IInv, Typed, RunsOK, OnePerPeriod, BooksOK
<1>4. \A v \in Worker : Knows(work'[v])
  BY <1>2, NoWorkKnows DEF IInv
<1>5. (\A v \in Worker : Knows(work[v]))'
  BY <1>1, <1>4 DEF Knows, Of
<1> QED BY <1>2, <1>3, <1>5 DEF IInv

LEMMA PostRunKeeps ==
  ASSUME IInv, NEW w \in Worker, PostRun(w)
  PROVE  IInv'
<1> SUFFICES ASSUME NEW r, r = work[w].run PROVE IInv'
  OBVIOUS
<1>1. work[w].pc = "post" /\ r \in Run /\ runs[r].st = "DRAFT" /\ locks[r] = w
  BY DEF PostRun, IInv, Knows, LocksOK
<1> SUFFICES ASSUME NEW n, n = Cardinality(books) + 1 PROVE IInv'
  OBVIOUS
<1>2. n \in Nat
  BY FS_CardinalityType DEF IInv, Typed
<1> SUFFICES ASSUME NEW x, x = [runs[r] EXCEPT !.st = "POSTED", !.entry = n] PROVE IInv'
  OBVIOUS
<1>3. /\ x \in RunRow /\ x.st = "POSTED" /\ x.entry = n
      /\ x.period = runs[r].period /\ x.slips = runs[r].slips /\ x.net = runs[r].net
  <2>1. runs[r] \in RunRow
    BY <1>1 DEF IInv, Typed
  <2> QED BY <1>2, <2>1 DEF RunRow
<1>4. runs' = [runs EXCEPT ![r] = x]
  BY <1>1 DEF PostRun, IInv, Typed
<1> SUFFICES ASSUME NEW b, b = [no |-> n, run |-> r, lines |-> Lines(runs[r].slips)] PROVE IInv'
  OBVIOUS
<1>5. b.no = n /\ b.run = r /\ b.lines = Lines(runs[r].slips)
  OBVIOUS
<1>6. /\ books' = books \cup {b} /\ work' = [work EXCEPT ![w] = NoWork]
      /\ locks' = Unlocked(w) /\ staff' = staff
  BY DEF PostRun
<1>7. runs'[r] = x /\ \A s \in Run : s # r => runs'[s] = runs[s]
  BY <1>1, <1>4 DEF IInv, Typed
<1>8. /\ work' \in [Worker -> Job] /\ locks' \in [Run -> Worker \cup {None}]
      /\ work'[w] = NoWork /\ \A v \in Worker : v # w => work'[v] = work[v]
      /\ LocksOK' /\ Apart'
  BY <1>6, Ends DEF IInv
<1>9. Typed'
  <2>1. IsFiniteSet(books')
    BY <1>6, FS_AddElement DEF IInv, Typed
  <2>2. runs' \in [Run -> RunRow]
    BY <1>3, <1>4 DEF IInv, Typed
  <2> QED BY <1>6, <1>8, <2>1, <2>2 DEF IInv, Typed
<1>10. \A s \in Run : /\ runs'[s].slips = runs[s].slips /\ runs'[s].net = runs[s].net
                      /\ runs'[s].period = runs[s].period
                      /\ runs'[s].st # "none" <=> runs[s].st # "none"
  BY <1>1, <1>3, <1>7
<1>14. RunsOK'
  <2>1. ASSUME NEW s \in Run
        PROVE  /\ Payslips(runs'[s].slips)
               /\ runs'[s].st # "none" => runs'[s].net = Net(runs'[s].slips)
    BY <1>10 DEF IInv, RunsOK
  <2> QED BY <2>1 DEF RunsOK, Payslips, Net
<1>11. ASSUME NEW v \in Worker PROVE Knows(work[v])'
  <2>1. CASE v = w
    BY <1>8, <2>1, NoWorkFacts, NoSlips DEF Knows, Inserting
  <2>2. CASE v # w
    <3> SUFFICES ASSUME NEW j, j = work[v], j = work'[v], Knows(j) PROVE Knows(j)'
      <4>1. work'[v] = work[v] /\ Knows(work[v])
        BY <1>8, <2>2 DEF IInv
      <4> QED BY <4>1 DEF Knows, Of
    <3>1. ASSUME j.pc \in Inserting
          PROVE  runs'[j.run].st = "none" /\ Of(j.period)' = {}
      <4>1. j.run \in Run /\ runs[j.run].st = "none" /\ Of(j.period) = {}
        BY <3>1 DEF Knows
      <4>2. Of(j.period)' = {}
        BY <1>10, <4>1 DEF Of
      <4> QED BY <1>1, <1>7, <4>1, <4>2
    <3>2. ASSUME j.pc = "post"
          PROVE  runs'[j.run].st = "DRAFT"
      <4>1. j.run \in Run /\ locks[j.run] = v /\ runs[j.run].st = "DRAFT"
        BY <3>2 DEF IInv, LocksOK, Knows
      <4> QED BY <1>1, <1>7, <2>2, <4>1
    <3> QED BY <3>1, <3>2 DEF Knows
  <2> QED BY <2>1, <2>2
<1>12. OnePerPeriod'
  <2>1. \A p, q \in Run : runs'[p].st # "none" /\ runs'[q].st # "none"
                            /\ runs'[p].period = runs'[q].period => p = q
    BY <1>10 DEF IInv, OnePerPeriod
  <2> QED BY <2>1 DEF OnePerPeriod
<1>13. BooksOK'
  <2>1. \A e \in books : e.run # r
    BY <1>1 DEF IInv, BooksOK
  <2>2. ASSUME NEW e \in books'
        PROVE  /\ e.run \in Run /\ runs'[e.run].st = "POSTED" /\ e.no = runs'[e.run].entry
               /\ e.lines = Lines(runs'[e.run].slips)
    <3>1. CASE e = b
      BY <1>1, <1>3, <1>5, <1>7, <3>1
    <3>2. CASE e \in books
      <4>1. /\ e.run \in Run /\ runs[e.run].st = "POSTED" /\ e.no = runs[e.run].entry
            /\ e.lines = Lines(runs[e.run].slips)
        BY <3>2 DEF IInv, BooksOK
      <4>2. runs'[e.run] = runs[e.run]
        BY <1>7, <2>1, <3>2, <4>1
      <4> QED BY <4>1, <4>2
    <3> QED BY <1>6, <2>2, <3>1, <3>2
  <2>3. \A d, e \in books' : d.run = e.run => d = e
    BY <1>5, <1>6, <2>1 DEF IInv, BooksOK
  <2>4. \A s \in Run : runs'[s].st = "POSTED" => \E e \in books' : e.run = s
    BY <1>5, <1>6, <1>7 DEF IInv, BooksOK
  <2> QED BY <2>2, <2>3, <2>4 DEF BooksOK, Lines, Gross, Net, Tax, Insurance
<1> QED BY <1>8, <1>9, <1>11, <1>12, <1>13, <1>14 DEF IInv

LEMMA NextKeeps == IInv /\ [Next]_vars => IInv'
<1> SUFFICES ASSUME IInv, [Next]_vars PROVE IInv'
  OBVIOUS
<1>1. CASE UNCHANGED vars
  <2>1. UNCHANGED <<staff, runs, books, locks, work>>
    BY <1>1 DEF vars
  <2>2. Typed' /\ RunsOK' /\ Apart' /\ LocksOK' /\ OnePerPeriod' /\ BooksOK'
    BY <2>1 DEF IInv, Typed, RunsOK, Apart, LocksOK, OnePerPeriod, BooksOK
  <2>3. (\A w \in Worker : Knows(work[w]))'
    BY <2>1 DEF IInv, Knows, Of
  <2> QED BY <2>2, <2>3 DEF IInv
<1>2. CASE ChangeStaff
  BY <1>2, ChangeStaffKeeps
<1>3. ASSUME NEW w \in Worker, CountActive(w) PROVE IInv'
  BY <1>3, CountActiveKeeps
<1>4. ASSUME NEW w \in Worker, CheckPeriod(w) PROVE IInv'
  BY <1>4, CheckPeriodKeeps
<1>5. ASSUME NEW w \in Worker, InsertRun(w) PROVE IInv'
  BY <1>5, InsertRunKeeps
<1>6. ASSUME NEW w \in Worker, InsertPayslips(w) PROVE IInv'
  BY <1>6, InsertPayslipsKeeps
<1>7. ASSUME NEW w \in Worker, SetTotal(w) PROVE IInv'
  BY <1>7, SetTotalKeeps
<1>8. ASSUME NEW w \in Worker, CommitRun(w) PROVE IInv'
  BY <1>8, CommitRunKeeps
<1>9. ASSUME NEW w \in Worker, PostRun(w) PROVE IInv'
  BY <1>9, PostRunKeeps
<1>10. ASSUME NEW w \in Worker, Rollback(w) PROVE IInv'
  BY <1>10, RollbackKeeps
<1>11. ASSUME NEW w \in Worker, NEW r \in Run, LockRun(w, r) PROVE IInv'
  BY <1>11, LockRunKeeps
<1> QED BY <1>1, <1>2, <1>3, <1>4, <1>5, <1>6, <1>7, <1>8, <1>9, <1>10, <1>11 DEF Next

LEMMA Invariance == Spec => []IInv
BY InitIInv, NextKeeps, PTL DEF Spec

-----------------------------------------------------------------------------
(* What follows from the invariant.                                        *)

\* "A payroll run already exists for period ...": of requests that create runs
\* of a period at the same time one commits, and a lock belongs to the request
\* that posts the locked run.
THEOREM RunsAreSound == Spec => []RunsSound
<1>1. ASSUME IInv PROVE TypeOK
  <2>1. ASSUME NEW r \in Run
        PROVE  /\ runs[r].st \in {"none", "DRAFT", "POSTED"} /\ runs[r].net \in Int
               /\ locks[r] # None => work[locks[r]].run = r
    <3>1. runs[r] \in RunRow
      BY <1>1 DEF IInv, Typed
    <3> QED BY <1>1, <3>1 DEF IInv, LocksOK, RunRow
  <2>2. ASSUME NEW w \in Worker
        PROVE  work[w].pc \in {"idle", "check", "insert", "slips", "total", "commit", "post"}
    <3>1. work[w] \in Job
      BY <1>1 DEF IInv, Typed
    <3> QED BY <3>1 DEF Job, Inserting
  <2> QED BY <1>1, <2>1, <2>2 DEF TypeOK, IInv, Typed
<1>2. ASSUME IInv, NEW c \in Period PROVE Cardinality(Of(c)) <= 1
  <2>1. CASE Of(c) = {}
    BY <2>1, FS_EmptySet
  <2>2. CASE Of(c) # {}
    <3>1. PICK r \in Of(c) : TRUE
      BY <2>2
    <3>2. Of(c) = {r}
      BY <1>2, <3>1 DEF IInv, OnePerPeriod, Of
    <3> QED BY <3>2, FS_Singleton
  <2> QED BY <2>1, <2>2
<1>3. IInv => RunsSound
  BY <1>1, <1>2 DEF RunsSound, OneRunPerPeriod
<1> QED BY <1>3, Invariance, PTL

\* "This payroll run is already posted": a posted run has one journal entry, the
\* one it names, and a run that is not posted has none.
THEOREM OneEntryForARun == Spec => []OneEntryPerRun
<1>1. ASSUME IInv, NEW r \in Run
      PROVE  /\ Cardinality(EntriesOf(r)) = IF runs[r].st = "POSTED" THEN 1 ELSE 0
             /\ \A e \in EntriesOf(r) : e.no = runs[r].entry
  <2>1. \A e \in EntriesOf(r) : runs[r].st = "POSTED" /\ e.no = runs[r].entry
    BY <1>1 DEF IInv, BooksOK, EntriesOf
  <2>2. CASE runs[r].st = "POSTED"
    <3>1. PICK e \in books : e.run = r
      BY <1>1, <2>2 DEF IInv, BooksOK
    <3>2. EntriesOf(r) = {e}
      BY <1>1, <3>1 DEF IInv, BooksOK, EntriesOf
    <3> QED BY <2>1, <2>2, <3>2, FS_Singleton
  <2>3. CASE runs[r].st # "POSTED"
    <3>1. EntriesOf(r) = {}
      BY <2>1, <2>3
    <3> QED BY <2>3, <3>1, FS_EmptySet
  <2> QED BY <2>2, <2>3, <2>1
<1>2. IInv => OneEntryPerRun
  BY <1>1 DEF OneEntryPerRun
<1> QED BY <1>2, Invariance, PTL

\* The entry of a run pays the total that the run shows and books the salaries
\* on its payslips, whatever happened to the personnel meanwhile.
THEOREM EntriesAreAsShown == Spec => []PostedAsShown
<1>1. ASSUME IInv, NEW e \in books, NEW l \in e.lines
      PROVE  /\ l.account = "2020" => l.credit = runs[e.run].net
             /\ l.account = "5010" => l.debit = Gross(runs[e.run].slips)
  <2>1. e.run \in Run /\ runs[e.run].st = "POSTED" /\ e.lines = Lines(runs[e.run].slips)
    BY <1>1 DEF IInv, BooksOK
  <2>2. runs[e.run].net = Net(runs[e.run].slips)
    BY <1>1, <2>1 DEF IInv, RunsOK
  <2> QED BY <1>1, <2>1, <2>2 DEF Lines
<1>2. IInv => PostedAsShown
  BY <1>1 DEF PostedAsShown
<1> QED BY <1>2, Invariance, PTL

-----------------------------------------------------------------------------
(* The lines of a draft are accepted.                                      *)

\* Natural terms have a natural sum.
LEMMA SumNatural ==
  ASSUME NEW f, Ints(f, DOMAIN f), \A x \in DOMAIN f : f[x] >= 0
  PROVE  SumFunction(f) \in Nat
<1> DEFINE S == DOMAIN f
<1>1. PICK g : Sums(g, f, S)
  BY SumsOfAll
<1>2. \A s \in SUBSET S : g[s] >= 0
  <2> DEFINE Bad == {Cardinality(s) : s \in {t \in SUBSET S : ~(g[t] >= 0)}}
  <2>1. SUFFICES ASSUME NEW t \in SUBSET S, ~(g[t] >= 0) PROVE FALSE
    OBVIOUS
  <2>2. IsFiniteSet(S) /\ \A s \in SUBSET S : Cardinality(s) \in Nat
    BY FS_Subset, FS_CardinalityType DEF Ints
  <2>3. Bad \subseteq Nat /\ Bad # {}
    BY <2>1, <2>2
  <2>4. PICK n \in Bad : \A m \in Bad : n <= m
    <3> HIDE DEF Bad
    <3> QED BY <2>3, LeastNat
  <2>5. PICK s \in SUBSET S : ~(g[s] >= 0) /\ Cardinality(s) = n
    BY <2>4
  <2>6. s # {}
    <3>1. g[{}] = 0
      BY <1>1 DEF Sums
    <3>2. s = {} => g[s] = 0
      BY <3>1
    <3> QED BY <2>5, <3>2
  <2>7. /\ Rest(s) \in SUBSET S /\ Cardinality(Rest(s)) < n
        /\ First(s) \in S /\ g[s] = f[First(s)] + g[Rest(s)]
    BY <1>1, <2>2, <2>5, <2>6, RestFacts DEF Sums
  <2>8. f[First(s)] \in Int /\ f[First(s)] >= 0 /\ g[Rest(s)] \in Int
    BY <1>1, <2>7 DEF Ints, Sums
  <2>9. g[Rest(s)] >= 0
    BY <2>2, <2>3, <2>4, <2>7
  <2> QED BY <2>5, <2>7, <2>8, <2>9
<1>3. SumFunction(f) = g[S] /\ g[S] \in Int
  <2>1. SumFunctionOnSet(f, S) = g[S]
    BY <1>1, FoldIsSum
  <2>2. g[S] \in Int
    BY <1>1 DEF Sums
  <2> QED BY <2>1, <2>2 DEF SumFunction
<1> QED BY <1>2, <1>3

\* The sum over a set that is given by its members.
LEMMA SumAdds ==
  ASSUME NEW f, NEW S, NEW y, y \notin S, NEW T, T = S \cup {y},
         IsFiniteSet(S), \A x \in T : f[x] \in Int
  PROVE  IsFiniteSet(T) /\ SumFunctionOnSet(f, T) = SumFunctionOnSet(f, S) + f[y]
<1>1. IsFiniteSet(S \cup {y})
  BY FS_AddElement
<1>2. Ints(f, S \cup {y})
  BY <1>1 DEF Ints
<1>3. SumFunctionOnSet(f, S \cup {y}) = SumFunctionOnSet(f, S) + f[y]
  BY <1>2, SumInsert
<1> QED BY <1>1, <1>3, Zenon

LEMMA SumOfOne ==
  ASSUME NEW f, NEW T, NEW a, T = {a}, f[a] \in Int
  PROVE  IsFiniteSet(T) /\ SumFunctionOnSet(f, T) = f[a]
<1> SUFFICES ASSUME NEW S, S = {} PROVE IsFiniteSet(T) /\ SumFunctionOnSet(f, T) = f[a]
  OBVIOUS
<1>1. T = S \cup {a} /\ a \notin S /\ \A x \in T : f[x] \in Int
  OBVIOUS
<1>2. IsFiniteSet(S) /\ SumFunctionOnSet(f, S) = 0
  BY FS_EmptySet, SumEmpty, Zenon
<1>3. IsFiniteSet(T) /\ SumFunctionOnSet(f, T) = SumFunctionOnSet(f, S) + f[a]
  BY <1>1, <1>2, SumAdds
<1>4. \A k : k = 0 => k + f[a] = f[a]
  OBVIOUS
<1> QED BY <1>2, <1>3, <1>4, Zenon

LEMMA SumOfTwo ==
  ASSUME NEW f, NEW T, NEW a, NEW b, T = {a, b}, a # b, f[a] \in Int, f[b] \in Int
  PROVE  IsFiniteSet(T) /\ SumFunctionOnSet(f, T) = f[a] + f[b]
<1> SUFFICES ASSUME NEW S, S = {a} PROVE IsFiniteSet(T) /\ SumFunctionOnSet(f, T) = f[a] + f[b]
  OBVIOUS
<1>1. T = S \cup {b} /\ b \notin S /\ \A x \in T : f[x] \in Int
  OBVIOUS
<1>2. IsFiniteSet(S) /\ SumFunctionOnSet(f, S) = f[a]
  BY SumOfOne
<1> QED BY <1>1, <1>2, SumAdds

\* A debit of the salaries and credits that add up to them balance.
LEMMA LinesAccepted ==
  ASSUME NEW S, NEW g \in Nat, NEW n \in Nat, NEW t \in Nat, NEW i \in Nat,
         Gross(S) = g, Net(S) = n, Tax(S) = t, Insurance(S) = i, n > 0, g = n + t + i
  PROVE  Accepted(Lines(S))
<1> DEFINE G == [account |-> "5010", debit |-> g, credit |-> 0]
           N == [account |-> "2020", debit |-> 0, credit |-> n]
           T == [account |-> "2050", debit |-> 0, credit |-> t]
           I == [account |-> "2040", debit |-> 0, credit |-> i]
           P == {G, N}
           Q == P \cup {T}
           L == Lines(S)
           D == [l \in L |-> l.debit]
           C == [l \in L |-> l.credit]
<1>1. L = P \cup (IF t > 0 THEN {T} ELSE {}) \cup (IF i > 0 THEN {I} ELSE {})
  BY DEF Lines
<1>2. /\ G.debit = g /\ G.credit = 0 /\ N.debit = 0 /\ N.credit = n
      /\ T.debit = 0 /\ T.credit = t /\ I.debit = 0 /\ I.credit = i
  OBVIOUS
<1>3. /\ G.account = "5010" /\ N.account = "2020" /\ T.account = "2050" /\ I.account = "2040"
      /\ G # N /\ T \notin P /\ I \notin P /\ I \notin Q
  OBVIOUS
<1>4. \A l \in L : OneSided(l)
  BY <1>1 DEF OneSided
<1> HIDE DEF G, N, T, I, L
<1>5. SumFunction(D) = SumFunctionOnSet(D, L) /\ SumFunction(C) = SumFunctionOnSet(C, L)
  BY DEF SumFunction
<1>6. \A l \in L : D[l] = l.debit /\ C[l] = l.credit
  OBVIOUS
<1> HIDE DEF D, C
<1>7. ASSUME P \subseteq L
      PROVE  /\ IsFiniteSet(P) /\ SumFunctionOnSet(D, P) = g /\ SumFunctionOnSet(C, P) = n
             /\ \A l \in P : D[l] \in Int /\ C[l] \in Int
  <2>1. D[G] = g /\ D[N] = 0 /\ C[G] = 0 /\ C[N] = n
    BY <1>2, <1>6, <1>7
  <2>2. D[G] \in Int /\ D[N] \in Int /\ C[G] \in Int /\ C[N] \in Int
    BY <2>1
  <2>3. /\ IsFiniteSet(P) /\ SumFunctionOnSet(D, P) = D[G] + D[N]
        /\ SumFunctionOnSet(C, P) = C[G] + C[N]
    BY <1>3, <2>2, SumOfTwo
  <2> QED BY <2>1, <2>2, <2>3
<1> HIDE DEF P
<1> DEFINE Summed(R) == IsFiniteSet(R) /\ \A l \in R : D[l] \in Int /\ C[l] \in Int
<1>8. ASSUME NEW y, NEW R, y \notin R, R \cup {y} \subseteq L, Summed(R),
             y.debit = 0, y.credit \in Int, SumFunctionOnSet(D, R) = g
      PROVE  /\ Summed(R \cup {y}) /\ SumFunctionOnSet(D, R \cup {y}) = g
             /\ SumFunctionOnSet(C, R \cup {y}) = SumFunctionOnSet(C, R) + y.credit
  <2>1. D[y] = 0 /\ C[y] = y.credit
    BY <1>6, <1>8
  <2>2. \A l \in R \cup {y} : D[l] \in Int /\ C[l] \in Int
    BY <1>8, <2>1
  <2>3. SumFunctionOnSet(D, R \cup {y}) = SumFunctionOnSet(D, R) + D[y]
    BY <1>8, <2>2, SumAdds
  <2>4. IsFiniteSet(R \cup {y})
        /\ SumFunctionOnSet(C, R \cup {y}) = SumFunctionOnSet(C, R) + C[y]
    BY <1>8, <2>2, SumAdds
  <2> QED BY <1>8, <2>1, <2>2, <2>3, <2>4
<1> HIDE DEF Summed
<1>9. T.debit = 0 /\ T.credit \in Int /\ I.debit = 0 /\ I.credit \in Int
  BY <1>2
<1>10. ASSUME P \subseteq L
       PROVE  Summed(P) /\ SumFunctionOnSet(D, P) = g /\ SumFunctionOnSet(C, P) = n
  BY <1>7, <1>10 DEF Summed
<1>11. SumFunctionOnSet(D, L) = g /\ SumFunctionOnSet(C, L) = g
  <2>1. CASE t > 0 /\ i > 0
    <3>1. L = Q \cup {I} /\ P \subseteq L /\ P \cup {T} \subseteq L
      BY <1>1, <2>1
    <3>2. /\ Summed(P \cup {T}) /\ SumFunctionOnSet(D, P \cup {T}) = g
          /\ SumFunctionOnSet(C, P \cup {T}) = SumFunctionOnSet(C, P) + T.credit
      BY <1>3, <1>8, <1>9, <1>10, <3>1
    <3>3. /\ Summed(Q) /\ SumFunctionOnSet(D, Q) = g
          /\ SumFunctionOnSet(C, Q) = SumFunctionOnSet(C, P) + T.credit
      BY <3>2
    <3> HIDE DEF Q
    <3>4. /\ SumFunctionOnSet(D, Q \cup {I}) = g
          /\ SumFunctionOnSet(C, Q \cup {I}) = SumFunctionOnSet(C, Q) + I.credit
      BY <1>3, <1>8, <1>9, <3>1, <3>3
    <3>5. /\ SumFunctionOnSet(D, L) = g
          /\ SumFunctionOnSet(C, L) = SumFunctionOnSet(C, Q) + I.credit
      BY <3>1, <3>4, Zenon
    <3> QED BY <1>2, <1>10, <3>1, <3>3, <3>5
  <2>2. CASE t > 0 /\ ~(i > 0)
    <3>1. L = P \cup {T} /\ P \subseteq L /\ P \cup {T} \subseteq L /\ i = 0
      BY <1>1, <2>2
    <3>2. /\ SumFunctionOnSet(D, P \cup {T}) = g
          /\ SumFunctionOnSet(C, P \cup {T}) = SumFunctionOnSet(C, P) + T.credit
      BY <1>3, <1>8, <1>9, <1>10, <3>1
    <3>3. /\ SumFunctionOnSet(D, L) = g
          /\ SumFunctionOnSet(C, L) = SumFunctionOnSet(C, P) + T.credit
      BY <3>1, <3>2, Zenon
    <3> QED BY <1>2, <1>10, <3>1, <3>3
  <2>3. CASE ~(t > 0) /\ i > 0
    <3>1. L = P \cup {I} /\ P \subseteq L /\ P \cup {I} \subseteq L /\ t = 0
      BY <1>1, <2>3
    <3>2. /\ SumFunctionOnSet(D, P \cup {I}) = g
          /\ SumFunctionOnSet(C, P \cup {I}) = SumFunctionOnSet(C, P) + I.credit
      BY <1>3, <1>8, <1>9, <1>10, <3>1
    <3>3. /\ SumFunctionOnSet(D, L) = g
          /\ SumFunctionOnSet(C, L) = SumFunctionOnSet(C, P) + I.credit
      BY <3>1, <3>2, Zenon
    <3> QED BY <1>2, <1>10, <3>1, <3>3
  <2>4. CASE ~(t > 0) /\ ~(i > 0)
    <3>1. L = P /\ t = 0 /\ i = 0
      BY <1>1, <2>4
    <3> QED BY <1>10, <3>1
  <2> QED BY <2>1, <2>2, <2>3, <2>4
<1> QED BY <1>4, <1>5, <1>11 DEF Accepted, Balanced, D, C, L

\* What rounding cuts off never makes deductions below 100 percent reach the base.
LEMMA NetIsPositive ==
  ASSUME NEW b \in Nat, b > 0, NEW p \in 0..100, NEW q \in 0..100, p + q < 100
  PROVE  b - Deduction(b, p) - Deduction(b, q) > 0
<1>1. /\ Deduction(b, p) \in Nat /\ 100 * Deduction(b, p) <= b * p
      /\ Deduction(b, q) \in Nat /\ 100 * Deduction(b, q) <= b * q
  BY DeductionFacts
<1>2. b * p + b * q = b * (p + q)
  OBVIOUS
<1>3. b * (p + q) < b * 100
  <2> SUFFICES ASSUME NEW k \in Nat, k = p + q, k < 100 PROVE b * k < b * 100
    OBVIOUS
  <2> QED OBVIOUS
<1> DEFINE x == b * p
           y == b * q
<1>4. x \in Nat /\ y \in Nat /\ x + y < b * 100
  BY <1>2, <1>3
<1> HIDE DEF x, y
<1>5. 100 * Deduction(b, p) <= x /\ 100 * Deduction(b, q) <= y
  BY <1>1 DEF x, y
<1> QED BY <1>1, <1>4, <1>5

\* A draft with payslips and deductions below 100 percent can be posted: the
\* lines that postRun writes are one-sided and balance, whatever the salaries.
THEOREM DraftsCanBePosted == Spec => []DraftsArePostable
<1>1. ASSUME IInv, NEW r \in Run, runs[r].slips # {},
             \A s \in runs[r].slips : s.pct.tax + s.pct.insurance < 100
      PROVE  Accepted(Lines(runs[r].slips))
  <2> SUFFICES ASSUME NEW S, S = runs[r].slips PROVE Accepted(Lines(S))
    OBVIOUS
  <2>1. S \in SUBSET Slip /\ Payslips(S) /\ S # {}
    BY <1>1 DEF IInv, Typed, RunsOK, RunRow
  <2>2. ASSUME NEW s \in S
        PROVE  /\ s.base \in Nat /\ s.tax \in Nat /\ s.insurance \in Nat /\ s.net \in Int
               /\ s.base > 0 /\ s.net > 0 /\ s.base = s.net + s.tax + s.insurance
    <3>1. s \in Slip
      BY <2>1
    <3>2. /\ s.base \in Nat /\ s.tax \in Nat /\ s.insurance \in Nat /\ s.net \in Int
          /\ s.pct \in Percent
      BY <3>1 DEF Slip
    <3>3. /\ s.base > 0 /\ s.net = s.base - s.tax - s.insurance
          /\ s.tax = Deduction(s.base, s.pct.tax)
          /\ s.insurance = Deduction(s.base, s.pct.insurance)
      BY <2>1 DEF Payslips
    <3>4. /\ s.pct.tax \in 0..100 /\ s.pct.insurance \in 0..100
          /\ s.pct.tax + s.pct.insurance < 100
      BY <1>1, <3>2, PayrollAssumption
    <3>5. s.base - Deduction(s.base, s.pct.tax) - Deduction(s.base, s.pct.insurance) > 0
      BY <3>2, <3>3, <3>4, NetIsPositive
    <3> QED BY <3>2, <3>3, <3>5
  <2> DEFINE B == [s \in S |-> s.base]
             N == [s \in S |-> s.net]
             T == [s \in S |-> s.tax]
             I == [s \in S |-> s.insurance]
  <2>3. /\ Ints(B, S) /\ Ints(N, S) /\ Ints(T, S) /\ Ints(I, S)
        /\ DOMAIN B = S /\ DOMAIN N = S /\ DOMAIN T = S /\ DOMAIN I = S
    BY <2>1, <2>2 DEF Ints, Payslips
  <2>4. \A s \in S : /\ B[s] = N[s] + T[s] + I[s]
                     /\ B[s] >= 0 /\ N[s] > 0 /\ T[s] >= 0 /\ I[s] >= 0
    BY <2>2
  <2>5. Gross(S) = SumFunction(B) /\ Net(S) = SumFunction(N)
        /\ Tax(S) = SumFunction(T) /\ Insurance(S) = SumFunction(I)
    BY DEF Gross, Net, Tax, Insurance
  <2> HIDE DEF B, N, T, I
  <2>6. \A s \in S : N[s] >= 0
    BY <2>3, <2>4 DEF Ints
  <2>7. /\ SumFunction(B) \in Nat /\ SumFunction(N) \in Nat
        /\ SumFunction(T) \in Nat /\ SumFunction(I) \in Nat
    BY <2>3, <2>4, <2>6, SumNatural
  <2>8. SumFunction(N) > 0
    BY <2>1, <2>3, <2>4, SumPositive
  <2>9. SumFunction(B) = SumFunction(N) + SumFunction(T) + SumFunction(I)
    BY <2>3, <2>4, SumSplits
  <2> QED BY <2>5, <2>7, <2>8, <2>9, LinesAccepted
<1>2. IInv => DraftsArePostable
  BY <1>1 DEF DraftsArePostable
<1> QED BY <1>2, Invariance, PTL

=============================================================================

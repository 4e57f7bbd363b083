------------------------------ MODULE DataLemmas ------------------------------
(***************************************************************************)
(* Facts about the data of the models that take an induction: the sum of   *)
(* a weight over a finite set (SumFunctionOnSet), which CHOOSEs its        *)
(* recursive function, and what it is for parts of the set.  The           *)
(* library's induction theorems have an operator as parameter; here the    *)
(* induction is over the smallest set that is outside a set X, which is    *)
(* first-order.                                                            *)
(***************************************************************************)
EXTENDS Integers, Functions, SequencesExt, Lists, FiniteSetTheorems,
        SequenceTheorems, WellFoundedInduction, TLAPS

\* X has every part of S whose own parts it has.
Grows(S, X) == \A T \in SUBSET S : (\A U \in SUBSET T : U # T => U \in X) => T \in X

LEMMA SubsetInduction ==
  ASSUME NEW S, IsFiniteSet(S), NEW X, Grows(S, X)
  PROVE  SUBSET S \subseteq X
<1> SUFFICES ASSUME ~(SUBSET S \subseteq X) PROVE FALSE
  OBVIOUS
<1>1. PICK Y : Y = (SUBSET S) \ X
  OBVIOUS
<1>2. IsWellFoundedOn(StrictSubsetOrdering(S), SUBSET S)
  <2>1. IsWellFoundedOn(StrictSubsetOrdering(S), FiniteSubsetsOf(S))
    BY FS_StrictSubsetOrderingWellFounded
  <2>2. FiniteSubsetsOf(S) = SUBSET S
    BY FS_FiniteSubsetsOfFinite
  <2> QED
    BY <2>1, <2>2
<1>3. Y \subseteq SUBSET S /\ Y # {}
  BY <1>1
<1>4. PICK T \in Y : \A U \in Y : ~(<<U, T>> \in StrictSubsetOrdering(S))
  BY <1>2, <1>3, WFMin
<1>5. T \in SUBSET S /\ T \notin X
  BY <1>1
<1>6. ASSUME NEW U \in SUBSET T, U # T PROVE U \in X
  <2>1. <<U, T>> \in StrictSubsetOrdering(S)
    BY <1>5, <1>6 DEF StrictSubsetOrdering
  <2> QED
    BY <1>1, <1>4, <1>5, <2>1
<1> QED
  BY <1>5, <1>6 DEF Grows

(***************************************************************************)
(* The sum over a set: the recursive function CHOOSEn, step by step.       *)
(***************************************************************************)
Pick(s) == CHOOSE x \in s : TRUE
SumStep(w, g, s) == IF s = {} THEN 0 ELSE w[Pick(s)] + g[s \ {Pick(s)}]
Weighs(w, S) == IsFiniteSet(S) /\ \A x \in S : w[x] \in Nat
IsSum(w, T, g) == g \in [SUBSET T -> Nat] /\ \A s \in SUBSET T : g[s] = SumStep(w, g, s)

LEMMA PickIn == ASSUME NEW s, s # {} PROVE Pick(s) \in s
  BY DEF Pick

Agree(g, h, T) == \A s \in SUBSET T : g[s] = h[s]

LEMMA SumUnique ==
  ASSUME NEW w, NEW S, Weighs(w, S), NEW T \in SUBSET S, NEW U \in SUBSET S,
         NEW g, NEW h, IsSum(w, T, g), IsSum(w, U, h)
  PROVE  Agree(g, h, T \cap U)
<1>1. PICK X : X = {s \in SUBSET (T \cap U) : g[s] = h[s]}
  OBVIOUS
<1>2. IsFiniteSet(T \cap U)
  BY FS_Subset DEF Weighs
<1>3. ASSUME NEW s \in SUBSET (T \cap U), \A u \in SUBSET s : u # s => u \in X
      PROVE  s \in X
  <2>1. g[s] = SumStep(w, g, s) /\ h[s] = SumStep(w, h, s)
    BY DEF IsSum
  <2>2. CASE s = {}
    BY <2>1, <2>2, <1>1 DEF SumStep
  <2>3. CASE s # {}
    <3>1. s \ {Pick(s)} \in X
      BY <1>3, <2>3, PickIn
    <3> QED
      BY <3>1, <2>1, <2>3, <1>1 DEF SumStep
  <2> QED
    BY <2>2, <2>3
<1>4. SUBSET (T \cap U) \subseteq X
  <2>1. Grows(T \cap U, X)
    BY <1>3 DEF Grows
  <2> QED
    BY <1>2, <2>1, SubsetInduction
<1> QED
  BY <1>1, <1>4 DEF Agree

LEMMA SumExists ==
  ASSUME NEW w, NEW S, Weighs(w, S)
  PROVE  \A T \in SUBSET S : \E g : IsSum(w, T, g)
<1>1. PICK X : X = {T \in SUBSET S : \E g : IsSum(w, T, g)}
  OBVIOUS
<1>2. ASSUME NEW T \in SUBSET S, \A U \in SUBSET T : U # T => U \in X
      PROVE  T \in X
  <2>1. CASE T = {}
    <3>1. PICK g : g = [s \in SUBSET T |-> 0]
      OBVIOUS
    <3>2. IsSum(w, T, g)
      BY <3>1, <2>1 DEF IsSum, SumStep
    <3> QED
      BY <3>2, <1>1
  <2>2. CASE T # {}
    <3>1. PICK some : some = [U \in (SUBSET T) \ {T} |-> CHOOSE g : IsSum(w, U, g)]
      OBVIOUS
    <3>2. \A U \in (SUBSET T) \ {T} : IsSum(w, U, some[U])
      BY <1>1, <1>2, <3>1
    <3>3. PICK c : c = Pick(T) /\ c \in T
      BY <2>2, PickIn
    <3>4. PICK rest : rest = T \ {c}
      OBVIOUS
    <3>12. rest \in (SUBSET T) \ {T}
      BY <3>3, <3>4
    <3>5. PICK g : g = [s \in SUBSET T |-> IF s = T THEN w[c] + some[rest][rest]
                                                   ELSE some[s][s]]
      OBVIOUS
    <3>6. \A s \in (SUBSET T) \ {T} : g[s] = some[s][s] /\ g[s] \in Nat
      BY <3>2, <3>5 DEF IsSum
    <3>7. g[T] = w[c] + g[rest] /\ g[T] \in Nat
      <4>1. g[T] = w[c] + some[rest][rest]
        BY <3>5
      <4>2. g[rest] = some[rest][rest] /\ g[rest] \in Nat
        BY <3>6, <3>12
      <4>3. w[c] \in Nat
        BY <3>3 DEF Weighs
      <4> QED
        BY <4>1, <4>2, <4>3
    <3>8. g \in [SUBSET T -> Nat]
      BY <3>5, <3>6, <3>7
    <3>9. g[T] = SumStep(w, g, T)
      BY <2>2, <3>3, <3>4, <3>7 DEF SumStep
    <3>10. ASSUME NEW s \in (SUBSET T) \ {T}
           PROVE  g[s] = SumStep(w, g, s)
      <4>1. some[s][s] = SumStep(w, some[s], s)
        BY <3>2 DEF IsSum
      <4>2. CASE s = {}
        BY <4>1, <4>2, <3>6 DEF SumStep
      <4>3. CASE s # {}
        <5>1. PICK u : u = s \ {Pick(s)}
          OBVIOUS
        <5>2. u \in (SUBSET T) \ {T} /\ u \in SUBSET (s \cap u)
          BY <5>1, <4>3, PickIn
        <5>3. PICK gs, gu : gs = some[s] /\ gu = some[u]
          OBVIOUS
        <5>4. IsSum(w, s, gs) /\ IsSum(w, u, gu) /\ s \in SUBSET S /\ u \in SUBSET S
          BY <5>2, <5>3, <3>2
        <5>5. Agree(gs, gu, s \cap u)
          BY <5>4, SumUnique
        <5>6. some[s][u] = some[u][u]
          BY <5>2, <5>3, <5>5 DEF Agree
        <5> QED
          BY <4>1, <4>3, <5>1, <5>2, <5>6, <3>6 DEF SumStep
      <4> QED
        BY <4>2, <4>3
    <3>11. IsSum(w, T, g)
      BY <3>8, <3>9, <3>10 DEF IsSum
    <3> QED
      BY <3>11, <1>1
  <2> QED
    BY <2>1, <2>2
<1>3. SUBSET S \subseteq X
  <2>1. Grows(S, X)
    BY <1>2 DEF Grows
  <2> QED
    BY <2>1, SubsetInduction DEF Weighs
<1> QED
  BY <1>1, <1>3

IterOf(w, S) == CHOOSE iter : iter = [s \in SUBSET S |-> SumStep(w, iter, s)]

LEMMA SumIs == ASSUME NEW w, NEW S PROVE SumFunctionOnSet(w, S) = IterOf(w, S)[S]
  BY DEF SumFunctionOnSet, FoldFunctionOnSet, MapThenFoldSet, IterOf, SumStep, Pick

LEMMA IterIsSum ==
  ASSUME NEW w, NEW S, Weighs(w, S)
  PROVE  IsSum(w, S, IterOf(w, S))
<1>1. PICK g : IsSum(w, S, g)
  BY SumExists
<1>2. g = [s \in SUBSET S |-> SumStep(w, g, s)]
  BY <1>1 DEF IsSum
<1>3. PICK f : f = IterOf(w, S) /\ f = [s \in SUBSET S |-> SumStep(w, f, s)]
  BY <1>2 DEF IterOf
<1>4. PICK X : X = {s \in SUBSET S : f[s] \in Nat}
  OBVIOUS
<1>5. ASSUME NEW T \in SUBSET S, \A U \in SUBSET T : U # T => U \in X
      PROVE  T \in X
  <2>1. f[T] = SumStep(w, f, T)
    BY <1>3
  <2>2. CASE T = {}
    BY <2>1, <2>2, <1>4 DEF SumStep
  <2>3. CASE T # {}
    <3>1. Pick(T) \in T /\ T \ {Pick(T)} \in X
      BY <1>5, <2>3, PickIn
    <3> QED
      BY <3>1, <2>1, <2>3, <1>4 DEF SumStep, Weighs
  <2> QED
    BY <2>2, <2>3
<1>6. SUBSET S \subseteq X
  <2>1. Grows(S, X)
    BY <1>5 DEF Grows
  <2> QED
    BY <2>1, SubsetInduction DEF Weighs
<1>7. f \in [SUBSET S -> Nat]
  BY <1>3, <1>4, <1>6
<1>8. \A s \in SUBSET S : f[s] = SumStep(w, f, s)
  BY <1>3
<1> QED
  BY <1>3, <1>7, <1>8 DEF IsSum

\* The facts about sums.
LEMMA SumEmpty == ASSUME NEW w PROVE SumFunctionOnSet(w, {}) = 0
<1>1. Weighs(w, {})
  BY FS_EmptySet DEF Weighs
<1> QED
  BY <1>1, IterIsSum, SumIs DEF IsSum, SumStep

LEMMA SumOfPart ==
  ASSUME NEW w, NEW S, Weighs(w, S), NEW T \in SUBSET S
  PROVE  SumFunctionOnSet(w, T) = IterOf(w, S)[T]
<1>1. Weighs(w, T)
  BY FS_Subset DEF Weighs
<1>2. PICK g, h : g = IterOf(w, S) /\ h = IterOf(w, T)
  OBVIOUS
<1>3. IsSum(w, S, g) /\ IsSum(w, T, h)
  BY <1>1, <1>2, IterIsSum
<1>4. T \in SUBSET (S \cap T) /\ S \in SUBSET S
  OBVIOUS
<1>5. Agree(g, h, S \cap T)
  BY <1>3, <1>4, SumUnique
<1> QED
  BY <1>2, <1>4, <1>5, SumIs DEF Agree

LEMMA SumType ==
  ASSUME NEW w, NEW S, Weighs(w, S)
  PROVE  SumFunctionOnSet(w, S) \in Nat
<1>1. IsSum(w, S, IterOf(w, S)) /\ SumFunctionOnSet(w, S) = IterOf(w, S)[S]
  BY IterIsSum, SumIs
<1> QED
  BY <1>1 DEF IsSum

LEMMA SumWithout ==
  ASSUME NEW w, NEW S, Weighs(w, S), NEW x \in S
  PROVE  SumFunctionOnSet(w, S) = w[x] + SumFunctionOnSet(w, S \ {x})
<1>1. PICK g : g = IterOf(w, S)
  OBVIOUS
<1>2. IsSum(w, S, g)
  BY <1>1, IterIsSum
<1>3. PICK X : X = {T \in SUBSET S : \A y \in T : g[T] = w[y] + g[T \ {y}]}
  OBVIOUS
<1>4. ASSUME NEW T \in SUBSET S, \A U \in SUBSET T : U # T => U \in X, NEW y \in T
      PROVE  g[T] = w[y] + g[T \ {y}]
  <2>1. PICK c : c = Pick(T) /\ c \in T
    BY <1>4, PickIn
  <2>2. g[T] = w[c] + g[T \ {c}]
    BY <1>2, <1>4, <2>1 DEF IsSum, SumStep
  <2>3. CASE c = y
    BY <2>2, <2>3
  <2>4. CASE c # y
    <3>1. PICK a, b, rest : a = T \ {c} /\ b = T \ {y} /\ rest = (T \ {c}) \ {y}
      OBVIOUS
    <3>2. a \in SUBSET T /\ b \in SUBSET T /\ a # T /\ b # T /\ y \in a /\ c \in b
      BY <1>4, <2>1, <2>4, <3>1
    <3>3. a \ {y} = rest /\ b \ {c} = rest
      BY <3>1
    <3>4. g[a] = w[y] + g[rest] /\ g[b] = w[c] + g[rest]
      <4>1. a \in X /\ b \in X
        BY <1>4, <3>2
      <4>2. g[a] = w[y] + g[a \ {y}] /\ g[b] = w[c] + g[b \ {c}]
        BY <1>3, <3>2, <4>1
      <4> QED
        BY <3>3, <4>2
    <3>5. w[c] \in Nat /\ w[y] \in Nat /\ g[rest] \in Nat
      BY <1>2, <1>4, <2>1, <3>1 DEF Weighs, IsSum
    <3> QED
      BY <2>2, <3>1, <3>4, <3>5
  <2> QED
    BY <2>3, <2>4
<1>5. Grows(S, X)
  BY <1>3, <1>4 DEF Grows
<1>6. S \in X
  BY <1>5, SubsetInduction DEF Weighs
<1>7. g[S] = w[x] + g[S \ {x}]
  BY <1>3, <1>6
<1> QED
  BY <1>1, <1>7, SumIs, SumOfPart

\* A part of what there is, each at most as heavy, is at most as heavy.
LEMMA SumMonotonic ==
  ASSUME NEW w, NEW v, NEW S, Weighs(v, S), NEW R \in SUBSET S,
         Weighs(w, R), \A x \in R : w[x] <= v[x]
  PROVE  SumFunctionOnSet(w, R) <= SumFunctionOnSet(v, S)
<1>1. PICK X : X = {T \in SUBSET S :
                      SumFunctionOnSet(w, T \cap R) <= SumFunctionOnSet(v, T)}
  OBVIOUS
<1>2. ASSUME NEW T \in SUBSET S, \A U \in SUBSET T : U # T => U \in X
      PROVE  T \in X
  <2>1. Weighs(v, T) /\ Weighs(w, T \cap R)
    BY FS_Subset DEF Weighs
  <2>2. CASE T = {}
    <3>1. SumFunctionOnSet(w, T \cap R) = 0 /\ SumFunctionOnSet(v, T) = 0 /\ T \cap R = {}
      BY <2>2, SumEmpty
    <3> QED
      BY <3>1, <1>1
  <2>3. CASE T # {}
    <3>1. PICK x \in T : TRUE
      BY <2>3
    <3>2. PICK U : U = T \ {x}
      OBVIOUS
    <3>3. SumFunctionOnSet(w, U \cap R) <= SumFunctionOnSet(v, U)
      BY <1>1, <1>2, <3>1, <3>2
    <3>4. Weighs(v, U) /\ Weighs(w, U \cap R)
      BY <3>2, FS_Subset DEF Weighs
    <3>5. SumFunctionOnSet(v, U) \in Nat /\ SumFunctionOnSet(w, U \cap R) \in Nat
      BY <3>4, SumType
    <3>6. SumFunctionOnSet(v, T) = v[x] + SumFunctionOnSet(v, U) /\ v[x] \in Nat
      BY <2>1, <3>2, SumWithout DEF Weighs
    <3>7. CASE x \in R
      <4>1. (T \cap R) \ {x} = U \cap R /\ x \in T \cap R
        BY <3>2, <3>7
      <4>2. SumFunctionOnSet(w, T \cap R) = w[x] + SumFunctionOnSet(w, U \cap R)
        BY <2>1, <4>1, SumWithout
      <4>3. w[x] <= v[x] /\ w[x] \in Nat
        BY <3>7 DEF Weighs
      <4>4. SumFunctionOnSet(w, T \cap R) <= SumFunctionOnSet(v, T)
        BY <3>3, <3>5, <3>6, <4>2, <4>3
      <4> QED
        BY <4>4, <1>1
    <3>8. CASE x \notin R
      <4>1. SumFunctionOnSet(w, T \cap R) = SumFunctionOnSet(w, U \cap R)
        <5>1. T \cap R = U \cap R
          BY <3>2, <3>8
        <5> QED
          BY <5>1
      <4>2. SumFunctionOnSet(w, T \cap R) <= SumFunctionOnSet(v, T)
        BY <3>3, <3>5, <3>6, <4>1
      <4> QED
        BY <4>2, <1>1
    <3> QED
      BY <3>7, <3>8
  <2> QED
    BY <2>2, <2>3
<1>3. Grows(S, X)
  BY <1>2 DEF Grows
<1>4. S \in X /\ S \cap R = R
  BY <1>3, SubsetInduction DEF Weighs
<1> QED
  BY <1>1, <1>4
-----------------------------------------------------------------------------
(***************************************************************************)
(* Lists: what Select returns, by induction over the positions.            *)
(***************************************************************************)
Climbs(X, n) == 0 \in X /\ \A k \in 1 .. n : k - 1 \in X => k \in X

\* What holds of 0 and from each number to the next holds up to n.
LEMMA UpTo == ASSUME NEW n \in Nat, NEW X, Climbs(X, n) PROVE 0 .. n \subseteq X
<1> SUFFICES ASSUME ~(0 .. n \subseteq X) PROVE FALSE
  OBVIOUS
<1>1. PICK Y : Y = (0 .. n) \ X
  OBVIOUS
<1>2. Y \subseteq Nat /\ Y # {}
  BY <1>1
<1>3. PICK k \in Y : \A j \in Y : ~(<<j, k>> \in OpToRel(<, Nat))
  BY <1>2, NatLessThanWellFounded, WFMin
<1>4. \A j \in Y : ~(j < k)
  BY <1>2, <1>3 DEF OpToRel
<1>5. k \in 0 .. n /\ k \notin X /\ k # 0
  BY <1>1, <1>3 DEF Climbs
<1>6. k - 1 \in 0 .. n /\ k - 1 < k
  BY <1>5
<1>7. k - 1 \in X
  BY <1>1, <1>4, <1>6
<1> QED
  BY <1>5, <1>7 DEF Climbs

StepsIn(step, n, X) == step \in [(1 .. n) \X X -> X]
Recurs(f, base, step, n) == f[0] = base /\ \A k \in 1 .. n : f[k] = step[<<k, f[k - 1]>>]

\* A function that is given at 0 and, at each number, by its value before.
LEMMA RecursionExists ==
  ASSUME NEW n \in Nat, NEW X, NEW base \in X, NEW step, StepsIn(step, n, X)
  PROVE  \E f \in [0 .. n -> X] : Recurs(f, base, step, n)
<1>1. PICK Y : Y = {m \in 0 .. n : \E f \in [0 .. m -> X] : Recurs(f, base, step, m)}
  OBVIOUS
<1>2. 0 \in Y
  <2>1. PICK f : f = [k \in 0 .. 0 |-> base]
    OBVIOUS
  <2>2. f \in [0 .. 0 -> X] /\ Recurs(f, base, step, 0)
    BY <2>1 DEF Recurs
  <2> QED
    BY <1>1, <2>2
<1>3. ASSUME NEW m \in 1 .. n, m - 1 \in Y PROVE m \in Y
  <2>1. PICK g \in [0 .. (m - 1) -> X] : Recurs(g, base, step, m - 1)
    BY <1>1, <1>3
  <2>2. PICK x : x = step[<<m, g[m - 1]>>]
    OBVIOUS
  <2>3. x \in X
    BY <2>1, <2>2 DEF StepsIn
  <2>4. PICK f : f = [k \in 0 .. m |-> IF k = m THEN x ELSE g[k]]
    OBVIOUS
  <2>5. f \in [0 .. m -> X]
    BY <2>1, <2>3, <2>4
  <2>6. f[0] = base
    BY <2>1, <2>4 DEF Recurs
  <2>7. ASSUME NEW k \in 1 .. m PROVE f[k] = step[<<k, f[k - 1]>>]
    <3>1. f[k - 1] = g[k - 1]
      BY <2>4
    <3>2. CASE k = m
      <4>1. f[m] = x /\ f[m - 1] = g[m - 1]
        BY <2>4, <3>1, <3>2
      <4> QED
        BY <2>2, <3>2, <4>1
    <3>3. CASE k # m
      <4>1. k \in 1 .. (m - 1)
        BY <3>3
      <4> QED
        BY <2>1, <2>4, <3>1, <3>3, <4>1 DEF Recurs
    <3> QED
      BY <3>2, <3>3
  <2>8. Recurs(f, base, step, m)
    BY <2>6, <2>7 DEF Recurs
  <2> QED
    BY <1>1, <2>5, <2>8
<1>4. Climbs(Y, n)
  BY <1>2, <1>3 DEF Climbs
<1>5. n \in Y
  BY <1>4, UpTo
<1> QED
  BY <1>1, <1>5

Selects(list, S, f) ==
  f = [n \in 0 .. Len(list) |->
         IF n = 0 THEN << >>
         ELSE IF list[n] \in S THEN Append(f[n - 1], list[n]) ELSE f[n - 1]]

LEMMA SelectRuns ==
  ASSUME NEW A, NEW list \in Seq(A), NEW S
  PROVE  \E f \in [0 .. Len(list) -> Seq(A)] :
           Selects(list, S, f) /\ Select(list, S) = f[Len(list)]
<1>1. PICK n \in Nat : n = Len(list)
  OBVIOUS
<1>2. PICK step : step = [p \in (1 .. n) \X Seq(A) |->
                            IF list[p[1]] \in S THEN Append(p[2], list[p[1]]) ELSE p[2]]
  OBVIOUS
<1>3. StepsIn(step, n, Seq(A))
  <2>1. \A p \in (1 .. n) \X Seq(A) : list[p[1]] \in A /\ p[2] \in Seq(A)
    BY <1>1
  <2>2. \A p \in (1 .. n) \X Seq(A) : Append(p[2], list[p[1]]) \in Seq(A)
    BY <2>1
  <2> QED
    BY <1>2, <2>1, <2>2 DEF StepsIn
<1>4. PICK f \in [0 .. n -> Seq(A)] : Recurs(f, << >>, step, n)
  <2>1. << >> \in Seq(A)
    OBVIOUS
  <2> QED
    BY <1>3, <2>1, RecursionExists
<1>5. Selects(list, S, f)
  <2>1. ASSUME NEW k \in 1 .. n
        PROVE  f[k] = IF list[k] \in S THEN Append(f[k - 1], list[k]) ELSE f[k - 1]
    <3>1. <<k, f[k - 1]>> \in (1 .. n) \X Seq(A)
      BY <1>4
    <3>2. f[k] = step[<<k, f[k - 1]>>]
      BY <1>4 DEF Recurs
    <3> QED
      BY <1>2, <3>1, <3>2
  <2>2. f[0] = << >>
    BY <1>4 DEF Recurs
  <2>3. \A k \in 0 .. n : f[k] = IF k = 0 THEN << >>
          ELSE IF list[k] \in S THEN Append(f[k - 1], list[k]) ELSE f[k - 1]
    <3> SUFFICES ASSUME NEW k \in 0 .. n
                 PROVE  f[k] = IF k = 0 THEN << >>
                   ELSE IF list[k] \in S THEN Append(f[k - 1], list[k]) ELSE f[k - 1]
      OBVIOUS
    <3>1. CASE k = 0
      BY <2>2, <3>1
    <3>2. CASE k # 0
      <4>1. k \in 1 .. n
        BY <3>2
      <4> QED
        BY <2>1, <3>2, <4>1
    <3> QED
      BY <3>1, <3>2
  <2>4. DOMAIN f = 0 .. n
    BY <1>4
  <2>5. f = [k \in DOMAIN f |-> f[k]]
    BY <1>4
  <2> QED
    BY <1>1, <2>3, <2>4, <2>5 DEF Selects
<1>6. PICK g : g = CHOOSE h : Selects(list, S, h)
  OBVIOUS
<1>7. Selects(list, S, g) /\ Select(list, S) = g[Len(list)]
  BY <1>5, <1>6 DEF Selects, Select
<1>8. g \in [0 .. n -> Seq(A)]
  <2>1. PICK Y : Y = {k \in 0 .. n : g[k] \in Seq(A)}
    OBVIOUS
  <2>2. Climbs(Y, n)
    <3>1. 0 \in Y
      BY <1>7, <1>1, <2>1 DEF Selects
    <3>2. ASSUME NEW k \in 1 .. n, k - 1 \in Y PROVE k \in Y
      <4>3. k \in 0 .. Len(list) /\ k # 0
        BY <1>1
      <4>1. g[k] = IF list[k] \in S THEN Append(g[k - 1], list[k]) ELSE g[k - 1]
        BY <4>3, <1>7 DEF Selects
      <4>2. g[k - 1] \in Seq(A) /\ list[k] \in A
        BY <1>1, <2>1, <3>2
      <4>4. CASE list[k] \in S
        <5>1. PICK u, e : u = g[k - 1] /\ e = list[k]
          OBVIOUS
        <5>2. Append(u, e) \in Seq(A)
          BY <4>2, <5>1, AppendProperties
        <5>3. g[k] = Append(u, e) /\ k \in 0 .. n
          BY <1>1, <4>1, <4>3, <4>4, <5>1
        <5> QED
          BY <2>1, <5>2, <5>3
      <4>5. CASE list[k] \notin S
        BY <2>1, <4>1, <4>2, <4>5
      <4> QED
        BY <4>4, <4>5
    <3> QED
      BY <3>1, <3>2 DEF Climbs
  <2>3. \A k \in 0 .. n : g[k] \in Seq(A)
    BY <2>1, <2>2, UpTo
  <2> QED
    BY <1>1, <1>7, <2>3 DEF Selects
<1> QED
  BY <1>1, <1>7, <1>8

Picked(list, S, k, out) ==
  /\ Len(out) <= k
  /\ ToSet(out) = {list[i] : i \in 1 .. k} \cap S
  /\ k > 0 /\ list[1] \in S => out # << >> /\ out[1] = list[1]

\* What is selected: of the list, those in S, and first what was first.
LEMMA SelectPicks ==
  ASSUME NEW A, NEW list \in Seq(A), NEW S
  PROVE  Select(list, S) \in Seq(A) /\ Picked(list, S, Len(list), Select(list, S))
<1>1. PICK n \in Nat : n = Len(list)
  OBVIOUS
<1>2. PICK f \in [0 .. Len(list) -> Seq(A)] :
        Selects(list, S, f) /\ Select(list, S) = f[Len(list)]
  BY SelectRuns
<1>3. PICK Y : Y = {k \in 0 .. n : Picked(list, S, k, f[k])}
  OBVIOUS
<1>4. 0 \in Y
  <2>1. f[0] = << >>
    BY <1>2 DEF Selects
  <2>2. Len(<< >>) <= 0 /\ ToSet(<< >>) = {}
    BY DEF ToSet
  <2>3. {list[i] : i \in 1 .. 0} = {}
    OBVIOUS
  <2> QED
    BY <1>3, <2>1, <2>2, <2>3 DEF Picked
<1>5. ASSUME NEW k \in 1 .. n, k - 1 \in Y PROVE k \in Y
  <2>1. k \in 0 .. Len(list) /\ k # 0 /\ k - 1 \in 0 .. Len(list)
    BY <1>1
  <2>2. PICK u, e, v : u = f[k - 1] /\ e = list[k] /\ v = f[k]
    OBVIOUS
  <2>3. u \in Seq(A) /\ e \in A /\ v \in Seq(A)
    BY <1>1, <1>2, <2>1, <2>2
  <2>4. v = IF e \in S THEN Append(u, e) ELSE u
    BY <1>2, <2>1, <2>2 DEF Selects
  <2>5. Picked(list, S, k - 1, u)
    BY <1>3, <1>5, <2>2
  <2>6. {list[i] : i \in 1 .. k} = {list[i] : i \in 1 .. (k - 1)} \cup {e}
    BY <2>2
  <2>7. CASE e \notin S
    <3>1. v = u
      BY <2>4, <2>7
    <3>2. Len(v) <= k
      BY <2>3, <2>5, <3>1 DEF Picked
    <3>3. ToSet(v) = {list[i] : i \in 1 .. k} \cap S
      BY <2>5, <2>6, <2>7, <3>1 DEF Picked
    <3>4. list[1] \in S => v # << >> /\ v[1] = list[1]
      <4>1. CASE k = 1
        BY <4>1, <2>2, <2>7
      <4>2. CASE k # 1
        BY <4>2, <2>5, <3>1 DEF Picked
      <4> QED
        BY <4>1, <4>2
    <3> QED
      BY <1>3, <2>1, <1>1, <2>2, <3>2, <3>3, <3>4 DEF Picked
  <2>8. CASE e \in S
    <3>1. v = Append(u, e)
      BY <2>4, <2>8
    <3>2. Len(v) = Len(u) + 1 /\ v[Len(u) + 1] = e /\ \A i \in 1 .. Len(u) : v[i] = u[i]
      BY <2>3, <3>1
    <3>3. Len(v) <= k
      BY <2>3, <2>5, <3>2 DEF Picked
    <3>4. ToSet(v) = ToSet(u) \cup {e}
      <4>1. DOMAIN u = 1 .. Len(u) /\ DOMAIN v = 1 .. Len(v) /\ Len(u) \in Nat
        BY <2>3
      <4> QED
        BY <3>2, <4>1 DEF ToSet
    <3>5. ToSet(v) = {list[i] : i \in 1 .. k} \cap S
      BY <2>5, <2>6, <2>8, <3>4 DEF Picked
    <3>6. v # << >> /\ (list[1] \in S => v[1] = list[1])
      <4>1. Len(u) \in Nat /\ v # << >>
        BY <2>3, <3>2
      <4>2. CASE k = 1
        <5>1. Len(u) <= 0 /\ e = list[1]
          BY <2>2, <2>5, <4>2 DEF Picked
        <5> QED
          BY <3>2, <4>1, <5>1
      <4>3. CASE k # 1
        <5>1. list[1] \in S => u # << >> /\ u[1] = list[1]
          BY <2>5, <4>3 DEF Picked
        <5>2. u # << >> => 1 \in 1 .. Len(u)
          BY <2>3
        <5> QED
          BY <3>2, <4>1, <5>1, <5>2
      <4> QED
        BY <4>2, <4>3
    <3> QED
      BY <1>3, <2>1, <1>1, <2>2, <3>3, <3>5, <3>6 DEF Picked
  <2> QED
    BY <2>7, <2>8
<1>6. Climbs(Y, n)
  BY <1>4, <1>5 DEF Climbs
<1>7. n \in Y
  BY <1>6, UpTo
<1> QED
  BY <1>1, <1>2, <1>3, <1>7

\* What is in a list.
LEMMA InList ==
  ASSUME NEW A, NEW s \in Seq(A)
  PROVE  /\ ToSet(s) = {s[i] : i \in 1 .. Len(s)} /\ Len(s) \in Nat
         /\ s # << >> => s[1] \in ToSet(s) /\ Len(s) >= 1
         /\ ToSet(s) \subseteq A
         /\ ToSet(s) # {} => s # << >>
<1>1. DOMAIN s = 1 .. Len(s) /\ Len(s) \in Nat
  OBVIOUS
<1>2. ToSet(s) = {s[i] : i \in 1 .. Len(s)}
  BY <1>1 DEF ToSet
<1> QED
  BY <1>1, <1>2

\* The same, as it is used.
LEMMA SelectFacts ==
  ASSUME NEW A, NEW list \in Seq(A), NEW S
  PROVE  /\ Select(list, S) \in Seq(A) /\ Len(Select(list, S)) <= Len(list)
         /\ ToSet(Select(list, S)) = ToSet(list) \cap S
         /\ list # << >> /\ list[1] \in S =>
              Select(list, S) # << >> /\ Select(list, S)[1] = list[1]
<1>1. DOMAIN list = 1 .. Len(list) /\ Len(list) \in Nat
  OBVIOUS
<1>2. ToSet(list) = {list[i] : i \in 1 .. Len(list)}
  BY <1>1 DEF ToSet
<1>3. list # << >> => Len(list) > 0
  OBVIOUS
<1> QED
  BY <1>2, <1>3, SelectPicks DEF Picked
\* Select splits a list in two.
LEMMA SelectSplits ==
  ASSUME NEW A, NEW list \in Seq(A), NEW S, NEW T, \A a \in A : a \in S <=> a \notin T
  PROVE  Len(Select(list, S)) + Len(Select(list, T)) = Len(list)
<1>1. PICK n \in Nat : n = Len(list)
  OBVIOUS
<1>2. PICK f \in [0 .. Len(list) -> Seq(A)] :
        Selects(list, S, f) /\ Select(list, S) = f[Len(list)]
  BY SelectRuns
<1>3. PICK g \in [0 .. Len(list) -> Seq(A)] :
        Selects(list, T, g) /\ Select(list, T) = g[Len(list)]
  BY SelectRuns
<1>4. PICK Y : Y = {k \in 0 .. n : Len(f[k]) + Len(g[k]) = k}
  OBVIOUS
<1>5. 0 \in Y
  <2>1. f[0] = << >> /\ g[0] = << >>
    BY <1>2, <1>3 DEF Selects
  <2>2. Len(<< >>) = 0
    OBVIOUS
  <2> QED
    BY <1>4, <2>1, <2>2
<1>6. ASSUME NEW k \in 1 .. n, k - 1 \in Y PROVE k \in Y
  <2>1. k \in 0 .. Len(list) /\ k # 0 /\ k - 1 \in 0 .. Len(list)
    BY <1>1
  <2>2. PICK u, w, e : u = f[k - 1] /\ w = g[k - 1] /\ e = list[k]
    OBVIOUS
  <2>3. u \in Seq(A) /\ w \in Seq(A) /\ e \in A
    <3>1. f[k - 1] \in Seq(A)
      BY <1>2, <2>1
    <3>2. g[k - 1] \in Seq(A)
      BY <1>3, <2>1
    <3>3. list[k] \in A
      BY <1>1
    <3> QED
      BY <2>2, <3>1, <3>2, <3>3
  <2>4. f[k] = IF e \in S THEN Append(u, e) ELSE u
    BY <1>2, <2>1, <2>2 DEF Selects
  <2>5. g[k] = IF e \in T THEN Append(w, e) ELSE w
    BY <1>3, <2>1, <2>2 DEF Selects
  <2>6. Len(u) + Len(w) = k - 1 /\ Len(u) \in Nat /\ Len(w) \in Nat
    BY <1>4, <1>6, <2>2, <2>3
  <2>7. Len(Append(u, e)) = Len(u) + 1 /\ Len(Append(w, e)) = Len(w) + 1
    BY <2>3
  <2>8. e \in S <=> e \notin T
    BY <2>3
  <2>9. Len(f[k]) + Len(g[k]) = k
    <3>1. CASE e \in S
      <4>1. Len(f[k]) = Len(u) + 1
        BY <2>4, <2>7, <3>1
      <4>2. Len(g[k]) = Len(w)
        BY <2>5, <2>8, <3>1
      <4> QED
        BY <2>6, <4>1, <4>2
    <3>2. CASE e \notin S
      <4>1. Len(f[k]) = Len(u)
        BY <2>4, <3>2
      <4>2. Len(g[k]) = Len(w) + 1
        BY <2>5, <2>7, <2>8, <3>2
      <4> QED
        BY <2>6, <4>1, <4>2
    <3> QED
      BY <3>1, <3>2
  <2> QED
    BY <1>1, <1>4, <2>1, <2>9
<1>7. Climbs(Y, n)
  BY <1>5, <1>6 DEF Climbs
<1>8. n \in Y
  BY <1>7, UpTo
<1> QED
  BY <1>1, <1>2, <1>3, <1>4, <1>8

\* The places of what is selected.
PlacesOf(list, S, k, out, at) ==
  /\ at \in [1 .. Len(out) -> 1 .. k]
  /\ \A n \in 1 .. Len(out) : out[n] = list[at[n]] /\ list[at[n]] \in S
  /\ \A m, n \in 1 .. Len(out) : m < n => at[m] < at[n]
  /\ \A i \in 1 .. k : list[i] \in S => \E n \in 1 .. Len(out) : at[n] = i

LEMMA PlaceAppended ==
  ASSUME NEW A, NEW list \in Seq(A), NEW S, NEW k \in 1 .. Len(list),
         NEW u \in Seq(A), NEW at, PlacesOf(list, S, k - 1, u, at)
  PROVE  /\ list[k] \notin S => PlacesOf(list, S, k, u, at)
         /\ list[k] \in S => \E b : PlacesOf(list, S, k, Append(u, list[k]), b)
<1>1. PICK l \in Nat : l = Len(u)
  OBVIOUS
<1>2. at \in [1 .. l -> 1 .. (k - 1)]
  BY <1>1 DEF PlacesOf
<1>3. \A n \in 1 .. l : u[n] = list[at[n]] /\ list[at[n]] \in S
  BY <1>1 DEF PlacesOf
<1>4. \A m, n \in 1 .. l : m < n => at[m] < at[n]
  BY <1>1 DEF PlacesOf
<1>5. \A i \in 1 .. (k - 1) : list[i] \in S => \E n \in 1 .. l : at[n] = i
  BY <1>1 DEF PlacesOf
<1>6. ASSUME list[k] \notin S PROVE PlacesOf(list, S, k, u, at)
  <2>1. at \in [1 .. l -> 1 .. k]
    BY <1>2
  <2>2. \A i \in 1 .. k : list[i] \in S => i \in 1 .. (k - 1)
    BY <1>6
  <2> QED
    BY <1>1, <1>3, <1>4, <1>5, <2>1, <2>2 DEF PlacesOf
<1>7. ASSUME list[k] \in S PROVE \E b : PlacesOf(list, S, k, Append(u, list[k]), b)
  <2>1. PICK e \in A : e = list[k]
    OBVIOUS
  <2>2. PICK v : v = Append(u, e)
    OBVIOUS
  <2>3. Len(v) = l + 1 /\ v[l + 1] = e /\ \A n \in 1 .. l : v[n] = u[n]
    BY <1>1, <2>2
  <2>4. PICK b : b = [n \in 1 .. (l + 1) |-> IF n = l + 1 THEN k ELSE at[n]]
    OBVIOUS
  <2>5. \A n \in 1 .. l : b[n] = at[n] /\ at[n] \in 1 .. (k - 1) /\ n # l + 1
    BY <1>2, <2>4
  <2>6. b[l + 1] = k /\ \A n \in 1 .. (l + 1) : n = l + 1 \/ n \in 1 .. l
    BY <2>4
  <2>7. b \in [1 .. (l + 1) -> 1 .. k]
    <3>1. \A n \in 1 .. (l + 1) : b[n] \in 1 .. k
      <4> SUFFICES ASSUME NEW n \in 1 .. (l + 1) PROVE b[n] \in 1 .. k
        OBVIOUS
      <4>1. CASE n = l + 1
        BY <2>6, <4>1
      <4>2. CASE n \in 1 .. l
        BY <2>5, <4>2
      <4> QED
        BY <2>6, <4>1, <4>2
    <3> QED
      BY <2>4, <3>1
  <2>8. \A n \in 1 .. (l + 1) : v[n] = list[b[n]] /\ list[b[n]] \in S
    BY <1>3, <1>7, <2>1, <2>3, <2>5, <2>6
  <2>9. \A m, n \in 1 .. (l + 1) : m < n => b[m] < b[n]
    <3> SUFFICES ASSUME NEW m \in 1 .. (l + 1), NEW n \in 1 .. (l + 1), m < n
                 PROVE  b[m] < b[n]
      OBVIOUS
    <3>1. m \in 1 .. l
      OBVIOUS
    <3>2. CASE n = l + 1
      BY <2>5, <2>6, <3>1, <3>2
    <3>3. CASE n \in 1 .. l
      BY <1>4, <2>5, <3>1, <3>3
    <3> QED
      BY <2>6, <3>2, <3>3
  <2>10. ASSUME NEW i \in 1 .. k, list[i] \in S PROVE \E n \in 1 .. (l + 1) : b[n] = i
    <3>1. CASE i = k
      BY <2>6, <3>1
    <3>2. CASE i # k
      <4>1. i \in 1 .. (k - 1)
        BY <3>2
      <4>2. PICK n \in 1 .. l : at[n] = i
        BY <1>5, <2>10, <4>1
      <4> QED
        BY <2>5, <4>2
    <3> QED
      BY <3>1, <3>2
  <2>11. PlacesOf(list, S, k, v, b)
    BY <2>3, <2>7, <2>8, <2>9, <2>10 DEF PlacesOf
  <2> QED
    BY <2>1, <2>2, <2>11
<1> QED
  BY <1>6, <1>7

\* What is selected keeps its order, and everything of S is selected.
LEMMA SelectPlaces ==
  ASSUME NEW A, NEW list \in Seq(A), NEW S
  PROVE  \E at : PlacesOf(list, S, Len(list), Select(list, S), at)
<1>1. PICK n \in Nat : n = Len(list)
  OBVIOUS
<1>2. PICK f \in [0 .. Len(list) -> Seq(A)] :
        Selects(list, S, f) /\ Select(list, S) = f[Len(list)]
  BY SelectRuns
<1>3. PICK Y : Y = {k \in 0 .. n : \E at : PlacesOf(list, S, k, f[k], at)}
  OBVIOUS
<1>4. 0 \in Y
  <2>1. f[0] = << >>
    BY <1>2 DEF Selects
  <2>2. PICK u : u = << >>
    OBVIOUS
  <2>3. Len(u) = 0 /\ u \in [1 .. 0 -> 1 .. 0]
    BY <2>2
  <2>4. PlacesOf(list, S, 0, u, u)
    BY <2>3 DEF PlacesOf
  <2> QED
    BY <1>3, <2>1, <2>2, <2>4
<1>5. ASSUME NEW k \in 1 .. n, k - 1 \in Y PROVE k \in Y
  <2>1. k \in 0 .. Len(list) /\ k # 0 /\ k - 1 \in 0 .. Len(list) /\ k \in 1 .. Len(list)
    BY <1>1
  <2>2. PICK u : u = f[k - 1]
    OBVIOUS
  <2>3. u \in Seq(A)
    BY <1>2, <2>1, <2>2
  <2>4. f[k] = IF list[k] \in S THEN Append(u, list[k]) ELSE u
    BY <1>2, <2>1, <2>2 DEF Selects
  <2>5. PICK at : PlacesOf(list, S, k - 1, u, at)
    BY <1>3, <1>5, <2>2
  <2>6. \E b : PlacesOf(list, S, k, f[k], b)
    <3>1. CASE list[k] \in S
      <4>1. f[k] = Append(u, list[k])
        BY <2>4, <3>1
      <4> QED
        BY <2>1, <2>3, <2>5, <3>1, <4>1, PlaceAppended
    <3>2. CASE list[k] \notin S
      <4>1. f[k] = u
        BY <2>4, <3>2
      <4> QED
        BY <2>1, <2>3, <2>5, <3>2, <4>1, PlaceAppended
    <3> QED
      BY <3>1, <3>2
  <2> QED
    BY <1>1, <1>3, <2>1, <2>6
<1>6. Climbs(Y, n)
  BY <1>4, <1>5 DEF Climbs
<1>7. n \in Y
  BY <1>6, UpTo
<1> QED
  BY <1>1, <1>2, <1>3, <1>7

\* What is selected first is what was first of S.
LEMMA SelectFirst ==
  ASSUME NEW A, NEW list \in Seq(A), NEW S, Select(list, S) # << >>
  PROVE  \E i \in 1 .. Len(list) :
           /\ Select(list, S)[1] = list[i] /\ list[i] \in S
           /\ \A j \in 1 .. Len(list) : list[j] \in S => i <= j
<1>1. PICK out \in Seq(A) : out = Select(list, S)
  BY SelectFacts
<1>2. PICK at : PlacesOf(list, S, Len(list), out, at)
  BY <1>1, SelectPlaces
<1>3. 1 \in 1 .. Len(out) /\ Len(out) \in Nat
  BY <1>1
<1>4. at[1] \in 1 .. Len(list) /\ out[1] = list[at[1]] /\ list[at[1]] \in S
  BY <1>2, <1>3 DEF PlacesOf
<1>5. ASSUME NEW j \in 1 .. Len(list), list[j] \in S PROVE at[1] <= j
  <2>1. PICK n \in 1 .. Len(out) : at[n] = j
    BY <1>2, <1>5 DEF PlacesOf
  <2>2. n = 1 \/ 1 < n
    BY <1>3
  <2>3. 1 < n => at[1] < at[n]
    BY <1>2, <1>3 DEF PlacesOf
  <2> QED
    BY <1>4, <2>1, <2>2, <2>3
<1> QED
  BY <1>1, <1>4, <1>5

Pushes(list, more, max, f) ==
  f = [n \in 0 .. Len(more) |->
         IF n = 0 THEN list
         ELSE IF Len(f[n - 1]) >= max
                 \/ \E i \in DOMAIN f[n - 1] : f[n - 1][i] = more[n]
              THEN f[n - 1] ELSE Append(f[n - 1], more[n])]

LEMMA PushRuns ==
  ASSUME NEW A, NEW list \in Seq(A), NEW more \in Seq(A), NEW max
  PROVE  \E f \in [0 .. Len(more) -> Seq(A)] :
           Pushes(list, more, max, f) /\ PushNew(list, more, max) = f[Len(more)]
<1>1. PICK n \in Nat : n = Len(more)
  OBVIOUS
<1>2. PICK step : step = [p \in (1 .. n) \X Seq(A) |->
                            IF Len(p[2]) >= max \/ \E i \in DOMAIN p[2] : p[2][i] = more[p[1]]
                            THEN p[2] ELSE Append(p[2], more[p[1]])]
  OBVIOUS
<1>3. StepsIn(step, n, Seq(A))
  <2>1. \A p \in (1 .. n) \X Seq(A) : more[p[1]] \in A /\ p[2] \in Seq(A)
    BY <1>1
  <2>2. \A p \in (1 .. n) \X Seq(A) : Append(p[2], more[p[1]]) \in Seq(A)
    BY <2>1
  <2> QED
    BY <1>2, <2>1, <2>2 DEF StepsIn
<1>4. PICK f \in [0 .. n -> Seq(A)] : Recurs(f, list, step, n)
  BY <1>3, RecursionExists
<1>5. Pushes(list, more, max, f)
  <2>1. ASSUME NEW k \in 1 .. n
        PROVE  f[k] = IF Len(f[k - 1]) >= max
                         \/ \E i \in DOMAIN f[k - 1] : f[k - 1][i] = more[k]
                      THEN f[k - 1] ELSE Append(f[k - 1], more[k])
    <3>1. <<k, f[k - 1]>> \in (1 .. n) \X Seq(A)
      BY <1>4
    <3>2. f[k] = step[<<k, f[k - 1]>>]
      BY <1>4 DEF Recurs
    <3> QED
      BY <1>2, <3>1, <3>2
  <2>2. f[0] = list
    BY <1>4 DEF Recurs
  <2>3. ASSUME NEW k \in 0 .. n
        PROVE  f[k] = IF k = 0 THEN list
                      ELSE IF Len(f[k - 1]) >= max
                              \/ \E i \in DOMAIN f[k - 1] : f[k - 1][i] = more[k]
                           THEN f[k - 1] ELSE Append(f[k - 1], more[k])
    <3>1. CASE k = 0
      BY <2>2, <3>1
    <3>2. CASE k # 0
      <4>1. k \in 1 .. n
        BY <3>2
      <4> QED
        BY <2>1, <3>2, <4>1
    <3> QED
      BY <3>1, <3>2
  <2>4. DOMAIN f = 0 .. n
    BY <1>4
  <2>5. f = [k \in DOMAIN f |-> f[k]]
    BY <1>4
  <2> QED
    BY <1>1, <2>3, <2>4, <2>5 DEF Pushes
<1>6. PICK g : g = CHOOSE h : Pushes(list, more, max, h)
  OBVIOUS
<1>7. Pushes(list, more, max, g) /\ PushNew(list, more, max) = g[Len(more)]
  BY <1>5, <1>6 DEF Pushes, PushNew
<1>8. g \in [0 .. n -> Seq(A)]
  <2>1. PICK Y : Y = {k \in 0 .. n : g[k] \in Seq(A)}
    OBVIOUS
  <2>2. Climbs(Y, n)
    <3>1. 0 \in Y
      BY <1>7, <1>1, <2>1 DEF Pushes
    <3>2. ASSUME NEW k \in 1 .. n, k - 1 \in Y PROVE k \in Y
      <4>1. k \in 0 .. Len(more) /\ k # 0
        BY <1>1
      <4>2. PICK u, e : u = g[k - 1] /\ e = more[k]
        OBVIOUS
      <4>3. g[k] = u \/ g[k] = Append(u, e)
        BY <1>7, <4>1, <4>2 DEF Pushes
      <4>4. u \in Seq(A) /\ e \in A
        BY <1>1, <2>1, <3>2, <4>2
      <4>5. Append(u, e) \in Seq(A)
        BY <4>4, AppendProperties
      <4>6. g[k] \in Seq(A)
        BY <4>3, <4>4, <4>5
      <4> QED
        BY <1>1, <2>1, <4>1, <4>6
    <3> QED
      BY <3>1, <3>2 DEF Climbs
  <2>3. \A k \in 0 .. n : g[k] \in Seq(A)
    BY <2>1, <2>2, UpTo
  <2> QED
    BY <1>1, <1>7, <2>3 DEF Pushes
<1> QED
  BY <1>1, <1>7, <1>8

\* Nothing is in it twice.
OnceEach(s) == \A i, j \in DOMAIN s : s[i] = s[j] => i = j

\* What is pushed: elements of the two, and none twice.
LEMMA PushFacts ==
  ASSUME NEW A, NEW list \in Seq(A), NEW more \in Seq(A), NEW max
  PROVE  /\ PushNew(list, more, max) \in Seq(A)
         /\ OnceEach(list) => OnceEach(PushNew(list, more, max))
<1>1. PICK n \in Nat : n = Len(more)
  OBVIOUS
<1>2. PICK f \in [0 .. Len(more) -> Seq(A)] :
        Pushes(list, more, max, f) /\ PushNew(list, more, max) = f[Len(more)]
  BY PushRuns
<1>3. ASSUME OnceEach(list) PROVE OnceEach(f[n])
  <2>1. PICK Y : Y = {k \in 0 .. n : OnceEach(f[k])}
    OBVIOUS
  <2>2. 0 \in Y
    <3>1. f[0] = list
      BY <1>2 DEF Pushes
    <3> QED
      BY <1>3, <2>1, <3>1
  <2>3. ASSUME NEW k \in 1 .. n, k - 1 \in Y PROVE k \in Y
    <3>1. k \in 0 .. Len(more) /\ k # 0 /\ k - 1 \in 0 .. Len(more)
      BY <1>1
    <3>2. PICK u, e : u = f[k - 1] /\ e = more[k]
      OBVIOUS
    <3>3. u \in Seq(A) /\ OnceEach(u)
      BY <1>2, <2>1, <2>3, <3>1, <3>2
    <3>4. f[k] = u \/ (f[k] = Append(u, e) /\ \A i \in DOMAIN u : u[i] # e)
      BY <1>2, <3>1, <3>2 DEF Pushes
    <3>5. ASSUME \A i \in DOMAIN u : u[i] # e PROVE OnceEach(Append(u, e))
      <4>1. PICK v : v = Append(u, e)
        OBVIOUS
      <4>2. PICK l \in Nat : l = Len(u) /\ DOMAIN u = 1 .. l
        BY <3>3
      <4>3. DOMAIN v = 1 .. (l + 1) /\ v[l + 1] = e /\ \A i \in 1 .. l : v[i] = u[i]
        BY <3>3, <4>1, <4>2
      <4>4. \A i \in 1 .. (l + 1) : i = l + 1 \/ i \in 1 .. l
        BY <4>2
      <4>5. \A i, j \in 1 .. l : u[i] = u[j] => i = j
        BY <3>3, <4>2 DEF OnceEach
      <4>6. \A i, j \in 1 .. (l + 1) : v[i] = v[j] => i = j
        <5> SUFFICES ASSUME NEW i \in 1 .. (l + 1), NEW j \in 1 .. (l + 1), v[i] = v[j]
                     PROVE  i = j
          OBVIOUS
        <5>1. CASE i \in 1 .. l /\ j \in 1 .. l
          BY <4>3, <4>5, <5>1
        <5>2. CASE i = l + 1 /\ j \in 1 .. l
          BY <3>5, <4>2, <4>3, <5>2
        <5>3. CASE i \in 1 .. l /\ j = l + 1
          BY <3>5, <4>2, <4>3, <5>3
        <5> QED
          BY <4>4, <5>1, <5>2, <5>3
      <4> QED
        BY <4>1, <4>3, <4>6 DEF OnceEach
    <3>6. OnceEach(f[k])
      BY <3>3, <3>4, <3>5
    <3> QED
      BY <1>1, <2>1, <3>1, <3>6
  <2>4. Climbs(Y, n)
    BY <2>2, <2>3 DEF Climbs
  <2>5. n \in Y
    BY <2>4, UpTo
  <2> QED
    BY <2>1, <2>5
<1>4. f[n] \in Seq(A)
  BY <1>1, <1>2
<1> QED
  BY <1>1, <1>2, <1>3, <1>4

\* Sets that grow one by one: every size is taken once.
Nested(U, n) ==
  /\ \A i \in 1 .. n : U[i] \in SUBSET (1 .. n) /\ i \in U[i]
  /\ \A i, j \in 1 .. n : i # j =>
       \/ U[i] \subseteq U[j] /\ j \notin U[i]
       \/ U[j] \subseteq U[i] /\ i \notin U[j]

LEMMA NestedSizes ==
  ASSUME NEW n \in Nat, NEW U, Nested(U, n)
  PROVE  /\ \A i \in 1 .. n : IsFiniteSet(U[i]) /\ Cardinality(U[i]) \in 1 .. n
         /\ \A i, j \in 1 .. n :
              j \in U[j] /\ j \notin U[i] /\ U[i] \subseteq U[j] => Cardinality(U[i]) < Cardinality(U[j])
<1>1. PICK I : I = 1 .. n
  OBVIOUS
<1>2. IsFiniteSet(I) /\ Cardinality(I) = n
  BY <1>1, FS_Interval
<1>3. ASSUME NEW i \in 1 .. n
      PROVE  IsFiniteSet(U[i]) /\ Cardinality(U[i]) \in 1 .. n
  <2>1. PICK C : C = U[i]
    OBVIOUS
  <2>2. C \in SUBSET I /\ C # {}
    BY <1>1, <2>1 DEF Nested
  <2>3. IsFiniteSet(C) /\ Cardinality(C) <= Cardinality(I)
    BY <1>2, <2>2, FS_Subset
  <2>4. Cardinality(C) \in Nat /\ Cardinality(C) # 0
    BY <2>2, <2>3, FS_CardinalityType, FS_EmptySet
  <2> QED
    BY <1>2, <2>1, <2>3, <2>4
<1>4. ASSUME NEW i \in 1 .. n, NEW j \in 1 .. n, j \in U[j], j \notin U[i], U[i] \subseteq U[j]
      PROVE  Cardinality(U[i]) < Cardinality(U[j])
  <2>1. PICK C, D : C = U[i] /\ D = U[j]
    OBVIOUS
  <2>2. C \in SUBSET D /\ C # D /\ IsFiniteSet(D)
    BY <1>3, <1>4, <2>1
  <2>3. Cardinality(C) <= Cardinality(D) /\ Cardinality(C) # Cardinality(D)
    BY <2>2, FS_Subset
  <2>4. Cardinality(C) \in Nat /\ Cardinality(D) \in Nat
    BY <1>3, <2>1
  <2> QED
    BY <2>1, <2>3, <2>4
<1> QED
  BY <1>3, <1>4

LEMMA SizeTaken ==
  ASSUME NEW n \in Nat, NEW U, Nested(U, n), NEW m \in 1 .. n
  PROVE  \E i \in 1 .. n : Cardinality(U[i]) = m
<1>1. IsFiniteSet(1 .. n)
  BY FS_Interval
<1>2. PICK f : f = [i \in 1 .. n |-> Cardinality(U[i])]
  OBVIOUS
<1>3. f \in [1 .. n -> 1 .. n]
  BY <1>2, NestedSizes
<1>4. \A i, j \in 1 .. n : f[i] = f[j] => i = j
  <2> SUFFICES ASSUME NEW i \in 1 .. n, NEW j \in 1 .. n, i # j PROVE f[i] # f[j]
    OBVIOUS
  <2>1. f[i] = Cardinality(U[i]) /\ f[j] = Cardinality(U[j]) /\ f[i] \in 1 .. n /\ f[j] \in 1 .. n
    BY <1>2, <1>3
  <2>2. i \in U[i] /\ j \in U[j]
    BY DEF Nested
  <2>3. CASE U[i] \subseteq U[j] /\ j \notin U[i]
    <3>1. Cardinality(U[i]) < Cardinality(U[j])
      BY <2>2, <2>3, NestedSizes
    <3> QED
      BY <2>1, <3>1
  <2>4. CASE U[j] \subseteq U[i] /\ i \notin U[j]
    <3>1. Cardinality(U[j]) < Cardinality(U[i])
      BY <2>2, <2>4, NestedSizes
    <3> QED
      BY <2>1, <3>1
  <2> QED
    BY <2>3, <2>4 DEF Nested
<1>5. f \in Injection(1 .. n, 1 .. n)
  BY <1>3, <1>4 DEF Injection, IsInjective
<1>6. f \in Surjection(1 .. n, 1 .. n)
  BY <1>1, <1>5, FS_Injection
<1>7. PICK i \in 1 .. n : f[i] = m
  BY <1>6 DEF Surjection
<1> QED
  BY <1>2, <1>7

\* A strict order, in which some may be equal.
Orders(before, A) ==
  /\ \A x, y \in A : <<x, y>> \in before => <<y, x>> \notin before
  /\ \A x, y, z \in A : <<x, z>> \in before => <<x, y>> \in before \/ <<y, z>> \in before

UpToIn(list, before, i) ==
  {j \in DOMAIN list : \/ <<list[j], list[i]>> \in before
                       \/ <<list[i], list[j]>> \notin before /\ j <= i}
SizedIn(list, before, n) ==
  CHOOSE i \in DOMAIN list : Cardinality(UpToIn(list, before, i)) = n

\* What is sorted is what was there, in order.
LEMMA SortedFacts ==
  ASSUME NEW A, NEW list \in Seq(A), NEW before, Orders(before, A)
  PROVE  /\ Sorted(list, before) \in Seq(A) /\ Len(Sorted(list, before)) = Len(list)
         /\ ToSet(Sorted(list, before)) = ToSet(list)
         /\ \A m, n \in 1 .. Len(list) : m < n =>
              <<Sorted(list, before)[n], Sorted(list, before)[m]>> \notin before
<1>1. PICK n \in Nat : n = Len(list) /\ DOMAIN list = 1 .. n
  OBVIOUS
<1>2. \A i \in 1 .. n : list[i] \in A
  BY <1>1
<1>3. PICK U : U = [i \in 1 .. n |-> UpToIn(list, before, i)]
  OBVIOUS
<1>4. \A i, j \in 1 .. n :
        j \in U[i] <=> \/ <<list[j], list[i]>> \in before
                       \/ <<list[i], list[j]>> \notin before /\ j <= i
  BY <1>1, <1>3 DEF UpToIn
<1>5. \A i \in 1 .. n : U[i] \in SUBSET (1 .. n)
  BY <1>1, <1>3 DEF UpToIn
<1>6. ASSUME NEW i \in 1 .. n PROVE i \in U[i]
  <2>1. PICK p : p = <<list[i], list[i]>>
    OBVIOUS
  <2>2. i \in U[i] <=> p \in before \/ (p \notin before /\ i <= i)
    BY <1>4, <2>1
  <2> QED
    BY <2>2
<1>7. ASSUME NEW i \in 1 .. n, NEW j \in 1 .. n, i \in U[j], i # j
      PROVE  U[i] \subseteq U[j] /\ j \notin U[i]
  <2>1. PICK a, b : a = list[i] /\ b = list[j]
    OBVIOUS
  <2>2. a \in A /\ b \in A
    BY <1>2, <2>1
  <2>3. <<a, b>> \in before \/ (<<b, a>> \notin before /\ i <= j)
    BY <1>4, <1>7, <2>1
  <2>4. <<a, b>> \in before => <<b, a>> \notin before
    BY <2>2 DEF Orders
  <2>5. j \notin U[i]
    <3>1. j \in U[i] <=> (<<b, a>> \in before \/ (<<a, b>> \notin before /\ j <= i))
      BY <1>4, <2>1
    <3> QED
      BY <1>7, <2>3, <2>4, <3>1
  <2>6. ASSUME NEW k \in 1 .. n, k \in U[i] PROVE k \in U[j]
    <3>1. PICK c : c = list[k]
      OBVIOUS
    <3>2. c \in A
      BY <1>2, <3>1
    <3>3. <<c, a>> \in before \/ (<<a, c>> \notin before /\ k <= i)
      BY <1>4, <2>1, <2>6, <3>1
    <3>4. k \in U[j] <=> (<<c, b>> \in before \/ (<<b, c>> \notin before /\ k <= j))
      BY <1>4, <2>1, <3>1
    <3>5. /\ <<c, a>> \in before => <<c, b>> \in before \/ <<b, a>> \in before
          /\ <<a, b>> \in before => <<a, c>> \in before \/ <<c, b>> \in before
          /\ <<b, c>> \in before => <<b, a>> \in before \/ <<a, c>> \in before
      BY <2>2, <3>2 DEF Orders
    <3> QED
      BY <2>3, <2>4, <3>3, <3>4, <3>5
  <2> QED
    BY <1>5, <2>5, <2>6
<1>8. ASSUME NEW i \in 1 .. n, NEW j \in 1 .. n PROVE i \in U[j] \/ j \in U[i]
  <2>1. PICK p, q : p = <<list[i], list[j]>> /\ q = <<list[j], list[i]>>
    OBVIOUS
  <2>2. j \in U[i] <=> q \in before \/ (p \notin before /\ j <= i)
    BY <1>4, <2>1
  <2>3. i \in U[j] <=> p \in before \/ (q \notin before /\ i <= j)
    BY <1>4, <2>1
  <2> QED
    BY <2>2, <2>3
<1>9. Nested(U, n)
  BY <1>5, <1>6, <1>7, <1>8 DEF Nested
<1>10. PICK at : at = [m \in 1 .. n |-> SizedIn(list, before, m)]
  OBVIOUS
<1>11. ASSUME NEW m \in 1 .. n
       PROVE  at[m] \in 1 .. n /\ Cardinality(U[at[m]]) = m
  <2>1. PICK i \in 1 .. n : Cardinality(U[i]) = m
    BY <1>9, SizeTaken
  <2>2. i \in DOMAIN list /\ Cardinality(UpToIn(list, before, i)) = m
    BY <1>1, <1>3, <2>1
  <2>3. PICK k : k = SizedIn(list, before, m)
    OBVIOUS
  <2>4. k \in DOMAIN list /\ Cardinality(UpToIn(list, before, k)) = m
    BY <2>2, <2>3 DEF SizedIn
  <2> QED
    BY <1>1, <1>3, <1>10, <2>3, <2>4
<1>12. PICK s : s = [m \in 1 .. n |-> list[at[m]]]
  OBVIOUS
<1>13. Sorted(list, before) = s
  <2>1. Sorted(list, before) = [m \in DOMAIN list |-> list[SizedIn(list, before, m)]]
    BY DEF Sorted, SizedIn, UpToIn
  <2>2. s = [m \in DOMAIN list |-> list[at[m]]]
    BY <1>1, <1>12
  <2>3. \A m \in DOMAIN list : at[m] = SizedIn(list, before, m)
    BY <1>1, <1>10
  <2> QED
    BY <2>1, <2>2, <2>3
<1>14. s \in Seq(A) /\ Len(s) = n
  BY <1>2, <1>11, <1>12
<1>15. ToSet(s) = ToSet(list)
  <2>1. ToSet(s) = {s[m] : m \in 1 .. n} /\ ToSet(list) = {list[i] : i \in 1 .. n}
    BY <1>1, <1>12 DEF ToSet
  <2>2. at \in Injection(1 .. n, 1 .. n)
    <3>1. at \in [1 .. n -> 1 .. n]
      BY <1>10, <1>11
    <3>2. \A l, m \in 1 .. n : at[l] = at[m] => l = m
      BY <1>11
    <3> QED
      BY <3>1, <3>2 DEF Injection, IsInjective
  <2>3. at \in Surjection(1 .. n, 1 .. n)
    <3>1. IsFiniteSet(1 .. n)
      BY FS_Interval
    <3> QED
      BY <2>2, <3>1, FS_Injection
  <2>4. ASSUME NEW i \in 1 .. n PROVE \E m \in 1 .. n : s[m] = list[i]
    <3>1. PICK m \in 1 .. n : at[m] = i
      BY <2>3 DEF Surjection
    <3> QED
      BY <1>12, <3>1
  <2>5. ASSUME NEW m \in 1 .. n PROVE \E i \in 1 .. n : s[m] = list[i]
    <3>1. at[m] \in 1 .. n
      BY <1>11
    <3>2. s[m] = list[at[m]]
      BY <1>12
    <3> QED
      BY <3>1, <3>2
  <2>6. {s[m] : m \in 1 .. n} \subseteq {list[i] : i \in 1 .. n}
    BY <2>5
  <2>7. {list[i] : i \in 1 .. n} \subseteq {s[m] : m \in 1 .. n}
    BY <2>4
  <2> QED
    BY <2>1, <2>6, <2>7
<1>16. ASSUME NEW l \in 1 .. n, NEW m \in 1 .. n, l < m
       PROVE  <<s[m], s[l]>> \notin before
  <2>1. PICK i, j \in 1 .. n : i = at[l] /\ j = at[m]
    BY <1>11
  <2>2. Cardinality(U[i]) = l /\ Cardinality(U[j]) = m /\ s[l] = list[i] /\ s[m] = list[j]
    BY <1>11, <1>12, <2>1
  <2>3. ASSUME <<list[j], list[i]>> \in before PROVE FALSE
    <3>1. j \in U[i] /\ i # j
      <4>1. PICK p, q : p = <<list[i], list[j]>> /\ q = <<list[j], list[i]>>
        OBVIOUS
      <4>2. j \in U[i] <=> q \in before \/ (p \notin before /\ j <= i)
        BY <1>4, <4>1
      <4> QED
        BY <1>16, <2>2, <2>3, <4>1, <4>2
    <3>2. U[j] \subseteq U[i] /\ i \notin U[j] /\ i \in U[i]
      BY <1>6, <1>7, <3>1
    <3>3. Cardinality(U[j]) < Cardinality(U[i])
      BY <1>9, <3>2, NestedSizes
    <3> QED
      BY <1>16, <2>2, <3>3
  <2> QED
    BY <2>2, <2>3
<1> QED
  BY <1>1, <1>13, <1>14, <1>15, <1>16

-----------------------------------------------------------------------------
(***************************************************************************)
(* Lists grow at their end: what holds of the empty list and from each to  *)
(* the one with an element more holds of all.                              *)
(***************************************************************************)
Builds(X, A) == << >> \in X /\ \A s \in Seq(A), e \in A : s \in X => Append(s, e) \in X

LEMMA SeqInduction == ASSUME NEW A, NEW X, Builds(X, A) PROVE Seq(A) \subseteq X
<1> SUFFICES ASSUME NEW s \in Seq(A) PROVE s \in X
  OBVIOUS
<1>1. PICK n \in Nat : n = Len(s)
  OBVIOUS
<1>2. PICK Y : Y = {k \in 0 .. n : SubSeq(s, 1, k) \in X}
  OBVIOUS
<1>3. 0 \in Y
  <2>1. PICK u : u = SubSeq(s, 1, 0)
    OBVIOUS
  <2>2. u = << >>
    BY <2>1
  <2>3. u \in X
    BY <2>2 DEF Builds
  <2> QED
    BY <1>2, <2>1, <2>3
<1>4. ASSUME NEW k \in 1 .. n, k - 1 \in Y PROVE k \in Y
  <2>1. PICK u, v : u = SubSeq(s, 1, k - 1) /\ v = SubSeq(s, 1, k)
    OBVIOUS
  <2>2. u \in Seq(A) /\ s[k] \in A /\ v = Append(u, s[k])
    BY <1>1, <2>1
  <2>3. u \in X
    BY <1>2, <1>4, <2>1
  <2>4. v \in X
    BY <2>2, <2>3 DEF Builds
  <2> QED
    BY <1>1, <1>2, <2>1, <2>4
<1>5. Climbs(Y, n)
  BY <1>3, <1>4 DEF Climbs
<1>6. n \in Y
  BY <1>5, UpTo
<1>7. SubSeq(s, 1, n) = s
  BY <1>1
<1> QED
  BY <1>2, <1>6, <1>7

LEMMA SelectEmpty == ASSUME NEW S PROVE Select(<< >>, S) = << >>
<1>1. PICK s : s = << >>
  OBVIOUS
<1>2. s \in Seq({}) /\ Len(s) = 0
  BY <1>1
<1>3. Select(s, S) \in Seq({})
  BY <1>2, SelectFacts
<1>4. \A t \in Seq({}) : t = << >>
  OBVIOUS
<1> QED
  BY <1>1, <1>3, <1>4

LEMMA SelectAppend ==
  ASSUME NEW A, NEW list \in Seq(A), NEW e \in A, NEW S
  PROVE  Select(Append(list, e), S) =
           IF e \in S THEN Append(Select(list, S), e) ELSE Select(list, S)
<1>1. PICK n \in Nat : n = Len(list)
  OBVIOUS
<1>2. PICK more : more = Append(list, e)
  OBVIOUS
<1>3. /\ more \in Seq(A) /\ Len(more) = n + 1 /\ more[n + 1] = e
      /\ \A k \in 1 .. n : more[k] = list[k]
  BY <1>1, <1>2
<1>4. PICK f \in [0 .. Len(more) -> Seq(A)] :
        Selects(more, S, f) /\ Select(more, S) = f[Len(more)]
  BY <1>3, SelectRuns
<1>5. PICK g \in [0 .. Len(list) -> Seq(A)] :
        Selects(list, S, g) /\ Select(list, S) = g[Len(list)]
  BY SelectRuns
<1>6. PICK Y : Y = {k \in 0 .. n : f[k] = g[k]}
  OBVIOUS
<1>7. 0 \in Y
  <2>1. f[0] = << >> /\ g[0] = << >>
    BY <1>1, <1>3, <1>4, <1>5 DEF Selects
  <2> QED
    BY <1>6, <2>1
<1>8. ASSUME NEW k \in 1 .. n, k - 1 \in Y PROVE k \in Y
  <2>1. k \in 0 .. Len(more) /\ k \in 0 .. Len(list) /\ k # 0
    BY <1>1, <1>3
  <2>2. f[k] = IF more[k] \in S THEN Append(f[k - 1], more[k]) ELSE f[k - 1]
    BY <1>4, <2>1 DEF Selects
  <2>3. g[k] = IF list[k] \in S THEN Append(g[k - 1], list[k]) ELSE g[k - 1]
    BY <1>5, <2>1 DEF Selects
  <2>4. f[k - 1] = g[k - 1] /\ more[k] = list[k]
    BY <1>3, <1>6, <1>8
  <2> QED
    BY <1>6, <2>2, <2>3, <2>4
<1>9. n \in Y
  <2>1. Climbs(Y, n)
    BY <1>7, <1>8 DEF Climbs
  <2> QED
    BY <2>1, UpTo
<1>10. f[n + 1] = IF e \in S THEN Append(f[n], e) ELSE f[n]
  <2>1. n + 1 \in 0 .. Len(more) /\ n + 1 # 0 /\ (n + 1) - 1 = n
    BY <1>3
  <2> QED
    BY <1>3, <1>4, <2>1 DEF Selects
<1> QED
  BY <1>1, <1>2, <1>3, <1>4, <1>5, <1>6, <1>9, <1>10

LEMMA SelectAll ==
  ASSUME NEW A, NEW S, A \subseteq S, NEW list \in Seq(A)
  PROVE  Select(list, S) = list
<1>1. PICK X : X = {s \in Seq(A) : Select(s, S) = s}
  OBVIOUS
<1>2. << >> \in X
  BY <1>1, SelectEmpty
<1>3. ASSUME NEW s \in Seq(A), NEW e \in A, s \in X PROVE Append(s, e) \in X
  <2>1. Select(Append(s, e), S) = Append(Select(s, S), e)
    BY SelectAppend
  <2> QED
    BY <1>1, <1>3, <2>1
<1> QED
  BY <1>1, <1>2, <1>3, SeqInduction DEF Builds

LEMMA SelectConcat ==
  ASSUME NEW A, NEW front \in Seq(A), NEW back \in Seq(A), NEW S
  PROVE  Select(front \o back, S) = Select(front, S) \o Select(back, S)
<1>1. PICK X : X = {s \in Seq(A) : Select(front \o s, S) = Select(front, S) \o Select(s, S)}
  OBVIOUS
<1>2. PICK u : u = Select(front, S)
  OBVIOUS
<1>3. u \in Seq(A)
  BY <1>2, SelectFacts
<1>4. << >> \in X
  <2>1. PICK z : z = << >>
    OBVIOUS
  <2>2. z \in Seq(A) /\ front \o z = front /\ u \o z = u /\ Select(z, S) = z
    BY <1>3, <2>1, SelectEmpty
  <2> QED
    BY <1>1, <1>2, <2>1, <2>2
<1>5. ASSUME NEW s \in Seq(A), NEW e \in A, s \in X PROVE Append(s, e) \in X
  <2>1. PICK v : v = Select(s, S)
    OBVIOUS
  <2>2. v \in Seq(A)
    BY <2>1, SelectFacts
  <2>3. front \o Append(s, e) = Append(front \o s, e) /\ u \o Append(v, e) = Append(u \o v, e)
    BY <1>3, <2>2
  <2>4. front \o s \in Seq(A) /\ Append(s, e) \in Seq(A)
    OBVIOUS
  <2>5. Select(Append(front \o s, e), S) =
          IF e \in S THEN Append(Select(front \o s, S), e) ELSE Select(front \o s, S)
    BY <2>4, SelectAppend
  <2>6. Select(Append(s, e), S) = IF e \in S THEN Append(v, e) ELSE v
    BY <2>1, SelectAppend
  <2>7. Select(front \o s, S) = u \o v
    BY <1>1, <1>2, <1>5, <2>1
  <2>8. Select(front \o Append(s, e), S) = u \o Select(Append(s, e), S)
    BY <2>3, <2>5, <2>6, <2>7
  <2> QED
    BY <1>1, <1>2, <2>4, <2>8
<1> QED
  BY <1>1, <1>4, <1>5, SeqInduction DEF Builds

(***************************************************************************)
(* A list whose elements are changed one by one.                           *)
(***************************************************************************)
Changed(list, G) == [i \in DOMAIN list |-> G[list[i]]]

LEMMA ChangedFacts ==
  ASSUME NEW A, NEW B, NEW G \in [A -> B], NEW list \in Seq(A)
  PROVE  /\ Changed(list, G) \in Seq(B) /\ Len(Changed(list, G)) = Len(list)
         /\ \A i \in 1 .. Len(list) : Changed(list, G)[i] = G[list[i]]
<1>1. DOMAIN list = 1 .. Len(list) /\ Len(list) \in Nat /\ \A i \in 1 .. Len(list) : list[i] \in A
  OBVIOUS
<1> QED
  BY <1>1 DEF Changed

LEMMA ChangedEmpty == ASSUME NEW G PROVE Changed(<< >>, G) = << >>
  BY DEF Changed

LEMMA ChangedAppend ==
  ASSUME NEW A, NEW B, NEW G \in [A -> B], NEW list \in Seq(A), NEW e \in A
  PROVE  Changed(Append(list, e), G) = Append(Changed(list, G), G[e])
<1>1. PICK c : c = Changed(list, G)
  OBVIOUS
<1>2. Len(list) \in Nat
  OBVIOUS
<1>3. c \in Seq(B) /\ Len(c) = Len(list) /\ \A i \in 1 .. Len(list) : c[i] = G[list[i]]
  BY <1>1, ChangedFacts
<1>4. PICK more, d, m : more = Append(list, e) /\ d = Changed(more, G) /\ m = Append(c, G[e])
  OBVIOUS
<1>5. /\ more \in Seq(A) /\ Len(more) = Len(list) + 1 /\ more[Len(list) + 1] = e
      /\ \A i \in 1 .. Len(list) : more[i] = list[i]
  BY <1>2, <1>4
<1>6. G[e] \in B
  OBVIOUS
<1>7. /\ m \in Seq(B) /\ Len(m) = Len(list) + 1 /\ m[Len(list) + 1] = G[e]
      /\ \A i \in 1 .. Len(list) : m[i] = c[i]
  BY <1>2, <1>3, <1>4, <1>6
<1>8. d \in Seq(B) /\ Len(d) = Len(list) + 1 /\ \A i \in 1 .. Len(list) + 1 : d[i] = G[more[i]]
  <2>1. PICK n \in Nat : n = Len(more)
    BY <1>5
  <2>2. DOMAIN more = 1 .. n /\ \A i \in 1 .. n : more[i] \in A
    BY <1>5, <2>1
  <2>3. d = [i \in 1 .. n |-> G[more[i]]]
    BY <1>4, <2>2 DEF Changed
  <2> QED
    BY <1>2, <1>5, <2>1, <2>2, <2>3
<1>9. ASSUME NEW i \in 1 .. Len(list) + 1 PROVE d[i] = m[i]
  <2>1. CASE i = Len(list) + 1
    BY <1>5, <1>7, <1>8, <2>1
  <2>2. CASE i # Len(list) + 1
    <3>1. i \in 1 .. Len(list)
      BY <1>2, <2>2
    <3> QED
      BY <1>3, <1>5, <1>7, <1>8, <3>1
  <2> QED
    BY <2>1, <2>2
<1>10. d = m
  BY <1>7, <1>8, <1>9
<1> QED
  BY <1>1, <1>4, <1>10

\* What is selected by what the change leaves as it is changes alike.
LEMMA SelectChanged ==
  ASSUME NEW A, NEW G \in [A -> A], NEW S, \A e \in A : G[e] \in S <=> e \in S,
         NEW list \in Seq(A)
  PROVE  Select(Changed(list, G), S) = Changed(Select(list, S), G)
<1>1. PICK X : X = {s \in Seq(A) : Select(Changed(s, G), S) = Changed(Select(s, S), G)}
  OBVIOUS
<1>2. << >> \in X
  <2>1. PICK z : z = << >>
    OBVIOUS
  <2>2. z \in Seq(A) /\ Changed(z, G) = z /\ Select(z, S) = z
    BY <2>1, SelectEmpty, ChangedEmpty
  <2> QED
    BY <1>1, <2>1, <2>2
<1>3. ASSUME NEW s \in Seq(A), NEW e \in A, s \in X PROVE Append(s, e) \in X
  <2>1. PICK c, v : c = Changed(s, G) /\ v = Select(s, S)
    OBVIOUS
  <2>2. c \in Seq(A) /\ v \in Seq(A) /\ G[e] \in A
    BY <2>1, ChangedFacts, SelectFacts
  <2>3. Changed(Append(s, e), G) = Append(c, G[e])
    BY <2>1, ChangedAppend
  <2>4. Select(Append(c, G[e]), S) = IF G[e] \in S THEN Append(Select(c, S), G[e])
                                     ELSE Select(c, S)
    BY <2>2, SelectAppend
  <2>5. Select(Append(s, e), S) = IF e \in S THEN Append(v, e) ELSE v
    BY <2>1, SelectAppend
  <2>6. Select(c, S) = Changed(v, G) /\ Changed(Append(v, e), G) = Append(Changed(v, G), G[e])
    BY <1>1, <1>3, <2>1, <2>2, ChangedAppend, ZenonT(40)
  <2>7. Select(Changed(Append(s, e), G), S) = Changed(Select(Append(s, e), S), G)
    BY <2>3, <2>4, <2>5, <2>6
  <2> QED
    BY <1>1, <2>7
<1> QED
  BY <1>1, <1>2, <1>3, SeqInduction DEF Builds
(***************************************************************************)
(* Lists of lists, put together (FlattenSeq).                              *)
(***************************************************************************)
Flattens(seqs, g) ==
  g = [i \in 1 .. Len(seqs) |-> IF i = 1 THEN seqs[i] ELSE g[i - 1] \o seqs[i]]
Joins(seqs, f) == f[0] = << >> /\ \A k \in 1 .. Len(seqs) : f[k] = f[k - 1] \o seqs[k]

LEMMA FlattenRuns ==
  ASSUME NEW A, NEW seqs \in Seq(Seq(A)), Len(seqs) > 0
  PROVE  \E f \in [0 .. Len(seqs) -> Seq(A)] : Joins(seqs, f) /\ FlattenSeq(seqs) = f[Len(seqs)]
<1>1. PICK n \in Nat : n = Len(seqs) /\ n > 0
  OBVIOUS
<1>2. PICK step : step = [p \in (1 .. n) \X Seq(A) |-> p[2] \o seqs[p[1]]]
  OBVIOUS
<1>3. StepsIn(step, n, Seq(A))
  <2>1. \A p \in (1 .. n) \X Seq(A) : seqs[p[1]] \in Seq(A) /\ p[2] \in Seq(A)
    BY <1>1
  <2>2. \A p \in (1 .. n) \X Seq(A) : p[2] \o seqs[p[1]] \in Seq(A)
    BY <2>1, ConcatProperties
  <2> QED
    BY <1>2, <2>2 DEF StepsIn
<1>4. PICK f \in [0 .. n -> Seq(A)] : Recurs(f, << >>, step, n)
  <2>1. << >> \in Seq(A)
    OBVIOUS
  <2> QED
    BY <1>3, <2>1, RecursionExists
<1>5. ASSUME NEW k \in 1 .. n PROVE f[k] = f[k - 1] \o seqs[k]
  <2>1. <<k, f[k - 1]>> \in (1 .. n) \X Seq(A)
    BY <1>4
  <2>2. f[k] = step[<<k, f[k - 1]>>]
    BY <1>4 DEF Recurs
  <2> QED
    BY <1>2, <2>1, <2>2
<1>6. f[0] = << >> /\ f[1] = seqs[1]
  <2>1. f[0] = << >> /\ 1 \in 1 .. n /\ seqs[1] \in Seq(A)
    BY <1>1, <1>4 DEF Recurs
  <2>2. f[1] = f[1 - 1] \o seqs[1] /\ 1 - 1 = 0
    <3>1. 1 - 1 = 0
      OBVIOUS
    <3> QED
      BY <1>5, <2>1, <3>1
  <2>3. << >> \o seqs[1] = seqs[1]
    BY <2>1
  <2> QED
    BY <2>1, <2>2, <2>3
<1>7. \E h : Flattens(seqs, h)
  <2>1. PICK h : h = [i \in 1 .. n |-> f[i]]
    OBVIOUS
  <2>2. \A i \in 1 .. n : h[i] = IF i = 1 THEN seqs[i] ELSE h[i - 1] \o seqs[i]
    <3> SUFFICES ASSUME NEW i \in 1 .. n
                 PROVE  h[i] = IF i = 1 THEN seqs[i] ELSE h[i - 1] \o seqs[i]
      OBVIOUS
    <3>1. CASE i = 1
      BY <1>6, <2>1, <3>1
    <3>2. CASE i # 1
      <4>1. i - 1 \in 1 .. n
        BY <3>2
      <4> QED
        BY <1>5, <2>1, <3>2, <4>1
    <3> QED
      BY <3>1, <3>2
  <2>3. h = [i \in 1 .. n |-> h[i]]
    BY <2>1
  <2>4. h = [i \in 1 .. n |-> IF i = 1 THEN seqs[i] ELSE h[i - 1] \o seqs[i]]
    BY <2>2, <2>3, Zenon
  <2> QED
    BY <1>1, <2>4 DEF Flattens
<1>8. PICK g : g = CHOOSE h : Flattens(seqs, h)
  OBVIOUS
<1>9. Flattens(seqs, g) /\ FlattenSeq(seqs) = g[n]
  <2>1. Flattens(seqs, g)
    BY <1>7, <1>8
  <2>2. FlattenSeq(seqs) = g[Len(seqs)]
    <3>1. Len(seqs) # 0
      BY <1>1
    <3> QED
      BY <1>8, <3>1, Zenon DEF Flattens, FlattenSeq
  <2> QED
    BY <1>1, <2>1, <2>2
<1>10. PICK e : e = [k \in 0 .. n |-> IF k = 0 THEN << >> ELSE g[k]]
  OBVIOUS
<1>11. e[0] = << >> /\ e[n] = g[n] /\ DOMAIN e = 0 .. n /\ e = [k \in 0 .. n |-> e[k]]
  BY <1>1, <1>10
<1>12. ASSUME NEW k \in 1 .. n PROVE seqs[k] \in Seq(A) /\ e[k] = IF k = 1 THEN seqs[1] ELSE e[k - 1] \o seqs[k]
  <2>1. k \in 1 .. Len(seqs) /\ k \in 0 .. n /\ k # 0
    BY <1>1
  <2>2. g[k] = IF k = 1 THEN seqs[k] ELSE g[k - 1] \o seqs[k]
    BY <1>9, <2>1 DEF Flattens
  <2>3. k # 1 => k - 1 \in 0 .. n /\ k - 1 # 0
    BY <2>1
  <2> QED
    BY <1>10, <2>1, <2>2, <2>3
<1>13. PICK Y : Y = {k \in 0 .. n : e[k] \in Seq(A) /\ (k # 0 => e[k] = e[k - 1] \o seqs[k])}
  OBVIOUS
<1>14. 0 \in Y
  <2>1. PICK z : z = e[0]
    OBVIOUS
  <2>2. z = << >>
    BY <1>11, <2>1
  <2>3. z \in Seq(A) /\ 0 \in 0 .. n
    BY <1>1, <2>2
  <2> QED
    BY <1>13, <2>1, <2>3
<1>15. ASSUME NEW k \in 1 .. n, k - 1 \in Y PROVE k \in Y
  <2>1. PICK u, v : u = e[k - 1] /\ v = seqs[k]
    OBVIOUS
  <2>2. u \in Seq(A) /\ v \in Seq(A) /\ k \in 0 .. n /\ u \o v \in Seq(A)
    BY <1>12, <1>13, <1>15, <2>1, ConcatProperties
  <2>3. e[k] = u \o v
    <3>1. CASE k = 1
      <4>1. u = e[0] /\ e[k] = v
        BY <1>12, <2>1, <3>1
      <4>3. u = << >>
        BY <1>11, <4>1
      <4>2. << >> \o v = v
        BY <2>2
      <4> QED
        BY <4>1, <4>2, <4>3
    <3>2. CASE k # 1
      BY <1>12, <2>1, <3>2
    <3> QED
      BY <3>1, <3>2
  <2> QED
    BY <1>13, <2>1, <2>2, <2>3
<1>16. \A k \in 0 .. n : k \in Y
  <2>1. Climbs(Y, n)
    BY <1>14, <1>15 DEF Climbs
  <2> QED
    BY <2>1, UpTo
<1>17. e \in [0 .. n -> Seq(A)]
  BY <1>11, <1>13, <1>16
<1>18. Joins(seqs, e)
  <2>1. \A k \in 1 .. n : k \in 0 .. n /\ k # 0
    OBVIOUS
  <2> QED
    BY <1>1, <1>11, <1>13, <1>16, <2>1 DEF Joins
<1> QED
  BY <1>1, <1>9, <1>11, <1>17, <1>18

\* Where each of the lists is in what they make together.
LiesAt(seqs, flat, at) ==
  /\ at \in [0 .. Len(seqs) -> Nat] /\ at[0] = 0 /\ at[Len(seqs)] = Len(flat)
  /\ \A k \in 1 .. Len(seqs) : at[k] = at[k - 1] + Len(seqs[k])
  /\ \A k \in 1 .. Len(seqs) : \A j \in 1 .. Len(seqs[k]) : flat[at[k - 1] + j] = seqs[k][j]

LEMMA FlattenPlaces ==
  ASSUME NEW A, NEW seqs \in Seq(Seq(A)), Len(seqs) > 0
  PROVE  FlattenSeq(seqs) \in Seq(A) /\ \E at : LiesAt(seqs, FlattenSeq(seqs), at)
<1>1. PICK n \in Nat : n = Len(seqs)
  OBVIOUS
<1>2. PICK f \in [0 .. n -> Seq(A)] : Joins(seqs, f) /\ FlattenSeq(seqs) = f[n]
  BY <1>1, FlattenRuns
<1>3. PICK at : at = [k \in 0 .. n |-> Len(f[k])]
  OBVIOUS
<1>4. at \in [0 .. n -> Nat] /\ at[0] = 0 /\ at[n] = Len(f[n])
  <2>1. \A k \in 0 .. n : Len(f[k]) \in Nat
    BY <1>2
  <2>2. Len(<< >>) = 0 /\ f[0] = << >>
    BY <1>2 DEF Joins
  <2> QED
    BY <1>3, <2>1, <2>2
<1>5. ASSUME NEW k \in 1 .. n
      PROVE  /\ seqs[k] \in Seq(A) /\ f[k - 1] \in Seq(A) /\ f[k] = f[k - 1] \o seqs[k]
             /\ at[k - 1] = Len(f[k - 1]) /\ at[k] = at[k - 1] + Len(seqs[k])
  <2>1. k \in 0 .. n /\ k - 1 \in 0 .. n
    OBVIOUS
  <2>2. PICK u, v : u = f[k - 1] /\ v = seqs[k]
    OBVIOUS
  <2>3. u \in Seq(A) /\ v \in Seq(A) /\ f[k] = u \o v
    <3>1. k \in 1 .. Len(seqs) /\ seqs[k] \in Seq(A)
      BY <1>1
    <3>2. f[k] = f[k - 1] \o seqs[k]
      BY <1>2, <3>1 DEF Joins
    <3> QED
      BY <1>2, <2>1, <2>2, <3>1, <3>2
  <2>4. Len(u \o v) = Len(u) + Len(v)
    BY <2>3
  <2> QED
    BY <1>3, <2>1, <2>2, <2>3, <2>4
<1>6. PICK Y : Y = {m \in 0 .. n : \A k \in 1 .. m : \A j \in 1 .. Len(seqs[k]) :
                      at[k - 1] + j \in 1 .. at[m] /\ f[m][at[k - 1] + j] = seqs[k][j]}
  OBVIOUS
<1>7. 0 \in Y
  BY <1>6
<1>8. ASSUME NEW m \in 1 .. n, m - 1 \in Y PROVE m \in Y
  <2>1. PICK u, v : u = f[m - 1] /\ v = seqs[m]
    OBVIOUS
  <2>2. /\ u \in Seq(A) /\ v \in Seq(A) /\ f[m] = u \o v /\ at[m - 1] = Len(u)
        /\ at[m] = Len(u) + Len(v)
    BY <1>5, <2>1
  <2>3. /\ \A i \in 1 .. Len(u) : f[m][i] = u[i]
        /\ \A i \in 1 .. Len(v) : f[m][Len(u) + i] = v[i]
    BY <2>2
  <2>4. ASSUME NEW k \in 1 .. m, NEW j \in 1 .. Len(seqs[k])
        PROVE  at[k - 1] + j \in 1 .. at[m] /\ f[m][at[k - 1] + j] = seqs[k][j]
    <3>1. CASE k = m
      <4>1. j \in 1 .. Len(v) /\ at[k - 1] = Len(u) /\ Len(u) \in Nat /\ Len(v) \in Nat
        BY <2>1, <2>2, <2>4, <3>1
      <4>2. f[m][Len(u) + j] = v[j]
        BY <2>3, <4>1
      <4>3. Len(u) + j \in 1 .. Len(u) + Len(v)
        BY <4>1
      <4> QED
        BY <2>1, <2>2, <3>1, <4>1, <4>2, <4>3
    <3>2. CASE k # m
      <4>1. k \in 1 .. m - 1
        BY <3>2
      <4>2. at[k - 1] + j \in 1 .. at[m - 1] /\ f[m - 1][at[k - 1] + j] = seqs[k][j]
        BY <1>6, <1>8, <2>4, <4>1
      <4>3. at[k - 1] + j \in 1 .. Len(u) /\ u[at[k - 1] + j] = seqs[k][j] /\ Len(u) \in Nat /\ Len(v) \in Nat
        <5>1. Len(u) \in Nat /\ Len(v) \in Nat
          BY <2>2
        <5> QED
          BY <2>1, <2>2, <4>2, <5>1
      <4>4. f[m][at[k - 1] + j] = u[at[k - 1] + j]
        BY <2>3, <4>3
      <4>5. at[k - 1] + j \in 1 .. at[m]
        <5>1. PICK a, x, y, z : a = at[k - 1] + j /\ x = Len(u) /\ y = Len(v) /\ z = at[m]
          OBVIOUS
        <5>2. a \in 1 .. x /\ x \in Nat /\ y \in Nat /\ z = x + y
          BY <2>2, <4>3, <5>1
        <5> QED
          BY <5>1, <5>2
      <4> QED
        BY <4>3, <4>4, <4>5
    <3> QED
      BY <3>1, <3>2
  <2> QED
    BY <1>6, <2>4
<1>9. n \in Y
  <2>1. Climbs(Y, n)
    BY <1>7, <1>8 DEF Climbs
  <2> QED
    BY <2>1, UpTo
<1>10. LiesAt(seqs, f[n], at)
  BY <1>1, <1>4, <1>5, <1>6, <1>9 DEF LiesAt
<1>11. f[n] \in Seq(A)
  BY <1>2
<1> QED
  BY <1>2, <1>10, <1>11

\* Some number of a set of them is the least.
LEMMA LeastOne ==
  ASSUME NEW Y, Y \subseteq Nat, Y # {}
  PROVE  \E k \in Y : \A j \in Y : k <= j
<1>1. PICK k \in Y : \A j \in Y : ~(<<j, k>> \in OpToRel(<, Nat))
  BY NatLessThanWellFounded, WFMin
<1>2. ASSUME NEW j \in Y PROVE k <= j
  <2>1. <<j, k>> \notin OpToRel(<, Nat)
    BY <1>1
  <2>2. j \in Nat /\ k \in Nat
    BY <1>1
  <2>3. ~(j < k)
    BY <2>1, <2>2 DEF OpToRel
  <2> QED
    BY <2>2, <2>3
<1> QED
  BY <1>1, <1>2

\* What is at some places of a list.
LEMMA ChosenFacts ==
  ASSUME NEW A, NEW list \in Seq(A), NEW places, places \subseteq 1 .. Len(list),
         NEW out, out = Chosen(list, Select([i \in DOMAIN list |-> i], places))
  PROVE  out \in Seq(A) /\ ToSet(out) = {list[i] : i \in places}
<1>1. PICK n, all, order : /\ n = Len(list) /\ all = [i \in DOMAIN list |-> i]
                           /\ order = Select(all, places)
  OBVIOUS
<1>2. n \in Nat /\ DOMAIN list = 1 .. n /\ \A i \in 1 .. n : list[i] \in A
  BY <1>1
<1>3. all \in Seq(1 .. n) /\ Len(all) = n /\ \A i \in 1 .. n : all[i] = i
  BY <1>1, <1>2
<1>4. ToSet(all) = 1 .. n
  <2>1. ToSet(all) = {all[i] : i \in 1 .. n}
    BY <1>3, InList
  <2> QED
    BY <1>3, <2>1
<1>5. order \in Seq(1 .. n) /\ ToSet(order) = places
  <2>1. order \in Seq(1 .. n) /\ ToSet(order) = ToSet(all) \cap places
    BY <1>1, <1>3, SelectFacts
  <2> QED
    BY <1>1, <1>4, <2>1
<1>6. PICK m : m = Len(order)
  OBVIOUS
<1>7. m \in Nat /\ DOMAIN order = 1 .. m /\ (\A k \in 1 .. m : order[k] \in 1 .. n)
      /\ places = {order[k] : k \in 1 .. m}
  <2>0. PICK T : T = 1 .. n
    OBVIOUS
  <2>a. order \in Seq(T)
    BY <1>5, <2>0
  <2>b. m \in Nat /\ DOMAIN order = 1 .. m /\ \A k \in 1 .. m : order[k] \in T
    BY <1>6, <2>a
  <2>1. m \in Nat /\ DOMAIN order = 1 .. m /\ \A k \in 1 .. m : order[k] \in 1 .. n
    BY <2>0, <2>b
  <2>2. ToSet(order) = {order[k] : k \in 1 .. m}
    BY <1>5, <1>6, InList
  <2> QED
    BY <1>5, <2>1, <2>2
<1>8. out = [k \in 1 .. m |-> list[order[k]]]
  BY <1>1, <1>7 DEF Chosen
<1>9. out \in Seq(A) /\ Len(out) = m
  BY <1>2, <1>7, <1>8
<1>10. ToSet(out) = {out[k] : k \in 1 .. m}
  BY <1>9, InList
<1>11. \A k \in 1 .. m : out[k] = list[order[k]]
  BY <1>8
<1>12. {out[k] : k \in 1 .. m} = {list[i] : i \in places}
  <2>1. ASSUME NEW k \in 1 .. m PROVE \E i \in places : out[k] = list[i]
    BY <1>7, <1>11
  <2>2. ASSUME NEW i \in places PROVE \E k \in 1 .. m : out[k] = list[i]
    <3>1. PICK k \in 1 .. m : order[k] = i
      BY <1>7
    <3> QED
      BY <1>11, <3>1
  <2> QED
    BY <2>1, <2>2
<1> QED
  BY <1>9, <1>10, <1>12
=============================================================================

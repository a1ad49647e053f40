----------------------------- MODULE SequenceFacts -----------------------------
(* What FoldLeft computes, for one operator `Op`, whose first argument is a  *)
(* parameter of the fold, and what Ordered does. Modules that fold something *)
(* instantiate this one.                                                     *)
EXTENDS Ordering, SequencesExt, SequenceTheorems, FiniteSetTheorems, WellFoundedInduction, TLAPS

CONSTANT Op(_, _, _)

Fold(p, base, s) == FoldLeft(LAMBDA so_far, next : Op(p, so_far, next), base, s)

----------------------------------------------------------------------------
\* FoldLeft is defined by a function on the subsets of 1..n, which stand for
\* the elements at these places. There is one, for every n.
Step(p, base, s, f, t) ==
  IF t = {} THEN base ELSE Op(p, f[t \ {Max(t)}], s[Max(t)])

Computes(f, p, base, s, n) ==
  f = [t \in SUBSET (1..n) |-> Step(p, base, s, f, t)]

LEMMA FoldIs ==
  ASSUME NEW p, NEW base, NEW s, NEW n, DOMAIN s = 1..n
  PROVE  Fold(p, base, s) = (CHOOSE f : Computes(f, p, base, s, n))[1..n]
BY DEF Fold, FoldLeft, MapThenFoldSet, Computes, Step

LEMMA Least ==
  ASSUME NEW T \in SUBSET Nat, T # {}
  PROVE  \E x \in T : \A y \in T : x <= y
<1> DEFINE R == {ss \in Nat \X Nat : ss[1] < ss[2]}
<1>1. R = OpToRel(<, Nat)
  BY DEF OpToRel
<1>2. IsWellFoundedOn(R, Nat)
  BY <1>1, NatLessThanWellFounded
<1> HIDE DEF R
<1>3. PICK x \in T : \A y \in T : ~ (<<y, x>> \in R)
  BY <1>2, WFMin
<1>4. ASSUME NEW y \in T PROVE x <= y
  <2>1. <<y, x>> \in Nat \X Nat /\ <<y, x>>[1] = y /\ <<y, x>>[2] = x
    OBVIOUS
  <2>2. ~(y < x)
    BY <1>3, <2>1 DEF R
  <2> QED BY <2>2
<1> QED BY <1>4

LEMMA MaxIs ==
  ASSUME NEW n \in Nat, NEW t \in SUBSET (1..n), n \in t
  PROVE  Max(t) = n
<1>1. \A x \in t : x \in Nat /\ n >= x
  OBVIOUS
<1>2. PICK m : m = Max(t)
  OBVIOUS
<1>3. m \in t /\ \A x \in t : m >= x
  BY <1>1, <1>2 DEF Max
<1> QED BY <1>1, <1>2, <1>3

LEMMA Grows ==
  ASSUME NEW p, NEW base, NEW s, NEW n \in Nat, NEW g, Computes(g, p, base, s, n)
  PROVE  \E h : Computes(h, p, base, s, n + 1)
<1> DEFINE All == SUBSET (1..(n + 1))
           h == [t \in All |-> IF n + 1 \in t THEN Op(p, g[t \ {n + 1}], s[n + 1]) ELSE g[t]]
<1>1. \A t \in SUBSET (1..n) : g[t] = Step(p, base, s, g, t)
  <2> DEFINE F(t) == Step(p, base, s, g, t)
  <2>1. g = [t \in SUBSET (1..n) |-> F(t)]
    BY DEF Computes
  <2> HIDE DEF F
  <2>2. \A t \in SUBSET (1..n) : g[t] = F(t)
    BY <2>1
  <2> QED BY <2>2 DEF F
<1>2. \A t \in SUBSET (1..n) : t \in All /\ n + 1 \notin t
  OBVIOUS
<1>3. \A t \in SUBSET (1..n) : h[t] = g[t]
  BY <1>2
<1>4. ASSUME NEW t \in All PROVE h[t] = Step(p, base, s, h, t)
  <2>1. CASE n + 1 \in t
    <3>1. t \ {n + 1} \in SUBSET (1..n)
      OBVIOUS
    <3>2. Max(t) = n + 1
      BY <2>1, MaxIs
    <3>3. h[t] = Op(p, h[t \ {n + 1}], s[n + 1])
      BY <1>3, <2>1, <3>1
    <3> HIDE DEF h
    <3> QED BY <2>1, <3>2, <3>3 DEF Step
  <2>2. CASE n + 1 \notin t
    <3>1. t \in SUBSET (1..n)
      BY <2>2
    <3>2. t \ {Max(t)} \in SUBSET (1..n)
      BY <3>1
    <3>3. h[t] = g[t] /\ h[t \ {Max(t)}] = g[t \ {Max(t)}]
      BY <1>3, <3>1, <3>2
    <3> HIDE DEF h
    <3> QED BY <1>1, <3>1, <3>3 DEF Step
  <2> QED BY <2>1, <2>2
<1>5. h = [t \in All |-> h[t]]
  OBVIOUS
<1> HIDE DEF h
<1>6. h = [t \in All |-> Step(p, base, s, h, t)]
  BY <1>4, <1>5
<1> QED BY <1>6 DEF Computes

LEMMA Exists ==
  ASSUME NEW p, NEW base, NEW s, NEW n \in Nat
  PROVE  \E f : Computes(f, p, base, s, n)
<1> DEFINE T == {m \in Nat : ~\E f : Computes(f, p, base, s, m)}
<1> SUFFICES ASSUME T # {} PROVE FALSE
  OBVIOUS
<1> HIDE DEF T
<1>1. PICK m \in T : \A k \in T : m <= k
  BY Least DEF T
<1>2. m \in Nat /\ ~\E f : Computes(f, p, base, s, m)
  BY <1>1 DEF T
<1>3. CASE m = 0
  <2> DEFINE f == [t \in SUBSET (1..0) |-> base]
  <2>1. ASSUME NEW t \in SUBSET (1..0) PROVE Step(p, base, s, f, t) = base
    BY DEF Step
  <2>2. f = [t \in SUBSET (1..0) |-> Step(p, base, s, f, t)]
    BY <2>1
  <2> HIDE DEF f
  <2> QED BY <1>2, <1>3, <2>2 DEF Computes
<1>4. CASE m # 0
  <2>1. PICK k \in Nat : m = k + 1
    BY <1>2, <1>4
  <2>2. k \notin T
    BY <1>1, <2>1
  <2> QED BY <1>2, <2>1, <2>2, Grows DEF T
<1> QED BY <1>3, <1>4

----------------------------------------------------------------------------
\* A fold goes through the sequence from left to right: g[k] is what it has
\* after k elements.
Runs(g, p, base, s, n) ==
  /\ g[0] = base
  /\ \A k \in 1..n : g[k] = Op(p, g[k - 1], s[k])

LEMMA FoldRuns ==
  ASSUME NEW p, NEW base, NEW s, NEW n \in Nat, DOMAIN s = 1..n
  PROVE  \E g : Runs(g, p, base, s, n) /\ Fold(p, base, s) = g[n]
<1>1. PICK f : /\ Computes(f, p, base, s, n)
               /\ Fold(p, base, s) = f[1..n]
  BY Exists, FoldIs
<1>2. \A t \in SUBSET (1..n) : f[t] = Step(p, base, s, f, t)
  <2> DEFINE F(t) == Step(p, base, s, f, t)
  <2>1. f = [t \in SUBSET (1..n) |-> F(t)]
    BY <1>1 DEF Computes
  <2> HIDE DEF F
  <2>2. \A t \in SUBSET (1..n) : f[t] = F(t)
    BY <2>1
  <2> QED BY <2>2 DEF F
<1> DEFINE g == [k \in 0..n |-> f[1..k]]
<1>3. \A k \in 0..n : g[k] = f[1..k]
  OBVIOUS
<1>4. 0 \in 0..n /\ n \in 0..n
  OBVIOUS
<1> HIDE DEF g
<1>5. g[0] = base
  <2>1. 1..0 = {} /\ 1..0 \in SUBSET (1..n)
    OBVIOUS
  <2> QED BY <1>2, <1>3, <1>4, <2>1 DEF Step
<1>6. ASSUME NEW k \in 1..n PROVE g[k] = Op(p, g[k - 1], s[k])
  <2>1. /\ 1..k \in SUBSET (1..n) /\ k \in 1..k /\ k \in Nat
        /\ k \in 0..n /\ k - 1 \in 0..n
    OBVIOUS
  <2>2. (1..k) \ {k} = 1..(k - 1)
    OBVIOUS
  <2>3. Max(1..k) = k
    BY <2>1, MaxIs
  <2>4. f[1..k] = Step(p, base, s, f, 1..k)
    BY <1>2, <2>1
  <2>5. Step(p, base, s, f, 1..k) = Op(p, f[1..(k - 1)], s[k])
    BY <2>1, <2>2, <2>3 DEF Step
  <2> QED BY <1>3, <2>1, <2>4, <2>5
<1>7. Fold(p, base, s) = g[n]
  BY <1>1, <1>3, <1>4
<1> QED BY <1>5, <1>6, <1>7 DEF Runs

\* What holds of the base, and of the result for the next element when it held
\* of that for the elements before, holds of the fold. Keeps[k] is the set of
\* the values of which it holds after k elements.
THEOREM FoldKeeps ==
  ASSUME NEW p, NEW base, NEW s, NEW n \in Nat, DOMAIN s = 1..n, NEW Keeps,
         base \in Keeps[0],
         \A k \in 1..n : \A a \in Keeps[k - 1] : Op(p, a, s[k]) \in Keeps[k]
  PROVE  Fold(p, base, s) \in Keeps[n]
<1>1. PICK g : Runs(g, p, base, s, n) /\ Fold(p, base, s) = g[n]
  BY FoldRuns
<1> DEFINE T == {k \in 0..n : g[k] \notin Keeps[k]}
<1> SUFFICES ASSUME T # {} PROVE FALSE
  BY <1>1
<1> HIDE DEF T
<1>8. T \in SUBSET Nat
  BY DEF T
<1>2. PICK k \in T : \A j \in T : k <= j
  BY <1>8, Least
<1>3. k \in 0..n /\ g[k] \notin Keeps[k]
  BY <1>2 DEF T
<1>4. k # 0
  BY <1>1, <1>3 DEF Runs
<1>5. k \in 1..n /\ k - 1 \in 0..n /\ ~(k <= k - 1)
  BY <1>3, <1>4
<1>6. g[k - 1] \in Keeps[k - 1]
  BY <1>2, <1>5 DEF T
<1>7. g[k] = Op(p, g[k - 1], s[k])
  BY <1>1, <1>5 DEF Runs
<1> QED BY <1>3, <1>5, <1>6, <1>7

----------------------------------------------------------------------------
\* The relations by which a set can be put in order.
StrictOrder(S, R) ==
  /\ \A a \in S : <<a, a>> \notin R
  /\ \A a, b, c \in S : <<a, b>> \in R /\ <<b, c>> \in R => <<a, c>> \in R
  /\ \A a, b \in S : a # b => <<a, b>> \in R \/ <<b, a>> \in R

InOrder(q, S, R) ==
  /\ Cardinality(S) \in Nat /\ q \in [1..Cardinality(S) -> S]
  /\ \A e \in S : \E i \in 1..Cardinality(S) : q[i] = e
  /\ \A i, j \in 1..Cardinality(S) : i < j <=> <<q[i], q[j]>> \in R

\* An ordered set has each of its elements at one place, and the places are in
\* the order: what comes before is counted by a function that grows along the
\* order, and so takes each value below the set's size once.
THEOREM OrderedIs ==
  ASSUME NEW S, IsFiniteSet(S), NEW R, StrictOrder(S, R)
  PROVE  InOrder(Ordered(S, R), S, R)
<1> DEFINE n == Cardinality(S)
           q == Ordered(S, R)
           Below(e) == {f \in S : <<f, e>> \in R}
           rank == [e \in S |-> Cardinality(Below(e))]
<1>1. n \in Nat
  BY FS_CardinalityType
<1>2. \A e \in S : rank[e] = Cardinality(Below(e))
  OBVIOUS
<1>3. ASSUME NEW e \in S PROVE rank[e] \in 0..(n - 1)
  <2>1. Below(e) \in SUBSET S /\ Below(e) # S
    BY DEF StrictOrder
  <2>2. IsFiniteSet(Below(e)) /\ Cardinality(Below(e)) <= n /\ Cardinality(Below(e)) # n
    BY ONLY <2>1, FS_Subset, IsFiniteSet(S)
  <2>3. Cardinality(Below(e)) \in Nat
    BY <2>2, FS_CardinalityType
  <2> HIDE DEF Below
  <2> QED BY <1>1, <1>2, <2>2, <2>3
<1>4. ASSUME NEW a \in S, NEW b \in S, <<a, b>> \in R PROVE rank[a] < rank[b]
  <2>1. Below(a) \in SUBSET Below(b) /\ Below(a) # Below(b) /\ Below(b) \in SUBSET S
    BY <1>4 DEF StrictOrder
  <2>2. IsFiniteSet(Below(b))
    BY <2>1, FS_Subset
  <2>3. IsFiniteSet(Below(a)) /\ Cardinality(Below(a)) <= Cardinality(Below(b))
        /\ Cardinality(Below(a)) # Cardinality(Below(b))
    BY <2>1, <2>2, FS_Subset
  <2>4. Cardinality(Below(a)) \in Nat /\ Cardinality(Below(b)) \in Nat
    BY <2>2, <2>3, FS_CardinalityType
  <2> HIDE DEF Below
  <2> QED BY <1>2, <2>3, <2>4
<1>5. \A a, b \in S : rank[a] = rank[b] => a = b
  <2> SUFFICES ASSUME NEW a \in S, NEW b \in S, a # b PROVE rank[a] # rank[b]
    OBVIOUS
  <2>1. <<a, b>> \in R \/ <<b, a>> \in R
    BY DEF StrictOrder
  <2>2. rank[a] \in Nat /\ rank[b] \in Nat
    BY <1>3
  <2> HIDE DEF rank
  <2> QED BY <1>4, <2>1, <2>2
<1> HIDE DEF rank, Below
<1>6. rank \in [S -> 0..(n - 1)]
  <2>1. DOMAIN rank = S /\ rank = [e \in S |-> rank[e]]
    BY DEF rank
  <2> QED BY <1>3, <2>1
<1>7. rank \in Injection(S, 0..(n - 1))
  BY <1>5, <1>6 DEF Injection, IsInjective
<1>8. IsFiniteSet(0..(n - 1)) /\ Cardinality(0..(n - 1)) = n
  <2>1. 0 \in Int /\ n - 1 \in Int
    BY <1>1
  <2>2. IsFiniteSet(0..(n - 1)) /\ Cardinality(0..(n - 1)) = IF 0 > n - 1 THEN 0 ELSE (n - 1) - 0 + 1
    BY ONLY <2>1, FS_Interval
  <2> QED BY <1>1, <2>2
<1>9. rank \in Surjection(S, 0..(n - 1))
  <2>1. Cardinality(S) = Cardinality(0..(n - 1)) <=> rank \in Surjection(S, 0..(n - 1))
    BY ONLY <1>7, <1>8, FS_Injection
  <2> QED BY <1>8, <2>1
<1>10. \A k \in 0..(n - 1) : \E e \in S : rank[e] = k
  BY <1>9 DEF Surjection
<1>11. ASSUME NEW i \in 1..n PROVE q[i] \in S /\ rank[q[i]] = i - 1
  <2>1. i - 1 \in 0..(n - 1)
    BY <1>1
  <2>2. PICK e \in S : rank[e] = i - 1
    BY <1>10, <2>1
  <2>3. q[i] = CHOOSE x \in S : Cardinality({f \in S : <<f, x>> \in R}) = i - 1
    BY DEF Ordered
  <2>4. \A x \in S : rank[x] = Cardinality({f \in S : <<f, x>> \in R})
    BY <1>2 DEF Below
  <2> HIDE DEF q
  <2> QED BY <2>2, <2>3, <2>4
<1>12. DOMAIN q = 1..n /\ q = [i \in 1..n |-> q[i]]
  <2> DEFINE At(i) == CHOOSE e \in S : Cardinality({f \in S : <<f, e>> \in R}) = i - 1
  <2>1. q = [i \in 1..n |-> At(i)]
    BY DEF Ordered
  <2> HIDE DEF q, At
  <2> QED BY <2>1
<1> HIDE DEF q
<1>13. q \in [1..n -> S]
  BY <1>11, <1>12
<1>14. ASSUME NEW e \in S PROVE \E i \in 1..n : q[i] = e
  <2>1. rank[e] + 1 \in 1..n /\ (rank[e] + 1) - 1 = rank[e]
    BY <1>1, <1>3
  <2>2. q[rank[e] + 1] \in S /\ rank[q[rank[e] + 1]] = rank[e]
    BY <1>11, <2>1
  <2> QED BY <1>5, <2>1, <2>2
<1>15. ASSUME NEW i \in 1..n, NEW j \in 1..n PROVE i < j <=> <<q[i], q[j]>> \in R
  <2>1. /\ q[i] \in S /\ rank[q[i]] = i - 1
        /\ q[j] \in S /\ rank[q[j]] = j - 1
    BY <1>11
  <2>2. <<q[i], q[j]>> \in R => i < j
    BY <1>4, <2>1
  <2>3. <<q[j], q[i]>> \in R => j < i
    BY <1>4, <2>1
  <2>4. q[i] # q[j] => <<q[i], q[j]>> \in R \/ <<q[j], q[i]>> \in R
    BY <2>1 DEF StrictOrder
  <2> QED BY <2>1, <2>2, <2>3, <2>4
<1>16. InOrder(q, S, R)
  BY <1>1, <1>13, <1>14, <1>15 DEF InOrder
<1> QED BY <1>16 DEF q

----------------------------------------------------------------------------
\* What a fold makes of nothing and of one element more.
LEMMA FoldFirst ==
  ASSUME NEW p, NEW base, NEW s, DOMAIN s = 1..0
  PROVE  Fold(p, base, s) = base
<1>1. PICK g : Runs(g, p, base, s, 0) /\ Fold(p, base, s) = g[0]
  BY FoldRuns, 0 \in Nat
<1> QED BY <1>1 DEF Runs

\* Two runs that take the same steps agree.
LEMMA RunsAgree ==
  ASSUME NEW n \in Nat, NEW p, NEW q, NEW base, NEW s, NEW t, NEW g, NEW h,
         Runs(g, p, base, s, n), Runs(h, q, base, t, n),
         \A k \in 1..n : \A a : Op(p, a, s[k]) = Op(q, a, t[k])
  PROVE  \A k \in 0..n : g[k] = h[k]
<1> DEFINE T == {k \in 0..n : g[k] # h[k]}
<1> SUFFICES ASSUME T # {} PROVE FALSE
  OBVIOUS
<1> HIDE DEF T
<1>1. T \in SUBSET Nat
  BY DEF T
<1>2. PICK k \in T : \A j \in T : k <= j
  BY <1>1, Least
<1>3. k \in 0..n /\ g[k] # h[k]
  BY <1>2 DEF T
<1>4. k # 0
  BY <1>3 DEF Runs
<1>5. k \in 1..n /\ k - 1 \in 0..n /\ ~(k <= k - 1)
  BY <1>3, <1>4
<1>6. g[k - 1] = h[k - 1]
  BY <1>2, <1>5 DEF T
<1>7. g[k] = Op(p, g[k - 1], s[k]) /\ h[k] = Op(q, h[k - 1], t[k])
  BY <1>5 DEF Runs
<1> QED BY <1>3, <1>5, <1>6, <1>7

LEMMA FoldNext ==
  ASSUME NEW p, NEW base, NEW n \in Nat, NEW s, DOMAIN s = 1..n,
         NEW t, DOMAIN t = 1..(n + 1), \A i \in 1..n : t[i] = s[i]
  PROVE  Fold(p, base, t) = Op(p, Fold(p, base, s), t[n + 1])
<1>1. PICK g : Runs(g, p, base, s, n) /\ Fold(p, base, s) = g[n]
  BY FoldRuns
<1>2. PICK h : Runs(h, p, base, t, n + 1) /\ Fold(p, base, t) = h[n + 1]
  BY FoldRuns, n + 1 \in Nat
<1>3. Runs(h, p, base, t, n)
  <2>1. \A k \in 1..n : k \in 1..(n + 1)
    OBVIOUS
  <2> QED BY <1>2, <2>1 DEF Runs
<1>4. \A k \in 0..n : g[k] = h[k]
  BY <1>1, <1>3, RunsAgree
<1>5. h[n + 1] = Op(p, h[(n + 1) - 1], t[n + 1])
  BY <1>2 DEF Runs
<1>6. (n + 1) - 1 = n /\ n \in 0..n
  OBVIOUS
<1> QED BY <1>1, <1>2, <1>4, <1>5, <1>6

\* A fold depends on its parameter only as its steps do.
LEMMA FoldSame ==
  ASSUME NEW p, NEW q, NEW base, NEW n \in Nat, NEW s, DOMAIN s = 1..n,
         \A k \in 1..n : \A a : Op(p, a, s[k]) = Op(q, a, s[k])
  PROVE  Fold(p, base, s) = Fold(q, base, s)
<1>1. PICK g : Runs(g, p, base, s, n) /\ Fold(p, base, s) = g[n]
  BY FoldRuns
<1>2. PICK h : Runs(h, q, base, s, n) /\ Fold(q, base, s) = h[n]
  BY FoldRuns
<1>3. \A k \in 0..n : g[k] = h[k]
  BY <1>1, <1>2, RunsAgree
<1> QED BY <1>1, <1>2, <1>3, n \in 0..n

----------------------------------------------------------------------------
\* There is only one way to put the elements of a sequence into an order.
BothInOrder(s, t, n, R) ==
  /\ \A i \in 1..n : (\E j \in 1..n : s[i] = t[j]) /\ (\E j \in 1..n : t[i] = s[j])
  /\ \A i, j \in 1..n : i < j => <<s[i], s[j]>> \in R /\ <<t[i], t[j]>> \in R
  /\ \A i, j \in 1..n : ~(<<s[i], t[j]>> \in R /\ <<t[j], s[i]>> \in R)

LEMMA OrderedOnce ==
  ASSUME NEW n \in Nat, NEW s, NEW t, NEW R, BothInOrder(s, t, n, R)
  PROVE  \A k \in 1..n : s[k] = t[k]
<1>0. /\ \A i \in 1..n : (\E j \in 1..n : s[i] = t[j]) /\ (\E j \in 1..n : t[i] = s[j])
      /\ \A i, j \in 1..n : i < j => <<s[i], s[j]>> \in R /\ <<t[i], t[j]>> \in R
      /\ \A i, j \in 1..n : ~(<<s[i], t[j]>> \in R /\ <<t[j], s[i]>> \in R)
  BY DEF BothInOrder
<1> DEFINE T == {k \in 1..n : s[k] # t[k]}
<1> SUFFICES ASSUME T # {} PROVE FALSE
  OBVIOUS
<1> HIDE DEF T
<1>1. T \in SUBSET Nat
  BY DEF T
<1>2. PICK k \in T : \A j \in T : k <= j
  BY <1>1, Least
<1>3. k \in 1..n /\ s[k] # t[k]
  BY <1>2 DEF T
<1>4. \A j \in 1..n : j < k => s[j] = t[j]
  <2> SUFFICES ASSUME NEW j \in 1..n, j < k, s[j] # t[j] PROVE FALSE
    OBVIOUS
  <2>1. j \in T
    BY DEF T
  <2> QED BY <1>2, <1>3, <2>1
<1>5. PICK j \in 1..n : s[k] = t[j]
  BY <1>0, <1>3
<1>6. PICK i \in 1..n : t[k] = s[i]
  BY <1>0, <1>3
<1>7. ~(j < k)
  <2> SUFFICES ASSUME j < k PROVE FALSE
    OBVIOUS
  <2>1. s[j] = s[k] /\ s[k] = t[j]
    BY <1>4, <1>5
  <2>2. <<s[j], s[k]>> \in R
    BY <1>0, <1>3
  <2>3. ~(<<s[j], t[j]>> \in R /\ <<t[j], s[j]>> \in R)
    BY <1>0
  <2> QED BY ONLY <2>1, <2>2, <2>3
<1>8. ~(i < k)
  <2> SUFFICES ASSUME i < k PROVE FALSE
    OBVIOUS
  <2>1. t[i] = t[k] /\ t[k] = s[i]
    BY <1>4, <1>6
  <2>2. <<t[i], t[k]>> \in R
    BY <1>0, <1>3
  <2>3. ~(<<s[i], t[i]>> \in R /\ <<t[i], s[i]>> \in R)
    BY <1>0
  <2> QED BY ONLY <2>1, <2>2, <2>3
<1>9. k < j /\ k < i
  <2>1. k # j /\ k # i
    BY <1>3, <1>5, <1>6
  <2>2. k \in Int /\ j \in Int /\ i \in Int
    BY <1>3
  <2> QED BY ONLY <1>7, <1>8, <2>1, <2>2
<1>10. <<t[k], t[j]>> \in R /\ <<s[k], s[i]>> \in R
  BY <1>0, <1>3, <1>9
<1> QED BY <1>0, <1>3, <1>5, <1>6, <1>10

----------------------------------------------------------------------------
\* There is a sum of the numbers v at any places: the sum of none is 0, and one
\* more place adds its number. So a sum does not depend on an order.
IsSum(g, v, n) ==
  /\ g[{}] = 0
  /\ \A T \in SUBSET (1..n) : g[T] \in Int
  /\ \A T \in SUBSET (1..n) : \A i \in (1..n) \ T : g[T \union {i}] = g[T] + v[i]

LEMMA SumGrows ==
  ASSUME NEW n \in Nat, NEW v, \A i \in 1..(n + 1) : v[i] \in Int, NEW g, IsSum(g, v, n)
  PROVE  \E h : IsSum(h, v, n + 1)
<1> DEFINE m == n + 1
           All == SUBSET (1..m)
           h == [T \in All |-> IF m \in T THEN g[T \ {m}] + v[m] ELSE g[T]]
<1>1. \A T \in All : T \ {m} \in SUBSET (1..n) /\ (m \notin T => T \in SUBSET (1..n))
  OBVIOUS
<1>2. \A T \in All : h[T] = IF m \in T THEN g[T \ {m}] + v[m] ELSE g[T]
  OBVIOUS
<1>3. m \in 1..m /\ {} \in All
  OBVIOUS
<1> HIDE DEF h
<1>4. h[{}] = 0
  BY <1>2, <1>3 DEF IsSum
<1>5. \A T \in All : h[T] \in Int
  <2> SUFFICES ASSUME NEW T \in All PROVE h[T] \in Int
    OBVIOUS
  <2>1. v[m] \in Int
    BY <1>3
  <2>2. g[T \ {m}] \in Int /\ (m \notin T => g[T] \in Int)
    BY <1>1 DEF IsSum
  <2>3. CASE m \in T
    <3>1. h[T] = g[T \ {m}] + v[m]
      BY <1>2, <2>3
    <3> QED BY ONLY <2>1, <2>2, <3>1
  <2>4. CASE m \notin T
    <3>1. h[T] = g[T]
      BY <1>2, <2>4
    <3> QED BY <2>2, <2>4, <3>1
  <2> QED BY <2>3, <2>4
<1>6. ASSUME NEW T \in All, NEW i \in (1..m) \ T PROVE h[T \union {i}] = h[T] + v[i]
  <2>1. T \union {i} \in All
    OBVIOUS
  <2>2. CASE i = m
    <3>1. (T \union {i}) \ {m} = T /\ m \in T \union {i} /\ m \notin T
      BY <2>2
    <3> QED BY <1>2, <2>1, <2>2, <3>1
  <2>3. CASE i # m
    <3>1. i \in 1..n /\ v[i] \in Int /\ v[m] \in Int
      BY <1>3, <2>3
    <3>2. CASE m \in T
      <4>1. /\ (T \union {i}) \ {m} = (T \ {m}) \union {i}
            /\ T \ {m} \in SUBSET (1..n) /\ i \in (1..n) \ (T \ {m}) /\ m \in T \union {i}
        BY <1>1, <2>3, <3>1, <3>2
      <4>2. g[(T \ {m}) \union {i}] = g[T \ {m}] + v[i] /\ g[T \ {m}] \in Int
        BY <4>1 DEF IsSum
      <4>3. h[T \union {i}] = g[(T \ {m}) \union {i}] + v[m]
        BY <1>2, <2>1, <4>1
      <4>4. h[T] = g[T \ {m}] + v[m]
        BY <1>2, <3>2
      <4> QED BY <3>1, <4>2, <4>3, <4>4
    <3>3. CASE m \notin T
      <4>1. T \in SUBSET (1..n) /\ i \in (1..n) \ T /\ m \notin T \union {i}
        BY <1>1, <2>3, <3>1, <3>3
      <4>2. g[T \union {i}] = g[T] + v[i]
        BY <4>1 DEF IsSum
      <4> QED BY <1>2, <2>1, <3>3, <4>1, <4>2
    <3> QED BY <3>2, <3>3
  <2> QED BY <2>2, <2>3
<1>7. IsSum(h, v, m)
  BY ONLY <1>4, <1>5, <1>6 DEF IsSum
<1> QED BY <1>7

LEMMA SumExists ==
  ASSUME NEW n \in Nat, NEW v, \A i \in 1..n : v[i] \in Int
  PROVE  \E g : IsSum(g, v, n)
<1> DEFINE T == {m \in 0..n : ~\E g : IsSum(g, v, m)}
<1> SUFFICES ASSUME T # {} PROVE FALSE
  <2>1. n \in 0..n
    OBVIOUS
  <2> QED BY <2>1
<1> HIDE DEF T
<1>1. T \in SUBSET Nat
  BY DEF T
<1>2. PICK m \in T : \A k \in T : m <= k
  BY <1>1, Least
<1>3. m \in 0..n /\ ~\E g : IsSum(g, v, m)
  BY <1>2 DEF T
<1>4. CASE m = 0
  <2> DEFINE g == [x \in SUBSET (1..0) |-> 0]
  <2>1. 1..0 = {}
    OBVIOUS
  <2>2. \A x \in SUBSET (1..0) : g[x] = 0
    OBVIOUS
  <2> HIDE DEF g
  <2>3. IsSum(g, v, 0)
    BY <2>1, <2>2 DEF IsSum
  <2> QED BY <1>3, <1>4, <2>3
<1>5. CASE m # 0
  <2>1. PICK k \in Nat : m = k + 1 /\ k \in 0..n /\ ~(m <= k)
    <3>1. m - 1 \in Nat /\ m = (m - 1) + 1 /\ m - 1 \in 0..n /\ ~(m <= m - 1)
      BY <1>3, <1>5
    <3> QED BY <3>1
  <2>2. PICK g : IsSum(g, v, k)
    BY <1>2, <2>1 DEF T
  <2>3. \A i \in 1..(k + 1) : v[i] \in Int
    BY <1>3, <2>1
  <2>4. \E h : IsSum(h, v, k + 1)
    BY <2>2, <2>3, SumGrows
  <2> QED BY <1>3, <2>1, <2>4
<1> QED BY <1>4, <1>5
==============================================================================

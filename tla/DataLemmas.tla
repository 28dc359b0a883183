--------------------------------- MODULE DataLemmas --------------------------------
(***********************************************************************************)
(* Facts about the data the models are built from, which the proofs of several     *)
(* components cite: induction over the natural numbers, sequences that grow at     *)
(* their head, folds and sums as functions chosen for their equations, and folds   *)
(* along a sequence.                                                               *)
(***********************************************************************************)
EXTENDS Integers, Sequences, SequencesExt, FiniteSets, FiniteSetTheorems, SequenceTheorems,
        WellFoundedInduction, TLAPS

Below == {ss \in Nat \X Nat : ss[1] < ss[2]}

LEMMA BelowIsWellFounded == IsWellFoundedOn(Below, Nat)
  BY NatLessThanWellFounded, Zenon DEF Below, OpToRel

LEMMA MinimalExists ==
  \A T : T \subseteq Nat /\ T # {} => \E x \in T : \A y \in T : <<y, x>> \notin Below
  BY BelowIsWellFounded, WFMin, Zenon

\* A set of natural numbers has a least element.
LEMMA Least ==
  ASSUME NEW T \in SUBSET Nat, T # {}
  PROVE  \E x \in T : \A y \in T : x <= y
<1>1. PICK x \in T : \A y \in T : <<y, x>> \notin Below
  BY MinimalExists, Zenon
<1>2. x \in Nat /\ \A y \in T : y \in Nat
  OBVIOUS
<1>3. \A y \in T : y < x => <<y, x>> \in Below
  BY <1>2 DEF Below
<1>4. \A y \in T : ~(y < x)
  BY <1>1, <1>3, Zenon
<1> QED BY <1>2, <1>4

\* Induction: a set with 0 and every successor of its members has all natural numbers.
LEMMA Induct ==
  ASSUME NEW S, 0 \in S, \A n \in Nat : n \in S => n + 1 \in S
  PROVE  Nat \subseteq S
<1> SUFFICES ASSUME Nat \ S # {} PROVE FALSE
  OBVIOUS
<1> DEFINE T == Nat \ S
<1>1. T \in SUBSET Nat /\ T # {}
  OBVIOUS
<1> HIDE DEF T
<1>2. PICK x \in T : \A y \in T : x <= y
  BY <1>1, Least
<1>3. x \in Nat /\ x \notin S
  BY DEF T
<1>4. x # 0 /\ x - 1 \in Nat /\ x - 1 < x /\ (x - 1) + 1 = x
  BY <1>3
<1>5. x - 1 \in S
  BY <1>2, <1>4 DEF T
<1> QED BY <1>3, <1>4, <1>5

\* The first n elements of a sequence that has grown at its head.
LEMMA Pushed ==
  ASSUME NEW S, NEW s \in Seq(S), NEW x \in S, NEW n \in Nat, n <= Len(s) + 1
  PROVE  LET r == SubSeq(<<x>> \o s, 1, n) IN
         /\ r \in Seq(S) /\ Len(r) = n
         /\ n > 0 => r[1] = x
         /\ \A i \in 2..n : r[i] = s[i - 1]
<1>1. <<x>> \in Seq(S) /\ Len(<<x>>) = 1 /\ <<x>>[1] = x
  OBVIOUS
<1>2. <<x>> \o s \in Seq(S) /\ Len(<<x>> \o s) = Len(s) + 1
  BY <1>1, ConcatProperties
<1>3. (<<x>> \o s)[1] = x /\ \A i \in 2..Len(s) + 1 : (<<x>> \o s)[i] = s[i - 1]
  BY <1>1, ConcatProperties
<1> QED BY <1>2, <1>3, SubSeqProperties

LEMMA Headed ==
  ASSUME NEW S, NEW s \in Seq(S), NEW x \in S
  PROVE  /\ <<x>> \o s \in Seq(S) /\ Len(<<x>> \o s) = Len(s) + 1
         /\ (<<x>> \o s)[1] = x
         /\ \A i \in 2..Len(s) + 1 : (<<x>> \o s)[i] = s[i - 1]
<1>1. <<x>> \in Seq(S) /\ Len(<<x>>) = 1 /\ <<x>>[1] = x
  OBVIOUS
<1> QED BY <1>1, ConcatProperties

\* A set of positions that has every position before one of its own is an initial segment.
LEMMA InitialSegment ==
  ASSUME NEW n \in Nat, NEW K \in SUBSET (1..n),
         \A i \in K : \A j \in 1..n : j <= i => j \in K
  PROVE  \E k \in 0..n : K = 1..k
<1> DEFINE T == (1..n + 1) \ K
<1>1. T \in SUBSET Nat /\ n + 1 \in T
  OBVIOUS
<1>2. PICK m \in T : \A y \in T : m <= y
  BY <1>1, Least
<1>3. m \in 1..n + 1 /\ m \notin K
  BY <1>2
<1>4. \A j \in 1..m - 1 : j \in K
  BY <1>2, <1>3
<1>5. \A i \in K : i < m
  BY <1>3
<1>6. K \subseteq 1..m - 1
  BY <1>3, <1>5
<1>7. K = 1..m - 1
  BY <1>4, <1>6
<1> QED BY <1>3, <1>7

-------------------------------------------------------------------------------------
(* Folds.  The folds of the community modules are functions on the subsets of a set  *)
(* that take one element after another; a chosen function can be reasoned about once *)
(* it is known to exist.                                                             *)

\* g folds with the step, one picked element after another.
Folds(g, S, base, pick, step) ==
    \A s \in SUBSET S :
        g[s] = IF s = {} THEN base ELSE step[<<g[s \ {pick[s]}], pick[s]>>]

Picks(pick, S) == \A s \in SUBSET S : s # {} => pick[s] \in s

LEMMA Smaller ==
  ASSUME NEW S, IsFiniteSet(S), NEW s \in SUBSET S, NEW x \in s
  PROVE  /\ IsFiniteSet(s) /\ Cardinality(s) \in Nat \ {0}
         /\ s \ {x} \in SUBSET S /\ Cardinality(s \ {x}) = Cardinality(s) - 1
<1>1. IsFiniteSet(s)
  BY FS_Subset
<1>2. Cardinality(s) \in Nat /\ Cardinality(s) # 0
  BY <1>1, FS_CardinalityType, FS_EmptySet
<1>3. Cardinality(s \ {x}) = Cardinality(s) - 1
  BY <1>1, FS_RemoveElement
<1> QED BY <1>1, <1>2, <1>3

LEMMA FoldExists ==
  ASSUME NEW S, IsFiniteSet(S), NEW V, NEW base \in V, NEW pick, Picks(pick, S),
         NEW step \in [V \X S -> V]
  PROVE  \E g \in [SUBSET S -> V] : Folds(g, S, base, pick, step)
<1> DEFINE Upto(g, n) ==
             \A s \in SUBSET S : Cardinality(s) <= n =>
                g[s] = IF s = {} THEN base ELSE step[<<g[s \ {pick[s]}], pick[s]>>]
           N == {n \in Nat : \E g \in [SUBSET S -> V] : Upto(g, n)}
<1>0. \A s \in SUBSET S : IsFiniteSet(s) /\ Cardinality(s) \in Nat
  BY FS_Subset, FS_CardinalityType
<1>1. 0 \in N
  <2> DEFINE g == [s \in SUBSET S |-> base]
  <2>1. ASSUME NEW s \in SUBSET S, Cardinality(s) <= 0 PROVE s = {}
    BY <1>0, <2>1, FS_EmptySet
  <2>2. g \in [SUBSET S -> V] /\ Upto(g, 0)
    BY <2>1
  <2> QED BY <2>2
<1>2. ASSUME NEW n \in Nat, n \in N PROVE n + 1 \in N
  <2>1. PICK g \in [SUBSET S -> V] : Upto(g, n)
    BY <1>2
  <2> DEFINE next(s) == step[<<g[s \ {pick[s]}], pick[s]>>]
             h == [s \in SUBSET S |-> IF Cardinality(s) = n + 1 THEN next(s) ELSE g[s]]
  <2>2. ASSUME NEW s \in SUBSET S, s # {}
        PROVE  /\ next(s) \in V /\ pick[s] \in s /\ s \ {pick[s]} \in SUBSET S
               /\ Cardinality(s \ {pick[s]}) = Cardinality(s) - 1
    <3>1. pick[s] \in s
      BY <2>2 DEF Picks
    <3>2. s \ {pick[s]} \in SUBSET S /\ Cardinality(s \ {pick[s]}) = Cardinality(s) - 1
      BY <3>1, Smaller
    <3>3. pick[s] \in S /\ g[s \ {pick[s]}] \in V
      BY <3>1, <3>2
    <3> QED BY <3>1, <3>2, <3>3
  <2>3. ASSUME NEW s \in SUBSET S, Cardinality(s) = n + 1 PROVE s # {}
    <3>1. Cardinality({}) = 0 /\ n + 1 # 0
      BY FS_EmptySet
    <3> QED BY <2>3, <3>1
  <2>4. h \in [SUBSET S -> V]
    BY <2>2, <2>3
  <2>5. ASSUME NEW s \in SUBSET S, Cardinality(s) <= n + 1
        PROVE  h[s] = IF s = {} THEN base ELSE step[<<h[s \ {pick[s]}], pick[s]>>]
    <3>1. CASE s = {}
      <4>1. Cardinality(s) = 0 /\ h[s] = g[s]
        BY <3>1, FS_EmptySet
      <4> QED BY <2>1, <3>1, <4>1
    <3>2. CASE s # {}
      <4> DEFINE r == s \ {pick[s]}
      <4>1. r \in SUBSET S /\ Cardinality(r) = Cardinality(s) - 1
        BY <2>2, <3>2
      <4>2. Cardinality(r) \in Nat /\ Cardinality(s) \in Nat /\ Cardinality(r) # n + 1
        BY <1>0, <2>5, <4>1
      <4> HIDE DEF r
      <4>3. h[r] = g[r]
        BY <4>1, <4>2
      <4>4. h[s] = step[<<g[r], pick[s]>>]
        <5>1. CASE Cardinality(s) = n + 1
          BY <5>1 DEF r
        <5>2. CASE Cardinality(s) # n + 1
          <6>1. Cardinality(s) <= n /\ h[s] = g[s]
            BY <2>5, <4>2, <5>2
          <6> QED BY <2>1, <3>2, <6>1 DEF r
        <5> QED BY <5>1, <5>2
      <4> QED BY <3>2, <4>3, <4>4 DEF r
    <3> QED BY <3>1, <3>2
  <2> HIDE DEF h
  <2>6. Upto(h, n + 1)
    BY <2>5
  <2> HIDE DEF Upto
  <2>7. \E f \in [SUBSET S -> V] : Upto(f, n + 1)
    BY <2>4, <2>6
  <2>8. n + 1 \in Nat
    OBVIOUS
  <2> QED BY <2>7, <2>8
<1> DEFINE c == Cardinality(S)
<1>3. c \in Nat
  BY FS_CardinalityType
<1>4. c \in N
  <2> HIDE DEF N
  <2> QED BY <1>1, <1>2, <1>3, Induct
<1>5. PICK g \in [SUBSET S -> V] : Upto(g, c)
  BY <1>4
<1>6. \A s \in SUBSET S : Cardinality(s) <= c
  BY FS_Subset
<1> QED BY <1>5, <1>6 DEF Folds

\* Two folds that agree on the elements of a set agree on its subsets.
LEMMA FoldUnique ==
  ASSUME NEW S, IsFiniteSet(S), NEW base, NEW pick, Picks(pick, S), NEW step, NEW g, NEW h,
         Folds(g, S, base, pick, step), Folds(h, S, base, pick, step)
  PROVE  \A s \in SUBSET S : g[s] = h[s]
<1> DEFINE N == {n \in Nat : \A s \in SUBSET S : Cardinality(s) = n => g[s] = h[s]}
<1>0. \A s \in SUBSET S : IsFiniteSet(s) /\ Cardinality(s) \in Nat
  BY FS_Subset, FS_CardinalityType
<1>1. 0 \in N
  <2>1. ASSUME NEW s \in SUBSET S, Cardinality(s) = 0 PROVE g[s] = h[s]
    <3>1. s = {}
      BY <1>0, <2>1, FS_EmptySet
    <3> QED BY <3>1 DEF Folds
  <2> QED BY <2>1
<1>2. ASSUME NEW n \in Nat, n \in N PROVE n + 1 \in N
  <2>1. ASSUME NEW s \in SUBSET S, Cardinality(s) = n + 1 PROVE g[s] = h[s]
    <3>1. s # {}
      BY <2>1, FS_EmptySet
    <3>2. pick[s] \in s
      BY <3>1 DEF Picks
    <3>3. s \ {pick[s]} \in SUBSET S /\ Cardinality(s \ {pick[s]}) = n
      BY <2>1, <3>2, Smaller
    <3>4. g[s \ {pick[s]}] = h[s \ {pick[s]}]
      BY <1>2, <3>3
    <3> QED BY <3>1, <3>4 DEF Folds
  <2> QED BY <2>1
<1>3. \A n \in Nat : n \in N
  <2> HIDE DEF N
  <2> QED BY <1>1, <1>2, Induct
<1> QED BY <1>0, <1>3

-------------------------------------------------------------------------------------
(* Sums.  MapThenSumSet of the community modules is such a fold; Total(w) is the sum *)
(* of the values of a function, and does not depend on the order they are taken in.  *)

Pick(s) == CHOOSE x \in s : TRUE

Summing(h, S, w) ==
    h = [s \in SUBSET S |-> IF s = {} THEN 0 ELSE w[Pick(s)] + h[s \ {Pick(s)}]]

TakesAny(h, S, w) == \A s \in SUBSET S : \A x \in s : h[s] = w[x] + h[s \ {x}]

Total(w) == (CHOOSE h : Summing(h, DOMAIN w, w))[DOMAIN w]

LEMMA Picked == ASSUME NEW s, s # {} PROVE Pick(s) \in s
  BY DEF Pick

LEMMA SumExists ==
  ASSUME NEW S, IsFiniteSet(S), NEW w \in [S -> Int]
  PROVE  \E h \in [SUBSET S -> Int] : Summing(h, S, w)
<1> DEFINE pick == [s \in SUBSET S |-> Pick(s)]
           step == [p \in Int \X S |-> w[p[2]] + p[1]]
<1>1. Picks(pick, S)
  BY Picked DEF Picks
<1>2. step \in [Int \X S -> Int]
  OBVIOUS
<1>3. 0 \in Int
  OBVIOUS
<1>4. PICK h \in [SUBSET S -> Int] : Folds(h, S, 0, pick, step)
  <2> HIDE DEF pick, step
  <2> QED BY <1>1, <1>2, <1>3, FoldExists
<1>5. ASSUME NEW s \in SUBSET S
      PROVE  h[s] = IF s = {} THEN 0 ELSE w[Pick(s)] + h[s \ {Pick(s)}]
  <2>1. CASE s = {}
    BY <1>4, <2>1 DEF Folds
  <2>2. CASE s # {}
    <3>1. pick[s] = Pick(s) /\ Pick(s) \in s
      BY <2>2, Picked
    <3>2. s \ {Pick(s)} \in SUBSET S /\ Pick(s) \in S
      BY <3>1
    <3>3. h[s \ {Pick(s)}] \in Int
      BY <3>2
    <3>4. h[s] = step[<<h[s \ {Pick(s)}], Pick(s)>>]
      BY <1>4, <2>2, <3>1 DEF Folds
    <3>5. step[<<h[s \ {Pick(s)}], Pick(s)>>] = w[Pick(s)] + h[s \ {Pick(s)}]
      BY <3>2, <3>3
    <3> QED BY <2>2, <3>4, <3>5
  <2> QED BY <2>1, <2>2
<1>6. h = [s \in SUBSET S |-> IF s = {} THEN 0 ELSE w[Pick(s)] + h[s \ {Pick(s)}]]
  BY <1>5
<1> QED BY <1>6 DEF Summing

\* Two sums over the same weights agree on every set they share.
LEMMA SumsAgree ==
  ASSUME NEW S, IsFiniteSet(S), NEW T, NEW R, R \subseteq S \cap T,
         NEW w, NEW v, \A x \in R : v[x] = w[x],
         NEW h, Summing(h, S, w), NEW k, Summing(k, T, v)
  PROVE  h[R] = k[R]
<1> DEFINE N == {n \in Nat : \A s \in SUBSET R : Cardinality(s) = n => h[s] = k[s]}
<1>0. \A s \in SUBSET R : /\ IsFiniteSet(s) /\ Cardinality(s) \in Nat
                          /\ s \in SUBSET S /\ s \in SUBSET T
  BY FS_Subset, FS_CardinalityType
<1>1. ASSUME NEW s \in SUBSET R
      PROVE  /\ h[s] = IF s = {} THEN 0 ELSE w[Pick(s)] + h[s \ {Pick(s)}]
             /\ k[s] = IF s = {} THEN 0 ELSE v[Pick(s)] + k[s \ {Pick(s)}]
  BY <1>0 DEF Summing
<1>2. 0 \in N
  <2>1. ASSUME NEW s \in SUBSET R, Cardinality(s) = 0 PROVE h[s] = k[s]
    <3>1. s = {}
      BY <1>0, <2>1, FS_EmptySet
    <3> QED BY <1>1, <3>1
  <2> QED BY <2>1
<1>3. ASSUME NEW n \in Nat, n \in N PROVE n + 1 \in N
  <2>1. ASSUME NEW s \in SUBSET R, Cardinality(s) = n + 1 PROVE h[s] = k[s]
    <3>0. Cardinality({}) = 0 /\ n + 1 # 0 /\ IsFiniteSet(R)
      BY FS_EmptySet, FS_Subset
    <3>1. s # {}
      BY <2>1, <3>0
    <3>2. Pick(s) \in s
      BY <3>1, Picked
    <3>3. s \ {Pick(s)} \in SUBSET R /\ Cardinality(s \ {Pick(s)}) = n
      BY <3>0, <2>1, <3>2, Smaller
    <3>4. h[s \ {Pick(s)}] = k[s \ {Pick(s)}] /\ v[Pick(s)] = w[Pick(s)]
      BY <1>3, <3>2, <3>3
    <3> QED BY <1>1, <3>1, <3>4
  <2> QED BY <2>1
<1>4. \A n \in Nat : n \in N
  <2> HIDE DEF N
  <2> QED BY <1>2, <1>3, Induct
<1> QED BY <1>0, <1>4

\* A sum takes any of its elements last.
LEMMA SumTakes ==
  ASSUME NEW S, IsFiniteSet(S), NEW w \in [S -> Int],
         NEW h \in [SUBSET S -> Int], Summing(h, S, w)
  PROVE  TakesAny(h, S, w)
<1> DEFINE N == {n \in Nat : \A s \in SUBSET S : Cardinality(s) = n =>
                                \A x \in s : h[s] = w[x] + h[s \ {x}]}
<1>0. \A s \in SUBSET S : /\ IsFiniteSet(s) /\ Cardinality(s) \in Nat /\ h[s] \in Int
                          /\ \A x \in s : w[x] \in Int /\ s \ {x} \in SUBSET S
  BY FS_Subset, FS_CardinalityType
<1>1. \A s \in SUBSET S : h[s] = IF s = {} THEN 0 ELSE w[Pick(s)] + h[s \ {Pick(s)}]
  BY DEF Summing
<1>2. 0 \in N
  <2>1. ASSUME NEW s \in SUBSET S, Cardinality(s) = 0 PROVE s = {}
    BY <1>0, <2>1, FS_EmptySet
  <2> QED BY <2>1
<1>3. ASSUME NEW n \in Nat, n \in N PROVE n + 1 \in N
  <2>1. ASSUME NEW s \in SUBSET S, Cardinality(s) = n + 1, NEW x \in s
        PROVE  h[s] = w[x] + h[s \ {x}]
    <3> DEFINE p == Pick(s)
    <3>1. p \in s /\ h[s] = w[p] + h[s \ {p}]
      BY <1>1, Picked
    <3> HIDE DEF p
    <3>2. CASE x = p
      BY <3>1, <3>2
    <3>3. CASE x # p
      <4> DEFINE a == s \ {p}  b == s \ {x}  c == a \ {x}
      <4>1. /\ a \in SUBSET S /\ Cardinality(a) = n /\ x \in a
            /\ b \in SUBSET S /\ Cardinality(b) = n /\ p \in b
        BY <2>1, <3>1, <3>3, Smaller
      <4>2. h[a] = w[x] + h[a \ {x}] /\ h[b] = w[p] + h[b \ {p}]
        BY <1>3, <4>1
      <4>3. b \ {p} = c
        OBVIOUS
      <4>4. h[c] \in Int /\ w[x] \in Int /\ w[p] \in Int
        <5>1. c \in SUBSET S /\ x \in S /\ p \in S
          BY <3>1
        <5> QED BY <5>1
      <4>5. h[a] = w[x] + h[c] /\ h[b] = w[p] + h[c]
        BY <4>2, <4>3
      <4>6. h[s] = w[p] + h[a]
        BY <3>1
      <4> HIDE DEF a, c
      <4>7. h[s] = w[x] + h[b]
        BY <4>4, <4>5, <4>6
      <4> QED BY <4>7
    <3> QED BY <3>2, <3>3
  <2> QED BY <2>1
<1>4. \A n \in Nat : n \in N
  <2> HIDE DEF N
  <2> QED BY <1>2, <1>3, Induct
<1> QED BY <1>0, <1>4 DEF TakesAny

\* The sum of some of the values is a fold of its own.
LEMMA TotalOf ==
  ASSUME NEW S, IsFiniteSet(S), NEW w \in [S -> Int],
         NEW h \in [SUBSET S -> Int], Summing(h, S, w),
         NEW R \in SUBSET S, NEW v, DOMAIN v = R, \A x \in R : v[x] = w[x]
  PROVE  Total(v) = h[R]
<1>1. IsFiniteSet(R) /\ \A x \in R : v[x] \in Int
  BY FS_Subset
<1> DEFINE u == [x \in R |-> v[x]]
<1>2. u \in [R -> Int]
  BY <1>1
<1>3. PICK f \in [SUBSET R -> Int] : Summing(f, R, u)
  <2> HIDE DEF u
  <2> QED BY <1>1, <1>2, SumExists
<1>4. \A s \in SUBSET R : s # {} => Pick(s) \in R
  BY Picked
<1>5. Summing(f, R, v)
  <2>1. \A s \in SUBSET R : (IF s = {} THEN 0 ELSE u[Pick(s)] + f[s \ {Pick(s)}])
                          = (IF s = {} THEN 0 ELSE v[Pick(s)] + f[s \ {Pick(s)}])
    BY <1>4
  <2> HIDE DEF u
  <2> QED BY <1>3, <2>1 DEF Summing
<1> DEFINE k == CHOOSE k : Summing(k, R, v)
<1>6. Summing(k, R, v)
  BY <1>5
<1>7. Total(v) = k[R]
  BY DEF Total
<1> HIDE DEF k
<1>8. R \subseteq S \cap R
  OBVIOUS
<1>9. h[R] = k[R]
  BY <1>6, <1>8, SumsAgree
<1> QED BY <1>7, <1>9

LEMMA TotalType ==
  ASSUME NEW S, IsFiniteSet(S), NEW w \in [S -> Int]
  PROVE  /\ Total(w) \in Int
         /\ S = {} => Total(w) = 0
<1>1. PICK h \in [SUBSET S -> Int] : Summing(h, S, w)
  BY SumExists
<1>2. Total(w) = h[S]
  BY <1>1, TotalOf
<1>3. h[{}] = 0
  BY <1>1 DEF Summing
<1> QED BY <1>2, <1>3

\* Any element can be taken out.
LEMMA TotalTakes ==
  ASSUME NEW S, IsFiniteSet(S), NEW w \in [S -> Int], NEW x \in S,
         NEW v \in [S \ {x} -> Int], \A y \in S \ {x} : v[y] = w[y]
  PROVE  Total(w) = w[x] + Total(v)
<1>1. PICK h \in [SUBSET S -> Int] : Summing(h, S, w)
  BY SumExists
<1>2. Total(w) = h[S] /\ Total(v) = h[S \ {x}]
  BY <1>1, TotalOf
<1>3. \A s \in SUBSET S : \A y \in s : h[s] = w[y] + h[s \ {y}]
  <2>1. TakesAny(h, S, w)
    BY <1>1, SumTakes
  <2> QED BY <2>1 DEF TakesAny
<1>4. h[S] = w[x] + h[S \ {x}]
  BY <1>3
<1> QED BY <1>2, <1>4

\* Nothing but the values counts.
LEMMA TotalSame ==
  ASSUME NEW S, IsFiniteSet(S), NEW w \in [S -> Int], NEW v \in [S -> Int],
         \A x \in S : v[x] = w[x]
  PROVE  Total(v) = Total(w)
<1>1. v = w
  OBVIOUS
<1> QED BY <1>1

\* A sum over two parts.
InParts(S, A, w, u, v) ==
    /\ IsFiniteSet(S) /\ A \in SUBSET S /\ w \in [S -> Int]
    /\ u \in [A -> Int] /\ \A x \in A : u[x] = w[x]
    /\ v \in [S \ A -> Int] /\ \A x \in S \ A : v[x] = w[x]

LEMMA TotalSplits ==
  ASSUME NEW S, NEW A, NEW w, NEW u, NEW v, InParts(S, A, w, u, v)
  PROVE  Total(w) = Total(u) + Total(v)
<1>0. /\ IsFiniteSet(S) /\ A \in SUBSET S /\ w \in [S -> Int]
      /\ u \in [A -> Int] /\ \A x \in A : u[x] = w[x]
      /\ v \in [S \ A -> Int] /\ \A x \in S \ A : v[x] = w[x]
  BY DEF InParts
<1>1. PICK h \in [SUBSET S -> Int] : Summing(h, S, w)
  BY <1>0, SumExists
<1>2. Total(w) = h[S] /\ Total(u) = h[A] /\ Total(v) = h[S \ A]
  BY SMTT(30), <1>0, <1>1, TotalOf
<1> DEFINE N == {n \in Nat : \A s \in SUBSET A : Cardinality(s) = n =>
                                h[s \cup (S \ A)] = h[s] + h[S \ A]}
<1>3. IsFiniteSet(A)
  BY <1>0, FS_Subset
<1>4. \A s \in SUBSET A : IsFiniteSet(s) /\ Cardinality(s) \in Nat
  BY <1>3, FS_Subset, FS_CardinalityType
<1>12. \A s \in SUBSET S : \A y \in s : h[s] = w[y] + h[s \ {y}]
  <2>1. TakesAny(h, S, w)
    BY <1>0, <1>1, SumTakes
  <2> QED BY <2>1 DEF TakesAny
<1>5. \A s \in SUBSET S : h[s] \in Int /\ \A y \in s : h[s] = w[y] + h[s \ {y}]
  BY <1>12
<1>6. h[{}] = 0
  BY <1>1 DEF Summing
<1>7. 0 \in N
  <2>1. ASSUME NEW s \in SUBSET A, Cardinality(s) = 0
        PROVE  h[s \cup (S \ A)] = h[s] + h[S \ A]
    <3>1. s = {}
      BY <1>4, <2>1, FS_EmptySet
    <3>2. s \cup (S \ A) = S \ A /\ h[S \ A] \in Int
      BY <3>1
    <3> QED BY <1>6, <3>1, <3>2
  <2> QED BY <2>1
<1>8. ASSUME NEW n \in Nat, n \in N PROVE n + 1 \in N
  <2>1. ASSUME NEW s \in SUBSET A, Cardinality(s) = n + 1
        PROVE  h[s \cup (S \ A)] = h[s] + h[S \ A]
    <3>0. Cardinality({}) = 0 /\ n + 1 # 0
      BY FS_EmptySet
    <3>1. PICK x \in s : TRUE
      BY <2>1, <3>0
    <3> DEFINE r == s \ {x}
    <3>2. r \in SUBSET A /\ Cardinality(r) = n
      BY <1>3, <2>1, Smaller
    <3>3. h[r \cup (S \ A)] = h[r] + h[S \ A]
      BY <1>8, <3>2
    <3>4. h[s] = w[x] + h[r]
      BY <1>0, <1>5
    <3>5. s \cup (S \ A) \in SUBSET S /\ x \in s \cup (S \ A)
      BY <1>0
    <3>6. (s \cup (S \ A)) \ {x} = r \cup (S \ A)
      OBVIOUS
    <3>7. h[s \cup (S \ A)] = w[x] + h[r \cup (S \ A)]
      BY <1>5, <3>5, <3>6
    <3>8. w[x] \in Int /\ h[r] \in Int /\ h[S \ A] \in Int
      <4>1. x \in S /\ r \in SUBSET S
        BY <1>0
      <4> QED BY <1>0, <1>5, <4>1
    <3> HIDE DEF r
    <3> QED BY <3>3, <3>4, <3>7, <3>8
  <2>2. n + 1 \in Nat
    OBVIOUS
  <2> QED BY <2>1, <2>2
<1>9. \A n \in Nat : n \in N
  <2> HIDE DEF N
  <2> QED BY <1>7, <1>8, Induct
<1>10. h[A \cup (S \ A)] = h[A] + h[S \ A]
  BY <1>3, <1>4, <1>9
<1>11. A \cup (S \ A) = S
  BY <1>0
<1> QED BY <1>2, <1>10, <1>11

\* A sum of natural numbers is one, and no smaller than any of them.
LEMMA TotalNat ==
  ASSUME NEW S, IsFiniteSet(S), NEW w \in [S -> Nat]
  PROVE  /\ Total(w) \in Nat
         /\ \A x \in S : w[x] <= Total(w)
<1>0. w \in [S -> Int]
  OBVIOUS
<1>1. PICK h \in [SUBSET S -> Int] : Summing(h, S, w)
  BY <1>0, SumExists
<1>2. Total(w) = h[S]
  BY <1>0, <1>1, TotalOf
<1> DEFINE N == {n \in Nat : \A s \in SUBSET S : Cardinality(s) = n => h[s] >= 0}
<1>8. \A s \in SUBSET S : \A y \in s : h[s] = w[y] + h[s \ {y}]
  <2>1. TakesAny(h, S, w)
    BY <1>0, <1>1, SumTakes
  <2> QED BY <2>1 DEF TakesAny
<1>3. 0 \in N
  <2>1. ASSUME NEW s \in SUBSET S, Cardinality(s) = 0 PROVE h[s] >= 0
    <3>1. s = {}
      BY <2>1, FS_Subset, FS_EmptySet
    <3> QED BY <1>1, <3>1 DEF Summing
  <2> QED BY <2>1
<1>4. ASSUME NEW n \in Nat, n \in N PROVE n + 1 \in N
  <2>1. ASSUME NEW s \in SUBSET S, Cardinality(s) = n + 1 PROVE h[s] >= 0
    <3>0. Cardinality({}) = 0 /\ n + 1 # 0
      BY FS_EmptySet
    <3>1. PICK x \in s : TRUE
      BY <2>1, <3>0
    <3>2. s \ {x} \in SUBSET S /\ Cardinality(s \ {x}) = n
      BY <2>1, Smaller
    <3>3. h[s \ {x}] >= 0 /\ h[s \ {x}] \in Int
      BY <1>4, <3>2
    <3>4. h[s] = w[x] + h[s \ {x}] /\ w[x] \in Nat
      BY <1>8
    <3> QED BY <3>3, <3>4
  <2> QED BY <2>1
<1>5. \A n \in Nat : n \in N
  <2> HIDE DEF N
  <2> QED BY <1>3, <1>4, Induct
<1>6. ASSUME NEW s \in SUBSET S PROVE h[s] >= 0 /\ h[s] \in Int
  <2>1. Cardinality(s) \in Nat
    BY FS_Subset, FS_CardinalityType
  <2> QED BY <1>5, <2>1
<1>7. ASSUME NEW x \in S PROVE w[x] <= h[S]
  <2>1. h[S] = w[x] + h[S \ {x}] /\ w[x] \in Nat
    BY <1>8
  <2>2. h[S \ {x}] >= 0 /\ h[S \ {x}] \in Int
    BY <1>6
  <2> QED BY <2>1, <2>2
<1> QED BY <1>2, <1>6, <1>7

-------------------------------------------------------------------------------------
(* Folds along a sequence.                                                          *)

Greatest(n) == [s \in SUBSET (1..n) |-> Max(s)]

LEMMA MaxOf ==
  ASSUME NEW n \in Nat
  PROVE  /\ Picks(Greatest(n), 1..n)
         /\ \A k \in 1..n : Greatest(n)[1..k] = k
<1>1. ASSUME NEW s \in SUBSET (1..n), s # {}
      PROVE  \E x \in s : \A y \in s : x >= y
  <2> DEFINE K == {i \in 1..n : \E y \in s : i <= y}
  <2>1. K \in SUBSET (1..n) /\ \A i \in K : \A j \in 1..n : j <= i => j \in K
    OBVIOUS
  <2>2. PICK k \in 0..n : K = 1..k
    <3> HIDE DEF K
    <3> QED BY <2>1, InitialSegment
  <2>3. \A y \in s : y \in K
    OBVIOUS
  <2>4. PICK z \in s : z \in 1..k
    <3> HIDE DEF K
    <3> QED BY <1>1, <2>2, <2>3
  <2>5. k \in K
    <3>1. k \in 1..k
      BY <2>4
    <3> QED BY <2>2, <3>1
  <2>6. PICK y \in s : k <= y
    BY <2>5
  <2>7. \A x \in s : x \in Int /\ x <= k
    <3>1. \A x \in s : x \in 1..k
      BY <2>2, <2>3
    <3> QED BY <3>1
  <2> HIDE DEF K
  <2> QED BY <2>2, <2>6, <2>7
<1>2. \A s \in SUBSET (1..n) : s # {} => Max(s) \in s /\ \A y \in s : Max(s) >= y
  BY <1>1 DEF Max
<1>3. ASSUME NEW k \in 1..n PROVE Greatest(n)[1..k] = k
  <2>1. 1..k \in SUBSET (1..n) /\ k \in 1..k
    OBVIOUS
  <2>2. Max(1..k) \in 1..k /\ Max(1..k) >= k
    BY <1>2, <2>1
  <2>3. Max(1..k) = k
    BY <2>2
  <2> QED BY <2>1, <2>3 DEF Greatest
<1> QED BY <1>2, <1>3 DEF Picks, Greatest

\* Two functions that agree on a set when they agree on it without its picked element.
Alike(S, pick, g, h) ==
    /\ IsFiniteSet(S) /\ Picks(pick, S) /\ g[{}] = h[{}]
    /\ \A s \in SUBSET S : s # {} /\ g[s \ {pick[s]}] = h[s \ {pick[s]}] => g[s] = h[s]

LEMMA SameFold ==
  ASSUME NEW S, NEW pick, NEW g, NEW h, Alike(S, pick, g, h)
  PROVE  \A s \in SUBSET S : g[s] = h[s]
<1> USE DEF Alike
<1> DEFINE N == {n \in Nat : \A s \in SUBSET S : Cardinality(s) = n => g[s] = h[s]}
<1>0. \A s \in SUBSET S : IsFiniteSet(s) /\ Cardinality(s) \in Nat
  BY FS_Subset, FS_CardinalityType
<1>1. 0 \in N
  BY <1>0, FS_EmptySet
<1>2. ASSUME NEW n \in Nat, n \in N PROVE n + 1 \in N
  <2>1. ASSUME NEW s \in SUBSET S, Cardinality(s) = n + 1 PROVE g[s] = h[s]
    <3>1. s # {}
      <4>1. Cardinality({}) = 0 /\ n + 1 # 0
        BY FS_EmptySet
      <4> QED BY <2>1, <4>1
    <3>2. pick[s] \in s
      BY <3>1 DEF Picks
    <3>3. s \ {pick[s]} \in SUBSET S /\ Cardinality(s \ {pick[s]}) = n
      BY <2>1, <3>2, Smaller
    <3>4. g[s \ {pick[s]}] = h[s \ {pick[s]}]
      BY <1>2, <3>3
    <3> QED BY <3>1, <3>4
  <2> QED BY <2>1
<1>3. \A n \in Nat : n \in N
  <2> HIDE DEF N
  <2> QED BY <1>1, <1>2, Induct
<1> QED BY <1>0, <1>3

\* A fold along a sequence: the steps one after the other.
LEMMA Leftwards ==
  ASSUME NEW n \in Nat, NEW V, NEW g \in [SUBSET (1..n) -> V]
  PROVE  \E r \in [0..n -> V] :
            /\ r[0] = g[{}] /\ r[n] = g[1..n]
            /\ \A k \in 0..n - 1 :
                  /\ r[k] = g[(1..k + 1) \ {Max(1..k + 1)}] /\ r[k + 1] = g[1..k + 1]
                  /\ Max(1..k + 1) = k + 1 /\ 1..k + 1 \in SUBSET (1..n) /\ 1..k + 1 # {}
<1> DEFINE r == [k \in 0..n |-> g[1..k]]
<1>1. r \in [0..n -> V]
  <2>1. \A k \in 0..n : 1..k \in SUBSET (1..n)
    OBVIOUS
  <2> QED BY <2>1
<1>2. r[0] = g[{}] /\ r[n] = g[1..n]
  <2>1. 1..0 = {}
    OBVIOUS
  <2> QED BY <2>1
<1>3. ASSUME NEW k \in 0..n - 1
      PROVE  /\ r[k] = g[(1..k + 1) \ {Max(1..k + 1)}] /\ r[k + 1] = g[1..k + 1]
             /\ Max(1..k + 1) = k + 1 /\ 1..k + 1 \in SUBSET (1..n) /\ 1..k + 1 # {}
  <2>1. 1..k + 1 \in SUBSET (1..n) /\ 1..k + 1 # {} /\ k + 1 \in 1..n
    OBVIOUS
  <2>2. Greatest(n)[1..k + 1] = k + 1
    BY <2>1, MaxOf
  <2>3. Max(1..k + 1) = k + 1
    BY <2>1, <2>2 DEF Greatest
  <2>4. (1..k + 1) \ {k + 1} = 1..k
    OBVIOUS
  <2>5. k + 1 \in 0..n /\ k \in 0..n
    OBVIOUS
  <2>6. r[k + 1] = g[1..k + 1] /\ r[k] = g[1..k]
    BY <2>5
  <2> QED BY <2>1, <2>3, <2>4, <2>6
<1> HIDE DEF r
<1> QED BY <1>1, <1>2, <1>3

\* SumFunction of the community modules is Total.
LEMMA SumIsTotal == \A w : SumFunction(w) = Total(w)
<1> SUFFICES ASSUME NEW w PROVE SumFunction(w) = Total(w)
  OBVIOUS
<1> QED BY DEF SumFunction, SumFunctionOnSet, FoldFunctionOnSet, MapThenFoldSet, Total, Summing, Pick

LEMMA TakesOne ==
  \A S : IsFiniteSet(S) => \A x \in S : \A w \in [S -> Int], v \in [S \ {x} -> Int] :
      (\A y \in S \ {x} : v[y] = w[y]) => Total(w) = w[x] + Total(v)
  BY TotalTakes

\* A sum over one more number.
LEMMA TotalGrows ==
  ASSUME NEW k \in Nat, NEW w \in [1..k + 1 -> Int], NEW v \in [1..k -> Int],
         \A i \in 1..k : v[i] = w[i]
  PROVE  Total(w) = Total(v) + w[k + 1]
<1>1. IsFiniteSet(1..k + 1) /\ IsFiniteSet(1..k)
  BY FS_Interval
<1>2. k + 1 \in 1..k + 1 /\ (1..k + 1) \ {k + 1} = 1..k
  OBVIOUS
<1>3. Total(w) = w[k + 1] + Total(v)
  <2> DEFINE S == 1..k + 1
             x == k + 1
  <2>1. IsFiniteSet(S) /\ w \in [S -> Int] /\ x \in S /\ v \in [S \ {x} -> Int]
        /\ \A y \in S \ {x} : v[y] = w[y]
    BY <1>1, <1>2
  <2> HIDE DEF S, x
  <2>2. \A y \in S : \A a \in [S -> Int], b \in [S \ {y} -> Int] :
          (\A z \in S \ {y} : b[z] = a[z]) => Total(a) = a[y] + Total(b)
    BY ZenonT(40), <2>1, TakesOne
  <2>3. \A a \in [S -> Int], b \in [S \ {x} -> Int] :
          (\A z \in S \ {x} : b[z] = a[z]) => Total(a) = a[x] + Total(b)
    BY <2>1, <2>2
  <2>4. Total(w) = w[x] + Total(v)
    BY <2>1, <2>3
  <2> QED BY <2>4 DEF x
<1>4. Total(v) \in Int /\ w[k + 1] \in Int
  BY <1>1, <1>2, TotalType
<1> QED BY <1>3, <1>4

\* A function on the subsets of 1..n that folds, where its values are in V.
Tracks(h, n, V, base, step) ==
    /\ h[{}] = base
    /\ \A t \in SUBSET (1..n) :
          t # {} /\ h[t \ {Max(t)}] \in V => h[t] = step[<<h[t \ {Max(t)}], Max(t)>>]

TracksWithin(g, n, V, base, step) ==
    /\ g \in [SUBSET (1..n) -> V]
    /\ \A t \in SUBSET (1..n) : t # {} => Max(t) \in 1..n /\ t \ {Max(t)} \in SUBSET (1..n)
    /\ Tracks(g, n, V, base, step)

\* A fold along a sequence has a value after each element; there is such a fold, and any
\* other ends with the same value.
RunsTo(r, n, V, base, step) ==
    /\ r \in [0..n -> V] /\ r[0] = base
    /\ \A k \in 0..n - 1 : r[k + 1] = step[<<r[k], k + 1>>]
    /\ \A h : Tracks(h, n, V, base, step) => h[1..n] = r[n]

LEMMA FoldsRun ==
  ASSUME NEW n \in Nat, NEW V, NEW base \in V, NEW step \in [V \X (1..n) -> V]
  PROVE  /\ \E g : TracksWithin(g, n, V, base, step)
         /\ \E r : RunsTo(r, n, V, base, step)
<1>1. IsFiniteSet(1..n) /\ Picks(Greatest(n), 1..n)
  BY FS_Interval, MaxOf
<1>2. PICK g \in [SUBSET (1..n) -> V] : Folds(g, 1..n, base, Greatest(n), step)
  BY <1>1, FoldExists
<1>3. ASSUME NEW t \in SUBSET (1..n), t # {}
      PROVE  /\ Greatest(n)[t] = Max(t) /\ Max(t) \in t
             /\ g[t] = step[<<g[t \ {Max(t)}], Max(t)>>]
  <2>1. Greatest(n)[t] = Max(t) /\ Max(t) \in t
    BY <1>1, <1>3 DEF Picks, Greatest
  <2> QED BY <1>2, <1>3, <2>1 DEF Folds
<1>4. g[{}] = base
  BY <1>2 DEF Folds
<1>5. TracksWithin(g, n, V, base, step)
  BY <1>3, <1>4 DEF TracksWithin, Tracks
<1>6. PICK r \in [0..n -> V] :
          /\ r[0] = g[{}] /\ r[n] = g[1..n]
          /\ \A k \in 0..n - 1 :
                /\ r[k] = g[(1..k + 1) \ {Max(1..k + 1)}] /\ r[k + 1] = g[1..k + 1]
                /\ Max(1..k + 1) = k + 1 /\ 1..k + 1 \in SUBSET (1..n) /\ 1..k + 1 # {}
  BY Leftwards
<1>7. \A k \in 0..n - 1 : r[k + 1] = step[<<r[k], k + 1>>]
  BY <1>3, <1>6
<1>8. ASSUME NEW h, Tracks(h, n, V, base, step) PROVE h[1..n] = r[n]
  <2> DEFINE S == 1..n
             p == Greatest(n)
  <2>1. \A t \in SUBSET S : t # {} /\ g[t \ {p[t]}] = h[t \ {p[t]}] => g[t] = h[t]
    <3>1. ASSUME NEW t \in SUBSET S, t # {}, g[t \ {p[t]}] = h[t \ {p[t]}] PROVE g[t] = h[t]
      <4>1. p[t] = Max(t) /\ g[t] = step[<<g[t \ {Max(t)}], Max(t)>>] /\ g[t \ {Max(t)}] \in V
        <5>1. t \ {Max(t)} \in SUBSET (1..n)
          OBVIOUS
        <5> QED BY <1>3, <3>1, <5>1
      <4> HIDE DEF p
      <4> QED BY <1>8, <3>1, <4>1 DEF Tracks
    <3> QED BY <3>1
  <2>2. Alike(S, p, g, h)
    <3>1. g[{}] = h[{}]
      BY <1>4, <1>8 DEF Tracks
    <3> HIDE DEF S, p
    <3> QED BY <1>1, <2>1, <3>1 DEF Alike, S, p
  <2> HIDE DEF p
  <2>3. \A t \in SUBSET S : g[t] = h[t]
    <3> HIDE DEF S
    <3> QED BY <2>2, SameFold
  <2> QED BY <1>6, <2>3
<1>9. RunsTo(r, n, V, base, step)
  BY <1>4, <1>6, <1>7, <1>8 DEF RunsTo
<1> QED BY <1>5, <1>9

\* A property that each element preserves.
LEMMA AlongRun ==
  ASSUME NEW n \in Nat, NEW K, 0 \in K, \A k \in 0..n - 1 : k \in K => k + 1 \in K
  PROVE  \A k \in 0..n : k \in K
<1> DEFINE N == {k \in Nat : k <= n => k \in K}
<1>1. 0 \in N
  OBVIOUS
<1>2. \A k \in Nat : k \in N => k + 1 \in N
  OBVIOUS
<1>3. Nat \subseteq N
  <2> HIDE DEF N
  <2> QED BY <1>1, <1>2, Induct
<1> QED BY <1>3

=====================================================================================

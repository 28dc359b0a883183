-------------------------------- MODULE BookProofs ----------------------------------
(***********************************************************************************)
(* The in-memory order book, for any identifiers, prices, quantities and sequences *)
(* of orders.                                                                      *)
(*                                                                                 *)
(* The loops first: a fold along a list is a sequence of values, one after each    *)
(* entry, and induction over the entries shows what the last of them is.  The      *)
(* matching loop uses up the first d entries, takes part of the next one and       *)
(* leaves the rest as it was; the loop of the quote names the same levels.         *)
(*                                                                                 *)
(* BookInv is inductive: the lists name an order at most once, and of every order  *)
(* what it asked for is what rests, what was traded and what was dropped.  From it *)
(* follow TypeOK, QuantityConserved and QuoteIsExact.                              *)
(*                                                                                 *)
(* OrderInv adds that the lists are sorted and that their sequence numbers tell    *)
(* who came first.  With it every step of the book is a step of PriceTimeBook: the *)
(* prefix of the list that the loop takes is an allocation by its three rules.     *)
(***********************************************************************************)
EXTENDS OrderBook, DataLemmas
-------------------------------------------------------------------------------------
(* The loops of the book, run by run.                                               *)

Slot  == [id : Ids, price : Int, remaining : Int, seq : Int]
Match == [id : Ids, price : Int, qty : Int]
Acc   == [left : Int, matches : Seq(Match), rest : Seq(Slot)]

LEMMA StepType ==
  ASSUME NEW E, NEW acc \in Acc, NEW best \in Slot
  PROVE  MatchStep(E, acc, best) \in Acc
<1> DEFINE q == Lesser(acc.left, best.remaining)
<1>1. q \in Int /\ acc.left - q \in Int /\ best.remaining - q \in Int
  BY DEF Acc, Slot, Lesser
<1> HIDE DEF q
<1>2. [id |-> best.id, price |-> best.price, qty |-> q] \in Match
  BY <1>1 DEF Match, Slot
<1>3. Append(acc.matches, [id |-> best.id, price |-> best.price, qty |-> q]) \in Seq(Match)
  BY <1>2 DEF Acc
<1>4. [best EXCEPT !.remaining = @ - q] \in Slot
  BY <1>1 DEF Slot
<1>5. <<>> \in Seq(Slot) /\ <<[best EXCEPT !.remaining = @ - q]>> \in Seq(Slot)
  BY <1>4
<1>6. Append(acc.rest, best) \in Seq(Slot)
  BY DEF Acc
<1>7. [ left    |-> acc.left - q,
        matches |-> Append(acc.matches, [id |-> best.id, price |-> best.price, qty |-> q]),
        rest    |-> IF best.remaining = q THEN <<>>
                    ELSE <<[best EXCEPT !.remaining = @ - q]>> ] \in Acc
  BY <1>1, <1>3, <1>5 DEF Acc
<1>8. [acc EXCEPT !.rest = Append(@, best)] \in Acc
  BY <1>6 DEF Acc
<1> QED BY <1>7, <1>8 DEF MatchStep, q

LoopOf(E, q, s, r) ==
    /\ r[0] = [left |-> q, matches |-> <<>>, rest |-> <<>>]
    /\ \A k \in 0..Len(s) - 1 : r[k + 1] = MatchStep(E, r[k], s[k + 1])

LEMMA LoopRuns ==
  ASSUME NEW E, NEW q \in Int, NEW s \in Seq(Slot)
  PROVE  \E r \in [0..Len(s) -> Acc] : LoopOf(E, q, s, r) /\ MatchLoop(E, q, s) = r[Len(s)]
<1> DEFINE n == Len(s)
           base == [left |-> q, matches |-> <<>>, rest |-> <<>>]
           step == [p \in Acc \X (1..n) |-> MatchStep(E, p[1], s[p[2]])]
           next(f, t) == IF t = {} THEN base ELSE MatchStep(E, f[t \ {Max(t)}], s[Max(t)])
           Iter(f) == f = [t \in SUBSET DOMAIN s |-> next(f, t)]
           h == CHOOSE f : Iter(f)
<1>1. n \in Nat /\ base \in Acc /\ DOMAIN s = 1..n
  BY DEF Acc
<1>2. step \in [Acc \X (1..n) -> Acc]
  <2>1. \A k \in 1..n : s[k] \in Slot
    OBVIOUS
  <2> QED BY <2>1, StepType
<1>3. IsFiniteSet(1..n) /\ Picks(Greatest(n), 1..n)
  BY <1>1, FS_Interval, MaxOf
<1>4. PICK g \in [SUBSET (1..n) -> Acc] : Folds(g, 1..n, base, Greatest(n), step)
  <2> HIDE DEF base, step
  <2> QED BY <1>1, <1>2, <1>3, FoldExists
<1>5. g[{}] = base /\ \A t \in SUBSET (1..n) : g[t] = next(g, t)
  <2>1. ASSUME NEW t \in SUBSET (1..n), t # {}
        PROVE  g[t] = MatchStep(E, g[t \ {Max(t)}], s[Max(t)])
    <3>1. Greatest(n)[t] = Max(t) /\ Max(t) \in t
      BY <1>3, <2>1 DEF Picks, Greatest
    <3>2. g[t] = step[<<g[t \ {Max(t)}], Max(t)>>]
      BY <1>4, <2>1, <3>1 DEF Folds
    <3>3. g[t \ {Max(t)}] \in Acc /\ Max(t) \in 1..n
      BY <3>1
    <3> QED BY <3>2, <3>3
  <2>2. g[{}] = base
    BY <1>4 DEF Folds
  <2> HIDE DEF base
  <2> QED BY <2>1, <2>2
<1>6. Iter(g)
  <2> HIDE DEF next
  <2> QED BY <1>1, <1>5
<1>7. Iter(h)
  <2> HIDE DEF Iter
  <2> QED BY <1>6
<1>8. MatchLoop(E, q, s) = h[DOMAIN s]
  BY DEF MatchLoop, FoldLeft, MapThenFoldSet
<1> HIDE DEF h
<1>9. \A t \in SUBSET (1..n) : h[t] = next(h, t)
  <2> HIDE DEF next
  <2> QED BY <1>1, <1>7
<1>10. \A t \in SUBSET (1..n) : g[t] = h[t]
  <2> DEFINE S == 1..n
             p == Greatest(n)
  <2>1. g[{}] = h[{}]
    <3> HIDE DEF base, n, step
    <3> QED BY <1>5, <1>9
  <2>2. \A t \in SUBSET S : t # {} /\ g[t \ {p[t]}] = h[t \ {p[t]}] => g[t] = h[t]
    <3> HIDE DEF base, n, step
    <3> QED BY <1>5, <1>9 DEF Greatest
  <2>3. IsFiniteSet(S) /\ Picks(p, S)
    BY <1>3
  <2>5. Alike(S, p, g, h)
    <3> HIDE DEF S, p, base, n, step, next, Iter
    <3> QED BY <2>1, <2>2, <2>3 DEF Alike
  <2> HIDE DEF S, p, base, n, step, next, Iter
  <2>4. \A t \in SUBSET S : g[t] = h[t]
    BY <2>5, SameFold
  <2> QED BY <2>4 DEF S
<1>11. MatchLoop(E, q, s) = g[1..n]
  <2> HIDE DEF n
  <2> QED BY <1>1, <1>8, <1>10
<1>12. PICK r \in [0..n -> Acc] :
          /\ r[0] = g[{}] /\ r[n] = g[1..n]
          /\ \A k \in 0..n - 1 :
                /\ r[k] = g[(1..k + 1) \ {Max(1..k + 1)}] /\ r[k + 1] = g[1..k + 1]
                /\ Max(1..k + 1) = k + 1 /\ 1..k + 1 \in SUBSET (1..n) /\ 1..k + 1 # {}
  <2> HIDE DEF base, step, n
  <2> QED BY <1>1, Leftwards
<1>13. \A k \in 0..n - 1 : r[k + 1] = MatchStep(E, r[k], s[k + 1])
  <2> HIDE DEF base, n
  <2> QED BY <1>5, <1>12
<1>14. LoopOf(E, q, s, r)
  BY <1>5, <1>12, <1>13 DEF LoopOf
<1> QED BY <1>11, <1>12, <1>14

-------------------------------------------------------------------------------------
(* What the matching loop does, entry by entry: it uses up the first d entries of    *)
(* the list, takes part of the next one, and leaves the rest as it was.              *)

\* After k entries of s: the first d are used up, and `part` of the next one.
UsedUp(E, s, r, k, d, part) ==
    /\ d \in 0..k /\ part \in Nat
    /\ \A i \in 1..d : s[i] \in E /\ r[i].left = r[i - 1].left - s[i].remaining
    /\ r[k].left = r[d].left - part /\ r[k].left >= 0
    /\ part > 0 => d < k /\ part < s[d + 1].remaining /\ r[k].left = 0 /\ s[d + 1] \in E
    /\ d < k => r[k].left = 0 \/ s[d + 1] \notin E

Lessened(e, part) == [e EXCEPT !.remaining = @ - part]

LeftAlone(s, rest, k, d, part) ==
    /\ Len(rest) = k - d
    /\ \A j \in 1..k - d : rest[j] = IF j = 1 THEN Lessened(s[d + 1], part) ELSE s[d + j]

Made(s, matches, d, part) ==
    /\ Len(matches) = IF part > 0 THEN d + 1 ELSE d
    /\ \A j \in DOMAIN matches :
          matches[j] = [id |-> s[j].id, price |-> s[j].price,
                        qty |-> IF j <= d THEN s[j].remaining ELSE part]

Ran(E, s, r, k, d, part) ==
    /\ UsedUp(E, s, r, k, d, part)
    /\ LeftAlone(s, r[k].rest, k, d, part)
    /\ Made(s, r[k].matches, d, part)

LEMMA RanStarts ==
  ASSUME NEW E, NEW q \in Nat, NEW s \in Seq(Slot), NEW r \in [0..Len(s) -> Acc],
         LoopOf(E, q, s, r)
  PROVE  Ran(E, s, r, 0, 0, 0)
<1>1. r[0].left = q /\ r[0].matches = <<>> /\ r[0].rest = <<>>
  BY DEF LoopOf
<1> QED BY <1>1 DEF Ran, UsedUp, LeftAlone, Made

LEMMA RanSteps ==
  ASSUME NEW E, NEW q \in Nat, NEW s \in Seq(Slot), NEW r \in [0..Len(s) -> Acc],
         LoopOf(E, q, s, r), \A i \in 1..Len(s) : s[i].remaining > 0,
         NEW k \in 0..Len(s) - 1, NEW d, NEW part, Ran(E, s, r, k, d, part)
  PROVE  \E d2, part2 : Ran(E, s, r, k + 1, d2, part2)
<1> DEFINE best == s[k + 1]
           qty == Lesser(r[k].left, best.remaining)
<1>1. /\ Len(s) \in Nat /\ k + 1 \in 1..Len(s) /\ best \in Slot /\ best.remaining \in Nat \ {0}
      /\ r[k] \in Acc /\ r[k].left \in Nat /\ d \in 0..k /\ part \in Nat
      /\ k \in 0..Len(s) /\ k + 1 \in 0..Len(s)
  <2>1. Len(s) \in Nat /\ k + 1 \in 1..Len(s) /\ k \in 0..Len(s) /\ k + 1 \in 0..Len(s)
    OBVIOUS
  <2>2. best \in Slot /\ best.remaining > 0
    BY <2>1
  <2>3. r[k] \in Acc /\ r[k].left \in Int /\ best.remaining \in Int
    BY <2>1, <2>2 DEF Acc, Slot
  <2> QED BY SMTT(30), <2>1, <2>2, <2>3 DEF Ran, UsedUp, LeftAlone, Made
<1>2. r[k + 1] = MatchStep(E, r[k], best)
  BY DEF LoopOf
<1>3. r[k].rest \in Seq(Slot) /\ r[k].matches \in Seq(Match)
  BY <1>1 DEF Acc
<1>4. CASE r[k].left > 0 /\ r[k].rest = <<>> /\ best \in E
  <2>1. d = k /\ part = 0
    BY <1>1, <1>4 DEF Ran, UsedUp, LeftAlone, Made
  <2>2. /\ r[k + 1].left = r[k].left - qty
        /\ r[k + 1].matches = Append(r[k].matches,
                                     [id |-> best.id, price |-> best.price, qty |-> qty])
        /\ r[k + 1].rest = IF best.remaining = qty THEN <<>>
                           ELSE <<[best EXCEPT !.remaining = @ - qty]>>
    BY <1>2, <1>4 DEF MatchStep
  <2>3. qty \in Nat /\ qty <= r[k].left /\ qty <= best.remaining /\ qty > 0
        /\ (best.remaining # qty => qty = r[k].left)
    BY SMTT(30), <1>1, <1>4 DEF Lesser
  <2> DEFINE new == [id |-> best.id, price |-> best.price, qty |-> qty]
  <2>4. /\ Len(r[k].matches) = k
        /\ \A j \in 1..k : r[k].matches[j] = [id |-> s[j].id, price |-> s[j].price,
                                              qty |-> s[j].remaining]
    <3>1. DOMAIN r[k].matches = 1..k /\ Len(r[k].matches) = k
      BY <1>1, <1>3, <2>1 DEF Ran, UsedUp, LeftAlone, Made
    <3> QED BY <2>1, <3>1 DEF Ran, UsedUp, LeftAlone, Made
  <2>5. /\ Len(r[k + 1].matches) = k + 1 /\ DOMAIN r[k + 1].matches = 1..k + 1
        /\ r[k + 1].matches[k + 1] = new
        /\ \A j \in 1..k : r[k + 1].matches[j] = r[k].matches[j]
    <3> HIDE DEF new, qty, best
    <3> QED BY <1>1, <1>3, <2>2, <2>4 DEF new
  <2>6. CASE best.remaining = qty
    <3>1. Len(r[k + 1].rest) = 0
      BY <2>2, <2>6
    <3>2. \A j \in DOMAIN r[k + 1].matches :
             r[k + 1].matches[j] = [id |-> s[j].id, price |-> s[j].price,
                                    qty |-> IF j <= k + 1 THEN s[j].remaining ELSE 0]
      <4>1. ASSUME NEW j \in 1..k
            PROVE  r[k + 1].matches[j] = [id |-> s[j].id, price |-> s[j].price,
                                          qty |-> IF j <= k + 1 THEN s[j].remaining ELSE 0]
        <5>1. r[k + 1].matches[j] = r[k].matches[j]
          BY <2>5
        <5>2. j <= k + 1
          BY <1>1
        <5> QED BY <2>4, <5>1, <5>2
      <4>2. r[k + 1].matches[k + 1] = [id |-> s[k + 1].id, price |-> s[k + 1].price,
                                       qty |-> s[k + 1].remaining]
        BY <2>5, <2>6
      <4>3. \A j \in 1..k + 1 : j \in 1..k \/ j = k + 1
        BY <1>1
      <4> HIDE DEF qty, new
      <4> QED BY SMTT(30), <1>1, <2>5, <4>1, <4>2, <4>3
    <3>3. \A i \in 1..k + 1 : s[i] \in E /\ r[i].left = r[i - 1].left - s[i].remaining
      <4>1. \A i \in 1..k : s[i] \in E /\ r[i].left = r[i - 1].left - s[i].remaining
        BY <2>1 DEF Ran, UsedUp, LeftAlone, Made
      <4>2. r[k + 1].left = r[(k + 1) - 1].left - s[k + 1].remaining
        <5>1. (k + 1) - 1 = k
          BY <1>1
        <5> HIDE DEF qty
        <5> QED BY <2>2, <2>6, <5>1
      <4>3. \A i \in 1..k + 1 : i \in 1..k \/ i = k + 1
        BY <1>1
      <4> QED BY <1>4, <4>1, <4>2, <4>3
    <3>4. r[k + 1].left >= 0 /\ r[k + 1].left \in Int
      <4> HIDE DEF qty, best
      <4> QED BY SMTT(30), <1>1, <2>2, <2>3
    <3>5. Ran(E, s, r, k + 1, k + 1, 0)
      <4>1. Len(r[k + 1].matches) = k + 1
        BY <2>5
      <4>2. k + 1 \in 0..k + 1 /\ 0 \in Nat /\ ~(0 > 0) /\ ~(k + 1 < k + 1)
            /\ (k + 1) - (k + 1) = 0 /\ r[k + 1].left = r[k + 1].left - 0
            /\ \A j \in 1..0 : FALSE
        BY SMTT(30), <1>1, <3>4
      <4>3. UsedUp(E, s, r, k + 1, k + 1, 0)
        BY <3>3, <3>4, <4>2 DEF UsedUp
      <4>4. LeftAlone(s, r[k + 1].rest, k + 1, k + 1, 0)
        BY <3>1, <4>2 DEF LeftAlone
      <4>5. Made(s, r[k + 1].matches, k + 1, 0)
        BY <3>2, <4>1, <4>2 DEF Made
      <4> QED BY <4>3, <4>4, <4>5 DEF Ran
    <3> QED BY <3>5
  <2>7. CASE best.remaining # qty
    <3>1. Len(r[k + 1].rest) = 1 /\ r[k + 1].rest[1] = Lessened(s[k + 1], qty)
      BY <2>2, <2>7 DEF Lessened
    <3>2. \A j \in DOMAIN r[k + 1].matches :
             r[k + 1].matches[j] = [id |-> s[j].id, price |-> s[j].price,
                                    qty |-> IF j <= k THEN s[j].remaining ELSE qty]
      <4>1. ASSUME NEW j \in 1..k
            PROVE  r[k + 1].matches[j] = [id |-> s[j].id, price |-> s[j].price,
                                          qty |-> IF j <= k THEN s[j].remaining ELSE qty]
        <5>1. r[k + 1].matches[j] = r[k].matches[j]
          BY <2>5
        <5>2. j <= k
          BY <1>1
        <5> HIDE DEF qty
        <5> QED BY <2>4, <5>1, <5>2
      <4>2. r[k + 1].matches[k + 1] = [id |-> s[k + 1].id, price |-> s[k + 1].price,
                                       qty |-> qty]
        BY <2>5
      <4>3. \A j \in 1..k + 1 : j \in 1..k \/ j = k + 1
        BY <1>1
      <4>4. ~(k + 1 <= k)
        BY <1>1
      <4> HIDE DEF qty, new
      <4> QED BY <1>1, <2>5, <4>1, <4>2, <4>3, <4>4
    <3>3. \A i \in 1..k : s[i] \in E /\ r[i].left = r[i - 1].left - s[i].remaining
      BY <2>1 DEF Ran, UsedUp, LeftAlone, Made
    <3>4. r[k + 1].left = 0 /\ r[k + 1].left = r[k].left - qty
      <4> HIDE DEF qty, best
      <4> QED BY <1>1, <2>2, <2>3, <2>7
    <3>5. qty < s[k + 1].remaining /\ s[k + 1] \in E /\ qty > 0 /\ qty \in Nat
      <4> HIDE DEF qty
      <4> QED BY <1>1, <1>4, <2>3, <2>7
    <3>6. Ran(E, s, r, k + 1, k, qty)
      <4>1. Len(r[k + 1].matches) = k + 1
        BY <2>5
      <4>2. k \in 0..k + 1 /\ k < k + 1 /\ (k + 1) - k = 1 /\ \A j \in 1..1 : j = 1
        BY <1>1
      <4>3. r[k + 1].left >= 0
        BY <3>4
      <4> HIDE DEF qty, best, new
      <4> QED BY <3>1, <3>2, <3>3, <3>4, <3>5, <4>1, <4>2, <4>3 DEF Ran, UsedUp, LeftAlone, Made
    <3> QED BY <3>6
  <2> HIDE DEF qty, best
  <2> QED BY <2>6, <2>7
<1>5. CASE ~(r[k].left > 0 /\ r[k].rest = <<>> /\ best \in E)
  <2>1. /\ r[k + 1].left = r[k].left /\ r[k + 1].matches = r[k].matches
        /\ r[k + 1].rest = Append(r[k].rest, best)
    BY <1>1, <1>2, <1>5 DEF MatchStep, Acc
  <2>2. /\ Len(r[k + 1].rest) = (k + 1) - d
        /\ \A j \in 1..k - d : r[k + 1].rest[j] = r[k].rest[j]
        /\ r[k + 1].rest[(k + 1) - d] = best
    <3>1. Len(r[k].rest) = k - d /\ k - d \in Nat
      BY <1>1 DEF Ran, UsedUp, LeftAlone, Made
    <3> DEFINE t == r[k].rest
    <3>2. t \in Seq(Slot) /\ Len(t) = k - d /\ r[k + 1].rest = Append(t, best) /\ best \in Slot
      BY <1>1, <1>3, <2>1, <3>1
    <3>3. (k + 1) - d = Len(t) + 1 /\ k - d = Len(t)
      BY <1>1, <3>2
    <3>4. /\ Len(r[k + 1].rest) = Len(t) + 1
          /\ \A j \in 1..Len(t) : r[k + 1].rest[j] = t[j]
          /\ r[k + 1].rest[Len(t) + 1] = best
      <4> HIDE DEF t, best
      <4> QED BY <3>2
    <3> QED BY <3>3, <3>4
  <2>3. d = k => part = 0
    BY <1>1 DEF Ran, UsedUp, LeftAlone, Made
  <2>4. \A j \in 1..(k + 1) - d :
           r[k + 1].rest[j] = IF j = 1 THEN Lessened(s[d + 1], part) ELSE s[d + j]
    <3>1. CASE d = k
      <4>1. Lessened(best, 0) = best
        <5>1. best \in Slot
          BY <1>1
        <5> HIDE DEF best
        <5> QED BY <5>1 DEF Slot, Lessened
      <4> QED BY <1>1, <2>2, <2>3, <3>1, <4>1
    <3>2. CASE d # k
      <4>1. \A j \in 1..k - d :
               r[k].rest[j] = IF j = 1 THEN Lessened(s[d + 1], part) ELSE s[d + j]
        BY DEF Ran, UsedUp, LeftAlone, Made
      <4>2. (k + 1) - d # 1 /\ d + ((k + 1) - d) = k + 1 /\ (k + 1) - d \in Nat
        BY SMTT(30), <1>1, <3>2
      <4>3. \A j \in 1..(k + 1) - d : j \in 1..k - d \/ j = (k + 1) - d
        BY SMTT(30), <1>1
      <4> QED BY <1>1, <2>2, <4>1, <4>2, <4>3
    <3> QED BY <3>1, <3>2
  <2>5. d < k + 1 => r[k + 1].left = 0 \/ s[d + 1] \notin E
    <3>1. CASE d = k
      <4>1. r[k].rest = <<>>
        BY <1>1, <1>3, <3>1 DEF Ran, UsedUp, LeftAlone, Made
      <4> QED BY <1>1, <1>5, <2>1, <3>1, <4>1
    <3>2. CASE d # k
      BY <1>1, <2>1, <3>2 DEF Ran, UsedUp, LeftAlone, Made
    <3> QED BY <3>1, <3>2
  <2>6. Ran(E, s, r, k + 1, d, part)
    <3>1. d \in 0..k + 1 /\ (part > 0 => d < k + 1)
      BY <1>1
    <3>2. /\ \A i \in 1..d : s[i] \in E /\ r[i].left = r[i - 1].left - s[i].remaining
          /\ r[k + 1].left = r[d].left - part /\ r[k + 1].left >= 0
          /\ part > 0 => part < s[d + 1].remaining /\ r[k + 1].left = 0 /\ s[d + 1] \in E
          /\ Len(r[k + 1].matches) = IF part > 0 THEN d + 1 ELSE d
          /\ \A j \in DOMAIN r[k + 1].matches :
                r[k + 1].matches[j] = [id |-> s[j].id, price |-> s[j].price,
                                       qty |-> IF j <= d THEN s[j].remaining ELSE part]
      BY <2>1 DEF Ran, UsedUp, LeftAlone, Made
    <3>3. Len(r[k + 1].rest) = (k + 1) - d
      BY <2>2
    <3>4. UsedUp(E, s, r, k + 1, d, part)
      BY <1>1, <2>5, <3>1, <3>2 DEF UsedUp
    <3>5. LeftAlone(s, r[k + 1].rest, k + 1, d, part)
      BY <2>4, <3>3 DEF LeftAlone
    <3>6. Made(s, r[k + 1].matches, d, part)
      BY <3>2 DEF Made
    <3> QED BY <3>4, <3>5, <3>6 DEF Ran
  <2> QED BY <2>6
<1> QED BY <1>4, <1>5

LEMMA RanThrough ==
  ASSUME NEW E, NEW q \in Nat, NEW s \in Seq(Slot), NEW r \in [0..Len(s) -> Acc],
         LoopOf(E, q, s, r), \A i \in 1..Len(s) : s[i].remaining > 0
  PROVE  \A k \in 0..Len(s) : \E d, part : Ran(E, s, r, k, d, part)
<1> DEFINE K == {k \in Nat : k <= Len(s) => \E d, part : Ran(E, s, r, k, d, part)}
<1>1. 0 \in K
  BY RanStarts
<1>2. ASSUME NEW k \in Nat, k \in K PROVE k + 1 \in K
  <2> SUFFICES ASSUME k + 1 <= Len(s) PROVE \E d, part : Ran(E, s, r, k + 1, d, part)
    OBVIOUS
  <2>1. k \in 0..Len(s) - 1 /\ k <= Len(s)
    OBVIOUS
  <2>2. PICK d, part : Ran(E, s, r, k, d, part)
    BY <1>2, <2>1
  <2> HIDE DEF K
  <2> QED BY <2>1, <2>2, RanSteps
<1>3. Nat \subseteq K
  <2> HIDE DEF K
  <2> QED BY <1>1, <1>2, Induct
<1> QED BY <1>3

\* The loop as a whole: it uses up the first d entries and takes `part` of the next.
LEMMA LoopRan ==
  ASSUME NEW E, NEW q \in Nat, NEW s \in Seq(Slot), \A i \in 1..Len(s) : s[i].remaining > 0
  PROVE  \E r \in [0..Len(s) -> Acc] : \E d, part :
            /\ r[0].left = q /\ MatchLoop(E, q, s) = r[Len(s)]
            /\ Ran(E, s, r, Len(s), d, part)
<1>1. PICK r \in [0..Len(s) -> Acc] :
         LoopOf(E, q, s, r) /\ MatchLoop(E, q, s) = r[Len(s)]
  <2>1. q \in Int
    OBVIOUS
  <2> QED BY <2>1, LoopRuns
<1>3. Len(s) \in 0..Len(s)
  OBVIOUS
<1>4. PICK d, part : Ran(E, s, r, Len(s), d, part)
  BY <1>1, <1>3, RanThrough
<1>5. r[0].left = q
  BY <1>1 DEF LoopOf
<1> QED BY <1>1, <1>4, <1>5

-------------------------------------------------------------------------------------
(* The quote: the same walk, without taking anything.                                *)

Level  == [price : Int, qty : Int]
Quoted == [left : Int, levels : Seq(Level)]

LEMMA QuoteType ==
  ASSUME NEW acc \in Quoted, NEW e \in Slot
  PROVE  QuoteStep(acc, e) \in Quoted
<1> DEFINE take == Lesser(acc.left, e.remaining)
<1>1. take \in Int /\ acc.left - take \in Int
  BY DEF Quoted, Slot, Lesser
<1> HIDE DEF take
<1>2. [price |-> e.price, qty |-> take] \in Level
  BY <1>1 DEF Level, Slot
<1>3. Append(acc.levels, [price |-> e.price, qty |-> take]) \in Seq(Level)
  BY <1>2 DEF Quoted
<1>4. [ left   |-> acc.left - take,
        levels |-> Append(acc.levels, [price |-> e.price, qty |-> take]) ] \in Quoted
  BY <1>1, <1>3 DEF Quoted
<1> QED BY <1>4 DEF QuoteStep, take

QuotedBy(q, s, r) ==
    /\ r[0] = [left |-> q, levels |-> <<>>]
    /\ \A k \in 0..Len(s) - 1 : r[k + 1] = QuoteStep(r[k], s[k + 1])

LEMMA QuoteRuns ==
  ASSUME NEW b, NEW side, NEW q \in Int, NEW s \in Seq(Slot), b[OppositeSide(side)] = s
  PROVE  \E r \in [0..Len(s) -> Quoted] :
            QuotedBy(q, s, r) /\ QuoteMarket(b, side, q) = r[Len(s)].levels
<1> DEFINE n == Len(s)
           base == [left |-> q, levels |-> <<>>]
           step == [p \in Quoted \X (1..n) |-> QuoteStep(p[1], s[p[2]])]
           next(f, t) == IF t = {} THEN base ELSE QuoteStep(f[t \ {Max(t)}], s[Max(t)])
           Iter(f) == f = [t \in SUBSET DOMAIN s |-> next(f, t)]
           h == CHOOSE f : Iter(f)
<1>1. n \in Nat /\ base \in Quoted /\ DOMAIN s = 1..n
  BY DEF Quoted
<1>2. step \in [Quoted \X (1..n) -> Quoted]
  <2>1. \A k \in 1..n : s[k] \in Slot
    OBVIOUS
  <2> QED BY <2>1, QuoteType
<1>3. IsFiniteSet(1..n) /\ Picks(Greatest(n), 1..n)
  BY <1>1, FS_Interval, MaxOf
<1>4. PICK g \in [SUBSET (1..n) -> Quoted] : Folds(g, 1..n, base, Greatest(n), step)
  <2> HIDE DEF base, step
  <2> QED BY <1>1, <1>2, <1>3, FoldExists
<1>5. g[{}] = base /\ \A t \in SUBSET (1..n) : g[t] = next(g, t)
  <2>1. ASSUME NEW t \in SUBSET (1..n), t # {}
        PROVE  g[t] = QuoteStep(g[t \ {Max(t)}], s[Max(t)])
    <3>1. Greatest(n)[t] = Max(t) /\ Max(t) \in t
      BY <1>3, <2>1 DEF Picks, Greatest
    <3>2. g[t] = step[<<g[t \ {Max(t)}], Max(t)>>]
      <4> HIDE DEF step, base
      <4> QED BY <1>4, <2>1, <3>1 DEF Folds
    <3>3. g[t \ {Max(t)}] \in Quoted /\ Max(t) \in 1..n
      BY <3>1
    <3> QED BY <3>2, <3>3
  <2>2. g[{}] = base
    BY <1>4 DEF Folds
  <2> HIDE DEF base
  <2> QED BY <2>1, <2>2
<1>6. Iter(g)
  <2> HIDE DEF next
  <2> QED BY <1>1, <1>5
<1>7. Iter(h)
  <2> HIDE DEF Iter
  <2> QED BY <1>6
<1>8. QuoteMarket(b, side, q) = h[DOMAIN s].levels
  BY DEF QuoteMarket, FoldLeft, MapThenFoldSet, QuoteStep
<1> HIDE DEF h
<1>9. \A t \in SUBSET (1..n) : h[t] = next(h, t)
  <2> HIDE DEF next
  <2> QED BY <1>1, <1>7
<1>10. \A t \in SUBSET (1..n) : g[t] = h[t]
  <2> DEFINE S == 1..n
             p == Greatest(n)
  <2>1. g[{}] = h[{}]
    <3> HIDE DEF base, n, step
    <3> QED BY <1>5, <1>9
  <2>2. \A t \in SUBSET S : t # {} /\ g[t \ {p[t]}] = h[t \ {p[t]}] => g[t] = h[t]
    <3> HIDE DEF base, n, step
    <3> QED BY <1>5, <1>9 DEF Greatest
  <2>3. IsFiniteSet(S) /\ Picks(p, S)
    BY <1>3
  <2>4. Alike(S, p, g, h)
    <3> HIDE DEF S, p, base, n, step, next, Iter
    <3> QED BY <2>1, <2>2, <2>3 DEF Alike
  <2> HIDE DEF S, p, base, n, step, next, Iter
  <2>5. \A t \in SUBSET S : g[t] = h[t]
    BY <2>4, SameFold
  <2> QED BY <2>5 DEF S
<1>11. QuoteMarket(b, side, q) = g[1..n].levels
  <2> HIDE DEF n
  <2> QED BY <1>1, <1>8, <1>10
<1>12. PICK r \in [0..n -> Quoted] :
          /\ r[0] = g[{}] /\ r[n] = g[1..n]
          /\ \A k \in 0..n - 1 :
                /\ r[k] = g[(1..k + 1) \ {Max(1..k + 1)}] /\ r[k + 1] = g[1..k + 1]
                /\ Max(1..k + 1) = k + 1 /\ 1..k + 1 \in SUBSET (1..n) /\ 1..k + 1 # {}
  <2> HIDE DEF base, step, n
  <2> QED BY <1>1, Leftwards
<1>13. \A k \in 0..n - 1 : r[k + 1] = QuoteStep(r[k], s[k + 1])
  <2> HIDE DEF base, n
  <2> QED BY <1>5, <1>12
<1>14. QuotedBy(q, s, r)
  BY <1>5, <1>12, <1>13 DEF QuotedBy
<1> QED BY <1>11, <1>12, <1>14

SameLevels(quote, matches) ==
    /\ Len(quote) = Len(matches)
    /\ \A i \in DOMAIN quote :
          quote[i] = [price |-> matches[i].price, qty |-> matches[i].qty]

\* The quote and the loop with everything eligible: level by level the same.
LEMMA QuoteMatches ==
  ASSUME NEW b, NEW side, NEW q \in Nat, NEW s \in Seq(Slot), b[OppositeSide(side)] = s,
         NEW E, \A i \in 1..Len(s) : s[i].remaining > 0 /\ s[i] \in E
  PROVE  SameLevels(QuoteMarket(b, side, q), MatchLoop(E, q, s).matches)
<1>0. q \in Int /\ Len(s) \in Nat
  OBVIOUS
<1>1. PICK r \in [0..Len(s) -> Acc] : LoopOf(E, q, s, r) /\ MatchLoop(E, q, s) = r[Len(s)]
  BY <1>0, LoopRuns
<1>2. PICK w \in [0..Len(s) -> Quoted] :
         QuotedBy(q, s, w) /\ QuoteMarket(b, side, q) = w[Len(s)].levels
  BY <1>0, QuoteRuns
<1> DEFINE Same(k) ==
             /\ w[k].left = r[k].left /\ w[k].left >= 0
             /\ w[k].left > 0 => r[k].rest = <<>>
             /\ Len(w[k].levels) = Len(r[k].matches)
             /\ \A i \in 1..Len(w[k].levels) :
                   w[k].levels[i] = [price |-> r[k].matches[i].price,
                                     qty |-> r[k].matches[i].qty]
           K == {k \in Nat : k <= Len(s) => Same(k)}
<1>3. 0 \in K
  BY <1>0, <1>2, <1>1 DEF LoopOf, QuotedBy
<1>4. ASSUME NEW k \in Nat, k \in K PROVE k + 1 \in K
  <2> SUFFICES ASSUME k + 1 <= Len(s) PROVE Same(k + 1)
    OBVIOUS
  <2> DEFINE e == s[k + 1]
             take == Lesser(w[k].left, e.remaining)
  <2>1. k \in 0..Len(s) - 1 /\ k \in 0..Len(s) /\ k + 1 \in 1..Len(s)
    BY <1>0
  <2>2. Same(k)
    BY <1>4, <2>1
  <2>3. /\ r[k + 1] = MatchStep(E, r[k], e) /\ w[k + 1] = QuoteStep(w[k], e)
        /\ e \in E /\ e.remaining > 0 /\ e \in Slot
    BY <1>1, <1>2, <2>1 DEF LoopOf, QuotedBy
  <2>4. /\ w[k] \in Quoted /\ r[k] \in Acc /\ w[k].left \in Nat /\ e.remaining \in Nat
        /\ w[k].levels \in Seq(Level) /\ r[k].matches \in Seq(Match)
    <3>1. w[k] \in Quoted /\ r[k] \in Acc
      BY <2>1
    <3>2. w[k].left \in Int /\ w[k].levels \in Seq(Level) /\ r[k].matches \in Seq(Match)
      BY <3>1 DEF Quoted, Acc
    <3>3. e.remaining \in Int
      BY <2>3 DEF Slot
    <3> HIDE DEF e
    <3> QED BY <2>2, <2>3, <3>1, <3>2, <3>3
  <2>5. CASE w[k].left = 0
    <3>1. w[k + 1] = w[k]
      BY <2>3, <2>5 DEF QuoteStep
    <3>2. r[k + 1].left = r[k].left /\ r[k + 1].matches = r[k].matches
      <4>1. ~(r[k].left > 0)
        BY <2>2, <2>5
      <4>2. r[k + 1] = [r[k] EXCEPT !.rest = Append(@, e)]
        BY <2>3, <4>1 DEF MatchStep
      <4> QED BY <2>4, <4>2 DEF Acc
    <3> DEFINE y == w[k + 1]
               x == r[k + 1]
    <3>3. y = w[k] /\ x.left = r[k].left /\ x.matches = r[k].matches /\ ~(y.left > 0)
      BY <2>5, <3>1, <3>2
    <3> HIDE DEF x, y
    <3>4. /\ y.left = x.left /\ y.left >= 0 /\ ~(y.left > 0)
          /\ Len(y.levels) = Len(x.matches)
          /\ \A i \in 1..Len(y.levels) :
                y.levels[i] = [price |-> x.matches[i].price, qty |-> x.matches[i].qty]
      BY <2>2, <3>3
    <3> QED BY <3>4 DEF x, y
  <2>6. CASE w[k].left # 0
    <3>1. w[k].left > 0 /\ r[k].left = w[k].left /\ r[k].rest = <<>>
      BY <2>2, <2>4, <2>6
    <3>2. /\ w[k + 1].left = w[k].left - take
          /\ w[k + 1].levels = Append(w[k].levels, [price |-> e.price, qty |-> take])
      BY <2>3, <2>6 DEF QuoteStep
    <3>3. /\ r[k + 1].left = r[k].left - take
          /\ r[k + 1].matches = Append(r[k].matches,
                                       [id |-> e.id, price |-> e.price, qty |-> take])
          /\ r[k + 1].rest = IF e.remaining = take THEN <<>>
                             ELSE <<[e EXCEPT !.remaining = @ - take]>>
      BY <2>3, <3>1 DEF MatchStep
    <3>4. take \in Nat /\ take <= w[k].left /\ (e.remaining # take => take = w[k].left)
      BY <2>4 DEF Lesser
    <3> DEFINE L == w[k].levels
               M == r[k].matches
    <3>5. L \in Seq(Level) /\ M \in Seq(Match) /\ Len(L) = Len(M) /\ Len(L) \in Nat
      BY <2>2, <2>4
    <3>6. /\ Len(w[k + 1].levels) = Len(L) + 1 /\ Len(r[k + 1].matches) = Len(L) + 1
          /\ \A i \in 1..Len(L) : /\ w[k + 1].levels[i] = L[i]
                                  /\ r[k + 1].matches[i] = M[i]
          /\ w[k + 1].levels[Len(L) + 1] = [price |-> e.price, qty |-> take]
          /\ r[k + 1].matches[Len(L) + 1] = [id |-> e.id, price |-> e.price, qty |-> take]
      <4> HIDE DEF L, M, e, take
      <4>1. w[k + 1].levels = Append(L, [price |-> e.price, qty |-> take])
            /\ r[k + 1].matches = Append(M, [id |-> e.id, price |-> e.price, qty |-> take])
        BY <3>2, <3>3 DEF L, M
      <4> QED BY <3>5, <4>1
    <3>7. \A i \in 1..Len(L) + 1 : i \in 1..Len(L) \/ i = Len(L) + 1
      BY <3>5
    <3>8. \A i \in 1..Len(L) + 1 :
             w[k + 1].levels[i] = [price |-> r[k + 1].matches[i].price,
                                   qty |-> r[k + 1].matches[i].qty]
      <4>1. \A i \in 1..Len(L) : L[i] = [price |-> M[i].price, qty |-> M[i].qty]
        BY <2>2
      <4> HIDE DEF L, M, e, take
      <4> QED BY SMTT(30), <3>6, <3>7, <4>1
    <3>9. w[k + 1].left = r[k + 1].left /\ w[k + 1].left >= 0
      <4> HIDE DEF take, e
      <4> QED BY <2>4, <3>1, <3>2, <3>3, <3>4
    <3>10. w[k + 1].left > 0 => r[k + 1].rest = <<>>
      <4> HIDE DEF take
      <4> QED BY SMTT(30), <2>4, <3>2, <3>3, <3>4
    <3> HIDE DEF L, e, take
    <3> QED BY <3>6, <3>8, <3>9, <3>10
  <2> QED BY <2>5, <2>6
<1>5. Same(Len(s))
  <2>1. Nat \subseteq K
    <3> HIDE DEF K
    <3> QED BY <1>3, <1>4, Induct
  <2> QED BY SMTT(30), <1>0, <2>1
<1>6. DOMAIN w[Len(s)].levels = 1..Len(w[Len(s)].levels)
  <2>1. w[Len(s)].levels \in Seq(Level)
    BY <1>0 DEF Quoted
  <2> QED BY <2>1
<1> QED BY <1>1, <1>2, <1>5, <1>6 DEF SameLevels

-------------------------------------------------------------------------------------
(* Sums over trades and over the places of a list.                                   *)

Trade == [taker : Ids, maker : Ids, price : MinPrice..MaxPrice, qty : 1..MaxQty]

Turnover(T) == MapThenSumSet(LAMBDA t : t.qty, T)
AmountAt(s, R) == MapThenSumSet(LAMBDA i : s[i].remaining, R)

LEMMA TotalOut ==
  \A S : IsFiniteSet(S) => \A x \in S : \A w \in [S -> Int], v \in [S \ {x} -> Int] :
      (\A y \in S \ {x} : v[y] = w[y]) => Total(w) = w[x] + Total(v)
  BY TotalTakes

LEMMA TradedOf ==
  ASSUME NEW T, T \subseteq Trade, IsFiniteSet(T)
  PROVE  /\ Turnover(T) \in Int
         /\ T = {} => Turnover(T) = 0
         /\ \A f \in T : Turnover(T) = f.qty + Turnover(T \ {f})
<1> DEFINE w(R) == [f \in R |-> f.qty]
<1>0. \A f \in Trade : f.qty \in Int
  BY BoundsAssumption DEF Trade
<1>1. ASSUME NEW R \in SUBSET T
      PROVE  Turnover(R) = Total(w(R)) /\ w(R) \in [R -> Int] /\ IsFiniteSet(R)
  <2> DEFINE v == w(R)
             Iter(h) == h = [s \in SUBSET R |-> IF s = {} THEN 0
                              ELSE Pick(s).qty + h[s \ {Pick(s)}]]
  <2>1. \A s \in SUBSET R : s # {} => v[Pick(s)] = Pick(s).qty
    BY Picked
  <2>2. ASSUME NEW h PROVE Iter(h) <=> Summing(h, R, v)
    <3> HIDE DEF v
    <3> QED BY <2>1 DEF Summing
  <2>3. Turnover(R) = (CHOOSE h : Iter(h))[R]
    BY DEF Turnover, MapThenSumSet, MapThenFoldSet, Pick
  <2>4. (CHOOSE h : Iter(h)) = (CHOOSE h : Summing(h, R, v))
    <3> HIDE DEF Iter, v
    <3> QED BY <2>2
  <2>5. DOMAIN v = R
    OBVIOUS
  <2>6. Turnover(R) = Total(v)
    <3> HIDE DEF Iter, v
    <3> QED BY <2>3, <2>4, <2>5 DEF Total
  <2>7. v \in [R -> Int] /\ IsFiniteSet(R)
    BY <1>0, FS_Subset
  <2> QED BY <2>6, <2>7
<1>2. Turnover(T) \in Int /\ (T = {} => Turnover(T) = 0)
  <2> HIDE DEF w
  <2> QED BY <1>1, TotalType
<1>4. \A f \in T : \A v \in [T -> Int], u \in [T \ {f} -> Int] :
         (\A y \in T \ {f} : u[y] = v[y]) => Total(v) = v[f] + Total(u)
  BY TotalOut
<1>3. ASSUME NEW f \in T PROVE Turnover(T) = f.qty + Turnover(T \ {f})
  <2>1. w(T)[f] = f.qty /\ \A y \in T \ {f} : w(T \ {f})[y] = w(T)[y]
    OBVIOUS
  <2>2. T \in SUBSET T /\ T \ {f} \in SUBSET T
    OBVIOUS
  <2>3. /\ Turnover(T) = Total(w(T)) /\ w(T) \in [T -> Int]
        /\ Turnover(T \ {f}) = Total(w(T \ {f})) /\ w(T \ {f}) \in [T \ {f} -> Int]
    BY <1>1, <2>2, Zenon
  <2> HIDE DEF w
  <2>4. Total(w(T)) = w(T)[f] + Total(w(T \ {f}))
    BY <1>4, <2>1, <2>3
  <2> QED BY <2>1, <2>3, <2>4
<1> QED BY <1>2, <1>3

\* One trade more.
LEMMA OneMore ==
  ASSUME NEW T \in SUBSET Trade, IsFiniteSet(T), NEW f \in Trade, f \notin T
  PROVE  /\ Turnover(T) \in Int /\ IsFiniteSet(T \cup {f})
         /\ Turnover(T \cup {f}) = Turnover(T) + f.qty
<1> DEFINE U == T \cup {f}
<1>1. U \subseteq Trade /\ f \in U /\ U \ {f} = T
  OBVIOUS
<1>2. IsFiniteSet(U)
  BY FS_AddElement
<1>3. f.qty \in Int
  BY BoundsAssumption DEF Trade
<1> HIDE DEF U
<1>4. Turnover(U) = f.qty + Turnover(T)
  BY <1>1, <1>2, TradedOf
<1>5. Turnover(T) \in Int
  BY TradedOf
<1> QED BY <1>2, <1>3, <1>4, <1>5 DEF U

\* What a list holds at one place, or at none.
LEMMA AmountOne ==
  ASSUME NEW s, NEW i
  PROVE  /\ s[i].remaining \in Int => AmountAt(s, {i}) = s[i].remaining
         /\ AmountAt(s, {}) = 0
<1> DEFINE w(R) == [j \in R |-> s[j].remaining]
<1>1. ASSUME NEW R \in SUBSET {i}, R = {} \/ s[i].remaining \in Int
      PROVE  AmountAt(s, R) = Total(w(R)) /\ w(R) \in [R -> Int] /\ IsFiniteSet(R)
  <2> DEFINE v == w(R)
             Iter(h) == h = [x \in SUBSET R |-> IF x = {} THEN 0
                              ELSE s[Pick(x)].remaining + h[x \ {Pick(x)}]]
  <2>1. \A x \in SUBSET R : x # {} => v[Pick(x)] = s[Pick(x)].remaining
    BY Picked
  <2>2. ASSUME NEW h PROVE Iter(h) <=> Summing(h, R, v)
    <3> HIDE DEF v
    <3> QED BY <2>1 DEF Summing
  <2>3. AmountAt(s, R) = (CHOOSE h : Iter(h))[R]
    BY DEF AmountAt, MapThenSumSet, MapThenFoldSet, Pick
  <2>4. (CHOOSE h : Iter(h)) = (CHOOSE h : Summing(h, R, v))
    <3> HIDE DEF Iter, v
    <3> QED BY <2>2
  <2>5. DOMAIN v = R
    OBVIOUS
  <2>6. AmountAt(s, R) = Total(v)
    <3> HIDE DEF Iter, v
    <3> QED BY <2>3, <2>4, <2>5 DEF Total
  <2>7. v \in [R -> Int]
    BY <1>1
  <2>8. IsFiniteSet(R)
    BY FS_Singleton, FS_Subset
  <2> QED BY <2>6, <2>7, <2>8
<1>2. {} \in SUBSET {i} /\ {i} \in SUBSET {i} /\ {i} \ {i} = {}
  OBVIOUS
<1>3. Total(w({})) = 0
  <2> HIDE DEF w
  <2> QED BY <1>1, <1>2, TotalType
<1>4. w({i})[i] = s[i].remaining
  OBVIOUS
<1>5. ASSUME s[i].remaining \in Int
      PROVE  Total(w({i})) = w({i})[i] + Total(w({}))
  <2> DEFINE a == w({i})
             b == w({})
  <2>1. a \in [{i} -> Int] /\ b \in [{i} \ {i} -> Int] /\ IsFiniteSet({i}) /\ i \in {i}
    <3> HIDE DEF w
    <3> QED BY <1>1, <1>2, <1>5
  <2>2. \A y \in {i} \ {i} : b[y] = a[y]
    OBVIOUS
  <2>3. \A x \in {i} : \A u \in [{i} -> Int], v \in [{i} \ {x} -> Int] :
           (\A y \in {i} \ {x} : v[y] = u[y]) => Total(u) = u[x] + Total(v)
    BY <2>1, TotalOut
  <2> HIDE DEF a, b
  <2>4. Total(a) = a[i] + Total(b)
    BY <2>1, <2>2, <2>3
  <2> QED BY <2>4 DEF a, b
<1> HIDE DEF w
<1> QED BY <1>1, <1>2, <1>3, <1>4, <1>5

-------------------------------------------------------------------------------------
(* A list names an order once.                                                       *)

NoTwice(s) == \A i, j \in DOMAIN s : s[i].id = s[j].id => i = j
IdsIn(s)   == {s[i].id : i \in DOMAIN s}
PlacesOf(s, id) == {i \in DOMAIN s : s[i].id = id}
Amount(s, id) == AmountAt(s, PlacesOf(s, id))

LEMMA AmountIs ==
  ASSUME NEW s \in Seq(Entry), NoTwice(s), NEW id
  PROVE  /\ id \notin IdsIn(s) => Amount(s, id) = 0
         /\ \A i \in DOMAIN s : s[i].id = id => Amount(s, id) = s[i].remaining
         /\ Amount(s, id) \in 0..MaxQty
<1>0. \A i \in DOMAIN s : s[i].remaining \in 1..MaxQty
  <2>1. \A i \in DOMAIN s : s[i] \in Entry
    OBVIOUS
  <2> QED BY <2>1 DEF Entry
<1>1. ASSUME id \notin IdsIn(s) PROVE Amount(s, id) = 0
  <2>1. PlacesOf(s, id) = {}
    BY <1>1 DEF IdsIn, PlacesOf
  <2> QED BY <2>1, AmountOne DEF Amount
<1>2. ASSUME NEW i \in DOMAIN s, s[i].id = id PROVE Amount(s, id) = s[i].remaining
  <2>1. PlacesOf(s, id) = {i}
    BY <1>2 DEF NoTwice, PlacesOf
  <2>2. s[i].remaining \in Int
    BY <1>0
  <2> QED BY <2>1, <2>2, AmountOne DEF Amount
<1>3. Amount(s, id) \in 0..MaxQty
  <2>1. CASE id \in IdsIn(s)
    <3>1. PICK i \in DOMAIN s : s[i].id = id
      BY <2>1 DEF IdsIn
    <3>2. s[i].remaining \in 1..MaxQty
      BY <1>0
    <3> QED BY <1>2, <3>1, <3>2, BoundsAssumption
  <2>2. CASE id \notin IdsIn(s)
    BY <1>1, <2>2, BoundsAssumption
  <2> QED BY <2>1, <2>2
<1> QED BY <1>1, <1>2, <1>3

LEMMA EntryIsSlot ==
  ASSUME NEW s \in Seq(Entry)
  PROVE  /\ s \in Seq(Slot) /\ Len(s) \in Nat /\ DOMAIN s = 1..Len(s)
         /\ \A i \in 1..Len(s) : /\ s[i] \in Entry /\ s[i] \in Slot
                                 /\ s[i].remaining \in 1..MaxQty /\ s[i].remaining > 0
                                 /\ s[i].id \in Ids /\ s[i].price \in MinPrice..MaxPrice
<1>1. \A e \in Entry : /\ e.id \in Ids /\ e.price \in MinPrice..MaxPrice
                       /\ e.remaining \in 1..MaxQty /\ e \in Slot
  BY BoundsAssumption DEF Entry, Slot
<1>2. \A i \in 1..Len(s) : s[i] \in Entry
  OBVIOUS
<1>3. Entry \subseteq Slot
  BY <1>1
<1>4. s \in Seq(Slot)
  BY <1>3
<1>5. \A i \in 1..Len(s) : s[i].remaining > 0
  BY <1>1, <1>2, BoundsAssumption
<1> QED BY <1>1, <1>2, <1>4, <1>5

\* What is left only falls.
LEMMA LeftFalls ==
  ASSUME NEW E, NEW q \in Nat, NEW s \in Seq(Slot), NEW r \in [0..Len(s) -> Acc],
         LoopOf(E, q, s, r), \A i \in 1..Len(s) : s[i].remaining > 0
  PROVE  \A k \in 0..Len(s) : r[k].left \in 0..q
<1> DEFINE K == {k \in Nat : k <= Len(s) => r[k].left \in 0..q}
<1>1. 0 \in K
  BY DEF LoopOf
<1>2. ASSUME NEW k \in Nat, k \in K PROVE k + 1 \in K
  <2> SUFFICES ASSUME k + 1 <= Len(s) PROVE r[k + 1].left \in 0..q
    OBVIOUS
  <2> DEFINE e == s[k + 1]
             take == Lesser(r[k].left, e.remaining)
  <2>1. k \in 0..Len(s) - 1 /\ k \in 0..Len(s) /\ k + 1 \in 1..Len(s)
    OBVIOUS
  <2>2. r[k].left \in 0..q /\ r[k] \in Acc /\ e \in Slot /\ e.remaining > 0
    BY <1>2, <2>1
  <2>3. r[k + 1] = MatchStep(E, r[k], e)
    BY <2>1 DEF LoopOf
  <2>4. e.remaining \in Nat
    BY SMTT(30), <2>2 DEF Slot
  <2>5. take \in 0..r[k].left
    BY <2>2, <2>4 DEF Lesser
  <2> HIDE DEF e
  <2>6. CASE r[k].left > 0 /\ r[k].rest = <<>> /\ e \in E
    <3>1. r[k + 1].left = r[k].left - take
      BY <2>3, <2>6 DEF MatchStep
    <3> HIDE DEF take
    <3> QED BY <2>2, <2>5, <3>1
  <2>7. CASE ~(r[k].left > 0 /\ r[k].rest = <<>> /\ e \in E)
    <3>1. r[k + 1] = [r[k] EXCEPT !.rest = Append(@, e)]
      BY <2>3, <2>7, Zenon DEF MatchStep
    <3>2. r[k + 1].left = r[k].left
      BY <2>2, <3>1 DEF Acc
    <3> QED BY <2>2, <3>2
  <2> QED BY <2>6, <2>7
<1>3. Nat \subseteq K
  <2> HIDE DEF K
  <2> QED BY <1>1, <1>2, Induct
<1> QED BY <1>3

\* What a run of the matching loop makes of the list.
Outcome(E, q, s, run, d, part) ==
    /\ d \in 0..Len(s) /\ part \in Nat
    /\ \A i \in 1..d : s[i] \in E
    /\ part > 0 => d < Len(s) /\ part < s[d + 1].remaining /\ run.left = 0 /\ s[d + 1] \in E
    /\ d < Len(s) => run.left = 0 \/ s[d + 1] \notin E
    /\ run.left \in 0..q
    /\ \E c \in [0..d -> Int] : /\ c[0] = q /\ run.left = c[d] - part
                                /\ \A i \in 1..d : c[i] = c[i - 1] - s[i].remaining
    /\ run.rest \in Seq(Slot) /\ LeftAlone(s, run.rest, Len(s), d, part)
    /\ run.matches \in Seq(Match) /\ Made(s, run.matches, d, part)

LEMMA LoopDoes ==
  ASSUME NEW E, NEW q \in Nat, NEW s \in Seq(Slot), \A i \in 1..Len(s) : s[i].remaining > 0
  PROVE  \E d, part : Outcome(E, q, s, MatchLoop(E, q, s), d, part)
<1> DEFINE n == Len(s)
<1>0. q \in Int /\ n \in Nat /\ n \in 0..n
  OBVIOUS
<1>1. PICK r \in [0..Len(s) -> Acc] : LoopOf(E, q, s, r) /\ MatchLoop(E, q, s) = r[Len(s)]
  BY <1>0, LoopRuns
<1>2. PICK d, part : Ran(E, s, r, n, d, part)
  BY <1>0, <1>1, RanThrough
<1>3. r[n].left \in 0..q /\ r[n] \in Acc
  BY <1>0, <1>1, LeftFalls
<1>4. r[n].rest \in Seq(Slot) /\ r[n].matches \in Seq(Match)
  BY <1>3 DEF Acc
<1>5. /\ UsedUp(E, s, r, n, d, part) /\ LeftAlone(s, r[n].rest, n, d, part)
      /\ Made(s, r[n].matches, d, part)
  BY <1>2 DEF Ran
<1>6. \E c \in [0..d -> Int] : /\ c[0] = q /\ r[n].left = c[d] - part
                               /\ \A i \in 1..d : c[i] = c[i - 1] - s[i].remaining
  <2>1. d \in 0..n
    BY <1>5 DEF UsedUp
  <2>2. \A i \in 0..n : r[i].left \in Int
    <3>1. \A i \in 0..n : r[i] \in Acc
      OBVIOUS
    <3> QED BY <3>1 DEF Acc
  <2> DEFINE c == [i \in 0..d |-> r[i].left]
  <2>3. c \in [0..d -> Int]
    BY <1>0, <2>1, <2>2
  <2>4. c[0] = q
    BY <1>0, <1>1, <2>1 DEF LoopOf
  <2>5. r[n].left = c[d] - part
    BY <1>0, <1>5, <2>1 DEF UsedUp
  <2>6. ASSUME NEW i \in 1..d PROVE c[i] = c[i - 1] - s[i].remaining
    <3>1. i \in 0..d /\ i - 1 \in 0..d
      BY <1>0, <2>1
    <3> QED BY <1>5, <3>1 DEF UsedUp
  <2> HIDE DEF c, n
  <2> QED BY <2>3, <2>4, <2>5, <2>6
<1>7. Outcome(E, q, s, r[n], d, part)
  <2>1. /\ d \in 0..n /\ part \in Nat
        /\ \A i \in 1..d : s[i] \in E
        /\ part > 0 => d < n /\ part < s[d + 1].remaining /\ r[n].left = 0 /\ s[d + 1] \in E
        /\ d < n => r[n].left = 0 \/ s[d + 1] \notin E
    <3> HIDE DEF n
    <3> QED BY <1>5 DEF UsedUp
  <2> QED BY <1>3, <1>4, <1>5, <1>6, <2>1 DEF Outcome
<1> QED BY <1>1, <1>7

-------------------------------------------------------------------------------------
(* The list a run leaves, and the trades it makes.                                   *)

Leaves(s, rest, d, part) ==
    /\ rest \in Seq(Entry) /\ Len(rest) = Len(s) - d
    /\ \A j \in 1..Len(rest) :
          /\ d + j \in 1..Len(s) /\ rest[j].id = s[d + j].id
          /\ rest[j].price = s[d + j].price /\ rest[j].seq = s[d + j].seq
          /\ rest[j].remaining = IF j = 1 THEN s[d + 1].remaining - part
                                 ELSE s[d + j].remaining
    /\ NoTwice(rest) /\ IdsIn(rest) \subseteq IdsIn(s)

\* The list keeps its order; nothing is named twice that was not.
LEMMA RestIs ==
  ASSUME NEW E, NEW q \in 1..MaxQty, NEW s \in Seq(Entry), NoTwice(s),
         NEW run, NEW d, NEW part, Outcome(E, q, s, run, d, part)
  PROVE  Leaves(s, run.rest, d, part)
<1> DEFINE t == run.rest
<1>1. /\ d \in 0..Len(s) /\ part \in Nat /\ t \in Seq(Slot) /\ Len(t) = Len(s) - d
      /\ \A j \in 1..Len(s) - d : t[j] = IF j = 1 THEN Lessened(s[d + 1], part) ELSE s[d + j]
      /\ part > 0 => d < Len(s) /\ part < s[d + 1].remaining
  BY DEF Outcome, LeftAlone
<1>2. /\ Len(s) \in Nat /\ DOMAIN s = 1..Len(s)
      /\ \A i \in 1..Len(s) : s[i] \in Entry /\ s[i].remaining \in 1..MaxQty
  BY EntryIsSlot
<1>3. \A e \in Entry : /\ e.id \in Ids /\ e.price \in MinPrice..MaxPrice
                       /\ e.remaining \in 1..MaxQty /\ e.seq \in Nat
  BY DEF Entry
<1> HIDE DEF t
<1>4. ASSUME NEW j \in 1..Len(t)
      PROVE  /\ t[j] \in Entry /\ d + j \in 1..Len(s) /\ t[j].id = s[d + j].id
             /\ t[j].price = s[d + j].price /\ t[j].seq = s[d + j].seq
             /\ t[j].remaining = IF j = 1 THEN s[d + 1].remaining - part
                                 ELSE s[d + j].remaining
  <2>1. j \in 1..Len(s) - d /\ d + j \in 1..Len(s)
    BY <1>1, <1>2
  <2>2. CASE j = 1
    <3> DEFINE e == s[d + 1]
    <3>1. e \in Entry /\ e.remaining \in 1..MaxQty
      BY <1>2, <2>1, <2>2
    <3>2. e.remaining - part \in 1..MaxQty
      <4>1. part > 0 => part < e.remaining
        BY <1>1
      <4> HIDE DEF e
      <4> QED BY SMTT(30), <1>1, <3>1, <4>1, BoundsAssumption
    <3>3. t[j] = [e EXCEPT !.remaining = @ - part]
      BY <1>1, <2>1, <2>2 DEF Lessened
    <3> HIDE DEF e
    <3>4. /\ t[j] \in Entry /\ t[j].id = e.id /\ t[j].price = e.price /\ t[j].seq = e.seq
          /\ t[j].remaining = e.remaining - part
      BY <3>1, <3>2, <3>3 DEF Entry
    <3> QED BY <2>1, <2>2, <3>4 DEF e
  <2>3. CASE j # 1
    <3>1. t[j] = s[d + j]
      BY <1>1, <2>1, <2>3
    <3> QED BY <1>2, <2>1, <2>3, <3>1
  <2> QED BY <2>2, <2>3
<1>5. DOMAIN t = 1..Len(t) /\ Len(t) \in Nat
  BY <1>1
<1>6. t \in Seq(Entry)
  <2>1. t = [j \in 1..Len(t) |-> t[j]]
    BY <1>1
  <2> QED BY <1>4, <1>5, <2>1
<1>7. NoTwice(t)
  <2>1. ASSUME NEW i \in 1..Len(t), NEW j \in 1..Len(t), t[i].id = t[j].id PROVE i = j
    <3>1. d + i \in DOMAIN s /\ d + j \in DOMAIN s /\ s[d + i].id = s[d + j].id
      BY <1>2, <1>4, <2>1
    <3>2. d + i = d + j
      BY <3>1 DEF NoTwice
    <3> QED BY <1>1, <3>2
  <2> QED BY <1>5, <2>1 DEF NoTwice
<1>8. IdsIn(t) \subseteq IdsIn(s)
  BY SMTT(30), <1>2, <1>4, <1>5 DEF IdsIn
<1> QED BY <1>1, <1>4, <1>6, <1>7, <1>8 DEF t, Leaves

\* The trade of the j-th match.
TradeAt(id, ms, j) == [taker |-> id, maker |-> ms[j].id, price |-> ms[j].price, qty |-> ms[j].qty]

Matched(E, s, id, ms, d, part) ==
    /\ Len(ms) \in 0..Len(s) /\ DOMAIN ms = 1..Len(ms) /\ d <= Len(ms)
    /\ \A j \in 1..Len(ms) :
          /\ ms[j].id = s[j].id /\ ms[j].price = s[j].price /\ s[j] \in E
          /\ ms[j].qty = (IF j <= d THEN s[j].remaining ELSE part)
          /\ ms[j].qty \in 1..MaxQty
          /\ TradeAt(id, ms, j) \in Trade
    /\ TradesOf(id, ms) = {TradeAt(id, ms, j) : j \in 1..Len(ms)}

LEMMA MatchesAre ==
  ASSUME NEW E, NEW q \in 1..MaxQty, NEW s \in Seq(Entry), NoTwice(s), NEW id \in Ids,
         NEW run, NEW d, NEW part, Outcome(E, q, s, run, d, part)
  PROVE  Matched(E, s, id, run.matches, d, part)
<1> DEFINE ms == run.matches
<1>1. /\ d \in 0..Len(s) /\ part \in Nat /\ ms \in Seq(Match)
      /\ Len(ms) = IF part > 0 THEN d + 1 ELSE d
      /\ \A j \in DOMAIN ms : ms[j] = [id |-> s[j].id, price |-> s[j].price,
                                       qty |-> IF j <= d THEN s[j].remaining ELSE part]
      /\ part > 0 => d < Len(s) /\ part < s[d + 1].remaining /\ s[d + 1] \in E
      /\ \A i \in 1..d : s[i] \in E
  BY DEF Outcome, Made
<1>2. /\ Len(s) \in Nat /\ \A i \in 1..Len(s) : /\ s[i].remaining \in 1..MaxQty
                                                /\ s[i].id \in Ids
                                                /\ s[i].price \in MinPrice..MaxPrice
  BY EntryIsSlot
<1> HIDE DEF ms
<1>3. Len(ms) \in 0..Len(s) /\ DOMAIN ms = 1..Len(ms) /\ d <= Len(ms)
  BY <1>1, <1>2
<1>4. ASSUME NEW j \in 1..Len(ms)
      PROVE  /\ ms[j].id = s[j].id /\ ms[j].price = s[j].price /\ s[j] \in E
             /\ ms[j].qty = (IF j <= d THEN s[j].remaining ELSE part)
             /\ ms[j].qty \in 1..MaxQty
             /\ TradeAt(id, ms, j) \in Trade
  <2>1. /\ ms[j].id = s[j].id /\ ms[j].price = s[j].price
        /\ ms[j].qty = (IF j <= d THEN s[j].remaining ELSE part)
    <3>1. ms[j] = [id |-> s[j].id, price |-> s[j].price,
                   qty |-> IF j <= d THEN s[j].remaining ELSE part]
      BY <1>1, <1>3
    <3> QED BY <3>1
  <2>2. j \in 1..Len(s) /\ (j <= d \/ (j = d + 1 /\ part > 0))
    BY <1>1, <1>2, <1>3
  <2>3. s[j] \in E /\ ms[j].qty \in 1..MaxQty
    <3>1. CASE j <= d
      BY <1>1, <1>2, <2>1, <2>2, <3>1
    <3>2. CASE ~(j <= d)
      <4>1. j = d + 1 /\ part > 0 /\ ms[j].qty = part /\ s[j] \in E /\ part < s[j].remaining
        BY <1>1, <2>1, <2>2, <3>2
      <4>2. s[j].remaining \in 1..MaxQty
        BY <1>2, <2>2
      <4> QED BY <1>1, <4>1, <4>2, BoundsAssumption
    <3> QED BY <3>1, <3>2
  <2>4. ms[j].id \in Ids /\ ms[j].price \in MinPrice..MaxPrice
    BY <1>2, <2>1, <2>2
  <2>5. TradeAt(id, ms, j) \in Trade
    BY <2>3, <2>4 DEF TradeAt, Trade
  <2> QED BY <2>1, <2>3, <2>5
<1>5. TradesOf(id, ms) = {TradeAt(id, ms, j) : j \in 1..Len(ms)}
  BY <1>3 DEF TradesOf, TradeAt
<1> QED BY <1>3, <1>4, <1>5 DEF ms, Matched

\* The trades of a run add up to what was taken of the incoming order.
LEMMA TakerGets ==
  ASSUME NEW E, NEW q \in 1..MaxQty, NEW s \in Seq(Entry), NoTwice(s), NEW id \in Ids,
         NEW run, NEW d, NEW part, Outcome(E, q, s, run, d, part)
  PROVE  /\ TradesOf(id, run.matches) \subseteq Trade
         /\ IsFiniteSet(TradesOf(id, run.matches))
         /\ Turnover(TradesOf(id, run.matches)) = q - run.left
<1> DEFINE ms == run.matches
           N(j) == {TradeAt(id, ms, i) : i \in 1..j}
<1>1. /\ Len(ms) \in 0..Len(s) /\ DOMAIN ms = 1..Len(ms) /\ d <= Len(ms)
      /\ \A j \in 1..Len(ms) :
               /\ ms[j].id = s[j].id
               /\ ms[j].qty = (IF j <= d THEN s[j].remaining ELSE part)
               /\ TradeAt(id, ms, j) \in Trade
      /\ TradesOf(id, ms) = {TradeAt(id, ms, j) : j \in 1..Len(ms)}
  <2>1. Matched(E, s, id, ms, d, part)
    BY MatchesAre
  <2> HIDE DEF ms
  <2> QED BY <2>1 DEF Matched
<1>2. /\ d \in 0..Len(s) /\ part \in Nat /\ run.left \in 0..q
      /\ Len(ms) = IF part > 0 THEN d + 1 ELSE d
  BY DEF Outcome, Made
<1>3. PICK c \in [0..d -> Int] : /\ c[0] = q /\ run.left = c[d] - part
                                 /\ \A i \in 1..d : c[i] = c[i - 1] - s[i].remaining
  BY DEF Outcome
<1>4. Len(s) \in Nat /\ DOMAIN s = 1..Len(s) /\ \A i \in 1..Len(s) : s[i].remaining \in 1..MaxQty
  BY EntryIsSlot
<1>5. \A i, j \in 1..Len(ms) : TradeAt(id, ms, i) = TradeAt(id, ms, j) => i = j
  <2>1. \A i, j \in 1..Len(ms) : ms[i].id = ms[j].id => i = j
    <3>1. \A i \in 1..Len(ms) : i \in DOMAIN s /\ ms[i].id = s[i].id
      BY <1>1, <1>4
    <3> HIDE DEF ms
    <3> QED BY <3>1 DEF NoTwice
  <2> HIDE DEF ms
  <2> QED BY <2>1 DEF TradeAt
<1>6. ASSUME NEW j \in 0..Len(ms) - 1, N(j) \subseteq Trade, IsFiniteSet(N(j))
      PROVE  /\ N(j + 1) \subseteq Trade /\ IsFiniteSet(N(j + 1))
             /\ Turnover(N(j)) \in Int /\ Turnover(N(j + 1)) = Turnover(N(j)) + ms[j + 1].qty
  <2> DEFINE f == TradeAt(id, ms, j + 1)
  <2>1. j + 1 \in 1..Len(ms)
    BY <1>1, <1>4
  <2>2. f \in Trade /\ f.qty = ms[j + 1].qty
    BY <1>1, <2>1 DEF TradeAt
  <2>3. N(j + 1) = N(j) \cup {f}
    <3>1. \A i : i \in 1..j + 1 <=> i \in 1..j \/ i = j + 1
      BY <2>1, <1>1, <1>4
    <3> HIDE DEF ms
    <3> QED BY <3>1
  <2>4. f \notin N(j)
    <3>1. \A i \in 1..j : i \in 1..Len(ms) /\ i # j + 1
      BY <1>1, <1>4
    <3> HIDE DEF ms
    <3> QED BY <1>5, <2>1, <3>1
  <2> HIDE DEF f, N
  <2> QED BY ZenonT(40), <1>6, <2>2, <2>3, <2>4, OneMore
<1> DEFINE K == {j \in Nat : j <= d => /\ N(j) \subseteq Trade /\ IsFiniteSet(N(j))
                                       /\ Turnover(N(j)) = q - c[j]}
<1>7. 0 \in K
  <2>1. N(0) = {}
    OBVIOUS
  <2>2. IsFiniteSet({}) /\ Turnover({}) = 0
    BY FS_EmptySet, TradedOf
  <2>3. q - c[0] = 0
    BY <1>3
  <2> HIDE DEF N
  <2> QED BY <2>1, <2>2, <2>3
<1>8. ASSUME NEW j \in Nat, j \in K PROVE j + 1 \in K
  <2> SUFFICES ASSUME j + 1 <= d
               PROVE  /\ N(j + 1) \subseteq Trade /\ IsFiniteSet(N(j + 1))
                      /\ Turnover(N(j + 1)) = q - c[j + 1]
    OBVIOUS
  <2>1. /\ j \in 0..Len(ms) - 1 /\ j + 1 \in 1..d /\ (j + 1) - 1 = j /\ j \in 0..d
        /\ j + 1 \in 1..Len(ms) /\ j + 1 \in 1..Len(s)
    BY <1>1, <1>2, <1>4
  <2>2. N(j) \subseteq Trade /\ IsFiniteSet(N(j)) /\ Turnover(N(j)) = q - c[j]
    BY <1>8, <2>1
  <2>3. /\ N(j + 1) \subseteq Trade /\ IsFiniteSet(N(j + 1))
        /\ Turnover(N(j + 1)) = Turnover(N(j)) + ms[j + 1].qty
    <3> HIDE DEF N, ms, K
    <3> QED BY <1>6, <2>1, <2>2
  <2>4. ms[j + 1].qty = s[j + 1].remaining
    BY <1>1, <2>1
  <2>5. c[j + 1] = c[j] - s[j + 1].remaining /\ c[j] \in Int /\ s[j + 1].remaining \in Int
    BY <1>3, <1>4, <2>1
  <2> HIDE DEF N, ms, K
  <2> QED BY <2>2, <2>3, <2>4, <2>5
<1>9. N(d) \subseteq Trade /\ IsFiniteSet(N(d)) /\ Turnover(N(d)) = q - c[d]
  <2>1. Nat \subseteq K
    <3> HIDE DEF K
    <3> QED BY <1>7, <1>8, Induct
  <2>2. d \in Nat /\ d <= d
    BY <1>2, <1>4
  <2>3. d \in K
    BY <2>1, <2>2
  <2> HIDE DEF N
  <2> QED BY <2>2, <2>3
<1>10. /\ N(Len(ms)) \subseteq Trade /\ IsFiniteSet(N(Len(ms)))
       /\ Turnover(N(Len(ms))) = q - run.left
  <2>0. c[d] \in Int
    BY <1>2
  <2>1. CASE part > 0
    <3>1. d \in 0..Len(ms) - 1 /\ Len(ms) = d + 1
      BY <1>2, <1>4, <2>1
    <3>2. /\ N(d + 1) \subseteq Trade /\ IsFiniteSet(N(d + 1))
          /\ Turnover(N(d + 1)) = Turnover(N(d)) + ms[d + 1].qty
      <4> HIDE DEF N, ms
      <4> QED BY <1>6, <1>9, <3>1
    <3>3. ms[d + 1].qty = part
      <4>1. d + 1 \in 1..Len(ms) /\ ~(d + 1 <= d)
        BY <1>2, <1>4, <3>1
      <4> HIDE DEF ms
      <4> QED BY <1>1, <4>1
    <3> HIDE DEF N, ms, K
    <3> QED BY <1>2, <1>3, <1>9, <2>0, <3>1, <3>2, <3>3
  <2>2. CASE ~(part > 0)
    <3>1. part = 0 /\ Len(ms) = d
      BY <1>2, <2>2
    <3> HIDE DEF N, ms, K
    <3> QED BY <1>2, <1>3, <1>9, <2>0, <3>1
  <2> QED BY <2>1, <2>2
<1> QED BY <1>1, <1>10

\* What a resting order loses is what its trade says.
LEMMA MakerGives ==
  ASSUME NEW E, NEW q \in 1..MaxQty, NEW s \in Seq(Entry), NoTwice(s), NEW id \in Ids,
         NEW run, NEW d, NEW part, Outcome(E, q, s, run, d, part), NEW m
  PROVE  LET N == {t \in TradesOf(id, run.matches) : t.maker = m} IN
         \/ N = {} /\ Amount(s, m) = Amount(run.rest, m)
         \/ \E t \in Trade : N = {t} /\ Amount(s, m) = Amount(run.rest, m) + t.qty
<1> DEFINE ms == run.matches
           rest == run.rest
           N == {t \in TradesOf(id, ms) : t.maker = m}
<1>1. /\ Len(ms) \in 0..Len(s) /\ DOMAIN ms = 1..Len(ms) /\ d <= Len(ms)
      /\ \A j \in 1..Len(ms) :
               /\ ms[j].id = s[j].id
               /\ ms[j].qty = (IF j <= d THEN s[j].remaining ELSE part)
               /\ TradeAt(id, ms, j) \in Trade
      /\ TradesOf(id, ms) = {TradeAt(id, ms, j) : j \in 1..Len(ms)}
  <2>1. Matched(E, s, id, ms, d, part)
    BY MatchesAre
  <2> HIDE DEF ms
  <2> QED BY <2>1 DEF Matched
<1>2. /\ d \in 0..Len(s) /\ part \in Nat
      /\ Len(ms) = IF part > 0 THEN d + 1 ELSE d
  BY DEF Outcome, Made
<1>3. /\ rest \in Seq(Entry) /\ Len(rest) = Len(s) - d
      /\ \A j \in 1..Len(rest) :
            /\ d + j \in 1..Len(s) /\ rest[j].id = s[d + j].id
            /\ rest[j].remaining = IF j = 1 THEN s[d + 1].remaining - part
                                   ELSE s[d + j].remaining
      /\ NoTwice(rest) /\ IdsIn(rest) \subseteq IdsIn(s)
  <2>1. Leaves(s, rest, d, part)
    BY RestIs
  <2> HIDE DEF rest
  <2> QED BY <2>1 DEF Leaves
<1>4. Len(s) \in Nat /\ DOMAIN s = 1..Len(s) /\ \A i \in 1..Len(s) : s[i].remaining \in 1..MaxQty
  BY EntryIsSlot
<1>5. \A j \in 1..Len(ms) : /\ TradeAt(id, ms, j).maker = ms[j].id
                            /\ TradeAt(id, ms, j).qty = ms[j].qty
  BY DEF TradeAt
<1>6. DOMAIN rest = 1..Len(rest)
  BY <1>3
<1> HIDE DEF ms, rest
<1>7. CASE m \notin IdsIn(s)
  <2>1. Amount(s, m) = 0 /\ Amount(rest, m) = 0
    BY <1>3, <1>7, AmountIs
  <2>2. N = {}
    <3>1. \A j \in 1..Len(ms) : ms[j].id \in IdsIn(s)
      <4>1. \A j \in 1..Len(ms) : j \in DOMAIN s /\ ms[j].id = s[j].id
        BY <1>1, <1>4
      <4> QED BY <4>1 DEF IdsIn
    <3> QED BY <1>1, <1>5, <1>7, <3>1
  <2> QED BY <2>1, <2>2 DEF ms, rest
<1>8. CASE m \in IdsIn(s)
  <2>1. PICK i \in 1..Len(s) : s[i].id = m
    BY <1>4, <1>8 DEF IdsIn
  <2>2. Amount(s, m) = s[i].remaining /\ s[i].remaining \in 1..MaxQty
    BY <1>4, <2>1, AmountIs
  <2>3. \A j \in 1..Len(s) : s[j].id = m => j = i
    BY <1>4, <2>1 DEF NoTwice
  <2>4. \A j \in 1..Len(ms) : ms[j].id = m => j = i
    BY <1>1, <1>4, <2>3
  <2>5. ASSUME i <= Len(ms)
        PROVE  /\ N = {TradeAt(id, ms, i)} /\ TradeAt(id, ms, i).qty = ms[i].qty
               /\ TradeAt(id, ms, i) \in Trade
               /\ ms[i].qty = (IF i <= d THEN s[i].remaining ELSE part)
    <3>1. i \in 1..Len(ms) /\ ms[i].id = m
      BY <1>1, <1>4, <2>1, <2>5
    <3> QED BY <1>1, <1>5, <2>4, <3>1
  <2>6. ASSUME ~(i <= Len(ms)) PROVE N = {}
    <3>1. \A j \in 1..Len(ms) : j # i
      BY <1>1, <1>4, <2>6
    <3> QED BY <1>1, <1>5, <2>4, <3>1
  <2>7. CASE i <= d
    <3>1. i <= Len(ms)
      BY <1>1, <1>2, <1>4, <2>7
    <3>2. m \notin IdsIn(rest)
      <4>1. \A j \in 1..Len(rest) : rest[j].id # m
        BY SMTT(30), <1>2, <1>3, <1>4, <2>3, <2>7
      <4> QED BY <1>6, <4>1 DEF IdsIn
    <3>3. Amount(rest, m) = 0
      BY <1>3, <3>2, AmountIs
    <3>4. TradeAt(id, ms, i).qty = s[i].remaining
      BY <2>5, <2>7, <3>1
    <3> QED BY <2>2, <2>5, <3>1, <3>3, <3>4 DEF ms, rest
  <2>8. CASE ~(i <= d)
    <3> DEFINE j == i - d
    <3>1. j \in 1..Len(rest) /\ d + j = i /\ (j = 1 <=> i = d + 1)
      BY SMTT(30), <1>2, <1>3, <1>4, <2>8
    <3>2. rest[j].id = m
      BY <1>3, <2>1, <3>1
    <3>3. Amount(rest, m) = rest[j].remaining
      BY <1>3, <1>6, <3>1, <3>2, AmountIs
    <3>4. CASE i = d + 1 /\ part > 0
      <4>1. rest[j].remaining = s[i].remaining - part
        BY <1>3, <3>1, <3>4
      <4>2. i <= Len(ms)
        BY <1>2, <1>4, <3>4
      <4>3. TradeAt(id, ms, i).qty = part
        BY <2>5, <2>8, <4>2
      <4>4. Amount(s, m) = Amount(rest, m) + TradeAt(id, ms, i).qty
        BY <1>2, <2>2, <3>3, <4>1, <4>3
      <4> QED BY <2>5, <4>2, <4>4 DEF ms, rest
    <3>5. CASE ~(i = d + 1 /\ part > 0)
      <4>1. ~(i <= Len(ms))
        BY <1>2, <1>4, <2>8, <3>5
      <4>2. rest[j].remaining = s[i].remaining
        <5>1. CASE i = d + 1
          <6>1. part = 0 /\ rest[j].remaining = s[i].remaining - part
            BY <1>2, <1>3, <3>1, <3>5, <5>1
          <6> QED BY <2>2, <6>1
        <5>2. CASE i # d + 1
          BY <1>3, <3>1, <5>2
        <5> QED BY <5>1, <5>2
      <4> QED BY <2>2, <2>6, <3>3, <4>1, <4>2 DEF ms, rest
    <3> QED BY <3>4, <3>5
  <2> QED BY <2>7, <2>8
<1> QED BY <1>7, <1>8

Inserted(s, e, p, t) ==
    /\ t \in Seq(Entry) /\ Len(t) = Len(s) + 1 /\ p \in 1..Len(s) + 1
    /\ \A j \in 1..Len(s) + 1 : t[j] = IF j < p THEN s[j] ELSE IF j = p THEN e ELSE s[j - 1]

PlaceFor(side, s, e) == 1 + Cardinality({i \in DOMAIN s : ~SortsBefore(side, e, s[i])})

\* A sorted insertion.
LEMMA InsertIs ==
  ASSUME NEW side, NEW s \in Seq(Entry), NEW e \in Entry
  PROVE  Inserted(s, e, PlaceFor(side, s, e), InsertSorted(side, s, e))
<1> DEFINE R == {i \in DOMAIN s : ~SortsBefore(side, e, s[i])}
           p == 1 + Cardinality(R)
           n == Len(s)
           a == SubSeq(s, 1, p - 1)
           b == SubSeq(s, p, n)
<1>1. n \in Nat /\ DOMAIN s = 1..n
  OBVIOUS
<1>2. p \in 1..n + 1
  <2>1. R \subseteq 1..n
    BY <1>1
  <2>2. IsFiniteSet(1..n) /\ Cardinality(1..n) = n
    <3>1. Cardinality(1..n) = IF 1 <= n THEN n - 1 + 1 ELSE 0
      BY SMTT(30), <1>1, FS_Interval
    <3>2. IsFiniteSet(1..n)
      BY <1>1, FS_Interval
    <3> HIDE DEF n
    <3> QED BY <1>1, <3>1, <3>2
  <2> HIDE DEF R, n
  <2>3. IsFiniteSet(R) /\ Cardinality(R) <= n
    BY ZenonT(40), <2>1, <2>2, FS_Subset
  <2>4. Cardinality(R) \in Nat
    BY <2>3, FS_CardinalityType
  <2> QED BY <1>1, <2>3, <2>4
<1> HIDE DEF p
<1>3. /\ a \in Seq(Entry) /\ Len(a) = p - 1 /\ \A j \in 1..p - 1 : a[j] = s[j]
      /\ b \in Seq(Entry) /\ Len(b) = (n + 1) - p
      /\ \A j \in 1..(n + 1) - p : b[j] = s[(p - 1) + j]
  <2>1. SubSeq(s, 1, p - 1) \in Seq(Entry) /\ SubSeq(s, p, n) \in Seq(Entry)
    BY <1>1, <1>2, SubSeqProperties
  <2>2. /\ Len(a) = p - 1 /\ \A j \in 1..p - 1 : a[j] = s[j]
    BY <1>1, <1>2, SubSeqProperties
  <2>3. Len(b) = (n + 1) - p /\ \A j \in 1..(n + 1) - p : b[j] = s[(p - 1) + j]
    BY <1>1, <1>2, SubSeqProperties
  <2> QED BY <2>1, <2>2, <2>3
<1>4. InsertSorted(side, s, e) = (a \o <<e>>) \o b
  BY DEF InsertSorted, InsertAt, p
<1>5. <<e>> \in Seq(Entry) /\ Len(<<e>>) = 1 /\ <<e>>[1] = e
  OBVIOUS
<1> DEFINE t == (a \o <<e>>) \o b
<1>6. /\ t \in Seq(Entry) /\ Len(t) = n + 1
      /\ \A j \in 1..n + 1 : t[j] = IF j < p THEN s[j] ELSE IF j = p THEN e ELSE s[j - 1]
  <2> DEFINE u == a \o <<e>>
  <2>1. /\ u \in Seq(Entry) /\ Len(u) = p
        /\ \A j \in 1..p : u[j] = IF j < p THEN s[j] ELSE e
    <3> HIDE DEF a, b, n
    <3> QED BY <1>1, <1>2, <1>3, <1>5, ConcatProperties
  <2> HIDE DEF u, a, b, n
  <2>2. /\ u \o b \in Seq(Entry) /\ Len(u \o b) = Len(u) + Len(b)
        /\ \A j \in 1..Len(u) + Len(b) : (u \o b)[j] = IF j <= Len(u) THEN u[j] ELSE b[j - Len(u)]
    BY ZenonT(40), <1>3, <2>1, ConcatProperties
  <2>3. ASSUME NEW j \in 1..n + 1
        PROVE  (u \o b)[j] = IF j < p THEN s[j] ELSE IF j = p THEN e ELSE s[j - 1]
    <3>1. (u \o b)[j] = IF j <= p THEN u[j] ELSE b[j - p]
      BY SMTT(30), <1>1, <1>2, <1>3, <2>1, <2>2
    <3>2. CASE j <= p
      BY <1>1, <1>2, <2>1, <3>1, <3>2
    <3>3. CASE ~(j <= p)
      <4>1. j - p \in 1..(n + 1) - p /\ (p - 1) + (j - p) = j - 1 /\ ~(j < p) /\ j # p
        BY <1>1, <1>2, <3>3
      <4> QED BY <1>3, <3>1, <3>3, <4>1
    <3> QED BY <3>2, <3>3
  <2>4. Len(u) + Len(b) = n + 1
    BY <1>1, <1>2, <1>3, <2>1
  <2> QED BY <2>2, <2>3, <2>4 DEF u
<1> HIDE DEF t, a, b
<1>7. /\ InsertSorted(side, s, e) = t
  BY <1>4 DEF t
<1>8. p = PlaceFor(side, s, e)
  BY DEF p, PlaceFor
<1> QED BY <1>2, <1>6, <1>7, <1>8 DEF Inserted

LEMMA InsertCounts ==
  ASSUME NEW s \in Seq(Entry), NoTwice(s), NEW e \in Entry, e.id \notin IdsIn(s),
         NEW p, NEW t, Inserted(s, e, p, t)
  PROVE  /\ NoTwice(t) /\ IdsIn(t) = IdsIn(s) \cup {e.id}
         /\ \A m : Amount(t, m) = IF m = e.id THEN e.remaining ELSE Amount(s, m)
<1> DEFINE n == Len(s)
           At(j) == IF j < p THEN j ELSE j - 1
           To(i) == IF i < p THEN i ELSE i + 1
<1>1. /\ t \in Seq(Entry) /\ Len(t) = n + 1 /\ p \in 1..n + 1
      /\ \A j \in 1..n + 1 : t[j] = IF j < p THEN s[j] ELSE IF j = p THEN e ELSE s[j - 1]
      /\ n \in Nat /\ DOMAIN s = 1..n /\ DOMAIN t = 1..n + 1
  BY DEF Inserted
<1> HIDE DEF n
<1>2. t[p] = e
  BY <1>1
<1>3. ASSUME NEW j \in 1..n + 1, j # p
      PROVE  At(j) \in 1..n /\ t[j] = s[At(j)] /\ To(At(j)) = j
  <2>1. CASE j < p
    BY <1>1, <2>1
  <2>2. CASE j > p
    <3>1. At(j) = j - 1 /\ j - 1 \in 1..n /\ ~(j - 1 < p) /\ ~(j < p) /\ (j - 1) + 1 = j
      BY <1>1, <2>2
    <3> QED BY <1>1, <1>3, <3>1
  <2> QED BY <1>1, <1>3, <2>1, <2>2
<1>4. ASSUME NEW i \in 1..n PROVE To(i) \in 1..n + 1 /\ To(i) # p /\ t[To(i)] = s[i]
  <2>1. CASE i < p
    BY <1>1, <2>1
  <2>2. CASE ~(i < p)
    <3>1. To(i) = i + 1 /\ i + 1 \in 1..n + 1 /\ ~(i + 1 < p) /\ i + 1 # p /\ (i + 1) - 1 = i
      BY <1>1, <2>2
    <3> QED BY <1>1, <3>1
  <2> QED BY <2>1, <2>2
<1>5. \A i \in 1..n : s[i].id # e.id
  BY <1>1 DEF IdsIn
<1> HIDE DEF At, To
<1>6. NoTwice(t)
  <2>1. ASSUME NEW i \in 1..n + 1, NEW j \in 1..n + 1, t[i].id = t[j].id PROVE i = j
    <3>1. CASE i = p
      BY <1>2, <1>3, <1>5, <2>1, <3>1
    <3>2. CASE j = p
      BY <1>2, <1>3, <1>5, <2>1, <3>2
    <3>3. CASE i # p /\ j # p
      <4>1. At(i) \in 1..n /\ At(j) \in 1..n /\ s[At(i)].id = s[At(j)].id
        BY <1>3, <2>1, <3>3
      <4>2. At(i) = At(j)
        BY <1>1, <4>1 DEF NoTwice
      <4> QED BY <1>3, <3>3, <4>2
    <3> QED BY <3>1, <3>2, <3>3
  <2> QED BY <1>1, <2>1 DEF NoTwice
<1>7. IdsIn(t) = IdsIn(s) \cup {e.id}
  <2>1. ASSUME NEW x \in IdsIn(t) PROVE x \in IdsIn(s) \cup {e.id}
    <3>1. PICK j \in 1..n + 1 : x = t[j].id
      BY <1>1 DEF IdsIn
    <3> QED BY <1>1, <1>2, <1>3, <3>1 DEF IdsIn
  <2>2. ASSUME NEW x \in IdsIn(s) PROVE x \in IdsIn(t)
    <3>1. PICK i \in 1..n : x = s[i].id
      BY <1>1 DEF IdsIn
    <3>2. To(i) \in DOMAIN t /\ t[To(i)].id = x
      BY <1>1, <1>4, <3>1
    <3> QED BY <3>2 DEF IdsIn
  <2>3. e.id \in IdsIn(t)
    <3>1. p \in DOMAIN t
      BY <1>1
    <3> QED BY <1>2, <3>1 DEF IdsIn
  <2> QED BY <2>1, <2>2, <2>3
<1>8. ASSUME NEW m PROVE Amount(t, m) = IF m = e.id THEN e.remaining ELSE Amount(s, m)
  <2>1. CASE m = e.id
    <3>1. p \in DOMAIN t /\ t[p].id = m
      BY <1>1, <1>2, <2>1
    <3> QED BY <1>1, <1>2, <1>6, <2>1, <3>1, AmountIs
  <2>2. CASE m # e.id /\ m \in IdsIn(s)
    <3>1. PICK i \in 1..n : m = s[i].id
      BY <1>1, <2>2 DEF IdsIn
    <3>2. To(i) \in DOMAIN t /\ t[To(i)].id = m /\ t[To(i)].remaining = s[i].remaining
      BY <1>1, <1>4, <3>1
    <3>3. Amount(s, m) = s[i].remaining
      BY <1>1, <3>1, AmountIs
    <3>4. Amount(t, m) = t[To(i)].remaining
      BY <1>1, <1>6, <3>2, AmountIs
    <3> QED BY <2>2, <3>2, <3>3, <3>4
  <2>3. CASE m # e.id /\ m \notin IdsIn(s)
    <3>1. Amount(s, m) = 0
      BY <2>3, AmountIs
    <3>2. Amount(t, m) = 0
      BY <1>1, <1>6, <1>7, <2>3, AmountIs
    <3> QED BY <2>3, <3>1, <3>2
  <2> QED BY <2>1, <2>2, <2>3
<1> QED BY <1>6, <1>7, <1>8

-------------------------------------------------------------------------------------
(* A list without one order.                                                         *)

WithoutStep(kept, e, id) == IF e.id = id THEN kept ELSE Append(kept, e)

WithoutBy(id, s, r) ==
    r[0] = <<>> /\ \A k \in 0..Len(s) - 1 : r[k + 1] = WithoutStep(r[k], s[k + 1], id)

LEMMA WithoutRuns ==
  ASSUME NEW id, NEW s \in Seq(Entry)
  PROVE  \E r \in [0..Len(s) -> Seq(Entry)] : WithoutBy(id, s, r) /\ WithoutOrder(s, id) = r[Len(s)]
<1> DEFINE n == Len(s)
           base == <<>>
           step == [p \in Seq(Entry) \X (1..n) |-> WithoutStep(p[1], s[p[2]], id)]
           next(f, t) == IF t = {} THEN base ELSE WithoutStep(f[t \ {Max(t)}], s[Max(t)], id)
           Iter(f) == f = [t \in SUBSET DOMAIN s |-> next(f, t)]
           h == CHOOSE f : Iter(f)
<1>1. n \in Nat /\ base \in Seq(Entry) /\ DOMAIN s = 1..n
  OBVIOUS
<1>2. step \in [Seq(Entry) \X (1..n) -> Seq(Entry)]
  <2>1. \A k \in 1..n : s[k] \in Entry
    OBVIOUS
  <2>2. \A a \in Seq(Entry), k \in 1..n : WithoutStep(a, s[k], id) \in Seq(Entry)
    BY <2>1 DEF WithoutStep
  <2> QED BY <2>2
<1>3. IsFiniteSet(1..n) /\ Picks(Greatest(n), 1..n)
  BY <1>1, FS_Interval, MaxOf
<1>4. PICK g \in [SUBSET (1..n) -> Seq(Entry)] : Folds(g, 1..n, base, Greatest(n), step)
  <2> HIDE DEF base, step
  <2> QED BY <1>1, <1>2, <1>3, FoldExists
<1>5. g[{}] = base /\ \A t \in SUBSET (1..n) : g[t] = next(g, t)
  <2>1. ASSUME NEW t \in SUBSET (1..n), t # {}
        PROVE  g[t] = WithoutStep(g[t \ {Max(t)}], s[Max(t)], id)
    <3>1. Greatest(n)[t] = Max(t) /\ Max(t) \in t
      BY <1>3, <2>1 DEF Picks, Greatest
    <3>2. g[t] = step[<<g[t \ {Max(t)}], Max(t)>>]
      <4> HIDE DEF step, base
      <4> QED BY <1>4, <2>1, <3>1 DEF Folds
    <3>3. g[t \ {Max(t)}] \in Seq(Entry) /\ Max(t) \in 1..n
      BY <3>1
    <3> QED BY <3>2, <3>3
  <2>2. g[{}] = base
    BY <1>4 DEF Folds
  <2> HIDE DEF base
  <2> QED BY <2>1, <2>2
<1>6. Iter(g)
  <2> HIDE DEF next
  <2> QED BY <1>1, <1>5
<1>7. Iter(h)
  <2> HIDE DEF Iter
  <2> QED BY <1>6
<1>8. WithoutOrder(s, id) = h[DOMAIN s]
  BY DEF WithoutOrder, FoldLeft, MapThenFoldSet, WithoutStep
<1> HIDE DEF h
<1>9. \A t \in SUBSET (1..n) : h[t] = next(h, t)
  <2> HIDE DEF next
  <2> QED BY <1>1, <1>7
<1>10. \A t \in SUBSET (1..n) : g[t] = h[t]
  <2> DEFINE S == 1..n
             p == Greatest(n)
  <2>1. g[{}] = h[{}]
    <3> HIDE DEF base, n, step
    <3> QED BY <1>5, <1>9
  <2>2. \A t \in SUBSET S : t # {} /\ g[t \ {p[t]}] = h[t \ {p[t]}] => g[t] = h[t]
    <3> HIDE DEF base, n, step
    <3> QED BY <1>5, <1>9 DEF Greatest
  <2>3. IsFiniteSet(S) /\ Picks(p, S)
    BY <1>3
  <2>4. Alike(S, p, g, h)
    <3> HIDE DEF S, p, base, n, step, next, Iter
    <3> QED BY <2>1, <2>2, <2>3 DEF Alike
  <2> HIDE DEF S, p, base, n, step, next, Iter
  <2>5. \A t \in SUBSET S : g[t] = h[t]
    BY <2>4, SameFold
  <2> QED BY <2>5 DEF S
<1>11. WithoutOrder(s, id) = g[1..n]
  <2> HIDE DEF n
  <2> QED BY <1>1, <1>8, <1>10
<1>12. PICK r \in [0..n -> Seq(Entry)] :
          /\ r[0] = g[{}] /\ r[n] = g[1..n]
          /\ \A k \in 0..n - 1 :
                /\ r[k] = g[(1..k + 1) \ {Max(1..k + 1)}] /\ r[k + 1] = g[1..k + 1]
                /\ Max(1..k + 1) = k + 1 /\ 1..k + 1 \in SUBSET (1..n) /\ 1..k + 1 # {}
  <2> HIDE DEF base, step, n
  <2> QED BY <1>1, Leftwards
<1>13. \A k \in 0..n - 1 : r[k + 1] = WithoutStep(r[k], s[k + 1], id)
  <2> HIDE DEF base, n
  <2> QED BY <1>5, <1>12
<1>14. WithoutBy(id, s, r)
  BY <1>5, <1>12, <1>13 DEF WithoutBy
<1> QED BY <1>11, <1>12, <1>14

\* t lists, in the order of s, the entries of s[1..k] that are not of the order.
Spared(id, s, k, t, m) ==
    /\ t \in Seq(Entry) /\ m \in [1..Len(t) -> 1..k]
    /\ \A j \in 1..Len(t) : t[j] = s[m[j]] /\ s[m[j]].id # id
    /\ \A i, j \in 1..Len(t) : i < j => m[i] < m[j]
    /\ \A i \in 1..k : s[i].id # id => \E j \in 1..Len(t) : m[j] = i

LEMMA WithoutSpares ==
  ASSUME NEW id, NEW s \in Seq(Entry)
  PROVE  \E m : Spared(id, s, Len(s), WithoutOrder(s, id), m)
<1>1. PICK r \in [0..Len(s) -> Seq(Entry)] : WithoutBy(id, s, r) /\ WithoutOrder(s, id) = r[Len(s)]
  BY WithoutRuns
<1> DEFINE K == {k \in Nat : k <= Len(s) => \E m : Spared(id, s, k, r[k], m)}
<1>2. 0 \in K
  <2>1. r[0] = <<>>
    BY <1>1 DEF WithoutBy
  <2>2. Spared(id, s, 0, <<>>, [j \in {} |-> 0])
    <3>1. <<>> \in Seq(Entry) /\ Len(<<>>) = 0 /\ \A x \in 1..0 : FALSE
      OBVIOUS
    <3>2. [j \in {} |-> 0] \in [1..0 -> 1..0]
      OBVIOUS
    <3> QED BY <3>1, <3>2 DEF Spared
  <2>3. Spared(id, s, 0, r[0], [j \in {} |-> 0])
    BY <2>1, <2>2
  <2> QED BY <2>3
<1>3. ASSUME NEW k \in Nat, k \in K PROVE k + 1 \in K
  <2> SUFFICES ASSUME k + 1 <= Len(s) PROVE \E m : Spared(id, s, k + 1, r[k + 1], m)
    OBVIOUS
  <2> DEFINE e == s[k + 1]
             t == r[k]
             u == r[k + 1]
  <2>1. /\ k \in 0..Len(s) - 1 /\ k \in 0..Len(s) /\ k + 1 \in 0..Len(s) /\ e \in Entry
        /\ t \in Seq(Entry) /\ u \in Seq(Entry) /\ k <= Len(s)
    OBVIOUS
  <2>2. PICK m : Spared(id, s, k, t, m)
    BY <1>3, <2>1
  <2>3. u = WithoutStep(t, e, id)
    BY <1>1, <2>1 DEF WithoutBy
  <2>4. /\ m \in [1..Len(t) -> 1..k] /\ Len(t) \in Nat
        /\ \A j \in 1..Len(t) : t[j] = s[m[j]] /\ s[m[j]].id # id
        /\ \A i, j \in 1..Len(t) : i < j => m[i] < m[j]
        /\ \A i \in 1..k : s[i].id # id => \E j \in 1..Len(t) : m[j] = i
    BY <2>1, <2>2 DEF Spared
  <2>5. \A i \in 1..k + 1 : i \in 1..k \/ i = k + 1
    OBVIOUS
  <2> HIDE DEF t, u, K
  <2>6. CASE e.id = id
    <3>1. u = t
      BY <2>3, <2>6 DEF WithoutStep
    <3>2. m \in [1..Len(t) -> 1..k + 1]
      BY <2>4
    <3>3. \A i \in 1..k + 1 : s[i].id # id => \E j \in 1..Len(t) : m[j] = i
      BY <2>4, <2>5, <2>6
    <3>4. Spared(id, s, k + 1, t, m)
      BY <2>1, <2>4, <3>2, <3>3 DEF Spared
    <3> QED BY <3>1, <3>4 DEF t, u
  <2>7. CASE e.id # id
    <3> DEFINE l == Len(t) + 1
               v == [j \in 1..l |-> IF j = l THEN k + 1 ELSE m[j]]
    <3>1. u = Append(t, e)
      BY <2>3, <2>7 DEF WithoutStep
    <3>2. /\ Len(u) = l /\ u[l] = e /\ \A j \in 1..Len(t) : u[j] = t[j]
          /\ l \in Nat
      <4> HIDE DEF e
      <4> QED BY <2>1, <2>4, <3>1
    <3>3. \A j \in 1..l : j \in 1..Len(t) \/ j = l
      BY <2>4
    <3>4. v[l] = k + 1 /\ \A j \in 1..Len(t) : v[j] = m[j] /\ m[j] \in 1..k /\ j \in 1..l
      BY <2>4
    <3>5. v \in [1..l -> 1..k + 1]
      BY <2>4
    <3> HIDE DEF v, l
    <3>6. \A j \in 1..l : u[j] = s[v[j]] /\ s[v[j]].id # id
      BY <2>4, <2>7, <3>2, <3>3, <3>4
    <3>7. ASSUME NEW i \in 1..l, NEW j \in 1..l, i < j PROVE v[i] < v[j]
      <4>1. i \in 1..Len(t)
        BY <2>4, <3>3, <3>7 DEF l
      <4>2. CASE j \in 1..Len(t)
        BY <2>4, <3>4, <3>7, <4>1, <4>2
      <4>3. CASE j = l
        BY <3>4, <4>1, <4>3
      <4> QED BY <3>3, <4>2, <4>3
    <3>8. \A i \in 1..k + 1 : s[i].id # id => \E j \in 1..l : v[j] = i
      <4>1. l \in 1..l
        BY <2>4 DEF l
      <4> QED BY <2>4, <2>5, <3>4, <4>1
    <3>9. Spared(id, s, k + 1, u, v)
      BY <2>1, <3>2, <3>5, <3>6, <3>7, <3>8 DEF Spared
    <3> QED BY <3>9 DEF u
  <2> QED BY <2>6, <2>7
<1>4. \E m : Spared(id, s, Len(s), r[Len(s)], m)
  <2>1. Nat \subseteq K
    <3> HIDE DEF K
    <3> QED BY <1>2, <1>3, Induct
  <2> QED BY <2>1
<1> QED BY <1>1, <1>4

LEMMA WithoutCounts ==
  ASSUME NEW id, NEW s \in Seq(Entry), NoTwice(s)
  PROVE  /\ WithoutOrder(s, id) \in Seq(Entry) /\ NoTwice(WithoutOrder(s, id))
         /\ IdsIn(WithoutOrder(s, id)) = IdsIn(s) \ {id}
         /\ \A m : Amount(WithoutOrder(s, id), m) = IF m = id THEN 0 ELSE Amount(s, m)
<1> DEFINE t == WithoutOrder(s, id)
<1>1. PICK g : Spared(id, s, Len(s), t, g)
  BY WithoutSpares
<1> HIDE DEF t
<1>2. /\ t \in Seq(Entry) /\ g \in [1..Len(t) -> 1..Len(s)]
      /\ \A j \in 1..Len(t) : t[j] = s[g[j]] /\ s[g[j]].id # id
      /\ \A i, j \in 1..Len(t) : i < j => g[i] < g[j]
      /\ \A i \in 1..Len(s) : s[i].id # id => \E j \in 1..Len(t) : g[j] = i
      /\ DOMAIN t = 1..Len(t) /\ DOMAIN s = 1..Len(s) /\ Len(t) \in Nat /\ Len(s) \in Nat
  BY <1>1 DEF Spared
<1>3. NoTwice(t)
  <2>1. ASSUME NEW i \in 1..Len(t), NEW j \in 1..Len(t), t[i].id = t[j].id PROVE i = j
    <3>1. g[i] \in 1..Len(s) /\ g[j] \in 1..Len(s) /\ s[g[i]].id = s[g[j]].id
      BY <1>2, <2>1
    <3>2. g[i] = g[j]
      BY <1>2, <3>1 DEF NoTwice
    <3>3. ~(g[i] < g[j]) /\ ~(g[j] < g[i])
      BY <3>1, <3>2
    <3> QED BY <1>2, <3>3
  <2> QED BY <1>2, <2>1 DEF NoTwice
<1>4. IdsIn(t) = IdsIn(s) \ {id}
  <2>1. ASSUME NEW x \in IdsIn(t) PROVE x \in IdsIn(s) \ {id}
    <3>1. PICK j \in 1..Len(t) : x = t[j].id
      BY <1>2 DEF IdsIn
    <3>2. g[j] \in DOMAIN s /\ x = s[g[j]].id /\ x # id
      BY <1>2, <3>1
    <3> QED BY <3>2 DEF IdsIn
  <2>2. ASSUME NEW x \in IdsIn(s) \ {id} PROVE x \in IdsIn(t)
    <3>1. PICK i \in 1..Len(s) : x = s[i].id
      BY <1>2 DEF IdsIn
    <3>2. PICK j \in 1..Len(t) : g[j] = i
      BY <1>2, <3>1
    <3>3. t[j].id = x
      BY <1>2, <3>1, <3>2
    <3> QED BY <1>2, <3>3 DEF IdsIn
  <2> QED BY <2>1, <2>2
<1>5. ASSUME NEW m PROVE Amount(t, m) = IF m = id THEN 0 ELSE Amount(s, m)
  <2>1. CASE m \notin IdsIn(t)
    <3>1. Amount(t, m) = 0
      BY <1>2, <1>3, <2>1, AmountIs
    <3>2. m # id => Amount(s, m) = 0
      BY <1>4, <2>1, AmountIs
    <3> QED BY <3>1, <3>2
  <2>2. CASE m \in IdsIn(t)
    <3>1. PICK j \in 1..Len(t) : m = t[j].id
      BY <1>2, <2>2 DEF IdsIn
    <3>2. g[j] \in DOMAIN s /\ s[g[j]].id = m /\ t[j].remaining = s[g[j]].remaining /\ m # id
      BY <1>2, <3>1
    <3>3. Amount(s, m) = s[g[j]].remaining
      BY <3>2, AmountIs
    <3>4. Amount(t, m) = t[j].remaining
      BY <1>2, <1>3, <3>1, AmountIs
    <3> QED BY <3>2, <3>3, <3>4
  <2> QED BY <2>1, <2>2
<1> QED BY <1>2, <1>3, <1>4, <1>5 DEF t

-------------------------------------------------------------------------------------
(* The invariant: the lists name an order once, and every order is accounted for.    *)

DealsOf(T, id) == {t \in T : id \in {t.taker, t.maker}}

Resting2(b, id) == Amount(b.buy, id) + Amount(b.sell, id)

LooksRight(b) ==
    /\ b \in [buy : Seq(Entry), sell : Seq(Entry), seq : Nat]
    /\ NoTwice(b.buy) /\ NoTwice(b.sell) /\ IdsIn(b.buy) \cap IdsIn(b.sell) = {}

Known(b, T, ids) ==
    /\ IdsIn(b.buy) \subseteq ids /\ IdsIn(b.sell) \subseteq ids
    /\ T \subseteq Trade /\ IsFiniteSet(T) /\ \A t \in T : t.taker \in ids /\ t.maker \in ids

BookInv ==
    /\ LooksRight(book) /\ arrived \in Seq(Ids) /\ book.seq <= Len(arrived)
    /\ Known(book, trades, ToSet(arrived))
    /\ placed \in [Ids -> 0..MaxQty] /\ dropped \in [Ids -> 0..MaxQty]
    /\ \A id \in Ids \ ToSet(arrived) : placed[id] = 0 /\ dropped[id] = 0
    /\ \A id \in Ids : placed[id] = Resting2(book, id) + Turnover(DealsOf(trades, id)) + dropped[id]

LEMMA SumsAreNat ==
  ASSUME NEW b, LooksRight(b), NEW T, T \subseteq Trade, IsFiniteSet(T), NEW id
  PROVE  /\ Resting2(b, id) \in Nat /\ Turnover(DealsOf(T, id)) \in Int
         /\ DealsOf(T, id) \subseteq Trade /\ IsFiniteSet(DealsOf(T, id))
<1>1. Amount(b.buy, id) \in 0..MaxQty /\ Amount(b.sell, id) \in 0..MaxQty
  BY AmountIs DEF LooksRight
<1>2. DealsOf(T, id) \subseteq Trade /\ DealsOf(T, id) \subseteq T
  BY DEF DealsOf
<1>3. IsFiniteSet(DealsOf(T, id))
  BY <1>2, FS_Subset
<1>4. Turnover(DealsOf(T, id)) \in Int
  BY <1>2, <1>3, TradedOf
<1>5. Resting2(b, id) \in Nat
  BY <1>1, BoundsAssumption DEF Resting2
<1> QED BY <1>2, <1>3, <1>4, <1>5

\* A sum of trades is not negative.
LEMMA TradedNat ==
  ASSUME NEW T, T \subseteq Trade, IsFiniteSet(T)
  PROVE  Turnover(T) \in Nat
<1> DEFINE K == {n \in Nat : \A S \in SUBSET T : Cardinality(S) = n => Turnover(S) \in Nat}
<1>0. \A S \in SUBSET T : S \subseteq Trade /\ IsFiniteSet(S) /\ Cardinality(S) \in Nat
  BY FS_Subset, FS_CardinalityType
<1>1. 0 \in K
  <2>1. \A S \in SUBSET T : Cardinality(S) = 0 => Turnover(S) = 0
    BY <1>0, FS_EmptySet, TradedOf
  <2> QED BY <2>1
<1>2. ASSUME NEW n \in Nat, n \in K PROVE n + 1 \in K
  <2>1. ASSUME NEW S \in SUBSET T, Cardinality(S) = n + 1 PROVE Turnover(S) \in Nat
    <3>1. S # {}
      <4>1. Cardinality({}) = 0 /\ n + 1 # 0
        BY FS_EmptySet
      <4> QED BY <2>1, <4>1
    <3>2. PICK f \in S : TRUE
      BY <3>1
    <3>3. S \ {f} \in SUBSET T /\ Cardinality(S \ {f}) = n
      <4>1. Cardinality(S \ {f}) = Cardinality(S) - 1
        BY <1>0, FS_RemoveElement
      <4> QED BY <2>1, <4>1
    <3>4. Turnover(S \ {f}) \in Nat
      BY <1>2, <3>3
    <3>5. Turnover(S) = f.qty + Turnover(S \ {f})
      BY <1>0, TradedOf
    <3>6. f.qty \in Nat
      <4>1. f \in Trade
        BY <1>0
      <4> QED BY <4>1, BoundsAssumption DEF Trade
    <3> QED BY <3>4, <3>5, <3>6
  <2> QED BY <2>1
<1>3. Nat \subseteq K
  <2> HIDE DEF K
  <2> QED BY <1>1, <1>2, Induct
<1> QED BY <1>0, <1>3

\* What an incoming order changes before any of it rests.
Hit(b, side, rest) == [b EXCEPT ![OppositeSide(side)] = rest]

Accepted(b, T, ids, id, q, left, hit, T2) ==
    /\ left \in 0..q /\ LooksRight(hit) /\ hit.seq = b.seq
    /\ Known(hit, T2, ids \cup {id})
    /\ IdsIn(hit.buy) \subseteq ids /\ IdsIn(hit.sell) \subseteq ids
    /\ \A m \in Ids \ {id} : Resting2(hit, m) + Turnover(DealsOf(T2, m))
                             = Resting2(b, m) + Turnover(DealsOf(T, m))
    /\ Resting2(hit, id) = 0 /\ Turnover(DealsOf(T2, id)) = q - left

LEMMA Accepting ==
  ASSUME NEW b, LooksRight(b), NEW T, NEW ids, Known(b, T, ids),
         NEW id \in Ids, id \notin ids, NEW side \in Sides, NEW q \in 1..MaxQty, NEW E,
         NEW run, run = MatchLoop(E, q, b[OppositeSide(side)])
  PROVE  Accepted(b, T, ids, id, q, run.left, Hit(b, side, run.rest),
                  T \cup TradesOf(id, run.matches))
<1> DEFINE o == OppositeSide(side)
           s == b[o]
           hit == Hit(b, side, run.rest)
           N == TradesOf(id, run.matches)
           T2 == T \cup N
<1>1. /\ o \in Sides /\ side \in Sides /\ side # o /\ (o = "buy" \/ o = "sell")
  BY DEF OppositeSide, Sides
<1>2. /\ s \in Seq(Entry) /\ NoTwice(s) /\ q \in Nat /\ IdsIn(s) \subseteq ids
      /\ \A i \in 1..Len(s) : s[i].remaining > 0
  <2>1. s \in Seq(Entry) /\ NoTwice(s) /\ IdsIn(s) \subseteq ids
    <3> HIDE DEF o
    <3> QED BY <1>1 DEF LooksRight, Known
  <2> HIDE DEF s
  <2> QED BY <2>1, EntryIsSlot, BoundsAssumption
<1>3. PICK d, part : Outcome(E, q, s, run, d, part)
  <2>1. s \in Seq(Slot)
    <3> HIDE DEF s
    <3> QED BY <1>2, EntryIsSlot
  <2>2. run = MatchLoop(E, q, s)
    OBVIOUS
  <2> HIDE DEF s
  <2> QED BY <1>2, <2>1, <2>2, LoopDoes
<1> HIDE DEF s, o
<1>4. run.left \in 0..q
  BY <1>3 DEF Outcome
<1>5. /\ run.rest \in Seq(Entry) /\ NoTwice(run.rest) /\ IdsIn(run.rest) \subseteq IdsIn(s)
  <2>1. Leaves(s, run.rest, d, part)
    BY <1>2, <1>3, RestIs
  <2> QED BY <2>1 DEF Leaves
<1>6. /\ N \subseteq Trade /\ IsFiniteSet(N) /\ Turnover(N) = q - run.left
  <2>1. q \in 1..MaxQty /\ id \in Ids /\ s \in Seq(Entry) /\ NoTwice(s) /\ Outcome(E, q, s, run, d, part)
    BY <1>2, <1>3
  <2> QED BY ONLY <2>1, TakerGets
<1>7. \A t \in N : t.taker = id /\ t.maker \in IdsIn(s)
  <2>1. Matched(E, s, id, run.matches, d, part)
    BY <1>2, <1>3, MatchesAre
  <2>2. DOMAIN s = 1..Len(s) /\ Len(s) \in Nat
    BY <1>2
  <2>3. \A j \in 1..Len(run.matches) : run.matches[j].id = s[j].id /\ j \in DOMAIN s
    BY <2>1, <2>2 DEF Matched
  <2>4. \A t \in N : \E j \in 1..Len(run.matches) : t = TradeAt(id, run.matches, j)
    BY <2>1 DEF Matched
  <2> QED BY <2>3, <2>4 DEF TradeAt, IdsIn
<1>8. /\ hit \in [buy : Seq(Entry), sell : Seq(Entry), seq : Nat] /\ hit.seq = b.seq
      /\ hit[o] = run.rest /\ hit[side] = b[side]
  BY <1>1, <1>5 DEF LooksRight, Hit, o, Sides
<1>9. LooksRight(hit) /\ IdsIn(hit.buy) \subseteq ids /\ IdsIn(hit.sell) \subseteq ids
  <2>1. CASE o = "buy"
    <3>1. hit.buy = run.rest /\ hit.sell = b.sell /\ s = b.buy
      BY <1>1, <1>8, <2>1 DEF s, Sides
    <3> HIDE DEF hit
    <3> QED BY <1>2, <1>5, <1>8, <3>1 DEF LooksRight, Known
  <2>2. CASE o = "sell"
    <3>1. hit.sell = run.rest /\ hit.buy = b.buy /\ s = b.sell
      BY <1>1, <1>8, <2>2 DEF s, Sides
    <3> HIDE DEF hit
    <3> QED BY <1>2, <1>5, <1>8, <3>1 DEF LooksRight, Known
  <2> QED BY <1>1, <2>1, <2>2
<1>10. Known(hit, T2, ids \cup {id})
  <2>1. T2 \subseteq Trade
    <3> HIDE DEF N
    <3> QED BY <1>6 DEF Known
  <2>2. IsFiniteSet(T2)
    <3> HIDE DEF N
    <3> QED BY <1>6, FS_Union DEF Known
  <2>3. \A t \in T2 : t.taker \in ids \cup {id} /\ t.maker \in ids \cup {id}
    <3> HIDE DEF N
    <3> QED BY <1>2, <1>7 DEF Known
  <2> HIDE DEF T2, hit
  <2> QED BY <1>9, <2>1, <2>2, <2>3 DEF Known
<1>11. ASSUME NEW m PROVE Resting2(hit, m) - Resting2(b, m) = Amount(run.rest, m) - Amount(s, m)
  <2>1. CASE o = "buy"
    <3>1. hit.buy = run.rest /\ hit.sell = b.sell /\ s = b.buy
      BY <1>1, <1>8, <2>1 DEF s, Sides
    <3>2. /\ Amount(hit.buy, m) \in 0..MaxQty /\ Amount(hit.sell, m) \in 0..MaxQty
          /\ Amount(b.buy, m) \in 0..MaxQty /\ Amount(b.sell, m) \in 0..MaxQty
      <4> HIDE DEF hit
      <4> QED BY <1>9, AmountIs DEF LooksRight
    <3> HIDE DEF hit
    <3> QED BY <3>1, <3>2, BoundsAssumption DEF Resting2
  <2>2. CASE o = "sell"
    <3>1. hit.sell = run.rest /\ hit.buy = b.buy /\ s = b.sell
      BY <1>1, <1>8, <2>2 DEF s, Sides
    <3>2. /\ Amount(hit.buy, m) \in 0..MaxQty /\ Amount(hit.sell, m) \in 0..MaxQty
          /\ Amount(b.buy, m) \in 0..MaxQty /\ Amount(b.sell, m) \in 0..MaxQty
      <4> HIDE DEF hit
      <4> QED BY <1>9, AmountIs DEF LooksRight
    <3> HIDE DEF hit
    <3> QED BY <3>1, <3>2, BoundsAssumption DEF Resting2
  <2> QED BY <1>1, <2>1, <2>2
<1>12. ASSUME NEW m \in Ids \ {id}
       PROVE  Resting2(hit, m) + Turnover(DealsOf(T2, m)) = Resting2(b, m) + Turnover(DealsOf(T, m))
  <2> DEFINE M == {t \in N : t.maker = m}
  <2>1. \/ M = {} /\ Amount(s, m) = Amount(run.rest, m)
        \/ \E t \in Trade : M = {t} /\ Amount(s, m) = Amount(run.rest, m) + t.qty
    BY <1>2, <1>3, MakerGives
  <2>2. DealsOf(T2, m) = DealsOf(T, m) \cup M
    <3> HIDE DEF N
    <3> QED BY <1>7 DEF DealsOf
  <2>3. /\ Resting2(hit, m) \in Nat /\ Resting2(b, m) \in Nat /\ Turnover(DealsOf(T, m)) \in Int
        /\ DealsOf(T, m) \subseteq Trade /\ IsFiniteSet(DealsOf(T, m))
    <3>1. T \subseteq Trade /\ IsFiniteSet(T)
      BY DEF Known
    <3> HIDE DEF hit
    <3> QED BY <1>9, <3>1, SumsAreNat
  <2>4. Amount(s, m) \in Int /\ Amount(run.rest, m) \in Int
    BY <1>2, <1>5, AmountIs, BoundsAssumption
  <2>5. M \cap DealsOf(T, m) = {}
    <3>1. \A t \in T : t.taker # id
      BY DEF Known
    <3> HIDE DEF N
    <3> QED BY <1>7, <3>1 DEF DealsOf
  <2>6. CASE M = {} /\ Amount(s, m) = Amount(run.rest, m)
    <3>1. DealsOf(T2, m) = DealsOf(T, m)
      BY <2>2, <2>6
    <3> HIDE DEF hit, T2
    <3> QED BY <1>11, <2>3, <2>4, <2>6, <3>1
  <2>7. CASE \E t \in Trade : M = {t} /\ Amount(s, m) = Amount(run.rest, m) + t.qty
    <3>1. PICK t \in Trade : M = {t} /\ Amount(s, m) = Amount(run.rest, m) + t.qty
      BY <2>7
    <3>2. DealsOf(T2, m) = DealsOf(T, m) \cup {t} /\ t \notin DealsOf(T, m)
      BY <2>2, <2>5, <3>1
    <3> HIDE DEF hit, T2, M
    <3>3. Turnover(DealsOf(T2, m)) = Turnover(DealsOf(T, m)) + t.qty
      BY <2>3, <3>2, OneMore
    <3>4. t.qty \in Int
      BY BoundsAssumption DEF Trade
    <3> QED BY <1>11, <2>3, <2>4, <3>1, <3>3, <3>4
  <2> HIDE DEF M
  <2> QED BY <2>1, <2>6, <2>7
<1>13. Resting2(hit, id) = 0
  <2> HIDE DEF hit
  <2>1. id \notin IdsIn(hit.buy) /\ id \notin IdsIn(hit.sell)
    BY <1>9
  <2> QED BY <1>9, <2>1, AmountIs DEF Resting2, LooksRight
<1>14. Turnover(DealsOf(T2, id)) = q - run.left
  <2>1. DealsOf(T2, id) = N
    <3>1. \A t \in T : t.taker # id /\ t.maker # id
      BY DEF Known
    <3> HIDE DEF N
    <3> QED BY <1>7, <3>1 DEF DealsOf
  <2> HIDE DEF N, T2
  <2> QED BY <1>6, <2>1
<1> HIDE DEF hit, T2
<1> QED BY <1>4, <1>8, <1>9, <1>10, <1>12, <1>13, <1>14 DEF hit, T2, Accepted

PutAway(b, c, ids, id, left) ==
    /\ LooksRight(c) /\ b.seq <= c.seq /\ c.seq <= b.seq + 1
    /\ IdsIn(c.buy) \subseteq ids \cup {id} /\ IdsIn(c.sell) \subseteq ids \cup {id}
    /\ \A m : Resting2(c, m) = IF m = id THEN left ELSE Resting2(b, m)

\* What is left of a limit order rests.
LEMMA RestingPlace ==
  ASSUME NEW b, LooksRight(b), NEW ids, IdsIn(b.buy) \subseteq ids, IdsIn(b.sell) \subseteq ids,
         NEW id \in Ids, id \notin ids, NEW side \in Sides, NEW price \in MinPrice..MaxPrice,
         NEW left \in 0..MaxQty
  PROVE  PutAway(b, Rest(b, id, side, price, left), ids, id, left)
<1> DEFINE c == Rest(b, id, side, price, left)
<1>0. /\ b \in [buy : Seq(Entry), sell : Seq(Entry), seq : Nat]
      /\ NoTwice(b.buy) /\ NoTwice(b.sell) /\ IdsIn(b.buy) \cap IdsIn(b.sell) = {}
      /\ b.buy \in Seq(Entry) /\ b.sell \in Seq(Entry) /\ b.seq \in Nat
  BY DEF LooksRight
<1>1. Amount(b.buy, id) = 0 /\ Amount(b.sell, id) = 0
  <2>1. id \notin IdsIn(b.buy) /\ id \notin IdsIn(b.sell)
    OBVIOUS
  <2> QED BY <1>0, <2>1, AmountIs
<1>2. \A m : Amount(b.buy, m) \in Nat /\ Amount(b.sell, m) \in Nat
  <2>1. \A m : Amount(b.buy, m) \in 0..MaxQty /\ Amount(b.sell, m) \in 0..MaxQty
    BY <1>0, AmountIs
  <2> QED BY <2>1, BoundsAssumption
<1>3. CASE left = 0
  <2>1. c = b
    BY <1>3 DEF Rest
  <2>2. \A m : Resting2(c, m) = IF m = id THEN left ELSE Resting2(b, m)
    BY <1>1, <1>3, <2>1 DEF Resting2
  <2>3. b.seq <= b.seq + 1 /\ b.seq <= b.seq
    BY <1>0
  <2> HIDE DEF c
  <2> QED BY <2>1, <2>2, <2>3 DEF c, PutAway
<1>4. CASE left # 0
  <2> DEFINE e == [id |-> id, price |-> price, remaining |-> left, seq |-> b.seq + 1]
             s == b[side]
             t == InsertSorted(side, s, e)
  <2>1. c = [b EXCEPT !.seq = @ + 1, ![side] = t]
    BY <1>4 DEF Rest, Sides
  <2>2. e \in Entry /\ e.id = id /\ e.remaining = left
    <3>1. left \in 1..MaxQty /\ b.seq + 1 \in Nat
      BY <1>0, <1>4, BoundsAssumption
    <3> QED BY <3>1 DEF Entry
  <2>3. s \in Seq(Entry) /\ NoTwice(s) /\ id \notin IdsIn(s)
    BY <1>0 DEF Sides
  <2> HIDE DEF e, s
  <2>4. Inserted(s, e, PlaceFor(side, s, e), t)
    BY <2>2, <2>3, InsertIs
  <2>5. t \in Seq(Entry)
    BY <2>4 DEF Inserted
  <2>6. /\ NoTwice(t) /\ IdsIn(t) = IdsIn(s) \cup {id}
        /\ \A m : Amount(t, m) = IF m = id THEN left ELSE Amount(s, m)
    BY <2>2, <2>3, <2>4, InsertCounts
  <2> HIDE DEF t
  <2>7. CASE side = "buy"
    <3>1. /\ c.buy = t /\ c.sell = b.sell /\ c.seq = b.seq + 1 /\ s = b.buy
          /\ c \in [buy : Seq(Entry), sell : Seq(Entry), seq : Nat]
      <4>1. c = [b EXCEPT !.seq = @ + 1, !.buy = t] /\ s = b.buy
        BY <2>1, <2>7 DEF s
      <4> DEFINE S == Seq(Entry)
      <4>2. b \in [buy : S, sell : S, seq : Nat] /\ t \in S /\ b.seq + 1 \in Nat
        BY <1>0, <2>5
      <4> HIDE DEF c, S
      <4>3. c = [buy |-> t, sell |-> b.sell, seq |-> b.seq + 1]
        BY <4>1, <4>2
      <4> QED BY <4>1, <4>2, <4>3 DEF S
    <3> HIDE DEF c
    <3>2. IdsIn(c.buy) \subseteq ids \cup {id} /\ IdsIn(c.sell) \subseteq ids \cup {id}
      BY <2>6, <3>1
    <3>3. LooksRight(c)
      <4>1. IdsIn(c.buy) \cap IdsIn(c.sell) = {}
        BY <1>0, <2>6, <3>1
      <4> QED BY <1>0, <2>6, <3>1, <4>1 DEF LooksRight
    <3>4. \A m : Resting2(c, m) = IF m = id THEN left ELSE Resting2(b, m)
      BY <1>1, <2>6, <3>1 DEF Resting2
    <3>5. b.seq <= c.seq /\ c.seq <= b.seq + 1
      BY <1>0, <3>1
    <3> QED BY <3>2, <3>3, <3>4, <3>5 DEF c, PutAway
  <2>8. CASE side = "sell"
    <3>1. /\ c.sell = t /\ c.buy = b.buy /\ c.seq = b.seq + 1 /\ s = b.sell
          /\ c \in [buy : Seq(Entry), sell : Seq(Entry), seq : Nat]
      <4>1. c = [b EXCEPT !.seq = @ + 1, !.sell = t] /\ s = b.sell
        BY <2>1, <2>8 DEF s
      <4> DEFINE S == Seq(Entry)
      <4>2. b \in [buy : S, sell : S, seq : Nat] /\ t \in S /\ b.seq + 1 \in Nat
        BY <1>0, <2>5
      <4> HIDE DEF c, S
      <4>3. c = [buy |-> b.buy, sell |-> t, seq |-> b.seq + 1]
        BY <4>1, <4>2
      <4> QED BY <4>1, <4>2, <4>3 DEF S
    <3> HIDE DEF c
    <3>2. IdsIn(c.buy) \subseteq ids \cup {id} /\ IdsIn(c.sell) \subseteq ids \cup {id}
      BY <2>6, <3>1
    <3>3. LooksRight(c)
      <4>1. IdsIn(c.buy) \cap IdsIn(c.sell) = {}
        BY <1>0, <2>6, <3>1
      <4> QED BY <1>0, <2>6, <3>1, <4>1 DEF LooksRight
    <3>4. \A m : Resting2(c, m) = IF m = id THEN left ELSE Resting2(b, m)
      BY <1>1, <2>6, <3>1 DEF Resting2
    <3>5. b.seq <= c.seq /\ c.seq <= b.seq + 1
      BY <1>0, <3>1
    <3> QED BY <3>2, <3>3, <3>4, <3>5 DEF c, PutAway
  <2> QED BY <2>7, <2>8 DEF Sides
<1> QED BY <1>3, <1>4

\* A cancellation.
LEMMA Cancelling ==
  ASSUME NEW b, LooksRight(b), NEW id
  PROVE  LET c == CancelEntry(b, id) IN
         /\ LooksRight(c) /\ c.seq = b.seq
         /\ IdsIn(c.buy) \subseteq IdsIn(b.buy) /\ IdsIn(c.sell) \subseteq IdsIn(b.sell)
         /\ \A m : Resting2(c, m) = IF m = id THEN 0 ELSE Resting2(b, m)
<1> DEFINE c == CancelEntry(b, id)
           x == WithoutOrder(b.buy, id)
           y == WithoutOrder(b.sell, id)
<1>0. /\ b \in [buy : Seq(Entry), sell : Seq(Entry), seq : Nat]
      /\ NoTwice(b.buy) /\ NoTwice(b.sell) /\ IdsIn(b.buy) \cap IdsIn(b.sell) = {}
      /\ b.buy \in Seq(Entry) /\ b.sell \in Seq(Entry) /\ b.seq \in Nat
  BY DEF LooksRight
<1>1. /\ x \in Seq(Entry) /\ NoTwice(x) /\ IdsIn(x) = IdsIn(b.buy) \ {id}
      /\ \A m : Amount(x, m) = IF m = id THEN 0 ELSE Amount(b.buy, m)
  BY <1>0, WithoutCounts
<1>2. /\ y \in Seq(Entry) /\ NoTwice(y) /\ IdsIn(y) = IdsIn(b.sell) \ {id}
      /\ \A m : Amount(y, m) = IF m = id THEN 0 ELSE Amount(b.sell, m)
  BY <1>0, WithoutCounts
<1>3. c = [b EXCEPT !.buy = x, !.sell = y]
  BY DEF CancelEntry
<1> HIDE DEF x, y
<1>4. /\ c \in [buy : Seq(Entry), sell : Seq(Entry), seq : Nat]
      /\ c.buy = x /\ c.sell = y /\ c.seq = b.seq
  BY <1>0, <1>1, <1>2, <1>3
<1> HIDE DEF c
<1>5. LooksRight(c)
  BY <1>0, <1>1, <1>2, <1>4 DEF LooksRight
<1>6. \A m : Resting2(c, m) = IF m = id THEN 0 ELSE Resting2(b, m)
  BY <1>1, <1>2, <1>4 DEF Resting2
<1> QED BY <1>1, <1>2, <1>4, <1>5, <1>6 DEF c

LEMMA RemainingIs == \A id : RemainingOf(id) = Resting2(book, id)
  BY DEF RemainingOf, Resting, Resting2, Amount, AmountAt, PlacesOf

-------------------------------------------------------------------------------------
(* It holds at first and every step keeps it.                                        *)

LEMMA BookStarts == Init => BookInv
<1> SUFFICES ASSUME Init PROVE BookInv
  OBVIOUS
<1>1. /\ book.buy = <<>> /\ book.sell = <<>> /\ book.seq = 0
      /\ book \in [buy : Seq(Entry), sell : Seq(Entry), seq : Nat]
  BY DEF Init, EmptyBook
<1>2. NoTwice(<<>>) /\ IdsIn(<<>>) = {}
  BY DEF NoTwice, IdsIn
<1>3. LooksRight(book)
  BY <1>1, <1>2 DEF LooksRight
<1>4. arrived \in Seq(Ids) /\ Len(arrived) = 0 /\ trades = {} /\ IsFiniteSet({})
  BY FS_EmptySet DEF Init
<1>5. Known(book, trades, ToSet(arrived))
  BY <1>1, <1>2, <1>4 DEF Known
<1>6. /\ placed \in [Ids -> 0..MaxQty] /\ dropped \in [Ids -> 0..MaxQty]
      /\ \A id \in Ids : placed[id] = 0 /\ dropped[id] = 0
  BY BoundsAssumption DEF Init
<1>7. ASSUME NEW id \in Ids PROVE Resting2(book, id) = 0 /\ Turnover(DealsOf(trades, id)) = 0
  <2>1. <<>> \in Seq(Entry) /\ id \notin {}
    OBVIOUS
  <2>2. Amount(<<>>, id) = 0
    BY <1>2, <2>1, AmountIs
  <2>3. DealsOf(trades, id) = {}
    BY <1>4 DEF DealsOf
  <2>4. Turnover({}) = 0
    BY <1>4, TradedOf
  <2> QED BY <1>1, <2>2, <2>3, <2>4 DEF Resting2
<1> QED BY <1>1, <1>3, <1>4, <1>5, <1>6, <1>7 DEF BookInv

LEMMA Arrives ==
  ASSUME NEW s \in Seq(Ids), NEW id \in Ids
  PROVE  /\ Append(s, id) \in Seq(Ids) /\ Len(Append(s, id)) = Len(s) + 1
         /\ ToSet(Append(s, id)) = ToSet(s) \cup {id}
<1>1. /\ Append(s, id) \in Seq(Ids) /\ Len(Append(s, id)) = Len(s) + 1
      /\ \A i \in 1..Len(s) : Append(s, id)[i] = s[i]
      /\ Append(s, id)[Len(s) + 1] = id /\ Len(s) \in Nat
      /\ DOMAIN s = 1..Len(s) /\ DOMAIN Append(s, id) = 1..Len(s) + 1
  OBVIOUS
<1>2. \A i : i \in 1..Len(s) + 1 <=> i \in 1..Len(s) \/ i = Len(s) + 1
  BY <1>1
<1> QED BY <1>1, <1>2 DEF ToSet

\* What both kinds of order have in common: the order is known, and accounted for.
LEMMA Recording ==
  ASSUME BookInv, NEW id \in Ids, Fresh(id), NEW q \in 1..MaxQty, NEW run, Record(id, q, run),
         LooksRight(run.book), run.book.seq <= book.seq + 1,
         Known(run.book, trades \cup TradesOf(id, run.matches), ToSet(arrived) \cup {id}),
         \A m \in Ids \ {id} :
             Resting2(run.book, m) + Turnover(DealsOf(trades \cup TradesOf(id, run.matches), m))
                = Resting2(book, m) + Turnover(DealsOf(trades, m)),
         NEW rests \in Nat, NEW left \in Nat, rests + left \in 0..q,
         Resting2(run.book, id) = rests,
         Turnover(DealsOf(trades \cup TradesOf(id, run.matches), id)) = q - (rests + left),
         dropped' = [dropped EXCEPT ![id] = left]
  PROVE  BookInv'
<1> DEFINE T2 == trades \cup TradesOf(id, run.matches)
<1>1. /\ LooksRight(book) /\ arrived \in Seq(Ids) /\ book.seq <= Len(arrived)
      /\ Known(book, trades, ToSet(arrived))
      /\ placed \in [Ids -> 0..MaxQty] /\ dropped \in [Ids -> 0..MaxQty]
      /\ \A m \in Ids \ ToSet(arrived) : placed[m] = 0 /\ dropped[m] = 0
      /\ \A m \in Ids : placed[m] = Resting2(book, m) + Turnover(DealsOf(trades, m)) + dropped[m]
  BY DEF BookInv
<1>2. /\ book' = run.book /\ trades' = T2 /\ arrived' = Append(arrived, id)
      /\ placed' = [placed EXCEPT ![id] = q]
  BY DEF Record
<1>3. /\ arrived' \in Seq(Ids) /\ Len(arrived') = Len(arrived) + 1
      /\ ToSet(arrived') = ToSet(arrived) \cup {id}
  BY <1>1, <1>2, Arrives
<1>4. q \in 0..MaxQty /\ left \in 0..MaxQty /\ q \in Int
  BY BoundsAssumption
<1>5. placed' \in [Ids -> 0..MaxQty] /\ dropped' \in [Ids -> 0..MaxQty]
  BY <1>1, <1>2, <1>4
<1>6. /\ placed'[id] = q /\ dropped'[id] = left
      /\ \A m \in Ids \ {id} : placed'[m] = placed[m] /\ dropped'[m] = dropped[m]
  BY <1>1, <1>2
<1>7. book'.seq <= Len(arrived')
  <2>1. book.seq \in Nat /\ run.book.seq \in Nat /\ Len(arrived) \in Nat
    BY SMTT(30), <1>1 DEF LooksRight
  <2> QED BY SMTT(30), <1>1, <1>2, <1>3, <2>1
<1> HIDE DEF T2
<1>8. \A m \in Ids : /\ Resting2(book, m) \in Nat /\ Turnover(DealsOf(trades, m)) \in Int
                     /\ Resting2(run.book, m) \in Nat /\ Turnover(DealsOf(T2, m)) \in Int
  <2>1. T2 \subseteq Trade /\ IsFiniteSet(T2) /\ trades \subseteq Trade /\ IsFiniteSet(trades)
    BY <1>1 DEF Known, T2
  <2> QED BY <1>1, <2>1, SumsAreNat
<1>9. ASSUME NEW m \in Ids
      PROVE  placed'[m] = Resting2(book', m) + Turnover(DealsOf(trades', m)) + dropped'[m]
  <2>1. CASE m = id
    <3>1. Resting2(book', m) = rests /\ Turnover(DealsOf(trades', m)) = q - (rests + left)
      BY <1>2, <2>1 DEF T2
    <3> QED BY <1>4, <1>6, <2>1, <3>1
  <2>2. CASE m # id
    <3>1. placed[m] = Resting2(book, m) + Turnover(DealsOf(trades, m)) + dropped[m]
      BY <1>1
    <3>2. Resting2(run.book, m) + Turnover(DealsOf(T2, m)) = Resting2(book, m) + Turnover(DealsOf(trades, m))
      BY <2>2 DEF T2
    <3>3. dropped[m] \in Int
      BY <1>1
    <3> QED BY <1>2, <1>6, <1>8, <2>2, <3>1, <3>2, <3>3
  <2> QED BY <2>1, <2>2
<1>10. \A m \in Ids \ ToSet(arrived') : placed'[m] = 0 /\ dropped'[m] = 0
  BY <1>1, <1>3, <1>6
<1>11. Known(book', trades', ToSet(arrived'))
  BY <1>2, <1>3 DEF T2
<1>12. LooksRight(book')
  BY <1>2
<1> QED BY <1>3, <1>5, <1>7, <1>9, <1>10, <1>11, <1>12 DEF BookInv

LEMMA LimitKeeps ==
  ASSUME BookInv, NEW id \in Ids, NEW side \in Sides, NEW price \in MinPrice..MaxPrice,
         NEW q \in 1..MaxQty, LimitOrder(id, side, price, q)
  PROVE  BookInv'
<1> DEFINE o == OppositeSide(side)
           E == {e \in ToSet(book[o]) : Crosses(side, price, e.price)}
           loop == MatchLoop(E, q, book[o])
           hit == Hit(book, side, loop.rest)
           run == AddLimit(book, id, side, price, q)
           T2 == trades \cup TradesOf(id, loop.matches)
<1>1. /\ run.book = Rest(hit, id, side, price, loop.left)
      /\ run.matches = loop.matches /\ run.left = loop.left
  BY DEF AddLimit, Hit
<1>2. /\ Fresh(id) /\ Record(id, q, run) /\ dropped' = dropped
  BY DEF LimitOrder
<1>3. id \notin ToSet(arrived)
  BY <1>2 DEF Fresh
<1>4. /\ LooksRight(book) /\ Known(book, trades, ToSet(arrived)) /\ dropped \in [Ids -> 0..MaxQty]
      /\ \A m \in Ids \ ToSet(arrived) : dropped[m] = 0
  BY DEF BookInv
<1>5. /\ loop.left \in 0..q /\ LooksRight(hit) /\ hit.seq = book.seq
      /\ Known(hit, T2, ToSet(arrived) \cup {id})
      /\ IdsIn(hit.buy) \subseteq ToSet(arrived) /\ IdsIn(hit.sell) \subseteq ToSet(arrived)
      /\ \A m \in Ids \ {id} : Resting2(hit, m) + Turnover(DealsOf(T2, m))
                               = Resting2(book, m) + Turnover(DealsOf(trades, m))
      /\ Resting2(hit, id) = 0 /\ Turnover(DealsOf(T2, id)) = q - loop.left
  <2>1. loop = MatchLoop(E, q, book[OppositeSide(side)])
    OBVIOUS
  <2>2. Accepted(book, trades, ToSet(arrived), id, q, loop.left, hit, T2)
    <3> HIDE DEF loop, E
    <3> QED BY <1>3, <1>4, <2>1, Accepting
  <2> HIDE DEF loop, hit, T2
  <2> QED BY <2>2 DEF Accepted
<1> HIDE DEF loop, hit, run
<1>6. /\ LooksRight(run.book) /\ run.book.seq <= hit.seq + 1
      /\ IdsIn(run.book.buy) \subseteq ToSet(arrived) \cup {id}
      /\ IdsIn(run.book.sell) \subseteq ToSet(arrived) \cup {id}
      /\ \A m : Resting2(run.book, m) = IF m = id THEN loop.left ELSE Resting2(hit, m)
  <2>1. loop.left \in 0..MaxQty
    BY <1>5, BoundsAssumption
  <2>2. PutAway(hit, run.book, ToSet(arrived), id, loop.left)
    BY <1>1, <1>3, <1>5, <2>1, RestingPlace
  <2> QED BY <2>2 DEF PutAway
<1>7. Known(run.book, trades \cup TradesOf(id, run.matches), ToSet(arrived) \cup {id})
  BY <1>1, <1>5, <1>6 DEF Known
<1>8. dropped' = [dropped EXCEPT ![id] = 0]
  BY <1>2, <1>3, <1>4
<1>9. loop.left \in Nat /\ loop.left + 0 \in 0..q /\ 0 \in Nat /\ loop.left + 0 = loop.left
  BY <1>5
<1>10. Turnover(DealsOf(trades \cup TradesOf(id, run.matches), id)) = q - (loop.left + 0)
  BY <1>1, <1>5, <1>9
<1>11. \A m \in Ids \ {id} :
          Resting2(run.book, m) + Turnover(DealsOf(trades \cup TradesOf(id, run.matches), m))
             = Resting2(book, m) + Turnover(DealsOf(trades, m))
  BY <1>1, <1>5, <1>6
<1>12. Resting2(run.book, id) = loop.left /\ run.book.seq <= book.seq + 1
  BY <1>5, <1>6
<1> QED BY <1>2, <1>6, <1>7, <1>8, <1>9, <1>10, <1>11, <1>12, Recording

LEMMA MarketKeeps ==
  ASSUME BookInv, NEW id \in Ids, NEW side \in Sides, NEW q \in 1..MaxQty,
         MarketOrder(id, side, q)
  PROVE  BookInv'
<1> DEFINE o == OppositeSide(side)
           E == ToSet(book[o])
           loop == MatchLoop(E, q, book[o])
           hit == Hit(book, side, loop.rest)
           run == AddMarket(book, side, q)
           T2 == trades \cup TradesOf(id, loop.matches)
<1>1. run.book = hit /\ run.matches = loop.matches /\ run.left = loop.left
  BY DEF AddMarket, Hit
<1>2. /\ Fresh(id) /\ Record(id, q, run) /\ dropped' = [dropped EXCEPT ![id] = run.left]
  BY DEF MarketOrder
<1>3. id \notin ToSet(arrived)
  BY <1>2 DEF Fresh
<1>4. LooksRight(book) /\ Known(book, trades, ToSet(arrived))
  BY DEF BookInv
<1>5. /\ loop.left \in 0..q /\ LooksRight(hit) /\ hit.seq = book.seq
      /\ Known(hit, T2, ToSet(arrived) \cup {id})
      /\ \A m \in Ids \ {id} : Resting2(hit, m) + Turnover(DealsOf(T2, m))
                               = Resting2(book, m) + Turnover(DealsOf(trades, m))
      /\ Resting2(hit, id) = 0 /\ Turnover(DealsOf(T2, id)) = q - loop.left
  <2>1. loop = MatchLoop(E, q, book[OppositeSide(side)])
    OBVIOUS
  <2>2. Accepted(book, trades, ToSet(arrived), id, q, loop.left, hit, T2)
    <3> HIDE DEF loop, E
    <3> QED BY <1>3, <1>4, <2>1, Accepting
  <2> HIDE DEF loop, hit, T2
  <2> QED BY <2>2 DEF Accepted
<1> HIDE DEF loop, hit, run
<1>6. LooksRight(run.book) /\ run.book.seq <= book.seq + 1
  <2>1. book.seq \in Nat
    BY <1>4 DEF LooksRight
  <2> QED BY <1>1, <1>5, <2>1
<1>7. Known(run.book, trades \cup TradesOf(id, run.matches), ToSet(arrived) \cup {id})
  BY <1>1, <1>5
<1>8. run.left \in Nat /\ 0 + run.left \in 0..q /\ 0 \in Nat /\ 0 + run.left = run.left
  BY <1>1, <1>5
<1>9. /\ Turnover(DealsOf(trades \cup TradesOf(id, run.matches), id)) = q - (0 + run.left)
      /\ Resting2(run.book, id) = 0
      /\ \A m \in Ids \ {id} :
          Resting2(run.book, m) + Turnover(DealsOf(trades \cup TradesOf(id, run.matches), m))
             = Resting2(book, m) + Turnover(DealsOf(trades, m))
  BY <1>1, <1>5, <1>8
<1> QED BY <1>2, <1>6, <1>7, <1>8, <1>9, Recording

LEMMA CancelKeeps ==
  ASSUME BookInv, NEW id \in Ids, Cancel(id)
  PROVE  BookInv'
<1> DEFINE c == CancelEntry(book, id)
<1>1. /\ LooksRight(book) /\ arrived \in Seq(Ids) /\ book.seq <= Len(arrived)
      /\ Known(book, trades, ToSet(arrived))
      /\ placed \in [Ids -> 0..MaxQty] /\ dropped \in [Ids -> 0..MaxQty]
      /\ \A m \in Ids \ ToSet(arrived) : placed[m] = 0 /\ dropped[m] = 0
      /\ \A m \in Ids : placed[m] = Resting2(book, m) + Turnover(DealsOf(trades, m)) + dropped[m]
  BY DEF BookInv
<1>2. /\ book' = c /\ arrived' = arrived /\ placed' = placed /\ trades' = trades
      /\ dropped' = [dropped EXCEPT ![id] = @ + Resting2(book, id)]
  BY RemainingIs DEF Cancel
<1>3. /\ LooksRight(c) /\ c.seq = book.seq
      /\ IdsIn(c.buy) \subseteq IdsIn(book.buy) /\ IdsIn(c.sell) \subseteq IdsIn(book.sell)
      /\ \A m : Resting2(c, m) = IF m = id THEN 0 ELSE Resting2(book, m)
  BY <1>1, Cancelling
<1> HIDE DEF c
<1>4. Known(c, trades, ToSet(arrived))
  BY <1>1, <1>3 DEF Known
<1>5. \A m \in Ids : Resting2(book, m) \in Nat /\ Turnover(DealsOf(trades, m)) \in Nat
  <2>1. trades \subseteq Trade /\ IsFiniteSet(trades)
    BY <1>1 DEF Known
  <2>2. \A m \in Ids : /\ Resting2(book, m) \in Nat /\ DealsOf(trades, m) \subseteq Trade
                       /\ IsFiniteSet(DealsOf(trades, m))
    BY <1>1, <2>1, SumsAreNat
  <2> QED BY <2>2, TradedNat
<1>6. dropped[id] + Resting2(book, id) \in 0..MaxQty
  BY <1>1, <1>5, BoundsAssumption
<1>7. /\ dropped' \in [Ids -> 0..MaxQty] /\ dropped'[id] = dropped[id] + Resting2(book, id)
      /\ \A m \in Ids \ {id} : dropped'[m] = dropped[m]
  BY <1>1, <1>2, <1>6
<1>8. ASSUME NEW m \in Ids
      PROVE  placed'[m] = Resting2(book', m) + Turnover(DealsOf(trades', m)) + dropped'[m]
  <2>1. placed[m] = Resting2(book, m) + Turnover(DealsOf(trades, m)) + dropped[m] /\ dropped[m] \in Int
    BY <1>1
  <2>2. CASE m = id
    BY <1>2, <1>3, <1>5, <1>7, <2>1, <2>2
  <2>3. CASE m # id
    BY <1>2, <1>3, <1>5, <1>7, <2>1, <2>3
  <2> QED BY <2>2, <2>3
<1>9. \A m \in Ids \ ToSet(arrived') : placed'[m] = 0 /\ dropped'[m] = 0
  <2>1. id \notin ToSet(arrived) => Resting2(book, id) = 0
    <3>1. placed[id] = 0 /\ dropped[id] = 0 =>  Resting2(book, id) = 0
      BY <1>1, <1>5
    <3> QED BY <1>1, <3>1
  <2> QED BY <1>1, <1>2, <1>7, <2>1
<1> QED BY <1>1, <1>2, <1>3, <1>4, <1>7, <1>8, <1>9 DEF BookInv

LEMMA BookSteps == BookInv /\ [Next]_vars => BookInv'
<1> SUFFICES ASSUME BookInv, [Next]_vars PROVE BookInv'
  OBVIOUS
<1>1. CASE Next
  <2>1. PICK id \in Ids :
           \/ Cancel(id)
           \/ \E side \in Sides, qty \in 1..MaxQty :
                 \/ MarketOrder(id, side, qty)
                 \/ \E price \in MinPrice..MaxPrice : LimitOrder(id, side, price, qty)
    BY <1>1 DEF Next
  <2>2. CASE Cancel(id)
    BY <2>2, CancelKeeps
  <2>3. CASE \E side \in Sides, qty \in 1..MaxQty : MarketOrder(id, side, qty)
    BY <2>3, MarketKeeps
  <2>4. CASE \E side \in Sides, qty \in 1..MaxQty :
               \E price \in MinPrice..MaxPrice : LimitOrder(id, side, price, qty)
    BY <2>4, LimitKeeps
  <2> QED BY <2>1, <2>2, <2>3, <2>4
<1>2. CASE UNCHANGED vars
  <2>1. /\ book' = book /\ arrived' = arrived /\ placed' = placed /\ trades' = trades
        /\ dropped' = dropped
    BY <1>2 DEF vars
  <2> QED BY <2>1 DEF BookInv
<1> QED BY <1>1, <1>2

\* BookInv is inductive.
THEOREM BookInvariance == Spec => []BookInv
<1> QED BY BookStarts, BookSteps, PTL DEF Spec

LEMMA BookTyped == BookInv => TypeOK
<1> SUFFICES ASSUME BookInv PROVE TypeOK
  OBVIOUS
<1>1. /\ book \in [buy : Seq(Entry), sell : Seq(Entry), seq : Nat]
      /\ arrived \in Seq(Ids) /\ book.seq <= Len(arrived)
      /\ placed \in [Ids -> 0..MaxQty] /\ dropped \in [Ids -> 0..MaxQty]
      /\ trades \subseteq Trade
  BY DEF BookInv, LooksRight, Known
<1>2. \A side \in Sides : \A i \in DOMAIN book[side] : book[side][i] \in Entry
  <2>1. book.buy \in Seq(Entry) /\ book.sell \in Seq(Entry)
    BY <1>1
  <2>2. /\ \A i \in DOMAIN book.buy : book.buy[i] \in Entry
        /\ \A i \in DOMAIN book.sell : book.sell[i] \in Entry
    BY <2>1
  <2> QED BY <2>2 DEF Sides
<1>3. book.seq \in 0..Len(arrived)
  BY <1>1
<1>4. ToSet(arrived) \subseteq Ids
  BY <1>1 DEF ToSet
<1>5. \A t \in trades : t.taker \in Ids /\ t.maker \in Ids
  BY <1>1 DEF Trade
<1> QED BY <1>1, <1>2, <1>3, <1>4, <1>5 DEF TypeOK

\* The lists, the counter and the records of the book keep their shape, whatever orders
\* come: no remainder falls to nothing or rises above what was asked, and the counter
\* never runs ahead of the orders accepted (order_book.py: add_limit, add_market, cancel).
THEOREM BookIsTyped == Spec => []TypeOK
<1> QED BY BookInvariance, BookTyped, PTL

LEMMA TradedByIs == \A id : TradedBy(id) = Turnover(DealsOf(trades, id))
  BY DEF TradedBy, Turnover, DealsOf

LEMMA BookBalances == BookInv => QuantityConserved
  BY RemainingIs, TradedByIs DEF BookInv, QuantityConserved

\* Every unit an order asked for is resting, traded or dropped, after any sequence of
\* limit orders, market orders and cancellations of any length (the matching loop of
\* order_book.py and the remainder it rests).
THEOREM QuantityIsConserved == Spec => []QuantityConserved
<1> QED BY BookInvariance, BookBalances, PTL

LEMMA BookQuotes == BookInv => QuoteIsExact
<1> SUFFICES ASSUME BookInv, NEW side \in Sides, NEW qty \in 1..MaxQty
             PROVE  LET quote == QuoteMarket(book, side, qty)
                        run   == AddMarket(book, side, qty)
                    IN  /\ Len(quote) = Len(run.matches)
                        /\ \A i \in DOMAIN quote :
                              quote[i] = [price |-> run.matches[i].price,
                                          qty |-> run.matches[i].qty]
  BY DEF QuoteIsExact
<1> DEFINE s == book[OppositeSide(side)]
           E == ToSet(s)
<1>1. OppositeSide(side) \in {"buy", "sell"}
  BY DEF OppositeSide, Sides
<1>2. s \in Seq(Entry)
  BY <1>1 DEF BookInv, LooksRight
<1>3. qty \in Nat /\ book[OppositeSide(side)] = s
  BY BoundsAssumption
<1> HIDE DEF s
<1>4. s \in Seq(Slot) /\ \A i \in 1..Len(s) : s[i].remaining > 0 /\ s[i] \in E
  <2>1. DOMAIN s = 1..Len(s) /\ s \in Seq(Slot) /\ \A i \in 1..Len(s) : s[i].remaining > 0
    BY <1>2, EntryIsSlot
  <2> QED BY <2>1 DEF ToSet
<1>5. AddMarket(book, side, qty).matches = MatchLoop(E, qty, s).matches
  BY <1>3 DEF AddMarket
<1> HIDE DEF E
<1>6. SameLevels(QuoteMarket(book, side, qty), MatchLoop(E, qty, s).matches)
  BY <1>3, <1>4, QuoteMatches
<1> QED BY <1>5, <1>6 DEF SameLevels

\* In every state, what quote_market announces is what add_market would then do, level by
\* level: the two separate loops agree, whatever the lists hold.
THEOREM QuotesAreExact == Spec => []QuoteIsExact
<1> QED BY BookInvariance, BookQuotes, PTL

-------------------------------------------------------------------------------------
(* More about sums: along an enumeration, and from weight to weight.                 *)

LEMMA TotalWhole ==
  ASSUME NEW S, IsFiniteSet(S), NEW w \in [S -> Int], NEW h \in [SUBSET S -> Int],
         Summing(h, S, w)
  PROVE  Total(w) = h[S]
  BY TotalOf

\* A set listed by a sequence is finite.
LEMMA ListedFinite ==
  ASSUME NEW n \in Nat, NEW x, DOMAIN x = 1..n
  PROVE  IsFiniteSet({x[i] : i \in 1..n})
<1> DEFINE N(j) == {x[i] : i \in 1..j}
           K == {j \in Nat : IsFiniteSet(N(j))}
<1>1. 0 \in K
  <2>1. N(0) = {}
    OBVIOUS
  <2> HIDE DEF N
  <2> QED BY <2>1, FS_EmptySet
<1>2. ASSUME NEW j \in Nat, j \in K PROVE j + 1 \in K
  <2>1. \A i : i \in 1..j + 1 <=> i \in 1..j \/ i = j + 1
    OBVIOUS
  <2>2. N(j + 1) = N(j) \cup {x[j + 1]}
    BY <2>1
  <2> HIDE DEF N
  <2>3. IsFiniteSet(N(j) \cup {x[j + 1]})
    BY <1>2, FS_AddElement
  <2>4. IsFiniteSet(N(j + 1))
    BY <2>2, <2>3
  <2> QED BY <2>4
<1>3. n \in K
  <2> HIDE DEF K
  <2> QED BY <1>1, <1>2, Induct
<1> QED BY <1>3

\* x lists S, and c is the running sum of w along it.
Lists(S, x, n) ==
    /\ x \in [1..n -> S] /\ S = {x[i] : i \in 1..n}
    /\ \A i, j \in 1..n : x[i] = x[j] => i = j
Running(w, x, c, n) ==
    /\ c \in [0..n -> Int] /\ c[0] = 0
    /\ \A i \in 1..n : c[i] = c[i - 1] + w[x[i]]

LEMMA SumAlong ==
  ASSUME NEW S, NEW w \in [S -> Int], NEW n \in Nat,
         NEW x, Lists(S, x, n), NEW c, Running(w, x, c, n)
  PROVE  IsFiniteSet(S) /\ Total(w) = c[n]
<1>0. /\ x \in [1..n -> S] /\ S = {x[i] : i \in 1..n}
      /\ \A i, j \in 1..n : x[i] = x[j] => i = j
      /\ c \in [0..n -> Int] /\ c[0] = 0
      /\ \A i \in 1..n : c[i] = c[i - 1] + w[x[i]]
  BY DEF Lists, Running
<1>8. IsFiniteSet(S)
  <2>1. DOMAIN x = 1..n
    BY <1>0
  <2> QED BY <1>0, <2>1, ListedFinite
<1>9. PICK h \in [SUBSET S -> Int] : Summing(h, S, w)
  BY <1>8, SumExists
<1> DEFINE N(j) == {x[i] : i \in 1..j}
           K == {j \in Nat : j <= n => h[N(j)] = c[j]}
<1>1. TakesAny(h, S, w)
  BY <1>8, <1>9, SumTakes
<1>2. 0 \in K
  <2>1. N(0) = {}
    OBVIOUS
  <2>2. h[{}] = 0
    BY <1>9 DEF Summing
  <2> HIDE DEF N
  <2> QED BY <1>0, <2>1, <2>2
<1>3. ASSUME NEW j \in Nat, j \in K PROVE j + 1 \in K
  <2> SUFFICES ASSUME j + 1 <= n PROVE h[N(j + 1)] = c[j + 1]
    OBVIOUS
  <2>1. h[N(j)] = c[j] /\ j + 1 \in 1..n /\ (j + 1) - 1 = j /\ j \in 0..n
    BY <1>3
  <2>2. \A i : i \in 1..j + 1 <=> i \in 1..j \/ i = j + 1
    OBVIOUS
  <2>3. N(j + 1) \in SUBSET S /\ x[j + 1] \in N(j + 1)
    <3>1. \A i \in 1..j + 1 : i \in 1..n
      BY <2>1
    <3>2. \A i \in 1..j + 1 : x[i] \in S
      BY <1>0, <3>1
    <3> QED BY <3>2
  <2>4. N(j + 1) \ {x[j + 1]} = N(j)
    <3>1. \A i \in 1..j : i \in 1..n /\ i # j + 1
      BY <2>1
    <3>2. x[j + 1] \notin N(j)
      BY <1>0, <2>1, <3>1
    <3> QED BY <2>2, <3>2
  <2> HIDE DEF N, K
  <2>5. h[N(j + 1)] = w[x[j + 1]] + h[N(j)]
    <3>1. \A r \in SUBSET S : \A y \in r : h[r] = w[y] + h[r \ {y}]
      BY <1>1 DEF TakesAny
    <3>2. h[N(j + 1)] = w[x[j + 1]] + h[N(j + 1) \ {x[j + 1]}]
      BY <2>3, <3>1
    <3> QED BY <2>4, <3>2
  <2>6. c[j + 1] = c[j] + w[x[j + 1]] /\ c[j] \in Int /\ w[x[j + 1]] \in Int
    BY <1>0, <2>1
  <2> QED BY <2>1, <2>5, <2>6 DEF K
<1>4. n \in K
  <2> HIDE DEF K
  <2> QED BY <1>2, <1>3, Induct
<1>5. N(n) = S
  BY <1>0
<1>6. h[S] = c[n]
  <2> HIDE DEF N
  <2> QED BY <1>4, <1>5
<1>7. Total(w) = h[S]
  BY <1>8, <1>9, TotalWhole
<1> QED BY <1>6, <1>7, <1>8

LEMMA SumBelow ==
  ASSUME NEW S, IsFiniteSet(S), NEW w \in [S -> Int], NEW v \in [S -> Int],
         \A x \in S : w[x] <= v[x]
  PROVE  Total(w) <= Total(v) /\ Total(w) \in Int /\ Total(v) \in Int
<1>1. PICK h \in [SUBSET S -> Int] : Summing(h, S, w)
  BY SumExists
<1>2. PICK k \in [SUBSET S -> Int] : Summing(k, S, v)
  BY SumExists
<1>3. Total(w) = h[S] /\ Total(v) = k[S]
  <2>1. S \in SUBSET S /\ DOMAIN w = S /\ DOMAIN v = S
    OBVIOUS
  <2>2. Total(w) = h[S]
    BY <1>1, TotalWhole
  <2>3. Total(v) = k[S]
    BY <1>2, TotalWhole
  <2> QED BY <2>2, <2>3
<1>4. TakesAny(h, S, w) /\ TakesAny(k, S, v)
  BY <1>1, <1>2, SumTakes
<1> DEFINE K == {n \in Nat : \A s \in SUBSET S : Cardinality(s) = n => h[s] <= k[s]}
<1>5. \A s \in SUBSET S : IsFiniteSet(s) /\ Cardinality(s) \in Nat /\ h[s] \in Int /\ k[s] \in Int
  BY FS_Subset, FS_CardinalityType
<1>6. 0 \in K
  <2>1. \A s \in SUBSET S : Cardinality(s) = 0 => s = {}
    BY <1>5, FS_EmptySet
  <2>2. h[{}] = 0 /\ k[{}] = 0
    BY <1>1, <1>2 DEF Summing
  <2>3. ASSUME NEW s \in SUBSET S, Cardinality(s) = 0 PROVE h[s] <= k[s]
    <3>1. s = {}
      BY <2>1, <2>3
    <3>2. h[s] = 0 /\ k[s] = 0
      BY <2>2, <3>1
    <3> QED BY <3>2
  <2> HIDE DEF TakesAny
  <2> QED BY <2>3
<1>7. ASSUME NEW n \in Nat, n \in K PROVE n + 1 \in K
  <2>1. ASSUME NEW s \in SUBSET S, Cardinality(s) = n + 1 PROVE h[s] <= k[s]
    <3>1. s # {}
      <4>1. Cardinality({}) = 0 /\ n + 1 # 0
        BY FS_EmptySet
      <4> QED BY <2>1, <4>1
    <3>2. PICK x \in s : TRUE
      BY <3>1
    <3>3. s \ {x} \in SUBSET S /\ Cardinality(s \ {x}) = n
      <4>1. Cardinality(s \ {x}) = Cardinality(s) - 1
        BY <1>5, FS_RemoveElement
      <4> QED BY <2>1, <4>1
    <3>4. h[s \ {x}] <= k[s \ {x}]
      BY <1>7, <3>3
    <3>5. h[s] = w[x] + h[s \ {x}] /\ k[s] = v[x] + k[s \ {x}]
      BY <1>4 DEF TakesAny
    <3>6. /\ w[x] <= v[x] /\ w[x] \in Int /\ v[x] \in Int
          /\ h[s \ {x}] \in Int /\ k[s \ {x}] \in Int
      BY <1>5, <3>3
    <3> QED BY <3>4, <3>5, <3>6
  <2> QED BY <2>1
<1>8. Nat \subseteq K
  <2> HIDE DEF K
  <2> QED BY <1>6, <1>7, Induct
<1>9. Cardinality(S) \in K /\ S \in SUBSET S
  BY <1>5, <1>8
<1> QED BY <1>3, <1>5, <1>9

-------------------------------------------------------------------------------------
(* The lists are in order.                                                           *)

View(side, e) ==
    [id |-> e.id, side |-> side, price |-> e.price, remaining |-> e.remaining]
Views(side, s) == {View(side, s[i]) : i \in DOMAIN s}

Before(arr, a, b) == \E i, j \in DOMAIN arr : i < j /\ arr[i] = a /\ arr[j] = b
Better(arr, a, b) ==
    \/ a.side = "buy" /\ a.price > b.price
    \/ a.side = "sell" /\ a.price < b.price
    \/ a.price = b.price /\ Before(arr, a.id, b.id)
Once(arr) == \A i, j \in DOMAIN arr : arr[i] = arr[j] => i = j

\* A list is sorted, and of its entries the one with the lower number came earlier.
Queued(side, s, seq, arr) ==
    /\ \A i, j \in DOMAIN s : i < j => SortsBefore(side, s[i], s[j])
    /\ \A i \in DOMAIN s : s[i].seq <= seq
    /\ \A i, j \in DOMAIN s : s[i].seq < s[j].seq => Before(arr, s[i].id, s[j].id)

\* The price the limit allows cuts the list in two.
LEMMA EligibleFirst ==
  ASSUME NEW side \in Sides, NEW s \in Seq(Entry), NEW seq, NEW arr, Queued(side, s, seq, arr),
         NEW limits,
         \/ \E low \in Int : side = "buy" /\ \A p \in MinPrice..MaxPrice : p \in limits <=> p >= low
         \/ \E top \in Int : side = "sell" /\ \A p \in MinPrice..MaxPrice : p \in limits <=> p <= top
  PROVE  \E m \in 0..Len(s) : \A i \in 1..Len(s) : s[i].price \in limits <=> i <= m
<1> DEFINE R == {i \in 1..Len(s) : s[i].price \in limits}
<1>1. /\ Len(s) \in Nat /\ DOMAIN s = 1..Len(s)
      /\ \A i \in 1..Len(s) : s[i].price \in MinPrice..MaxPrice /\ s[i].price \in Int
  <2>1. \A p \in MinPrice..MaxPrice : p \in Int
    BY BoundsAssumption
  <2> QED BY <2>1, EntryIsSlot
<1>2. ASSUME NEW i \in 1..Len(s), NEW j \in 1..Len(s), i < j, s[j].price \in limits
      PROVE  s[i].price \in limits
  <2>1. SortsBefore(side, s[i], s[j])
    BY <1>1, <1>2 DEF Queued
  <2>2. CASE side = "buy"
    <3>1. PICK low \in Int : \A p \in MinPrice..MaxPrice : p \in limits <=> p >= low
      BY <2>2
    <3>2. s[i].price >= s[j].price
      BY <1>1, <2>1, <2>2 DEF SortsBefore
    <3>3. s[j].price >= low
      BY <1>1, <1>2, <3>1
    <3>4. s[i].price >= low
      BY <1>1, <3>2, <3>3
    <3> QED BY <1>1, <3>1, <3>4
  <2>3. CASE side = "sell"
    <3>1. PICK top \in Int : \A p \in MinPrice..MaxPrice : p \in limits <=> p <= top
      BY <2>3
    <3>2. s[i].price <= s[j].price
      BY <1>1, <2>1, <2>3 DEF SortsBefore
    <3>3. s[j].price <= top
      BY <1>1, <1>2, <3>1
    <3>4. s[i].price <= top
      BY <1>1, <3>2, <3>3
    <3> QED BY <1>1, <3>1, <3>4
  <2> QED BY <2>2, <2>3 DEF Sides
<1>3. R \in SUBSET (1..Len(s)) /\ \A j \in R : \A i \in 1..Len(s) : i <= j => i \in R
  <2>1. ASSUME NEW j \in R, NEW i \in 1..Len(s), i <= j PROVE i \in R
    <3>1. CASE i = j
      BY <3>1
    <3>2. CASE i < j
      BY <1>2, <3>2
    <3> QED BY <1>1, <2>1, <3>1, <3>2
  <2> QED BY <2>1
<1>4. PICK m \in 0..Len(s) : R = 1..m
  <2> HIDE DEF R
  <2> QED BY <1>1, <1>3, InitialSegment
<1>5. \A i \in 1..Len(s) : s[i].price \in limits <=> i <= m
  <2>1. \A i \in 1..Len(s) : i \in R <=> i \in 1..m
    BY <1>4
  <2>2. \A i \in 1..Len(s) : i \in 1..m <=> i <= m
    BY <1>1
  <2> QED BY <2>1, <2>2
<1> QED BY <1>5

-------------------------------------------------------------------------------------
(* An allocation that gives what the loop takes.                                     *)

\* What the i-th entry gives.
Give(s, d, part, i) == IF i <= d THEN s[i].remaining ELSE IF i = d + 1 THEN part ELSE 0

\* The first m entries are eligible; d of them are used up, and part of the next.
Cut(s, m, d, part, left) ==
    /\ m \in 0..Len(s) /\ d \in 0..m /\ part \in Nat
    /\ part > 0 => d + 1 <= m /\ part < s[d + 1].remaining
    /\ left > 0 => d = m /\ part = 0

\* An allocation that gives what the loop takes.
Shares(side, s, m, d, part, alloc) ==
    /\ alloc \in [{View(side, s[i]) : i \in 1..m} -> 0..MaxQty]
    /\ \A i \in 1..m : alloc[View(side, s[i])] = Give(s, d, part, i)

LEMMA Cutting ==
  ASSUME NEW E, NEW q, NEW s \in Seq(Entry), NEW run, NEW d, NEW part,
         Outcome(E, q, s, run, d, part), NEW m \in 0..Len(s),
         \A i \in 1..Len(s) : s[i] \in E <=> i <= m
  PROVE  Cut(s, m, d, part, run.left)
<1>1. /\ d \in 0..Len(s) /\ part \in Nat
      /\ \A i \in 1..d : s[i] \in E
      /\ part > 0 => d < Len(s) /\ part < s[d + 1].remaining /\ run.left = 0 /\ s[d + 1] \in E
      /\ d < Len(s) => run.left = 0 \/ s[d + 1] \notin E
  BY DEF Outcome
<1>2. Len(s) \in Nat
  OBVIOUS
<1>3. d <= m
  <2>1. CASE d = 0
    BY <1>2, <2>1
  <2>2. CASE d # 0
    <3>1. d \in 1..d /\ d \in 1..Len(s)
      BY <1>1, <1>2, <2>2
    <3> QED BY <1>1, <3>1
  <2> QED BY <2>1, <2>2
<1>4. part > 0 => d + 1 <= m /\ part < s[d + 1].remaining
  <2> SUFFICES ASSUME part > 0 PROVE d + 1 <= m /\ part < s[d + 1].remaining
    OBVIOUS
  <2>1. d + 1 \in 1..Len(s)
    BY <1>1, <1>2
  <2> QED BY <1>1, <2>1
<1>5. ASSUME run.left > 0 PROVE d = m /\ part = 0
  <2>1. part = 0
    BY <1>1, <1>5
  <2>2. CASE d < Len(s)
    <3>1. d + 1 \in 1..Len(s) /\ s[d + 1] \notin E
      BY <1>1, <1>2, <1>5, <2>2
    <3> QED BY <1>1, <1>2, <1>3, <2>1, <3>1
  <2>3. CASE d = Len(s)
    BY <1>2, <1>3, <2>1, <2>3
  <2> QED BY <1>1, <2>2, <2>3
<1> QED BY <1>1, <1>2, <1>3, <1>4, <1>5 DEF Cut

LEMMA GiveType ==
  ASSUME NEW s \in Seq(Entry), NEW m, NEW d, NEW part, NEW left, Cut(s, m, d, part, left)
  PROVE  \A i \in 1..m : /\ i \in 1..Len(s) /\ Give(s, d, part, i) \in 0..MaxQty
                         /\ Give(s, d, part, i) <= s[i].remaining
                         /\ Give(s, d, part, i) < s[i].remaining <=> i > d
                         /\ Give(s, d, part, i) > 0 <=> i <= d \/ (i = d + 1 /\ part > 0)
<1>1. /\ m \in 0..Len(s) /\ d \in 0..m /\ part \in Nat
      /\ part > 0 => d + 1 <= m /\ part < s[d + 1].remaining
  BY DEF Cut
<1> SUFFICES ASSUME NEW i \in 1..m
             PROVE  /\ i \in 1..Len(s) /\ Give(s, d, part, i) \in 0..MaxQty
                    /\ Give(s, d, part, i) <= s[i].remaining
                    /\ Give(s, d, part, i) < s[i].remaining <=> i > d
                    /\ Give(s, d, part, i) > 0 <=> i <= d \/ (i = d + 1 /\ part > 0)
  OBVIOUS
<1>2. i \in 1..Len(s) /\ s[i].remaining \in 1..MaxQty
  BY <1>1, EntryIsSlot
<1>3. i = d + 1 /\ part > 0 => part < s[i].remaining
  BY <1>1
<1> DEFINE e == s[i].remaining
<1> HIDE DEF e
<1>4. Give(s, d, part, i) = IF i <= d THEN e ELSE IF i = d + 1 THEN part ELSE 0
  BY DEF Give, e
<1>5. i \in Int /\ d \in Int /\ e \in 1..MaxQty /\ MaxQty \in Nat
  BY <1>1, <1>2, BoundsAssumption DEF e
<1>6. CASE i <= d
  <2>1. Give(s, d, part, i) = s[i].remaining /\ ~(i > d) /\ i # d + 1 /\ 0 < s[i].remaining
    BY <1>4, <1>5, <1>6 DEF e
  <2> QED BY <1>2, <1>5, <1>6, <2>1 DEF e
<1>7. CASE i = d + 1
  <2>1. Give(s, d, part, i) = part /\ ~(i <= d) /\ i > d
    BY <1>4, <1>5, <1>7
  <2>2. part < e
    BY <1>1, <1>3, <1>5, <1>7 DEF e
  <2> QED BY <1>1, <1>2, <1>5, <1>7, <2>1, <2>2 DEF e
<1>8. CASE i > d + 1
  <2>1. Give(s, d, part, i) = 0 /\ ~(i <= d) /\ i > d /\ i # d + 1
    BY <1>4, <1>5, <1>8
  <2> QED BY <1>2, <1>5, <2>1 DEF e
<1> QED BY <1>5, <1>6, <1>7, <1>8

LEMMA ViewOf ==
  \A side, e : /\ View(side, e).id = e.id /\ View(side, e).side = side
               /\ View(side, e).price = e.price /\ View(side, e).remaining = e.remaining
  BY DEF View

LEMMA SharedOut ==
  ASSUME NEW side, NEW s \in Seq(Entry), NoTwice(s), NEW m, NEW d, NEW part, NEW left,
         Cut(s, m, d, part, left)
  PROVE  /\ \E alloc : Shares(side, s, m, d, part, alloc)
         /\ \A i, j \in 1..m : View(side, s[i]) = View(side, s[j]) => i = j
<1> DEFINE R == {View(side, s[i]) : i \in 1..m}
           at(x) == CHOOSE i \in 1..m : View(side, s[i]) = x
           alloc == [x \in R |-> Give(s, d, part, at(x))]
<1>1. \A i \in 1..m : i \in DOMAIN s /\ Give(s, d, part, i) \in 0..MaxQty
  BY GiveType, EntryIsSlot
<1>2. ASSUME NEW i \in 1..m, NEW j \in 1..m, View(side, s[i]) = View(side, s[j]) PROVE i = j
  <2>1. s[i].id = s[j].id
    BY <1>2, ViewOf
  <2> QED BY <1>1, <2>1 DEF NoTwice
<1>3. ASSUME NEW i \in 1..m PROVE at(View(side, s[i])) = i
  BY <1>2
<1>4. \A x \in R : at(x) \in 1..m
  BY <1>3
<1>5. \A i \in 1..m : View(side, s[i]) \in R
  OBVIOUS
<1> HIDE DEF at, R
<1>6. alloc \in [R -> 0..MaxQty]
  BY <1>1, <1>4
<1>7. \A i \in 1..m : alloc[View(side, s[i])] = Give(s, d, part, i)
  BY <1>3, <1>5
<1>8. Shares(side, s, m, d, part, alloc)
  <2> HIDE DEF alloc
  <2> QED BY <1>6, <1>7 DEF Shares, R
<1> QED BY <1>2, <1>8

LEMMA TotalShared ==
  ASSUME NEW E, NEW q \in 1..MaxQty, NEW side, NEW s \in Seq(Entry), NoTwice(s), NEW run,
         NEW m, NEW d, NEW part, Outcome(E, q, s, run, d, part), Cut(s, m, d, part, run.left),
         NEW alloc, Shares(side, s, m, d, part, alloc)
  PROVE  Total(alloc) = q - run.left
<1> DEFINE S == {View(side, s[i]) : i \in 1..m}
           x == [i \in 1..m |-> View(side, s[i])]
<1>1. /\ m \in 0..Len(s) /\ d \in 0..m /\ part \in Nat /\ m \in Nat /\ d \in Nat
      /\ part > 0 => d + 1 <= m
  BY DEF Cut
<1>2. /\ run.left \in 0..q
      /\ \E c \in [0..d -> Int] : /\ c[0] = q /\ run.left = c[d] - part
                                  /\ \A i \in 1..d : c[i] = c[i - 1] - s[i].remaining
  BY DEF Outcome
<1>3. PICK b \in [0..d -> Int] : /\ b[0] = q /\ run.left = b[d] - part
                                 /\ \A i \in 1..d : b[i] = b[i - 1] - s[i].remaining
  BY <1>2
<1> DEFINE left == run.left
           c == [i \in 0..m |-> IF i <= d THEN q - b[i] ELSE q - left]
<1>4. q \in Int /\ left \in Int
  BY <1>2, BoundsAssumption
<1>5. alloc \in [S -> 0..MaxQty] /\ \A i \in 1..m : alloc[x[i]] = Give(s, d, part, i)
  BY DEF Shares
<1>6. S = {x[i] : i \in 1..m} /\ x \in [1..m -> S]
  OBVIOUS
<1>7. \A i, j \in 1..m : x[i] = x[j] => i = j
  BY ZenonT(40), SharedOut
<1> HIDE DEF x, S
<1>8. Lists(S, x, m)
  BY <1>6, <1>7 DEF Lists
<1>9. alloc \in [S -> Int]
  BY <1>5, BoundsAssumption
<1>11. \A i \in 1..m : Give(s, d, part, i) \in Int
  BY GiveType, BoundsAssumption
<1>12. c \in [0..m -> Int]
  <2>1. \A i \in 0..m : i <= d => b[i] \in Int
    BY <1>1
  <2> QED BY <1>1, <1>4, <2>1
<1>13. c[0] = 0
  BY <1>1, <1>3, <1>4
<1>14. ASSUME NEW i \in 1..m PROVE c[i] = c[i - 1] + alloc[x[i]]
  <2>1. i \in 0..m /\ i - 1 \in 0..m
    BY <1>1
  <2>2. CASE i <= d
    <3>1. c[i] = q - b[i] /\ c[i - 1] = q - b[i - 1] /\ i \in 1..d /\ i - 1 \in 0..d /\ i \in 0..d
      BY <1>1, <2>1, <2>2
    <3>2. b[i] = b[i - 1] - s[i].remaining /\ b[i] \in Int /\ b[i - 1] \in Int
      BY <1>3, <3>1
    <3>3. alloc[x[i]] = s[i].remaining /\ s[i].remaining \in Int
      BY <1>5, <1>11, <2>2 DEF Give
    <3> HIDE DEF c
    <3> QED BY SMTT(30), <1>4, <3>1, <3>2, <3>3
  <2>3. CASE i = d + 1
    <3>1. c[i] = q - left /\ c[i - 1] = q - b[d] /\ d \in 0..d
      BY <1>1, <2>1, <2>3
    <3>2. alloc[x[i]] = part
      BY <1>1, <1>5, <2>3 DEF Give
    <3>3. b[d] \in Int
      BY <3>1
    <3> HIDE DEF c
    <3> QED BY <1>1, <1>3, <1>4, <3>1, <3>2, <3>3
  <2>4. CASE i > d + 1
    <3>1. c[i] = q - left /\ c[i - 1] = q - left
      BY <1>1, <2>1, <2>4
    <3>2. alloc[x[i]] = 0
      BY <1>1, <1>5, <2>4 DEF Give
    <3> HIDE DEF c
    <3> QED BY <1>4, <3>1, <3>2
  <2> QED BY <1>1, <2>2, <2>3, <2>4
<1>15. c[m] = q - left
  <2>1. CASE m = d
    <3>1. part = 0 /\ c[m] = q - b[d] /\ b[d] \in Int
      BY <1>1, <2>1
    <3> HIDE DEF c
    <3> QED BY <1>3, <1>4, <3>1
  <2>2. CASE m # d
    BY <1>1, <2>2
  <2> QED BY <2>1, <2>2
<1> HIDE DEF c
<1>16. Running(alloc, x, c, m)
  BY <1>12, <1>13, <1>14 DEF Running
<1>17. Total(alloc) = c[m]
  BY <1>1, <1>8, <1>9, <1>16, SumAlong
<1> QED BY <1>15, <1>17

\* No one is passed over.
LEMMA NoOnePassedOver ==
  ASSUME NEW side \in Sides, NEW s \in Seq(Entry), NoTwice(s), NEW seq, NEW arr, Once(arr),
         Queued(side, s, seq, arr), NEW m, NEW d, NEW part, NEW left, Cut(s, m, d, part, left),
         NEW alloc, Shares(side, s, m, d, part, alloc)
  PROVE  \A x, y \in DOMAIN alloc : Better(arr, x, y) /\ alloc[y] > 0 => alloc[x] = x.remaining
<1>1. /\ DOMAIN alloc = {View(side, s[i]) : i \in 1..m}
      /\ \A i \in 1..m : alloc[View(side, s[i])] = Give(s, d, part, i)
  BY DEF Shares
<1>2. m \in Nat /\ d \in Nat /\ DOMAIN s = 1..Len(s) /\ \A i \in 1..m : i \in DOMAIN s
  <2>1. m \in 0..Len(s) /\ d \in 0..m
    BY DEF Cut
  <2> QED BY <2>1
<1>3. ASSUME NEW i \in 1..m, NEW j \in 1..m, Better(arr, View(side, s[i]), View(side, s[j]))
      PROVE  i < j
  <2>1. /\ side = "buy" => s[i].price >= s[j].price
        /\ side = "sell" => s[i].price <= s[j].price
        /\ s[i].price = s[j].price => Before(arr, s[i].id, s[j].id)
    <3>1. s[i].price \in Int /\ s[j].price \in Int
      <4>1. s[i].price \in MinPrice..MaxPrice /\ s[j].price \in MinPrice..MaxPrice
        BY <1>2, EntryIsSlot
      <4> QED BY <4>1, BoundsAssumption
    <3> QED BY SMTT(30), <1>3, <3>1, ViewOf DEF Better, Sides
  <2>2. \A a, b : ~(Before(arr, a, b) /\ Before(arr, b, a))
    <3> SUFFICES ASSUME NEW a, NEW b, Before(arr, a, b), Before(arr, b, a) PROVE FALSE
      OBVIOUS
    <3>1. PICK u \in DOMAIN arr, v \in DOMAIN arr : u < v /\ arr[u] = a /\ arr[v] = b
      BY DEF Before
    <3>2. PICK y \in DOMAIN arr, z \in DOMAIN arr : y < z /\ arr[y] = b /\ arr[z] = a
      BY DEF Before
    <3>3. u = z /\ v = y
      BY <3>1, <3>2 DEF Once
    <3> QED BY SMTT(30), <3>1, <3>2, <3>3
  <2>3. i # j
    BY <2>1, <2>2
  <2>4. CASE j < i
    <3>1. SortsBefore(side, s[j], s[i])
      BY <1>2, <2>4 DEF Queued
    <3>2. s[i].price \in Int /\ s[j].price \in Int
      <4>1. s[i].price \in MinPrice..MaxPrice /\ s[j].price \in MinPrice..MaxPrice
        BY <1>2, EntryIsSlot
      <4> QED BY <4>1, BoundsAssumption
    <3>3. s[i].price = s[j].price /\ s[j].seq < s[i].seq
      BY <2>1, <3>1, <3>2 DEF SortsBefore, Sides
    <3>4. Before(arr, s[j].id, s[i].id)
      BY <1>2, <3>3 DEF Queued
    <3> QED BY <2>1, <2>2, <3>3, <3>4
  <2> QED BY <1>2, <2>3, <2>4
<1>4. ASSUME NEW i \in 1..m, NEW j \in 1..m, Better(arr, View(side, s[i]), View(side, s[j])),
             alloc[View(side, s[j])] > 0
      PROVE  alloc[View(side, s[i])] = View(side, s[i]).remaining
  <2>1. i < j
    BY <1>3, <1>4
  <2>2. j <= d \/ j = d + 1
    BY <1>1, <1>2, <1>4, GiveType
  <2>3. i <= d
    BY <1>2, <2>1, <2>2
  <2> QED BY <1>1, <2>3, ViewOf DEF Give
<1> QED BY <1>1, <1>4

\* An order with less of it left.
Reduced(x, n) == [x EXCEPT !.remaining = @ - n]

\* What an allocation leaves of the orders of one side, and the trades it makes.
LeftOver(side, s, alloc) ==
    {x \in Views(side, s) : x \notin DOMAIN alloc}
        \cup {Reduced(x, alloc[x]) : x \in {y \in DOMAIN alloc : alloc[y] < y.remaining}}
Exchanged(id, alloc) ==
    {[taker |-> id, maker |-> x.id, price |-> x.price, qty |-> alloc[x]] :
        x \in {y \in DOMAIN alloc : alloc[y] > 0}}

\* The list that is left, seen as a set.
LEMMA RestViews ==
  ASSUME NEW side, NEW s \in Seq(Entry), NoTwice(s), NEW m, NEW d, NEW part, NEW left,
         Cut(s, m, d, part, left), NEW alloc, Shares(side, s, m, d, part, alloc),
         NEW rest, Leaves(s, rest, d, part)
  PROVE  Views(side, rest) = LeftOver(side, s, alloc)
<1> DEFINE V(i) == View(side, s[i])
           W == {x \in Views(side, s) : x \notin DOMAIN alloc}
           U == {y \in DOMAIN alloc : alloc[y] < y.remaining}
           Z == {Reduced(x, alloc[x]) : x \in U}
<1>1. /\ DOMAIN alloc = {V(i) : i \in 1..m}
      /\ \A i \in 1..m : alloc[V(i)] = Give(s, d, part, i)
  BY DEF Shares
<1>2. /\ m \in 0..Len(s) /\ d \in 0..m /\ part \in Nat /\ Len(s) \in Nat
      /\ m \in Nat /\ d \in Nat /\ part > 0 => d + 1 <= m
  BY DEF Cut
<1>3. /\ rest \in Seq(Entry) /\ Len(rest) = Len(s) - d /\ DOMAIN rest = 1..Len(s) - d
      /\ \A j \in 1..Len(s) - d :
            /\ d + j \in 1..Len(s) /\ rest[j].id = s[d + j].id /\ rest[j].price = s[d + j].price
            /\ rest[j].remaining = IF j = 1 THEN s[d + 1].remaining - part ELSE s[d + j].remaining
  BY DEF Leaves
<1>4. DOMAIN s = 1..Len(s) /\ \A i \in 1..Len(s) : s[i].remaining \in 1..MaxQty
                                                  /\ s[i].remaining \in Int
  BY EntryIsSlot, BoundsAssumption
<1>5. \A i, j \in 1..Len(s) : V(i) = V(j) => i = j
  BY <1>4, ViewOf DEF NoTwice
<1>6. \A i \in 1..m : i \in 1..Len(s)
  BY <1>2
<1>7. \A i \in m + 1..Len(s) : V(i) \notin DOMAIN alloc /\ i \in 1..Len(s)
  <2>1. \A i \in m + 1..Len(s) : i \in 1..Len(s)
    BY <1>2
  <2>2. ASSUME NEW i \in m + 1..Len(s), V(i) \in DOMAIN alloc PROVE FALSE
    <3>1. PICK j \in 1..m : V(i) = V(j)
      BY <1>1, <2>2
    <3>2. i = j
      BY <1>5, <1>6, <2>1, <3>1
    <3> QED BY <1>2, <3>2
  <2> HIDE DEF V
  <2> QED BY <2>1, <2>2
<1>8. \A i \in 1..m : V(i).remaining = s[i].remaining
  BY ViewOf
<1>9. \A i \in 1..m : V(i) \in U <=> i > d
  BY <1>1, <1>8, GiveType
<1>10. ASSUME NEW j \in 1..Len(s) - d
       PROVE  View(side, rest[j]) = IF d + j <= m THEN Reduced(V(d + j), alloc[V(d + j)])
                                    ELSE V(d + j)
  <2>1. d + j \in 1..Len(s) /\ j \in Nat
    BY <1>3
  <2>2. CASE d + j <= m
    <3>1. d + j \in 1..m
      BY <1>2, <2>1, <2>2
    <3>2. alloc[V(d + j)] = IF j = 1 THEN part ELSE 0
      BY SMTT(30), <1>1, <1>2, <2>1, <3>1 DEF Give
    <3>3. rest[j].remaining = s[d + j].remaining - alloc[V(d + j)]
      BY SMTT(30), <1>2, <1>3, <1>4, <2>1, <3>2
    <3>4. Reduced(V(d + j), alloc[V(d + j)])
            = [id |-> s[d + j].id, side |-> side, price |-> s[d + j].price,
               remaining |-> s[d + j].remaining - alloc[V(d + j)]]
      BY DEF Reduced, View
    <3> HIDE DEF V
    <3> QED BY <1>3, <2>2, <3>3, <3>4 DEF View
  <2>3. CASE ~(d + j <= m)
    <3>1. rest[j].remaining = s[d + j].remaining
      <4>1. CASE j = 1
        <5>1. part = 0
          BY <1>2, <2>3, <4>1
        <5> QED BY <1>3, <1>4, <2>1, <4>1, <5>1
      <4>2. CASE j # 1
        BY <1>3, <4>2
      <4> QED BY <4>1, <4>2
    <3> QED BY <1>3, <2>3, <3>1 DEF View
  <2> QED BY <2>2, <2>3
<1> HIDE DEF V
<1>11. \A x \in W : \E i \in m + 1..Len(s) : x = V(i)
  <2>1. ASSUME NEW x \in W PROVE \E i \in m + 1..Len(s) : x = V(i)
    <3>1. PICK i \in 1..Len(s) : x = V(i)
      BY <1>4 DEF Views, V
    <3>2. ~(i \in 1..m)
      BY <1>1, <3>1
    <3> QED BY <1>2, <3>1, <3>2
  <2> QED BY <2>1
<1>12. \A i \in m + 1..Len(s) : V(i) \in W
  BY <1>4, <1>7 DEF Views, V
<1>13. \A x \in U : \E i \in 1..m : x = V(i) /\ i > d
  <2>1. \A x \in U : \E i \in 1..m : x = V(i)
    BY <1>1
  <2> HIDE DEF U
  <2> QED BY <1>9, <2>1
<1>14. ASSUME NEW x \in Views(side, rest) PROVE x \in W \cup Z
  <2>1. PICK j \in 1..Len(s) - d : x = View(side, rest[j])
    BY <1>3 DEF Views
  <2>2. d + j \in 1..Len(s)
    BY <1>3
  <2>3. CASE d + j <= m
    <3>1. d + j \in 1..m /\ d + j > d
      BY <1>2, <2>2, <2>3
    <3>2. V(d + j) \in U /\ x = Reduced(V(d + j), alloc[V(d + j)])
      BY <1>9, <1>10, <2>1, <2>3, <3>1
    <3> HIDE DEF U
    <3> QED BY <3>2
  <2>4. CASE ~(d + j <= m)
    <3>1. d + j \in m + 1..Len(s) /\ x = V(d + j)
      BY <1>2, <1>10, <2>1, <2>2, <2>4
    <3> QED BY <1>12, <3>1
  <2> QED BY <2>3, <2>4
<1>15. ASSUME NEW x \in W PROVE x \in Views(side, rest)
  <2>1. PICK i \in m + 1..Len(s) : x = V(i)
    BY <1>11
  <2>2. i - d \in 1..Len(s) - d /\ d + (i - d) = i /\ ~(d + (i - d) <= m)
    BY <1>2
  <2>3. View(side, rest[i - d]) = V(i)
    BY <1>10, <2>2
  <2> QED BY <1>3, <2>1, <2>2, <2>3 DEF Views
<1>16. ASSUME NEW y \in U PROVE Reduced(y, alloc[y]) \in Views(side, rest)
  <2>1. PICK i \in 1..m : y = V(i) /\ i > d
    BY <1>13
  <2>2. i - d \in 1..Len(s) - d /\ d + (i - d) = i /\ d + (i - d) <= m
    BY <1>2, <2>1
  <2>3. View(side, rest[i - d]) = Reduced(y, alloc[y])
    BY <1>10, <2>1, <2>2
  <2> QED BY <1>3, <2>2, <2>3 DEF Views
<1>17. \A x \in Z : x \in Views(side, rest)
  <2> HIDE DEF U
  <2> QED BY <1>16
<1> HIDE DEF W, Z
<1>18. Views(side, rest) = W \cup Z
  BY <1>14, <1>15, <1>17
<1> QED BY <1>18 DEF W, Z, LeftOver

\* The trades made are those of the allocation.
LEMMA TradesShared ==
  ASSUME NEW E, NEW q \in 1..MaxQty, NEW side, NEW s \in Seq(Entry), NoTwice(s), NEW id \in Ids,
         NEW run, NEW m, NEW d, NEW part, Outcome(E, q, s, run, d, part),
         Cut(s, m, d, part, run.left), NEW alloc, Shares(side, s, m, d, part, alloc)
  PROVE  TradesOf(id, run.matches) = Exchanged(id, alloc)
<1> DEFINE V(i) == View(side, s[i])
           ms == run.matches
           U == {y \in DOMAIN alloc : alloc[y] > 0}
           F(x) == [taker |-> id, maker |-> x.id, price |-> x.price, qty |-> alloc[x]]
<1>1. /\ DOMAIN alloc = {V(i) : i \in 1..m}
      /\ \A i \in 1..m : alloc[V(i)] = Give(s, d, part, i)
  BY DEF Shares
<1>2. /\ m \in 0..Len(s) /\ d \in 0..m /\ part \in Nat /\ Len(s) \in Nat
      /\ m \in Nat /\ d \in Nat /\ part > 0 => d + 1 <= m
  BY DEF Cut
<1>3. Len(ms) = IF part > 0 THEN d + 1 ELSE d
  BY DEF Outcome, Made
<1>4. /\ DOMAIN ms = 1..Len(ms)
      /\ \A j \in 1..Len(ms) : /\ ms[j].id = s[j].id /\ ms[j].price = s[j].price
                               /\ ms[j].qty = (IF j <= d THEN s[j].remaining ELSE part)
      /\ TradesOf(id, ms) = {TradeAt(id, ms, j) : j \in 1..Len(ms)}
  <2>1. Matched(E, s, id, ms, d, part)
    BY MatchesAre
  <2> HIDE DEF ms
  <2> QED BY <2>1 DEF Matched
<1> HIDE DEF ms
<1>5. \A j : j \in 1..Len(ms) <=> j \in 1..m /\ (j <= d \/ (j = d + 1 /\ part > 0))
  BY <1>2, <1>3
<1>6. \A j \in 1..Len(ms) : TradeAt(id, ms, j) = F(V(j))
  <2> SUFFICES ASSUME NEW j \in 1..Len(ms) PROVE TradeAt(id, ms, j) = F(V(j))
    OBVIOUS
  <2>1. alloc[V(j)] = ms[j].qty
    BY <1>1, <1>2, <1>4, <1>5 DEF Give
  <2> QED BY <1>4, <2>1, ViewOf DEF TradeAt
<1>7. \A i \in 1..m : V(i) \in U <=> i \in 1..Len(ms)
  BY <1>1, <1>5, GiveType
<1>8. \A x \in U : \E i \in 1..m : x = V(i)
  BY <1>1
<1> HIDE DEF V, U, F
<1>9. {TradeAt(id, ms, j) : j \in 1..Len(ms)} = {F(x) : x \in U}
  BY <1>5, <1>6, <1>7, <1>8
<1> QED BY <1>4, <1>9 DEF F, U, ms, Exchanged

-------------------------------------------------------------------------------------
(* What keeps a list in order.                                                       *)

LEMMA OrderOfRest ==
  ASSUME NEW side, NEW s \in Seq(Entry), NEW seq, NEW arr, Queued(side, s, seq, arr),
         NEW rest, NEW d \in Nat, NEW part, Leaves(s, rest, d, part)
  PROVE  Queued(side, rest, seq, arr)
<1>1. /\ DOMAIN rest = 1..Len(rest) /\ DOMAIN s = 1..Len(s) /\ Len(rest) \in Nat
      /\ \A j \in 1..Len(rest) : /\ d + j \in 1..Len(s) /\ rest[j].id = s[d + j].id
                                 /\ rest[j].price = s[d + j].price /\ rest[j].seq = s[d + j].seq
  BY DEF Leaves
<1>2. /\ \A i, j \in DOMAIN s : i < j => SortsBefore(side, s[i], s[j])
      /\ \A i \in DOMAIN s : s[i].seq <= seq
      /\ \A i, j \in DOMAIN s : s[i].seq < s[j].seq => Before(arr, s[i].id, s[j].id)
  BY DEF Queued
<1>3. ASSUME NEW i \in 1..Len(rest), NEW j \in 1..Len(rest), i < j
      PROVE  SortsBefore(side, rest[i], rest[j])
  <2>1. SortsBefore(side, s[d + i], s[d + j])
    <3>1. d + i < d + j /\ d + i \in DOMAIN s /\ d + j \in DOMAIN s
      BY <1>1, <1>3
    <3> QED BY <1>2, <3>1
  <2> QED BY <1>1, <2>1 DEF SortsBefore
<1>4. ASSUME NEW i \in 1..Len(rest) PROVE rest[i].seq <= seq
  BY <1>1, <1>2
<1>5. ASSUME NEW i \in 1..Len(rest), NEW j \in 1..Len(rest), rest[i].seq < rest[j].seq
      PROVE  Before(arr, rest[i].id, rest[j].id)
  BY ZenonT(40), <1>1, <1>2, <1>5
<1> QED BY <1>1, <1>3, <1>4, <1>5 DEF Queued

LEMMA OrderOfSpared ==
  ASSUME NEW side, NEW s \in Seq(Entry), NEW seq, NEW arr, Queued(side, s, seq, arr),
         NEW id, NEW t, NEW m, Spared(id, s, Len(s), t, m)
  PROVE  Queued(side, t, seq, arr)
<1>1. /\ DOMAIN t = 1..Len(t) /\ DOMAIN s = 1..Len(s) /\ m \in [1..Len(t) -> 1..Len(s)]
      /\ \A j \in 1..Len(t) : t[j] = s[m[j]]
      /\ \A i, j \in 1..Len(t) : i < j => m[i] < m[j]
  BY DEF Spared
<1>2. \A j \in 1..Len(t) : m[j] \in DOMAIN s
  BY <1>1
<1>3. /\ \A i, j \in DOMAIN s : i < j => SortsBefore(side, s[i], s[j])
      /\ \A i \in DOMAIN s : s[i].seq <= seq
      /\ \A i, j \in DOMAIN s : s[i].seq < s[j].seq => Before(arr, s[i].id, s[j].id)
  BY DEF Queued
<1>4. \A i, j \in 1..Len(t) : i < j => SortsBefore(side, t[i], t[j])
  BY <1>1, <1>2, <1>3
<1>5. \A i \in 1..Len(t) : t[i].seq <= seq
  BY <1>1, <1>2, <1>3
<1>6. ASSUME NEW i \in 1..Len(t), NEW j \in 1..Len(t), t[i].seq < t[j].seq
      PROVE  Before(arr, t[i].id, t[j].id)
  BY <1>1, <1>2, <1>3, <1>6
<1> QED BY <1>1, <1>4, <1>5, <1>6 DEF Queued

LEMMA BeforeGrows ==
  ASSUME NEW arr \in Seq(Ids), NEW id \in Ids
  PROVE  /\ \A a, b : Before(arr, a, b) => Before(Append(arr, id), a, b)
         /\ \A a \in ToSet(arr) : Before(Append(arr, id), a, id)
         /\ Once(arr) /\ id \notin ToSet(arr) => Once(Append(arr, id))
<1> DEFINE n == Len(arr)
           new == Append(arr, id)
<1>1. /\ n \in Nat /\ DOMAIN arr = 1..n /\ DOMAIN new = 1..n + 1
      /\ \A i \in 1..n : new[i] = arr[i] /\ i \in 1..n + 1
      /\ new[n + 1] = id /\ n + 1 \in 1..n + 1
      /\ \A i \in 1..n + 1 : i \in 1..n \/ i = n + 1
      /\ \A i \in 1..n : i < n + 1
  OBVIOUS
<1> HIDE DEF n, new
<1>2. \A a, b : Before(arr, a, b) => Before(new, a, b)
  BY <1>1 DEF Before
<1>3. \A a \in ToSet(arr) : Before(new, a, id)
  BY <1>1 DEF Before, ToSet
<1>4. ASSUME Once(arr), id \notin ToSet(arr) PROVE Once(new)
  <2>1. \A i \in 1..n : arr[i] # id
    BY <1>1, <1>4 DEF ToSet
  <2> QED BY <1>1, <1>4, <2>1 DEF Once
<1> QED BY <1>2, <1>3, <1>4 DEF new

LEMMA OrderGrows ==
  ASSUME NEW side, NEW s \in Seq(Entry), NEW seq \in Int, NEW arr \in Seq(Ids),
         Queued(side, s, seq, arr), NEW id \in Ids, NEW next \in Int, seq <= next
  PROVE  Queued(side, s, next, Append(arr, id))
<1>1. \A i \in DOMAIN s : s[i].seq \in Int
  <2>1. \A i \in DOMAIN s : s[i] \in Entry
    OBVIOUS
  <2> QED BY <2>1 DEF Entry
<1>2. \A i \in DOMAIN s : s[i].seq <= next
  BY <1>1 DEF Queued
<1>3. \A a, b : Before(arr, a, b) => Before(Append(arr, id), a, b)
  BY BeforeGrows
<1> QED BY <1>2, <1>3 DEF Queued

\* An entry with a new number comes to stand in its place.
LEMMA OrderOfInserted ==
  ASSUME NEW side \in Sides, NEW s \in Seq(Entry), NEW seq \in Nat, NEW arr \in Seq(Ids),
         Queued(side, s, seq, arr), NEW e \in Entry, e.seq = seq + 1, e.id \notin IdsIn(s),
         IdsIn(s) \subseteq ToSet(arr)
  PROVE  Queued(side, InsertSorted(side, s, e), seq + 1, Append(arr, e.id))
<1> DEFINE n == Len(s)
           R == {i \in DOMAIN s : ~SortsBefore(side, e, s[i])}
           t == InsertSorted(side, s, e)
           p == PlaceFor(side, s, e)
           new == Append(arr, e.id)
<1>1. /\ n \in Nat /\ DOMAIN s = 1..n
      /\ \A i \in 1..n : s[i].price \in Int /\ s[i].seq \in Int /\ s[i].seq <= seq
      /\ e.price \in Int /\ e.seq \in Int /\ e.id \in Ids
  <2>1. \A x \in Entry : x.price \in Int /\ x.seq \in Int /\ x.id \in Ids
    BY BoundsAssumption DEF Entry
  <2>2. \A i \in 1..n : s[i] \in Entry
    OBVIOUS
  <2> QED BY <2>1, <2>2 DEF Queued
<1>2. \A i, j \in 1..n : i < j => SortsBefore(side, s[i], s[j])
  BY <1>1 DEF Queued
<1> HIDE DEF n
<1>3. R \in SUBSET (1..n) /\ \A i \in R : \A j \in 1..n : j <= i => j \in R
  <2>1. ASSUME NEW i \in R, NEW j \in 1..n, j <= i PROVE j \in R
    <3>1. CASE j = i
      BY <3>1
    <3>2. CASE j # i
      <4>1. j < i /\ i \in 1..n /\ ~SortsBefore(side, e, s[i])
        BY <1>1, <2>1, <3>2
      <4>2. SortsBefore(side, s[j], s[i])
        BY <1>2, <4>1
      <4>3. ~SortsBefore(side, e, s[j])
        BY SMTT(30), <1>1, <4>1, <4>2 DEF SortsBefore, Sides
      <4> QED BY <1>1, <4>3
    <3> QED BY <3>1, <3>2
  <2> QED BY <1>1, <2>1
<1>4. PICK k \in 0..n : R = 1..k
  <2> HIDE DEF R
  <2> QED BY <1>1, <1>3, InitialSegment
<1>5. p = k + 1
  <2>1. Cardinality(1..k) = k
    BY <1>1, <1>4, FS_Interval
  <2>2. p = 1 + Cardinality(R)
    BY DEF PlaceFor
  <2> HIDE DEF p, R
  <2> QED BY <1>1, <1>4, <2>1, <2>2
<1>6. /\ t \in Seq(Entry) /\ DOMAIN t = 1..n + 1
      /\ \A j \in 1..n + 1 : t[j] = IF j < p THEN s[j] ELSE IF j = p THEN e ELSE s[j - 1]
  <2>1. Inserted(s, e, p, t)
    BY InsertIs
  <2> HIDE DEF p, t
  <2> QED BY <2>1 DEF Inserted, n
<1>7. \A i \in 1..n : i <= k => SortsBefore(side, s[i], e)
  <2> SUFFICES ASSUME NEW i \in 1..n, i <= k PROVE SortsBefore(side, s[i], e)
    OBVIOUS
  <2>1. ~SortsBefore(side, e, s[i])
    <3>1. i \in R
      BY <1>4
    <3> QED BY <3>1
  <2>2. s[i].seq < e.seq
    BY <1>1
  <2> QED BY <1>1, <2>1, <2>2 DEF SortsBefore, Sides
<1>8. \A i \in 1..n : i > k => SortsBefore(side, e, s[i])
  <2> SUFFICES ASSUME NEW i \in 1..n, i > k PROVE SortsBefore(side, e, s[i])
    OBVIOUS
  <2>1. i \notin R
    BY <1>4
  <2> QED BY <1>1, <2>1
<1> HIDE DEF R, p, t
\* Where each entry of the new list comes from.
<1> DEFINE from(j) == IF j < p THEN j ELSE j - 1
<1>9. \A j \in 1..n + 1 : j # p => t[j] = s[from(j)] /\ from(j) \in 1..n /\ (from(j) <= k <=> j < p)
  BY <1>1, <1>4, <1>5, <1>6
<1>10. t[p] = e /\ p \in 1..n + 1
  BY <1>1, <1>4, <1>5, <1>6
<1>11. \A i, j \in 1..n + 1 : i < j /\ i # p /\ j # p => from(i) < from(j)
  BY <1>1, <1>4, <1>5
<1>12. \A j \in 1..n + 1 : j # p => (j < p \/ j > p) /\ (from(j) <= k \/ from(j) > k)
  BY <1>1, <1>4, <1>5
<1> HIDE DEF from
<1>13. ASSUME NEW i \in 1..n + 1, NEW j \in 1..n + 1, i < j PROVE SortsBefore(side, t[i], t[j])
  <2>1. CASE i # p /\ j # p
    BY <1>2, <1>9, <1>11, <1>13, <2>1
  <2>2. CASE i = p
    <3>1. j # p /\ ~(j < p) /\ t[i] = e
      BY <1>1, <1>5, <1>10, <1>13, <2>2
    <3> QED BY <1>8, <1>9, <1>12, <3>1
  <2>3. CASE j = p
    <3>1. i # p /\ i < p /\ t[j] = e
      BY <1>1, <1>5, <1>10, <1>13, <2>3
    <3> QED BY <1>7, <1>9, <3>1
  <2> QED BY <2>1, <2>2, <2>3
<1>14. \A i \in 1..n + 1 : t[i].seq <= seq + 1
  BY SMTT(30), <1>1, <1>9, <1>10
<1>15. ASSUME NEW i \in 1..n + 1, NEW j \in 1..n + 1, t[i].seq < t[j].seq
       PROVE  Before(new, t[i].id, t[j].id)
  <2>1. i # p
    <3>1. t[j].seq <= seq + 1 /\ e.seq = seq + 1 /\ t[j].seq \in Int
      BY <1>1, <1>9, <1>10, <1>14
    <3> QED BY <1>1, <1>10, <1>15, <3>1
  <2>2. t[i] = s[from(i)] /\ from(i) \in 1..n
    BY <1>9, <2>1
  <2>3. CASE j = p
    <3>1. t[i].id \in ToSet(arr)
      BY <1>1, <2>2 DEF IdsIn
    <3>2. Before(new, t[i].id, e.id)
      BY <1>1, <3>1, BeforeGrows
    <3> QED BY <1>10, <2>3, <3>2
  <2>4. CASE j # p
    <3>1. t[j] = s[from(j)] /\ from(j) \in 1..n
      BY <1>9, <2>4
    <3>2. Before(arr, t[i].id, t[j].id)
      BY <1>1, <1>15, <2>2, <3>1 DEF Queued
    <3> QED BY <1>1, <3>2, BeforeGrows
  <2> QED BY <2>3, <2>4
<1>16. Queued(side, t, seq + 1, new)
  <2> HIDE DEF new
  <2> QED BY <1>6, <1>13, <1>14, <1>15 DEF Queued
<1> QED BY <1>16 DEF t, new

-------------------------------------------------------------------------------------
(* The two lists as one set.                                                         *)

RestingOf(b) ==
    UNION {{View(side, e) : e \in ToSet(b[side])} : side \in Sides}

LEMMA RestingNow == RestingSet = RestingOf(book)
  BY DEF RestingSet, RestingOf, View

LEMMA RestingNext == RestingSet' = RestingOf(book')
  BY DEF RestingSet, RestingOf, View

LEMMA RestingIs ==
  ASSUME NEW b, NEW side \in Sides
  PROVE  RestingOf(b) = Views(OppositeSide(side), b[OppositeSide(side)]) \cup Views(side, b[side])
<1>1. \A x : x \in Sides <=> x = OppositeSide(side) \/ x = side
  BY DEF Sides, OppositeSide
<1>2. \A x : {View(x, e) : e \in ToSet(b[x])} = Views(x, b[x])
  BY DEF ToSet, Views
<1>3. \A z : z \in RestingOf(b) <=> \E x \in Sides : z \in {View(x, e) : e \in ToSet(b[x])}
  BY DEF RestingOf
<1>4. \A z : z \in RestingOf(b) <=> \E x \in Sides : z \in Views(x, b[x])
  BY <1>2, <1>3
<1> QED BY <1>1, <1>4

LEMMA SidesOf ==
  ASSUME NEW b, LooksRight(b), NEW side \in Sides
  PROVE  /\ OppositeSide(side) \in Sides /\ OppositeSide(side) # side
         /\ b[OppositeSide(side)] \in Seq(Entry) /\ NoTwice(b[OppositeSide(side)])
         /\ b[side] \in Seq(Entry) /\ NoTwice(b[side]) /\ b.seq \in Nat
<1>1. /\ b.buy \in Seq(Entry) /\ b.sell \in Seq(Entry) /\ NoTwice(b.buy) /\ NoTwice(b.sell)
      /\ b.seq \in Nat
  BY DEF LooksRight
<1>2. CASE side = "buy"
  BY <1>1, <1>2 DEF OppositeSide, Sides
<1>3. CASE side = "sell"
  BY <1>1, <1>3 DEF OppositeSide, Sides
<1> QED BY <1>2, <1>3 DEF Sides

LEMMA HitSides ==
  ASSUME NEW b, LooksRight(b), NEW side \in Sides, NEW rest
  PROVE  /\ Hit(b, side, rest)[OppositeSide(side)] = rest
         /\ Hit(b, side, rest)[side] = b[side] /\ Hit(b, side, rest).seq = b.seq
<1>1. b \in [buy : Seq(Entry), sell : Seq(Entry), seq : Nat]
  BY DEF LooksRight
<1>2. CASE side = "buy"
  BY <1>1, <1>2 DEF OppositeSide, Hit
<1>3. CASE side = "sell"
  BY <1>1, <1>3 DEF OppositeSide, Hit
<1> QED BY <1>2, <1>3 DEF Sides

NewEntry(b, id, price, left) == [id |-> id, price |-> price, remaining |-> left, seq |-> b.seq + 1]

LEMMA RestSides ==
  ASSUME NEW b, LooksRight(b), NEW side \in Sides, NEW id, NEW price, NEW left
  PROVE  LET c == Rest(b, id, side, price, left) IN
         /\ c[OppositeSide(side)] = b[OppositeSide(side)]
         /\ left = 0 => c[side] = b[side] /\ c.seq = b.seq
         /\ left # 0 => /\ c[side] = InsertSorted(side, b[side], NewEntry(b, id, price, left))
                        /\ c.seq = b.seq + 1
<1>1. b \in [buy : Seq(Entry), sell : Seq(Entry), seq : Nat]
  BY DEF LooksRight
<1> DEFINE c == Rest(b, id, side, price, left)
           t == InsertSorted(side, b[side], NewEntry(b, id, price, left))
<1>2. CASE left = 0
  BY <1>2 DEF Rest
<1>3. CASE left # 0
  <2>1. c = [b EXCEPT !.seq = @ + 1, ![side] = t]
    BY <1>3 DEF Rest, NewEntry
  <2> HIDE DEF c, t
  <2>2. CASE side = "buy"
    <3>1. c.sell = b.sell /\ c.buy = t /\ c.seq = b.seq + 1
      BY <1>1, <2>1, <2>2
    <3> QED BY <1>3, <2>2, <3>1 DEF OppositeSide, c, t
  <2>3. CASE side = "sell"
    <3>1. c.buy = b.buy /\ c.sell = t /\ c.seq = b.seq + 1
      BY <1>1, <2>1, <2>3
    <3> QED BY <1>3, <2>3, <3>1 DEF OppositeSide, c, t
  <2> QED BY <2>2, <2>3 DEF Sides
<1> QED BY <1>2, <1>3

LEMMA Taking ==
  ASSUME NEW b, LooksRight(b), NEW side \in Sides, NEW q \in 1..MaxQty, NEW E,
         NEW run, run = MatchLoop(E, q, b[OppositeSide(side)])
  PROVE  \E d, part : /\ Outcome(E, q, b[OppositeSide(side)], run, d, part)
                      /\ Leaves(b[OppositeSide(side)], run.rest, d, part)
<1> DEFINE s == b[OppositeSide(side)]
<1>1. s \in Seq(Entry) /\ NoTwice(s) /\ run = MatchLoop(E, q, s)
  BY SidesOf
<1> HIDE DEF s
<1>2. s \in Seq(Slot) /\ \A i \in 1..Len(s) : s[i].remaining > 0
  BY <1>1, EntryIsSlot
<1>3. q \in Nat
  BY BoundsAssumption
<1>4. PICK d, part : Outcome(E, q, s, run, d, part)
  BY <1>1, <1>2, <1>3, LoopDoes
<1>5. Leaves(s, run.rest, d, part)
  BY <1>1, <1>4, RestIs
<1> QED BY <1>4, <1>5 DEF s

-------------------------------------------------------------------------------------
(* The lists are in order, in every state.                                           *)

InOrderBook(b, arr) == \A side \in Sides : Queued(side, b[side], b.seq, arr)

OrderInv == BookInv /\ Once(arrived) /\ InOrderBook(book, arrived)

\* An incoming order, and what is left of it, keep the order.
LEMMA OrderOfHit ==
  ASSUME NEW b, LooksRight(b), NEW arr \in Seq(Ids), InOrderBook(b, arr), NEW side \in Sides,
         NEW q \in 1..MaxQty, NEW E, NEW run, run = MatchLoop(E, q, b[OppositeSide(side)])
  PROVE  InOrderBook(Hit(b, side, run.rest), arr)
<1> DEFINE o == OppositeSide(side)
           hit == Hit(b, side, run.rest)
<1>1. PICK d, part : Outcome(E, q, b[o], run, d, part) /\ Leaves(b[o], run.rest, d, part)
  BY Taking
<1>2. d \in Nat
  BY <1>1 DEF Outcome
<1>3. o \in Sides /\ b[o] \in Seq(Entry)
  BY SidesOf
<1>4. Queued(o, b[o], b.seq, arr) /\ Queued(side, b[side], b.seq, arr)
  BY <1>3 DEF InOrderBook
<1>5. hit[o] = run.rest /\ hit[side] = b[side] /\ hit.seq = b.seq
  BY HitSides
<1> HIDE DEF hit
<1>6. Queued(o, hit[o], hit.seq, arr)
  BY <1>1, <1>2, <1>3, <1>4, <1>5, OrderOfRest
<1>7. Queued(side, hit[side], hit.seq, arr)
  BY <1>4, <1>5
<1>8. \A x \in Sides : x = o \/ x = side
  BY DEF Sides, OppositeSide
<1> QED BY <1>6, <1>7, <1>8 DEF hit, InOrderBook

LEMMA OrderOfRested ==
  ASSUME NEW b, LooksRight(b), NEW arr \in Seq(Ids), InOrderBook(b, arr), NEW id \in Ids,
         id \notin ToSet(arr), IdsIn(b.buy) \subseteq ToSet(arr), IdsIn(b.sell) \subseteq ToSet(arr),
         NEW side \in Sides, NEW price \in MinPrice..MaxPrice, NEW left \in 0..MaxQty
  PROVE  InOrderBook(Rest(b, id, side, price, left), Append(arr, id))
<1> DEFINE o == OppositeSide(side)
           c == Rest(b, id, side, price, left)
           e == NewEntry(b, id, price, left)
<1>1. o \in Sides /\ b[o] \in Seq(Entry) /\ b[side] \in Seq(Entry) /\ b.seq \in Nat
  BY SidesOf
<1>2. Queued(o, b[o], b.seq, arr) /\ Queued(side, b[side], b.seq, arr)
  BY <1>1 DEF InOrderBook
<1>3. /\ c[o] = b[o]
      /\ left = 0 => c[side] = b[side] /\ c.seq = b.seq
      /\ left # 0 => c[side] = InsertSorted(side, b[side], e) /\ c.seq = b.seq + 1
  BY RestSides
<1> HIDE DEF c
<1>4. b.seq \in Int /\ c.seq \in Int /\ b.seq <= c.seq
  BY <1>1, <1>3
<1>5. Queued(o, c[o], c.seq, Append(arr, id))
  BY <1>1, <1>2, <1>3, <1>4, OrderGrows
<1>6. Queued(side, c[side], c.seq, Append(arr, id))
  <2>1. CASE left = 0
    BY <1>1, <1>2, <1>3, <1>4, <2>1, OrderGrows
  <2>2. CASE left # 0
    <3>1. e \in Entry /\ e.seq = b.seq + 1 /\ e.id = id
      BY <1>1, <2>2, BoundsAssumption DEF NewEntry, Entry
    <3>2. IdsIn(b[side]) \subseteq ToSet(arr)
      BY DEF Sides
    <3>3. e.id \notin IdsIn(b[side])
      BY <3>1, <3>2
    <3> HIDE DEF e
    <3>4. Queued(side, InsertSorted(side, b[side], e), b.seq + 1, Append(arr, e.id))
      BY <1>1, <1>2, <3>1, <3>2, <3>3, OrderOfInserted
    <3> QED BY <1>3, <2>2, <3>1, <3>4
  <2> QED BY <2>1, <2>2
<1>7. \A x \in Sides : x = o \/ x = side
  BY DEF Sides, OppositeSide
<1> QED BY <1>5, <1>6, <1>7 DEF c, InOrderBook

LEMMA OrderStarts == Init => OrderInv
<1> SUFFICES ASSUME Init PROVE OrderInv
  OBVIOUS
<1>1. arrived = <<>> /\ book.buy = <<>> /\ book.sell = <<>> /\ book.seq = 0
  BY DEF Init, EmptyBook
<1>2. \A side \in Sides : book[side] = <<>>
  BY <1>1 DEF Sides
<1>3. Once(arrived)
  BY <1>1 DEF Once
<1>4. \A side \in Sides : Queued(side, book[side], book.seq, arrived)
  BY <1>2 DEF Queued
<1> QED BY <1>3, <1>4, BookStarts DEF OrderInv, InOrderBook

\* What the invariant says of an incoming order, for both kinds of it.
Incoming(id) ==
    /\ LooksRight(book) /\ arrived \in Seq(Ids) /\ id \notin ToSet(arrived)
    /\ IdsIn(book.buy) \subseteq ToSet(arrived) /\ IdsIn(book.sell) \subseteq ToSet(arrived)
    /\ InOrderBook(book, arrived) /\ Once(arrived) /\ Known(book, trades, ToSet(arrived))
    /\ book.seq \in Nat

LEMMA IncomingIs == \A id : OrderInv /\ Fresh(id) => Incoming(id)
  BY DEF OrderInv, BookInv, Known, Fresh, Incoming, LooksRight

LEMMA LimitOrders ==
  ASSUME OrderInv, NEW id \in Ids, NEW side \in Sides, NEW price \in MinPrice..MaxPrice,
         NEW q \in 1..MaxQty, LimitOrder(id, side, price, q)
  PROVE  Once(arrived)' /\ InOrderBook(book, arrived)'
<1> DEFINE o == OppositeSide(side)
           E == {e \in ToSet(book[o]) : Crosses(side, price, e.price)}
           loop == MatchLoop(E, q, book[o])
           hit == Hit(book, side, loop.rest)
           T2 == trades \cup TradesOf(id, loop.matches)
<1>1. /\ book' = Rest(hit, id, side, price, loop.left)
      /\ arrived' = Append(arrived, id) /\ Fresh(id)
  BY DEF LimitOrder, Record, AddLimit, Hit
<1>2. Incoming(id)
  BY <1>1, IncomingIs
<1>3. loop = MatchLoop(E, q, book[OppositeSide(side)])
  OBVIOUS
<1> HIDE DEF loop, E
<1>4. Accepted(book, trades, ToSet(arrived), id, q, loop.left, hit, T2)
  BY <1>2, <1>3, Accepting DEF Incoming
<1>5. /\ loop.left \in 0..q /\ LooksRight(hit)
      /\ IdsIn(hit.buy) \subseteq ToSet(arrived) /\ IdsIn(hit.sell) \subseteq ToSet(arrived)
  <2> HIDE DEF hit, T2
  <2> QED BY <1>4 DEF Accepted
<1>6. loop.left \in 0..MaxQty
  BY <1>5, BoundsAssumption
<1>7. InOrderBook(hit, arrived)
  BY <1>2, <1>3, OrderOfHit DEF Incoming
<1> HIDE DEF hit
<1>8. InOrderBook(Rest(hit, id, side, price, loop.left), Append(arrived, id))
  BY <1>2, <1>5, <1>6, <1>7, OrderOfRested DEF Incoming
<1>9. Once(Append(arrived, id))
  BY <1>2, BeforeGrows DEF Incoming
<1> QED BY <1>1, <1>8, <1>9

LEMMA MarketOrders ==
  ASSUME OrderInv, NEW id \in Ids, NEW side \in Sides, NEW q \in 1..MaxQty,
         MarketOrder(id, side, q)
  PROVE  Once(arrived)' /\ InOrderBook(book, arrived)'
<1> DEFINE o == OppositeSide(side)
           E == ToSet(book[o])
           loop == MatchLoop(E, q, book[o])
           hit == Hit(book, side, loop.rest)
           T2 == trades \cup TradesOf(id, loop.matches)
<1>1. book' = hit /\ arrived' = Append(arrived, id) /\ Fresh(id)
  BY DEF MarketOrder, Record, AddMarket, Hit
<1>2. Incoming(id)
  BY <1>1, IncomingIs
<1>3. loop = MatchLoop(E, q, book[OppositeSide(side)])
  OBVIOUS
<1> HIDE DEF loop, E
<1>4. Accepted(book, trades, ToSet(arrived), id, q, loop.left, hit, T2)
  BY <1>2, <1>3, Accepting DEF Incoming
<1>5. LooksRight(hit)
  <2> HIDE DEF hit, T2
  <2> QED BY <1>4 DEF Accepted
<1>6. InOrderBook(hit, arrived)
  BY <1>2, <1>3, OrderOfHit DEF Incoming
<1> HIDE DEF hit
<1>7. InOrderBook(hit, Append(arrived, id))
  <2> SUFFICES ASSUME NEW x \in Sides PROVE Queued(x, hit[x], hit.seq, Append(arrived, id))
    BY DEF InOrderBook
  <2>1. hit[x] \in Seq(Entry) /\ hit.seq \in Int /\ hit.seq <= hit.seq
    <3>1. hit.seq \in Nat
      BY <1>5, SidesOf
    <3> QED BY <1>5, <3>1, SidesOf
  <2>2. Queued(x, hit[x], hit.seq, arrived) /\ arrived \in Seq(Ids)
    BY <1>2, <1>6 DEF InOrderBook, Incoming
  <2> QED BY <2>1, <2>2, OrderGrows
<1>8. Once(Append(arrived, id))
  BY <1>2, BeforeGrows DEF Incoming
<1> QED BY <1>1, <1>7, <1>8

LEMMA CancelOrders ==
  ASSUME OrderInv, NEW id \in Ids, Cancel(id)
  PROVE  Once(arrived)' /\ InOrderBook(book, arrived)'
<1> DEFINE c == CancelEntry(book, id)
<1>1. book' = c /\ arrived' = arrived
  BY DEF Cancel
<1>2. LooksRight(book) /\ InOrderBook(book, arrived) /\ Once(arrived)
  BY DEF OrderInv, BookInv
<1>3. ASSUME NEW x \in Sides PROVE c[x] = WithoutOrder(book[x], id) /\ c.seq = book.seq
  <2>1. book \in [buy : Seq(Entry), sell : Seq(Entry), seq : Nat]
    BY <1>2 DEF LooksRight
  <2> QED BY <2>1 DEF CancelEntry, Sides
<1> HIDE DEF c
<1>4. ASSUME NEW x \in Sides PROVE Queued(x, c[x], c.seq, arrived)
  <2>1. book[x] \in Seq(Entry)
    BY <1>2, SidesOf
  <2>2. PICK m : Spared(id, book[x], Len(book[x]), WithoutOrder(book[x], id), m)
    BY <2>1, WithoutSpares
  <2>3. Queued(x, book[x], book.seq, arrived)
    BY <1>2 DEF InOrderBook
  <2>4. Queued(x, WithoutOrder(book[x], id), book.seq, arrived)
    BY <2>1, <2>2, <2>3, OrderOfSpared
  <2> QED BY <1>3, <2>4
<1>5. InOrderBook(c, arrived)
  BY <1>4 DEF InOrderBook
<1> QED BY <1>1, <1>2, <1>5

LEMMA OrderSteps == OrderInv /\ [Next]_vars => OrderInv'
<1> SUFFICES ASSUME OrderInv, [Next]_vars PROVE OrderInv'
  OBVIOUS
<1>1. BookInv'
  BY BookSteps DEF OrderInv
<1>2. Once(arrived)' /\ InOrderBook(book, arrived)'
  <2>1. CASE Next
    <3>1. PICK id \in Ids :
             \/ Cancel(id)
             \/ \E side \in Sides, qty \in 1..MaxQty :
                   \/ MarketOrder(id, side, qty)
                   \/ \E price \in MinPrice..MaxPrice : LimitOrder(id, side, price, qty)
      BY <2>1 DEF Next
    <3>2. CASE Cancel(id)
      BY <3>2, CancelOrders
    <3>3. CASE \E side \in Sides, qty \in 1..MaxQty : MarketOrder(id, side, qty)
      BY <3>3, MarketOrders
    <3>4. CASE \E side \in Sides, qty \in 1..MaxQty :
                 \E price \in MinPrice..MaxPrice : LimitOrder(id, side, price, qty)
      BY <3>4, LimitOrders
    <3> QED BY <3>1, <3>2, <3>3, <3>4
  <2>2. CASE UNCHANGED vars
    BY <2>2 DEF vars, OrderInv
  <2> QED BY <2>1, <2>2
<1> QED BY <1>1, <1>2 DEF OrderInv

\* The lists stay sorted, their numbers tell who came first, and no order comes twice:
\* OrderInv is inductive (order_book.py: _insert_sorted, _next_seq and the matching loop).
THEOREM OrderInvariance == Spec => []OrderInv
<1> QED BY OrderStarts, OrderSteps, PTL DEF Spec

-------------------------------------------------------------------------------------
(* Every step of the book is a step of PriceTimeBook.                                *)

LEMMA AbstractTotal == \A w : Abstract!Total(w) = Total(w)
<1> SUFFICES ASSUME NEW w PROVE Abstract!Total(w) = Total(w)
  OBVIOUS
<1> QED BY DEF Abstract!Total, Abstract!MapThenSumSet, Abstract!MapThenFoldSet, Total, Summing, Pick

LEMMA AbstractVolume ==
  ASSUME NEW R
  PROVE  Abstract!Volume(R) = Total([x \in R |-> x.remaining])
<1> DEFINE v == [x \in R |-> x.remaining]
           Iter(h) == h = [s \in SUBSET R |-> IF s = {} THEN 0
                            ELSE Pick(s).remaining + h[s \ {Pick(s)}]]
<1>1. \A s \in SUBSET R : s # {} => v[Pick(s)] = Pick(s).remaining
  BY Picked
<1>2. ASSUME NEW h PROVE Iter(h) <=> Summing(h, R, v)
  <2> HIDE DEF v
  <2> QED BY <1>1 DEF Summing
<1>3. Abstract!Volume(R) = (CHOOSE h : Iter(h))[R]
  BY DEF Abstract!Volume, Abstract!MapThenSumSet, Abstract!MapThenFoldSet, Pick
<1>4. (CHOOSE h : Iter(h)) = (CHOOSE h : Summing(h, R, v))
  <2> HIDE DEF Iter, v
  <2> QED BY <1>2
<1>5. DOMAIN v = R
  OBVIOUS
<1> HIDE DEF Iter, v
<1>6. Abstract!Volume(R) = Total(v)
  BY <1>3, <1>4, <1>5 DEF Total
<1> QED BY <1>6 DEF v

Largest(alloc, R, q) ==
    Abstract!Total(alloc) = IF Abstract!Volume(R) < q THEN Abstract!Volume(R) ELSE q

\* An allocation that uses up all it may reach when something is left over, and gives
\* all that was asked otherwise, is as large as it can be.
LEMMA LargestTotal ==
  ASSUME NEW R, IsFiniteSet(R), \A x \in R : x.remaining \in Int, NEW alloc \in [R -> Int],
         \A x \in R : alloc[x] <= x.remaining, NEW q \in Int, NEW left \in Nat,
         Total(alloc) = q - left, left > 0 => \A x \in R : alloc[x] = x.remaining
  PROVE  Largest(alloc, R, q)
<1> DEFINE v == [x \in R |-> x.remaining]
<1>1. v \in [R -> Int] /\ \A x \in R : v[x] = x.remaining
  OBVIOUS
<1>2. Abstract!Volume(R) = Total(v) /\ Abstract!Total(alloc) = Total(alloc)
  BY AbstractVolume, AbstractTotal
<1> HIDE DEF v
<1>3. Total(alloc) <= Total(v) /\ Total(alloc) \in Int /\ Total(v) \in Int
  BY <1>1, SumBelow
<1>4. CASE left > 0
  <2>1. Total(v) = Total(alloc)
    <3>1. \A x \in R : v[x] = alloc[x]
      BY <1>1, <1>4
    <3> QED BY <1>1, <3>1, TotalSame
  <2> QED BY <1>2, <1>3, <1>4, <2>1 DEF Largest
<1>5. CASE left = 0
  BY <1>2, <1>3, <1>5 DEF Largest
<1> QED BY <1>4, <1>5

\* The order is allocated as PriceTimeBook allows.
Allocated(side, limits, q, id, run) ==
    \E alloc \in [Abstract!Reachable(side, limits) -> 0..MaxQty] :
        /\ Abstract!Fair(alloc, q) /\ Abstract!Total(alloc) = q - run.left
        /\ Abstract!AfterAllocation(alloc)
              = Views(OppositeSide(side), run.rest) \cup Views(side, book[side])
        /\ Abstract!NewTrades(id, alloc) = TradesOf(id, run.matches)

LEMMA Allocating ==
  ASSUME NEW id \in Ids, Incoming(id), NEW side \in Sides, NEW q \in 1..MaxQty, NEW limits,
         \/ \E low \in Int : /\ OppositeSide(side) = "buy"
                             /\ \A p \in MinPrice..MaxPrice : p \in limits <=> p >= low
         \/ \E top \in Int : /\ OppositeSide(side) = "sell"
                             /\ \A p \in MinPrice..MaxPrice : p \in limits <=> p <= top,
         NEW E, \A e \in ToSet(book[OppositeSide(side)]) : e \in E <=> e.price \in limits,
         NEW run, run = MatchLoop(E, q, book[OppositeSide(side)])
  PROVE  Allocated(side, limits, q, id, run)
<1> DEFINE o == OppositeSide(side)
           s == book[o]
           u == book[side]
<1>1. /\ o \in Sides /\ o # side /\ s \in Seq(Entry) /\ NoTwice(s) /\ u \in Seq(Entry)
      /\ Once(arrived) /\ Queued(o, s, book.seq, arrived)
  <2>1. LooksRight(book) /\ Once(arrived) /\ InOrderBook(book, arrived)
    BY DEF Incoming
  <2> QED BY <2>1, SidesOf DEF InOrderBook
<1>2. PICK d, part : Outcome(E, q, s, run, d, part) /\ Leaves(s, run.rest, d, part)
  <2>1. LooksRight(book)
    BY DEF Incoming
  <2> QED BY <2>1, Taking
<1>3. RestingSet = Views(o, s) \cup Views(side, u)
  BY RestingNow, RestingIs
<1>4. \A e \in ToSet(s) : e \in E <=> e.price \in limits
  OBVIOUS
<1>5. \/ \E low \in Int : o = "buy" /\ \A p \in MinPrice..MaxPrice : p \in limits <=> p >= low
      \/ \E top \in Int : o = "sell" /\ \A p \in MinPrice..MaxPrice : p \in limits <=> p <= top
  OBVIOUS
<1> HIDE DEF o, s, u
<1>6. PICK m \in 0..Len(s) : \A i \in 1..Len(s) : s[i].price \in limits <=> i <= m
  BY <1>1, <1>5, EligibleFirst
<1>7. /\ Len(s) \in Nat /\ DOMAIN s = 1..Len(s) /\ m \in Nat
      /\ \A i \in 1..Len(s) : s[i] \in E <=> i <= m
  <2>1. \A i \in 1..Len(s) : s[i] \in ToSet(s)
    BY <1>1, EntryIsSlot DEF ToSet
  <2> QED BY <1>1, <1>4, <1>6, <2>1
<1>8. Cut(s, m, d, part, run.left)
  BY <1>1, <1>2, <1>7, Cutting
<1>9. PICK alloc : Shares(o, s, m, d, part, alloc)
  BY <1>1, <1>8, SharedOut
<1> DEFINE R == {View(o, s[i]) : i \in 1..m}
<1>10. /\ alloc \in [R -> 0..MaxQty] /\ DOMAIN alloc = R
       /\ \A i \in 1..m : alloc[View(o, s[i])] = Give(s, d, part, i)
  BY <1>9 DEF Shares
<1>11. Abstract!Reachable(side, limits) = R
  <2>1. Abstract!Reachable(side, limits) = {x \in RestingSet : x.side # side /\ x.price \in limits}
    BY DEF Abstract!Reachable
  <2>2. \A x \in Views(side, u) : x.side = side
    BY ViewOf DEF Views
  <2>3. ASSUME NEW x PROVE x \in R <=> x \in Views(o, s) /\ x.price \in limits
    <3>1. x \in Views(o, s) <=> \E i \in 1..Len(s) : x = View(o, s[i])
      BY <1>7 DEF Views
    <3>2. \A i \in 1..Len(s) : View(o, s[i]).price \in limits <=> i \in 1..m
      BY <1>6, <1>7, ViewOf
    <3>3. \A i \in 1..m : i \in 1..Len(s)
      BY <1>7
    <3> QED BY <3>1, <3>2, <3>3
  <2>4. \A x \in Views(o, s) : x.side = o
    BY ViewOf DEF Views
  <2> HIDE DEF R
  <2> QED BY <1>1, <1>3, <2>1, <2>2, <2>3, <2>4
<1>12. \A i \in 1..m : i \in 1..Len(s) /\ s[i].remaining \in 1..MaxQty
  BY <1>1, <1>7, EntryIsSlot
<1>13. \A x \in R : x.side = o /\ x.remaining \in Int /\ alloc[x] <= x.remaining
                    /\ x \in Views(o, s)
  <2> SUFFICES ASSUME NEW i \in 1..m
               PROVE  /\ View(o, s[i]).side = o /\ View(o, s[i]).remaining \in Int
                      /\ alloc[View(o, s[i])] <= View(o, s[i]).remaining
                      /\ View(o, s[i]) \in Views(o, s)
    OBVIOUS
  <2>1. Give(s, d, part, i) <= s[i].remaining
    BY <1>1, <1>8, GiveType
  <2> HIDE DEF R
  <2> QED BY <1>7, <1>10, <1>12, <2>1, ViewOf, BoundsAssumption DEF Views
<1>14. IsFiniteSet(R)
  <2> DEFINE x == [i \in 1..m |-> View(o, s[i])]
  <2>1. R = {x[i] : i \in 1..m} /\ DOMAIN x = 1..m
    OBVIOUS
  <2> HIDE DEF x, R
  <2> QED BY <1>7, <2>1, ListedFinite
<1>15. Total(alloc) = q - run.left
  BY <1>1, <1>2, <1>8, <1>9, TotalShared
<1>16. run.left > 0 => \A x \in R : alloc[x] = x.remaining
  <2> SUFFICES ASSUME run.left > 0, NEW i \in 1..m
               PROVE  alloc[View(o, s[i])] = View(o, s[i]).remaining
    OBVIOUS
  <2>1. d = m
    BY <1>8 DEF Cut
  <2> QED BY <1>7, <1>10, <2>1, ViewOf DEF Give
<1>17. run.left \in 0..q /\ q \in Int
  BY <1>2, BoundsAssumption DEF Outcome
<1>18. \A x, y \in R : Better(arrived, x, y) /\ alloc[y] > 0 => alloc[x] = x.remaining
  BY SMTT(30), <1>1, <1>8, <1>9, <1>10, NoOnePassedOver
<1>19. Abstract!Fair(alloc, q)
  <2>1. alloc \in [R -> Int]
    BY <1>10, BoundsAssumption
  <2> HIDE DEF R
  <2>2. Abstract!Total(alloc) = IF Abstract!Volume(R) < q THEN Abstract!Volume(R) ELSE q
    <3>1. run.left \in Nat /\ q \in Int
      BY <1>17
    <3>2. (\A x \in R : x.remaining \in Int) /\ \A x \in R : alloc[x] <= x.remaining
      BY <1>13
    <3>3. Largest(alloc, R, q)
      BY <1>14, <1>15, <1>16, <2>1, <3>1, <3>2, LargestTotal
    <3> QED BY <3>3 DEF Largest
  <2>3. \A x, y : Abstract!BetterClaim(x, y) <=> Better(arrived, x, y)
    BY DEF Abstract!BetterClaim, Abstract!ArrivedBefore, Better, Before
  <2> QED BY <1>10, <1>13, <1>18, <2>2, <2>3 DEF Abstract!Fair
<1>20. Abstract!AfterAllocation(alloc) = Views(o, run.rest) \cup Views(side, u)
  <2> DEFINE W == {x \in Views(o, s) : x \notin R}
             Z == {Reduced(x, alloc[x]) : x \in {y \in R : alloc[y] < y.remaining}}
  <2>1. Views(o, run.rest) = W \cup Z
    <3>1. Views(o, run.rest) = LeftOver(o, s, alloc)
      BY <1>1, <1>2, <1>8, <1>9, RestViews
    <3> HIDE DEF R
    <3> QED BY <1>10, <3>1 DEF LeftOver
  <2>2. Abstract!AfterAllocation(alloc) = {x \in RestingSet : x \notin R} \cup Z
    <3> HIDE DEF R
    <3> QED BY <1>10 DEF Abstract!AfterAllocation, Reduced
  <2>3. \A x \in Views(side, u) : x \notin R
    <3>1. \A x \in Views(side, u) : x.side = side
      BY ViewOf DEF Views
    <3> HIDE DEF R
    <3> QED BY <1>1, <1>13, <3>1
  <2>4. {x \in RestingSet : x \notin R} = W \cup Views(side, u)
    <3> HIDE DEF R, Z
    <3> QED BY <1>3, <2>3
  <2> HIDE DEF W, Z
  <2> QED BY <2>1, <2>2, <2>4
<1>21. Abstract!NewTrades(id, alloc) = TradesOf(id, run.matches)
  <2>1. TradesOf(id, run.matches) = Exchanged(id, alloc)
    BY <1>1, <1>2, <1>8, <1>9, TradesShared
  <2> HIDE DEF R
  <2> QED BY <2>1 DEF Abstract!NewTrades, Exchanged
<1>22. Abstract!Total(alloc) = q - run.left
  BY <1>15, AbstractTotal
<1> HIDE DEF R
<1> QED BY <1>10, <1>11, <1>19, <1>20, <1>21, <1>22 DEF Allocated, o, u

LEMMA InsertedViews ==
  ASSUME NEW side, NEW s \in Seq(Entry), NEW e \in Entry
  PROVE  Views(side, InsertSorted(side, s, e)) = Views(side, s) \cup {View(side, e)}
<1> DEFINE t == InsertSorted(side, s, e)
           p == PlaceFor(side, s, e)
           n == Len(s)
<1>1. /\ n \in Nat /\ DOMAIN s = 1..n /\ DOMAIN t = 1..n + 1 /\ p \in 1..n + 1
      /\ \A j \in 1..n + 1 : t[j] = IF j < p THEN s[j] ELSE IF j = p THEN e ELSE s[j - 1]
  <2>1. Inserted(s, e, p, t)
    BY InsertIs
  <2> HIDE DEF p, t
  <2> QED BY <2>1 DEF Inserted
<1> HIDE DEF t, p, n
<1>2. ASSUME NEW j \in 1..n + 1 PROVE t[j] = e \/ \E i \in 1..n : t[j] = s[i]
  <2>1. j < p => j \in 1..n
    BY <1>1
  <2>2. j > p => j - 1 \in 1..n
    BY <1>1
  <2> QED BY <1>1, <2>1, <2>2
<1>3. ASSUME NEW i \in 1..n PROVE \E j \in 1..n + 1 : t[j] = s[i]
  <2>1. CASE i < p
    <3>1. i \in 1..n + 1 /\ t[i] = s[i]
      BY <1>1, <2>1
    <3> QED BY <3>1
  <2>2. CASE ~(i < p)
    <3>1. i + 1 \in 1..n + 1 /\ ~(i + 1 < p) /\ i + 1 # p /\ (i + 1) - 1 = i
      BY <1>1, <2>2
    <3>2. t[i + 1] = s[i]
      BY <1>1, <3>1
    <3> QED BY <3>1, <3>2
  <2> QED BY <2>1, <2>2
<1>4. t[p] = e /\ p \in 1..n + 1
  BY <1>1
<1>5. Views(side, t) = Views(side, s) \cup {View(side, e)}
  <2>1. \A x : x \in Views(side, t) <=> \E j \in 1..n + 1 : x = View(side, t[j])
    BY <1>1 DEF Views
  <2>2. \A x : x \in Views(side, s) <=> \E i \in 1..n : x = View(side, s[i])
    BY <1>1 DEF Views
  <2>3. \A x \in Views(side, t) : x \in Views(side, s) \/ x = View(side, e)
    BY <1>2, <2>1, <2>2
  <2>4. \A x \in Views(side, s) : x \in Views(side, t)
    BY <1>3, <2>1, <2>2
  <2>5. View(side, e) \in Views(side, t)
    BY <1>4, <2>1
  <2> QED BY <2>3, <2>4, <2>5
<1> QED BY <1>5 DEF t

Allows(b, side, limits, E) ==
    /\ \/ \E low \in Int : /\ OppositeSide(side) = "buy"
                           /\ \A p \in MinPrice..MaxPrice : p \in limits <=> p >= low
       \/ \E top \in Int : /\ OppositeSide(side) = "sell"
                           /\ \A p \in MinPrice..MaxPrice : p \in limits <=> p <= top
    /\ \A e \in ToSet(b[OppositeSide(side)]) : e \in E <=> e.price \in limits

\* What a limit order may trade with is what its price allows.
LEMMA LimitAllows ==
  ASSUME NEW b, LooksRight(b), NEW side \in Sides, NEW price \in MinPrice..MaxPrice, NEW limits,
         limits = IF side = "buy" THEN MinPrice..price ELSE price..MaxPrice,
         NEW E, E = {e \in ToSet(b[OppositeSide(side)]) : Crosses(side, price, e.price)}
  PROVE  Allows(b, side, limits, E)
<1> DEFINE s == b[OppositeSide(side)]
<1>1. price \in Int /\ MinPrice \in Int /\ MaxPrice \in Int
  BY BoundsAssumption
<1>2. \A e \in ToSet(s) : e.price \in MinPrice..MaxPrice
  <2>1. s \in Seq(Entry)
    BY SidesOf
  <2> HIDE DEF s
  <2>2. \A i \in DOMAIN s : s[i].price \in MinPrice..MaxPrice
    BY <2>1, EntryIsSlot
  <2> QED BY <2>2 DEF ToSet
<1>3. E = {e \in ToSet(s) : Crosses(side, price, e.price)}
  OBVIOUS
<1> HIDE DEF s
<1>4. CASE side = "buy"
  <2>1. OppositeSide(side) = "sell" /\ limits = MinPrice..price
    BY <1>4 DEF OppositeSide
  <2>2. \A p \in MinPrice..MaxPrice : p \in limits <=> p <= price
    BY <1>1, <2>1
  <2>3. \A e \in ToSet(s) : e \in E <=> e.price \in limits
    BY <1>1, <1>2, <1>3, <1>4, <2>1 DEF Crosses
  <2> QED BY <1>1, <2>1, <2>2, <2>3 DEF s, Allows
<1>5. CASE side = "sell"
  <2>1. OppositeSide(side) = "buy" /\ limits = price..MaxPrice
    BY <1>5 DEF OppositeSide
  <2>2. \A p \in MinPrice..MaxPrice : p \in limits <=> p >= price
    BY <1>1, <2>1
  <2>3. \A e \in ToSet(s) : e \in E <=> e.price \in limits
    BY <1>1, <1>2, <1>3, <1>5, <2>1 DEF Crosses
  <2> QED BY <1>1, <2>1, <2>2, <2>3 DEF s, Allows
<1> QED BY <1>4, <1>5 DEF Sides

LEMMA LimitImplements ==
  ASSUME OrderInv, NEW id \in Ids, NEW side \in Sides, NEW price \in MinPrice..MaxPrice,
         NEW q \in 1..MaxQty, LimitOrder(id, side, price, q)
  PROVE  Abstract!Limit(id, side, price, q)
<1> DEFINE o == OppositeSide(side)
           E == {e \in ToSet(book[o]) : Crosses(side, price, e.price)}
           loop == MatchLoop(E, q, book[o])
           hit == Hit(book, side, loop.rest)
           left == loop.left
           T2 == trades \cup TradesOf(id, loop.matches)
           limits == IF side = "buy" THEN MinPrice..price ELSE price..MaxPrice
           remainder == [id |-> id, side |-> side, price |-> price, remaining |-> left]
<1>1. /\ book' = Rest(hit, id, side, price, left) /\ trades' = T2
      /\ arrived' = Append(arrived, id) /\ Fresh(id)
  BY DEF LimitOrder, Record, AddLimit, Hit
<1>2. Incoming(id)
  BY <1>1, IncomingIs
<1>3. LooksRight(book)
  BY <1>2 DEF Incoming
<1>4. /\ \/ \E low \in Int : o = "buy" /\ \A p \in MinPrice..MaxPrice : p \in limits <=> p >= low
         \/ \E top \in Int : o = "sell" /\ \A p \in MinPrice..MaxPrice : p \in limits <=> p <= top
      /\ \A e \in ToSet(book[o]) : e \in E <=> e.price \in limits
  <2>1. /\ limits = IF side = "buy" THEN MinPrice..price ELSE price..MaxPrice
        /\ E = {e \in ToSet(book[OppositeSide(side)]) : Crosses(side, price, e.price)}
    OBVIOUS
  <2> HIDE DEF limits, E
  <2>2. Allows(book, side, limits, E)
    BY <1>3, <2>1, LimitAllows
  <2> QED BY <2>2 DEF Allows
<1>5. loop = MatchLoop(E, q, book[OppositeSide(side)])
  OBVIOUS
<1> HIDE DEF loop, E, limits
<1>6. Allocated(side, limits, q, id, loop)
  BY <1>2, <1>4, <1>5, Allocating
<1>7. /\ left \in 0..q /\ LooksRight(hit)
  <2>1. Accepted(book, trades, ToSet(arrived), id, q, left, hit, T2)
    BY <1>2, <1>5, Accepting DEF Incoming
  <2> HIDE DEF hit, T2, left
  <2> QED BY <2>1 DEF Accepted
<1>8. hit[o] = loop.rest /\ hit[side] = book[side] /\ hit.seq = book.seq
  BY <1>3, HitSides
<1> HIDE DEF hit
<1>9. RestingSet' = Views(o, loop.rest) \cup Views(side, book'[side]) /\ book'[o] = loop.rest
  <2>1. book'[o] = loop.rest
    BY <1>1, <1>7, <1>8, RestSides
  <2> QED BY <2>1, RestingNext, RestingIs
<1>10. Views(side, book'[side]) =
          Views(side, book[side]) \cup IF left > 0 THEN {remainder} ELSE {}
  <2>1. CASE left = 0
    <3>1. book'[side] = book[side]
      BY <1>1, <1>7, <1>8, <2>1, RestSides
    <3> QED BY <2>1, <3>1
  <2>2. CASE left # 0
    <3> DEFINE e == NewEntry(hit, id, price, left)
    <3>1. book'[side] = InsertSorted(side, book[side], e)
      BY <1>1, <1>7, <1>8, <2>2, RestSides
    <3>2. hit.seq \in Nat /\ book[side] \in Seq(Entry)
      BY <1>3, <1>8, SidesOf
    <3>3. e \in Entry /\ View(side, e) = remainder
      BY SMTT(30), <1>7, <2>2, <3>2, BoundsAssumption DEF NewEntry, Entry, View
    <3> HIDE DEF e, remainder
    <3>4. Views(side, book'[side]) = Views(side, book[side]) \cup {remainder}
      BY ZenonT(40), <3>1, <3>2, <3>3, InsertedViews
    <3> QED BY <1>7, <2>2, <3>4
  <2> QED BY <2>1, <2>2
<1>11. PICK alloc \in [Abstract!Reachable(side, limits) -> 0..MaxQty] :
          /\ Abstract!Fair(alloc, q) /\ Abstract!Total(alloc) = q - left
          /\ Abstract!AfterAllocation(alloc) = Views(o, loop.rest) \cup Views(side, book[side])
          /\ Abstract!NewTrades(id, alloc) = TradesOf(id, loop.matches)
  BY <1>6 DEF Allocated
<1>12. RestingSet' = Abstract!AfterAllocation(alloc) \cup
                        IF TRUE /\ Abstract!Total(alloc) < q
                        THEN {[id |-> id, side |-> side, price |-> price,
                               remaining |-> q - Abstract!Total(alloc)]}
                        ELSE {}
  <2>1. /\ Abstract!Total(alloc) < q <=> left > 0
        /\ q - Abstract!Total(alloc) = left
    <3>1. q \in Int /\ left \in Int /\ Abstract!Total(alloc) = q - left
      BY <1>7, <1>11, BoundsAssumption
    <3> HIDE DEF left
    <3> QED BY <3>1
  <2> QED BY <1>9, <1>10, <1>11, <2>1
<1>13. Abstract!Accept(id, side, limits, q, price, TRUE)
  <2>1. trades' = trades \cup Abstract!NewTrades(id, alloc)
    BY <1>1, <1>11
  <2> QED BY <1>1, <1>11, <1>12, <2>1 DEF Abstract!Accept
<1> QED BY <1>13 DEF Abstract!Limit, limits

LEMMA MarketImplements ==
  ASSUME OrderInv, NEW id \in Ids, NEW side \in Sides, NEW q \in 1..MaxQty,
         MarketOrder(id, side, q)
  PROVE  Abstract!Market(id, side, q)
<1> DEFINE o == OppositeSide(side)
           E == ToSet(book[o])
           loop == MatchLoop(E, q, book[o])
           hit == Hit(book, side, loop.rest)
           T2 == trades \cup TradesOf(id, loop.matches)
           limits == MinPrice..MaxPrice
<1>1. /\ book' = hit /\ trades' = T2 /\ arrived' = Append(arrived, id) /\ Fresh(id)
  BY DEF MarketOrder, Record, AddMarket, Hit
<1>2. Incoming(id)
  BY <1>1, IncomingIs
<1>3. LooksRight(book)
  BY <1>2 DEF Incoming
<1>4. \/ \E low \in Int : o = "buy" /\ \A p \in MinPrice..MaxPrice : p \in limits <=> p >= low
      \/ \E top \in Int : o = "sell" /\ \A p \in MinPrice..MaxPrice : p \in limits <=> p <= top
  <2>1. MinPrice \in Int /\ MaxPrice \in Int
    BY BoundsAssumption
  <2>2. /\ \A p \in MinPrice..MaxPrice : p \in limits <=> p >= MinPrice
        /\ \A p \in MinPrice..MaxPrice : p \in limits <=> p <= MaxPrice
    BY <2>1
  <2>3. o = "buy" \/ o = "sell"
    BY DEF OppositeSide
  <2> HIDE DEF limits
  <2> QED BY <2>1, <2>2, <2>3
<1>5. \A e \in ToSet(book[o]) : e \in E <=> e.price \in limits
  <2> DEFINE s == book[o]
  <2>1. s \in Seq(Entry)
    BY <1>3, SidesOf
  <2> HIDE DEF s
  <2>2. \A i \in DOMAIN s : s[i].price \in MinPrice..MaxPrice
    BY <2>1, EntryIsSlot
  <2>3. \A e \in ToSet(s) : e.price \in limits
    BY <2>2 DEF ToSet
  <2> QED BY <2>3 DEF s
<1>6. loop = MatchLoop(E, q, book[OppositeSide(side)])
  OBVIOUS
<1> HIDE DEF loop, E, limits
<1>7. Allocated(side, limits, q, id, loop)
  BY <1>2, <1>4, <1>5, <1>6, Allocating
<1>8. RestingSet' = Views(o, loop.rest) \cup Views(side, book[side])
  <2>1. hit[o] = loop.rest /\ hit[side] = book[side]
    BY <1>3, HitSides
  <2> HIDE DEF hit
  <2> QED BY <1>1, <2>1, RestingNext, RestingIs
<1>9. PICK alloc \in [Abstract!Reachable(side, limits) -> 0..MaxQty] :
          /\ Abstract!Fair(alloc, q) /\ Abstract!Total(alloc) = q - loop.left
          /\ Abstract!AfterAllocation(alloc) = Views(o, loop.rest) \cup Views(side, book[side])
          /\ Abstract!NewTrades(id, alloc) = TradesOf(id, loop.matches)
  BY <1>7 DEF Allocated
<1>10. Abstract!Accept(id, side, limits, q, MinPrice, FALSE)
  BY <1>1, <1>8, <1>9 DEF Abstract!Accept
<1> QED BY <1>10 DEF Abstract!Market, limits

LEMMA CancelImplements ==
  ASSUME OrderInv, NEW id \in Ids, Cancel(id)
  PROVE  Abstract!Withdraw(id)
<1>1. book' = CancelEntry(book, id) /\ arrived' = arrived /\ trades' = trades
  BY DEF Cancel
<1>2. LooksRight(book)
  BY DEF OrderInv, BookInv
<1>3. ASSUME NEW x \in Sides PROVE book'[x] = WithoutOrder(book[x], id) /\ book[x] \in Seq(Entry)
  <2>1. book \in [buy : Seq(Entry), sell : Seq(Entry), seq : Nat]
    BY <1>2 DEF LooksRight
  <2> QED BY <1>1, <2>1 DEF CancelEntry, Sides
<1>4. ASSUME NEW x \in Sides
      PROVE  Views(x, book'[x]) = {v \in Views(x, book[x]) : v.id # id}
  <2> DEFINE s == book[x]
             t == WithoutOrder(s, id)
  <2>1. s \in Seq(Entry) /\ book'[x] = t
    BY <1>3
  <2>2. PICK m : Spared(id, s, Len(s), t, m)
    BY <2>1, WithoutSpares
  <2> HIDE DEF s, t
  <2>3. /\ DOMAIN t = 1..Len(t) /\ DOMAIN s = 1..Len(s) /\ m \in [1..Len(t) -> 1..Len(s)]
        /\ \A j \in 1..Len(t) : t[j] = s[m[j]] /\ s[m[j]].id # id
        /\ \A i \in 1..Len(s) : s[i].id # id => \E j \in 1..Len(t) : m[j] = i
    BY <2>1, <2>2 DEF Spared
  <2>4. \A v : v \in Views(x, t) <=> \E j \in 1..Len(t) : v = View(x, t[j])
    BY <2>3 DEF Views
  <2>5. \A v : v \in Views(x, s) <=> \E i \in 1..Len(s) : v = View(x, s[i])
    BY <2>3 DEF Views
  <2>6. ASSUME NEW v \in Views(x, t) PROVE v \in Views(x, s) /\ v.id # id
    <3>1. PICK j \in 1..Len(t) : v = View(x, t[j])
      BY <2>4
    <3>2. m[j] \in 1..Len(s) /\ v = View(x, s[m[j]]) /\ s[m[j]].id # id
      BY <2>3, <3>1
    <3> QED BY <2>5, <3>2, ViewOf
  <2>7. ASSUME NEW v \in Views(x, s), v.id # id PROVE v \in Views(x, t)
    <3>1. PICK i \in 1..Len(s) : v = View(x, s[i])
      BY <2>5
    <3>2. PICK j \in 1..Len(t) : m[j] = i
      BY <2>3, <2>7, <3>1, ViewOf
    <3> QED BY <2>3, <2>4, <3>1, <3>2
  <2> QED BY <2>1, <2>6, <2>7 DEF s
<1>5. RestingSet = Views("sell", book["sell"]) \cup Views("buy", book["buy"])
  BY RestingNow, RestingIs DEF Sides, OppositeSide
<1>6. RestingSet' = Views("sell", book'["sell"]) \cup Views("buy", book'["buy"])
  BY RestingNext, RestingIs DEF Sides, OppositeSide
<1>7. RestingSet' = {v \in RestingSet : v.id # id}
  BY <1>4, <1>5, <1>6 DEF Sides
<1> QED BY <1>1, <1>7 DEF Abstract!Withdraw

LEMMA StartImplements == Init => Abstract!Init
<1> SUFFICES ASSUME Init PROVE Abstract!Init
  OBVIOUS
<1>1. arrived = <<>> /\ trades = {} /\ book.buy = <<>> /\ book.sell = <<>>
  BY DEF Init, EmptyBook
<1>2. \A side \in Sides : ToSet(book[side]) = {}
  BY <1>1 DEF Sides, ToSet
<1>3. RestingSet = {}
  BY <1>2 DEF RestingSet
<1> QED BY <1>1, <1>3 DEF Abstract!Init

LEMMA StepImplements == OrderInv /\ [Next]_vars => [Abstract!Next]_(Abstract!vars)
<1> SUFFICES ASSUME OrderInv, [Next]_vars PROVE [Abstract!Next]_(Abstract!vars)
  OBVIOUS
<1>1. CASE Next
  <2>1. PICK id \in Ids :
           \/ Cancel(id)
           \/ \E side \in Sides, qty \in 1..MaxQty :
                 \/ MarketOrder(id, side, qty)
                 \/ \E price \in MinPrice..MaxPrice : LimitOrder(id, side, price, qty)
    BY <1>1 DEF Next
  <2>2. CASE Cancel(id)
    <3>1. Abstract!Withdraw(id)
      BY <2>2, CancelImplements
    <3> QED BY <3>1 DEF Abstract!Next
  <2>3. ASSUME Fresh(id) PROVE \A i \in DOMAIN arrived : arrived[i] # id
    BY <2>3 DEF Fresh, ToSet
  <2>4. CASE \E side \in Sides, qty \in 1..MaxQty : MarketOrder(id, side, qty)
    <3>1. PICK side \in Sides, qty \in 1..MaxQty : MarketOrder(id, side, qty)
      BY <2>4
    <3>2. Abstract!Market(id, side, qty)
      BY <3>1, MarketImplements
    <3>3. Fresh(id)
      BY <3>1 DEF MarketOrder
    <3>4. side \in {"buy", "sell"}
      BY DEF Sides
    <3> QED BY <2>3, <3>2, <3>3, <3>4 DEF Abstract!Next
  <2>5. CASE \E side \in Sides, qty \in 1..MaxQty :
               \E price \in MinPrice..MaxPrice : LimitOrder(id, side, price, qty)
    <3>1. PICK side \in Sides, qty \in 1..MaxQty, price \in MinPrice..MaxPrice :
             LimitOrder(id, side, price, qty)
      BY <2>5
    <3>2. Abstract!Limit(id, side, price, qty)
      BY <3>1, LimitImplements
    <3>3. Fresh(id)
      BY <3>1 DEF LimitOrder
    <3>4. side \in {"buy", "sell"}
      BY DEF Sides
    <3> QED BY <2>3, <3>2, <3>3, <3>4 DEF Abstract!Next
  <2> QED BY <2>1, <2>2, <2>4, <2>5
<1>2. CASE UNCHANGED vars
  <2>1. book' = book /\ arrived' = arrived /\ trades' = trades
    BY <1>2 DEF vars
  <2>2. RestingSet' = RestingSet
    BY <2>1, RestingNow, RestingNext
  <2> QED BY <2>1, <2>2 DEF Abstract!vars
<1> QED BY <1>1, <1>2

\* The sorted lists, the sequence counter and the matching loop implement the three
\* rules of PriceTimeBook: every accepted order trades only where its limit allows, as
\* much as it can, and with nobody while an order with a better claim is not used up
\* (order_book.py: _insert_sorted, add_limit, add_market, cancel).
THEOREM BookImplements == Spec => PriceTimePriority
<1> QED BY OrderInvariance, StartImplements, StepImplements, PTL
        DEF Spec, PriceTimePriority, Abstract!Spec

=====================================================================================

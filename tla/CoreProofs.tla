-------------------------------- MODULE CoreProofs ----------------------------------
(***********************************************************************************)
(* The parts of one process that requests and sockets share, for any value of      *)
(* their constants.                                                                *)
(*                                                                                 *)
(* FanOut: messages arrive in order and are all accounted for, and a client of     *)
(* /prices shows the newest tick but for two windows.  Both kinds of statement are *)
(* about one subscriber and the messages of its topic, so each operation on a      *)
(* subscriber is treated by a lemma of its own and an action only has to say which *)
(* of them it applies, and to whom.                                                *)
(*                                                                                 *)
(* MarketsCache: between the call of invalidate() and the commit that follows it,  *)
(* every list in the cache was put there during the change.  That is all the code  *)
(* guarantees, and all ClearedChangesShow needs.                                   *)
(*                                                                                 *)
(* RateLimit: how often a key is admitted, and how long it is told to wait.        *)
(*                                                                                 *)
(* Breaker: when a gate is shut.                                                   *)
(*                                                                                 *)
(* MCBackend: what is explored next to each other is a behaviour of every part.    *)
(***********************************************************************************)
EXTENDS MCBackend, BookProofs, PassProofs

(* FanOut.                                                                         *)

\* A queue of a subscriber: newer and newer messages, all newer than l and g and none
\* newer than n.
Newer(q, l, g, n) ==
    /\ q \in Seq(Nat \ {0})
    /\ \A i \in 1..Len(q) : l < q[i] /\ g < q[i] /\ q[i] <= n
    /\ \A i, j \in 1..Len(q) : i < j => q[i] < q[j]

LEMMA AppendNewer ==
  ASSUME NEW q, NEW l \in Nat, NEW g \in Nat, NEW n \in Nat,
         Newer(q, l, g, n), l <= n, g <= n
  PROVE  /\ Newer(Append(q, n + 1), l, g, n + 1)
         /\ Len(Append(q, n + 1)) = Len(q) + 1
<1> DEFINE p == Append(q, n + 1)
<1>1. /\ q \in Seq(Nat \ {0}) /\ Len(q) \in Nat
      /\ p \in Seq(Nat \ {0}) /\ Len(p) = Len(q) + 1
      /\ \A i \in 1..Len(q) : p[i] = q[i] /\ q[i] \in Nat
      /\ p[Len(q) + 1] = n + 1
  BY DEF Newer
<1> HIDE DEF p
<1>2. ASSUME NEW i \in 1..Len(p)
      PROVE  /\ l < p[i] /\ g < p[i] /\ p[i] <= n + 1
             /\ \A j \in 1..Len(p) : i < j => p[i] < p[j]
  <2>1. CASE i = Len(q) + 1
    BY <1>1, <2>1
  <2>2. CASE i \in 1..Len(q)
    <3>1. l < q[i] /\ g < q[i] /\ q[i] <= n /\ q[i] \in Nat /\ p[i] = q[i]
      BY <1>1, <2>2 DEF Newer
    <3>2. ASSUME NEW j \in 1..Len(p), i < j PROVE p[i] < p[j]
      <4>1. CASE j = Len(q) + 1
        BY <1>1, <3>1, <4>1
      <4>2. CASE j \in 1..Len(q)
        BY <1>1, <2>2, <3>1, <3>2, <4>2 DEF Newer
      <4> QED BY <1>1, <4>1, <4>2
    <3> QED BY <3>1, <3>2
  <2> QED BY <1>1, <2>1, <2>2
<1> QED BY <1>1, <1>2 DEF Newer, p

LEMMA TailNewer ==
  ASSUME NEW q, NEW l \in Nat, NEW g \in Nat, NEW n \in Nat,
         Newer(q, l, g, n), Len(q) > 0
  PROVE  /\ Newer(Tail(q), l, g, n) /\ Newer(Tail(q), l, Head(q), n)
         /\ Len(Tail(q)) = Len(q) - 1
         /\ Head(q) \in Nat \ {0} /\ l < Head(q) /\ g < Head(q) /\ Head(q) <= n
<1> DEFINE p == Tail(q)
           h == Head(q)
<1>0. q \in Seq(Nat \ {0}) /\ Len(q) \in Nat /\ Len(q) >= 1 /\ q # <<>>
  BY DEF Newer
<1>1. /\ p \in Seq(Nat \ {0}) /\ Len(p) = Len(q) - 1
      /\ \A i \in 1..Len(q) - 1 : p[i] = q[i + 1]
      /\ h = q[1] /\ h \in Nat \ {0}
  BY <1>0
<1> HIDE DEF p, h
<1>2. l < h /\ g < h /\ h <= n
  BY <1>0, <1>1 DEF Newer
<1>3. ASSUME NEW i \in 1..Len(p)
      PROVE  /\ l < p[i] /\ g < p[i] /\ h < p[i] /\ p[i] <= n
             /\ \A j \in 1..Len(p) : i < j => p[i] < p[j]
  <2>1. i + 1 \in 1..Len(q) /\ 1 \in 1..Len(q) /\ 1 < i + 1 /\ p[i] = q[i + 1]
    BY <1>0, <1>1
  <2>2. l < p[i] /\ g < p[i] /\ h < p[i] /\ p[i] <= n
    BY <1>1, <2>1 DEF Newer
  <2>3. ASSUME NEW j \in 1..Len(p), i < j PROVE p[i] < p[j]
    <3>1. j + 1 \in 1..Len(q) /\ i + 1 < j + 1 /\ p[j] = q[j + 1]
      BY <1>0, <1>1, <2>3
    <3> QED BY <2>1, <3>1 DEF Newer
  <2> QED BY <2>2, <2>3
<1> QED BY <1>1, <1>2, <1>3 DEF Newer, p, h

LEMMA LaterNewer ==
  ASSUME NEW q, NEW l \in Nat, NEW g \in Nat, NEW n \in Nat, NEW m \in Nat,
         Newer(q, l, g, n), m = n + 1
  PROVE  Newer(q, l, g, m)
<1>1. ASSUME NEW i \in 1..Len(q)
      PROVE  q[i] \in Nat /\ l < q[i] /\ g < q[i] /\ q[i] <= n
  BY DEF Newer
<1> QED BY <1>1 DEF Newer

\* Nothing is left to be newer than but what the getter gives away.
LEMMA GivenNewer ==
  ASSUME NEW q, NEW l \in Nat, NEW g \in Nat, NEW n \in Nat, Newer(q, l, g, n)
  PROVE  Newer(q, g, 0, n)
<1>1. ASSUME NEW i \in 1..Len(q)
      PROVE  q[i] \in Nat \ {0} /\ g < q[i] /\ q[i] <= n
  BY DEF Newer
<1>2. ASSUME NEW i \in 1..Len(q) PROVE 0 < q[i]
  BY <1>1
<1> QED BY <1>1, <1>2 DEF Newer

\* What is true of a subscriber after n messages of its topic.
Good(r, n) == r \in Sub /\ Ordered(r, n) /\ Accounted(r, n)

\* The same of a record of its fields.
GoodFields(q, g, f, h, l, d, n) ==
    /\ g \in Nat /\ f \in Nat /\ h \in Nat /\ l \in Nat /\ d \in Nat
    /\ f <= l /\ l <= n /\ g <= n
    /\ g # 0 => l < g
    /\ Newer(q, l, g, n)
    /\ n - f = h + (IF g = 0 THEN 0 ELSE 1) + Len(q) + d

\* One more message: queued, or dropped, or another dropped for it.
LEMMA KeptNext ==
  ASSUME NEW q, NEW p, NEW g, NEW f, NEW h, NEW l, NEW d, NEW e \in Nat,
         NEW n \in Nat, NEW m \in Nat, m = n + 1,
         GoodFields(q, g, f, h, l, d, n), Newer(p, l, g, m),
         Len(p) + e = Len(q) + d + 1
  PROVE  GoodFields(p, g, f, h, l, e, m)
<1>1. Len(p) \in Nat /\ Len(q) \in Nat
  BY DEF GoodFields, Newer
<1>2. /\ g \in Nat /\ f \in Nat /\ h \in Nat /\ l \in Nat /\ d \in Nat
      /\ f <= l /\ l <= n /\ g <= n
      /\ g # 0 => l < g
  BY DEF GoodFields
<1>3. l <= m /\ g <= m
  BY <1>2
<1>4. n - f = h + (IF g = 0 THEN 0 ELSE 1) + Len(q) + d
  BY DEF GoodFields
<1> DEFINE x == Len(p)
           y == Len(q)
           z == IF g = 0 THEN 0 ELSE 1
<1>5. z \in Nat /\ x \in Nat /\ y \in Nat /\ x + e = y + d + 1 /\ n - f = h + z + y + d
  BY <1>1, <1>4
<1> HIDE DEF x, y, z
<1>6. m - f = h + z + x + e
  BY <1>2, <1>5
<1> QED BY <1>2, <1>3, <1>6 DEF GoodFields, x, z

LEMMA GoodIsKept ==
  ASSUME NEW r, NEW n \in Nat, r \in Sub
  PROVE  Good(r, n) <=>
           GoodFields(r.queue, r.getter, r.since, r.handed, r.last, r.dropped, n)
<1>1. /\ r.queue \in Seq(Nat \ {0}) /\ r.getter \in Nat /\ r.since \in Nat
      /\ r.last \in Nat /\ r.handed \in Nat /\ r.dropped \in Nat
      /\ DOMAIN r.queue = 1..Len(r.queue)
  BY DEF Sub
<1> QED BY <1>1 DEF Good, GoodFields, Newer, Ordered, Accounted

LEMMA RecordGood ==
  ASSUME NEW q, NEW g, NEW f, NEW h, NEW l, NEW d, NEW n \in Nat, NEW s,
         s = [queue |-> q, getter |-> g, since |-> f, handed |-> h, last |-> l,
              dropped |-> d],
         GoodFields(q, g, f, h, l, d, n)
  PROVE  Good(s, n)
<1>1. s \in Sub
  BY DEF Sub, GoodFields, Newer
<1>2. /\ s.queue = q /\ s.getter = g /\ s.since = f /\ s.handed = h /\ s.last = l
      /\ s.dropped = d
  OBVIOUS
<1> QED BY <1>1, <1>2, GoodIsKept

LEMMA DeliveredGood ==
  ASSUME NEW t \in Topics, NEW n \in Nat, NEW m \in Nat, m = n + 1, NEW r, Good(r, n)
  PROVE  Good(Delivered(t, r, m), m)
<1> DEFINE q == r.queue
           s == Delivered(t, r, m)
<1>0. /\ r \in Sub /\ Len(q) \in Nat /\ SizeOf(t) \in Nat \ {0}
      /\ GoodFields(q, r.getter, r.since, r.handed, r.last, r.dropped, n)
  BY GoodIsKept, FanOutAssumption DEF Good, SizeOf, Sub
<1>a. /\ r.dropped \in Nat /\ r.dropped + 1 \in Nat /\ r.last \in Nat /\ r.getter \in Nat
      /\ r.last <= n /\ r.getter <= n
      /\ Newer(q, r.last, r.getter, n)
  BY SMTT(30), <1>0 DEF GoodFields
<1>1. CASE Len(q) < SizeOf(t)
  <2> DEFINE p == Append(q, m)
  <2>1. s = [queue |-> p, getter |-> r.getter, since |-> r.since,
             handed |-> r.handed, last |-> r.last, dropped |-> r.dropped]
    BY <1>0, <1>1 DEF Delivered, Sub
  <2>2. Newer(p, r.last, r.getter, m) /\ Len(p) = Len(q) + 1
    BY <1>a, AppendNewer
  <2> HIDE DEF p, s
  <2>3. GoodFields(p, r.getter, r.since, r.handed, r.last, r.dropped, m)
    <3>1. Len(p) + r.dropped = Len(q) + r.dropped + 1
      BY SMTT(30), <1>0, <1>a, <2>2
    <3> QED BY <1>0, <1>a, <2>2, <3>1, KeptNext
  <2> QED BY <2>1, <2>3, RecordGood DEF s
<1>2. CASE ~(Len(q) < SizeOf(t)) /\ t \in BusTopics
  <2> DEFINE o == Tail(q)
             p == Append(o, m)
  <2>1. s = [queue |-> p, getter |-> r.getter, since |-> r.since,
             handed |-> r.handed, last |-> r.last, dropped |-> r.dropped + 1]
    BY <1>0, <1>2 DEF Delivered, Sub
  <2>2. Newer(o, r.last, r.getter, n) /\ Len(o) = Len(q) - 1
    <3>1. Len(q) > 0
      BY <1>0, <1>2
    <3> QED BY <1>a, <3>1, TailNewer
  <2> HIDE DEF o
  <2>3. Newer(p, r.last, r.getter, m) /\ Len(p) = Len(o) + 1
    BY <1>a, <2>2, AppendNewer
  <2> HIDE DEF p, s
  <2>4. GoodFields(p, r.getter, r.since, r.handed, r.last, r.dropped + 1, m)
    <3>1. Len(p) + (r.dropped + 1) = Len(q) + r.dropped + 1
      BY <1>0, <1>a, <2>2, <2>3
    <3> QED BY <1>0, <1>a, <2>3, <3>1, KeptNext
  <2> QED BY <2>1, <2>4, RecordGood DEF s
<1>3. CASE ~(Len(q) < SizeOf(t)) /\ t \notin BusTopics
  <2>1. s = [queue |-> q, getter |-> r.getter, since |-> r.since,
             handed |-> r.handed, last |-> r.last, dropped |-> r.dropped + 1]
    BY <1>0, <1>3 DEF Delivered, Sub
  <2>2. Newer(q, r.last, r.getter, m)
    BY <1>a, LaterNewer
  <2> HIDE DEF s, q
  <2>3. GoodFields(q, r.getter, r.since, r.handed, r.last, r.dropped + 1, m)
    <3>1. Len(q) + (r.dropped + 1) = Len(q) + r.dropped + 1
      BY <1>0, <1>a
    <3> QED BY <1>0, <1>a, <2>2, <3>1, KeptNext
  <2> QED BY <2>1, <2>3, RecordGood DEF s
<1> QED BY <1>1, <1>2, <1>3

Resumed(r) == [r EXCEPT !.getter = Head(r.queue), !.queue = Tail(r.queue)]

LEMMA ResumedGood ==
  ASSUME NEW n \in Nat, NEW r, Good(r, n), r.getter = 0, r.queue # <<>>
  PROVE  Good(Resumed(r), n)
<1> DEFINE q == r.queue
           p == Tail(q)
           g == Head(q)
           s == Resumed(r)
<1>0. /\ r \in Sub /\ q \in Seq(Nat \ {0}) /\ Len(q) \in Nat /\ Len(q) > 0
      /\ GoodFields(q, 0, r.since, r.handed, r.last, r.dropped, n)
  BY GoodIsKept DEF Good, Sub
<1>1. s = [queue |-> p, getter |-> g, since |-> r.since, handed |-> r.handed,
           last |-> r.last, dropped |-> r.dropped]
  <2> DEFINE a == [r EXCEPT !.getter = g]
  <2>1. g \in Nat
    BY <1>0
  <2>2. s = [a EXCEPT !.queue = p]
    BY DEF Resumed
  <2> HIDE DEF g, p
  <2>3. a \in Sub /\ a.queue = q /\ a.getter = g /\ a.since = r.since
        /\ a.handed = r.handed /\ a.last = r.last /\ a.dropped = r.dropped
    BY <1>0, <2>1 DEF Sub
  <2> HIDE DEF a, s
  <2> QED BY <2>2, <2>3 DEF Sub
<1>2. /\ Newer(p, r.last, g, n) /\ Len(p) = Len(q) - 1
      /\ g \in Nat \ {0} /\ r.last < g /\ g <= n
  <2>1. r.last \in Nat /\ 0 \in Nat /\ Newer(q, r.last, 0, n)
    BY <1>0 DEF GoodFields
  <2> QED BY <1>0, <2>1, TailNewer
<1> HIDE DEF p, g, s, q
<1>3. GoodFields(p, g, r.since, r.handed, r.last, r.dropped, n)
  BY <1>0, <1>2 DEF GoodFields
<1> QED BY <1>1, <1>3, RecordGood DEF s

LEMMA TakenGood ==
  ASSUME NEW n \in Nat, NEW r, Good(r, n), r.getter # 0
  PROVE  Good(Taken(r), n)
<1> DEFINE q == r.queue
           s == Taken(r)
<1>0. /\ r \in Sub /\ Len(q) \in Nat
      /\ GoodFields(q, r.getter, r.since, r.handed, r.last, r.dropped, n)
  BY GoodIsKept DEF Good, Sub
<1>1. s = [queue |-> q, getter |-> 0, since |-> r.since,
           handed |-> r.handed + 1, last |-> r.getter, dropped |-> r.dropped]
  <2> DEFINE a == [r EXCEPT !.getter = 0]
             b == [a EXCEPT !.handed = @ + 1]
  <2>1. a \in Sub /\ a.queue = q /\ a.getter = 0 /\ a.since = r.since
        /\ a.handed = r.handed /\ a.last = r.last /\ a.dropped = r.dropped
    BY <1>0 DEF Sub
  <2>2. s = [b EXCEPT !.last = r.getter]
    BY <1>0 DEF Taken, Sub
  <2> HIDE DEF a
  <2>3. b \in Sub /\ b.queue = q /\ b.getter = 0 /\ b.since = r.since
        /\ b.handed = r.handed + 1 /\ b.last = r.last /\ b.dropped = r.dropped
    BY <2>1 DEF Sub
  <2> HIDE DEF b
  <2> QED BY <2>2, <2>3 DEF Sub
<1>2. Newer(q, r.getter, 0, n)
  BY <1>0, GivenNewer DEF GoodFields
<1> HIDE DEF s, q
<1>3. GoodFields(q, 0, r.since, r.handed + 1, r.getter, r.dropped, n)
  BY SMTT(30), <1>0, <1>2 DEF GoodFields
<1> QED BY <1>1, <1>3, RecordGood DEF s

LEMMA NewSubGood ==
  ASSUME NEW t \in Topics, Len(published[t]) \in Nat
  PROVE  Good(NewSub(t), Len(published[t]))
<1> DEFINE n == Len(published[t])
<1>1. Newer(<<>>, n, 0, n) /\ Len(<<>>) = 0
  BY DEF Newer
<1> HIDE DEF n
<1>2. n \in Nat
  BY DEF n
<1>3. GoodFields(<<>>, 0, n, 0, n, 0, n)
  BY <1>1, <1>2 DEF GoodFields
<1>4. NewSub(t) = [queue |-> <<>>, getter |-> 0, since |-> n, handed |-> 0,
                   last |-> n, dropped |-> 0]
  BY DEF NewSub, n
<1> QED BY <1>2, <1>3, <1>4, RecordGood DEF n

-------------------------------------------------------------------------------------
(* The inductive invariant: what the handlers are doing decides which of their       *)
(* subscribers may be handed on, and those are all good.                             *)

FanInv ==
    /\ DOMAIN published = Topics /\ \A t \in Topics : published[t] \in Seq(About(t))
    /\ endpoint \in [Sockets -> {"feed", "prices"}]
    /\ phase \in [Sockets -> Live \cup {"absent", "snapshot"}]
    /\ ready \in [Sockets -> SUBSET Topics]
    /\ sub \in [Sockets -> [Topics -> Sub]]
    /\ \A s \in Sockets : phase[s] = "snapshot" => endpoint[s] = "prices"
    /\ \A s \in Sockets : \A t \in ready[s] :
          endpoint[s] = "feed" /\ phase[s] = "sending" /\ sub[s][t].getter # 0
    /\ \A s \in Sockets, t \in Topics :
          Subscribed(s, t) => Good(sub[s][t], Len(published[t]))

LEMMA TickIsTopic == Tick \in Topics
  BY FanOutAssumption DEF Topics

LEMMA NoSubIsSub == NoSub \in Sub
  BY DEF NoSub, Sub

LEMMA MessagesCounted ==
  ASSUME FanInv, NEW t \in Topics
  PROVE  Len(published[t]) \in Nat
  BY DEF FanInv

LEMMA InitGood == FanInit => FanInv
<1> SUFFICES ASSUME FanInit PROVE FanInv
  OBVIOUS
<1>1. sub \in [Sockets -> [Topics -> Sub]]
  BY NoSubIsSub DEF FanInit
<1>2. \A s \in Sockets : phase[s] = "absent" /\ ready[s] = {}
  BY DEF FanInit
<1>3. \A s \in Sockets, t \in Topics : ~Subscribed(s, t)
  BY <1>2 DEF Subscribed, Live
<1> QED BY <1>1, <1>2, <1>3 DEF FanInit, FanInv, Live

\* A new message of a topic reaches each of its subscribers by Delivered.
LEMMA PublishGood ==
  ASSUME FanInv, NEW t \in Topics, NEW m \in About(t), Publish(t, m)
  PROVE  FanInv'
<1> DEFINE n == Len(published[t])
<1>1. n \in Nat /\ n + 1 \in Nat
  BY MessagesCounted
<1>2. /\ DOMAIN published' = Topics
      /\ \A u \in Topics : published'[u] \in Seq(About(u))
      /\ Len(published'[t]) = n + 1
      /\ \A u \in Topics : u # t => published'[u] = published[u]
  BY DEF FanInv, Publish
<1>3. \A s \in Sockets, u \in Topics : Subscribed(s, u)' <=> Subscribed(s, u)
  BY DEF Publish, Subscribed, TopicsOf
<1>4. ASSUME NEW s \in Sockets, NEW u \in Topics
      PROVE  /\ sub[s][u] \in Sub
             /\ sub'[s][u] = IF u = t /\ Subscribed(s, t)
                             THEN Delivered(t, sub[s][t], n + 1) ELSE sub[s][u]
  BY DEF FanInv, Publish
<1>5. ASSUME NEW s \in Sockets, Subscribed(s, t)
      PROVE  Good(Delivered(t, sub[s][t], n + 1), n + 1)
  <2>1. Good(sub[s][t], n)
    BY <1>5 DEF FanInv
  <2> HIDE DEF n
  <2> QED BY <1>1, <2>1, DeliveredGood
<1>6. ASSUME NEW s \in Sockets, NEW u \in Topics
      PROVE  sub'[s][u] \in Sub
  BY <1>4, <1>5 DEF Good
<1>7. sub' \in [Sockets -> [Topics -> Sub]]
  BY <1>6 DEF Publish
<1>8. ASSUME NEW s \in Sockets, NEW u \in ready'[s]
      PROVE  /\ endpoint'[s] = "feed" /\ phase'[s] = "sending"
             /\ sub'[s][u].getter # 0
  <2>1. u \in ready[s] /\ u \in Topics /\ sub[s][u] \in Sub
    BY <1>8 DEF FanInv, Publish
  <2>2. endpoint[s] = "feed" /\ phase[s] = "sending" /\ sub[s][u].getter # 0
    BY <2>1 DEF FanInv
  <2>3. Delivered(u, sub[s][u], n + 1).getter = sub[s][u].getter
    BY <2>1 DEF Delivered, Sub
  <2> QED BY <1>4, <2>1, <2>2, <2>3 DEF Publish
<1>9. ASSUME NEW s \in Sockets, NEW u \in Topics, Subscribed(s, u)'
      PROVE  Good(sub'[s][u], Len(published'[u]))
  <2>1. Subscribed(s, u)
    BY <1>3, <1>9
  <2>2. CASE u = t
    BY <1>2, <1>4, <1>5, <2>1, <2>2
  <2>3. CASE u # t
    <3>1. sub'[s][u] = sub[s][u] /\ published'[u] = published[u]
      BY <1>2, <1>4, <2>3
    <3> QED BY <2>1, <3>1 DEF FanInv
  <2> QED BY <2>2, <2>3
<1> QED BY <1>2, <1>7, <1>8, <1>9 DEF FanInv, Publish

\* Every other action leaves the messages alone and changes one socket.
OneSocket(s) ==
    /\ s \in Sockets
    /\ UNCHANGED <<published, endpoint>>
    /\ phase' \in [Sockets -> Live \cup {"absent", "snapshot"}]
    /\ ready' \in [Sockets -> SUBSET Topics]
    /\ sub' \in [Sockets -> [Topics -> Sub]]
    /\ \A o \in Sockets \ {s} :
          phase'[o] = phase[o] /\ ready'[o] = ready[o] /\ sub'[o] = sub[o]
    /\ phase'[s] = "snapshot" => endpoint[s] = "prices"
    /\ \A t \in ready'[s] :
          endpoint[s] = "feed" /\ phase'[s] = "sending" /\ sub'[s][t].getter # 0
    /\ \A t \in Topics : phase'[s] \in Live /\ t \in TopicsOf(s) =>
                            Good(sub'[s][t], Len(published[t]))

LEMMA OneSocketGood ==
  ASSUME FanInv, NEW s \in Sockets, OneSocket(s)
  PROVE  FanInv'
<1>1. ASSUME NEW o \in Sockets, NEW t \in Topics, Subscribed(o, t)'
      PROVE  Good(sub'[o][t], Len(published'[t]))
  <2>1. phase'[o] \in Live /\ t \in TopicsOf(o)
    BY <1>1 DEF Subscribed, TopicsOf, OneSocket
  <2>2. CASE o = s
    BY <2>1, <2>2 DEF OneSocket
  <2>3. CASE o # s
    <3>1. Subscribed(o, t) /\ sub'[o] = sub[o]
      BY <2>1, <2>3 DEF Subscribed, OneSocket
    <3> QED BY <3>1 DEF FanInv, OneSocket
  <2> QED BY <2>2, <2>3
<1>2. ASSUME NEW o \in Sockets, NEW t \in ready'[o]
      PROVE  /\ endpoint'[o] = "feed" /\ phase'[o] = "sending"
             /\ sub'[o][t].getter # 0
  <2>1. CASE o = s
    BY <1>2, <2>1 DEF OneSocket
  <2>2. CASE o # s
    <3>1. /\ t \in ready[o] /\ endpoint'[o] = endpoint[o]
          /\ phase'[o] = phase[o] /\ sub'[o] = sub[o]
      BY <1>2, <2>2 DEF OneSocket
    <3>2. endpoint[o] = "feed" /\ phase[o] = "sending" /\ sub[o][t].getter # 0
      BY <3>1 DEF FanInv
    <3> QED BY <3>1, <3>2
  <2> QED BY <2>1, <2>2
<1>3. ASSUME NEW o \in Sockets, phase'[o] = "snapshot" PROVE endpoint'[o] = "prices"
  BY <1>3 DEF FanInv, OneSocket
<1> QED BY <1>1, <1>2, <1>3 DEF FanInv, OneSocket

\* The subscribers of a socket that is being served.
LEMMA Served ==
  ASSUME FanInv, NEW s \in Sockets, NEW t \in Topics
  PROVE  /\ sub[s] \in [Topics -> Sub] /\ sub[s][t] \in Sub
         /\ Len(published[t]) \in Nat
         /\ phase[s] \in Live /\ t \in TopicsOf(s) =>
              Good(sub[s][t], Len(published[t]))
  BY MessagesCounted DEF FanInv, Subscribed

LEMMA ResumeGood ==
  ASSUME FanInv, NEW s \in Sockets, NEW t \in Topics, Resume(s, t)
  PROVE  FanInv'
<1> DEFINE r == sub[s][t]
<1>1. /\ phase[s] \in Live /\ t \in TopicsOf(s)
      /\ r.getter = 0 /\ r.queue # <<>>
      /\ UNCHANGED <<published, endpoint, phase, ready>>
  BY DEF Resume, Subscribed
<1>2. sub' = [sub EXCEPT ![s][t] = Resumed(r)]
  BY DEF Resume, Resumed, FanInv
<1>3. r \in Sub /\ Good(Resumed(r), Len(published[t])) /\ Resumed(r).getter # 0
  <2>1. r \in Sub /\ Good(r, Len(published[t])) /\ Len(published[t]) \in Nat
    BY <1>1, Served
  <2>2. Head(r.queue) \in Nat \ {0} /\ Resumed(r).getter = Head(r.queue)
    BY <1>1, <2>1 DEF Sub, Resumed
  <2> HIDE DEF r
  <2> QED BY <1>1, <2>1, <2>2, ResumedGood
<1>4. Resumed(r) \in Sub
  BY <1>3 DEF Good
<1> HIDE DEF r
<1>5. /\ sub' \in [Sockets -> [Topics -> Sub]]
      /\ \A o \in Sockets \ {s} : sub'[o] = sub[o]
      /\ \A u \in Topics : sub'[s][u] = IF u = t THEN Resumed(r) ELSE sub[s][u]
  BY <1>2, <1>4 DEF FanInv
<1>6. /\ phase' \in [Sockets -> Live \cup {"absent", "snapshot"}]
      /\ ready' \in [Sockets -> SUBSET Topics]
      /\ phase'[s] = "snapshot" => endpoint[s] = "prices"
      /\ \A o \in Sockets \ {s} : phase'[o] = phase[o] /\ ready'[o] = ready[o]
  BY <1>1 DEF FanInv
<1>7. ASSUME NEW u \in ready'[s]
      PROVE  endpoint[s] = "feed" /\ phase'[s] = "sending" /\ sub'[s][u].getter # 0
  <2>1. u \in ready[s] /\ u \in Topics
    BY <1>1, <1>7 DEF FanInv
  <2>2. endpoint[s] = "feed" /\ phase[s] = "sending" /\ sub[s][u].getter # 0
    BY <2>1 DEF FanInv
  <2> QED BY <1>1, <1>3, <1>5, <2>1, <2>2
<1>8. ASSUME NEW u \in Topics, u \in TopicsOf(s)
      PROVE  Good(sub'[s][u], Len(published[u]))
  <2>1. Good(sub[s][u], Len(published[u]))
    BY <1>1, <1>8, Served
  <2> QED BY <1>3, <1>5, <2>1
<1>9. OneSocket(s)
  BY <1>1, <1>5, <1>6, <1>7, <1>8 DEF OneSocket
<1> QED BY <1>9, OneSocketGood

LEMMA DisconnectGood ==
  ASSUME FanInv, NEW s \in Sockets, Disconnect(s)
  PROVE  FanInv'
<1>1. sub' \in [Sockets -> [Topics -> Sub]]
  BY NoSubIsSub DEF Disconnect, FanInv
<1>2. phase'[s] = "absent" /\ ready'[s] = {}
  BY DEF Disconnect, FanInv
<1>3. OneSocket(s)
  BY <1>1, <1>2 DEF Disconnect, FanInv, OneSocket, Live
<1> QED BY <1>3, OneSocketGood

LEMMA ConnectFeedGood ==
  ASSUME FanInv, NEW s \in Sockets, ConnectFeed(s)
  PROVE  FanInv'
<1>1. ASSUME NEW t \in Topics
      PROVE  NewSub(t) \in Sub /\ Good(NewSub(t), Len(published[t]))
  BY NewSubGood, MessagesCounted DEF Good
<1>2. /\ sub' \in [Sockets -> [Topics -> Sub]]
      /\ \A t \in Topics : sub'[s][t] = NewSub(t)
      /\ \A o \in Sockets \ {s} : sub'[o] = sub[o]
  BY <1>1 DEF ConnectFeed, FanInv
<1>3. /\ phase'[s] = "waiting" /\ ready'[s] = {}
      /\ \A o \in Sockets \ {s} : phase'[o] = phase[o]
      /\ phase' \in [Sockets -> Live \cup {"absent", "snapshot"}]
      /\ UNCHANGED <<published, endpoint, ready>>
  BY DEF ConnectFeed, FanInv, Live
<1>4. OneSocket(s)
  BY <1>1, <1>2, <1>3 DEF FanInv, OneSocket
<1> QED BY <1>4, OneSocketGood

LEMMA SubscribeGood ==
  ASSUME FanInv, NEW s \in Sockets, Subscribe(s)
  PROVE  FanInv'
<1>1. /\ Tick \in Topics /\ NewSub(Tick) \in Sub
      /\ Good(NewSub(Tick), Len(published[Tick]))
  BY TickIsTopic, NewSubGood, MessagesCounted DEF Good
<1>2. /\ sub' \in [Sockets -> [Topics -> Sub]]
      /\ sub'[s][Tick] = NewSub(Tick)
      /\ \A o \in Sockets \ {s} : sub'[o] = sub[o]
  BY <1>1 DEF Subscribe, FanInv
<1>3. /\ phase'[s] = "waiting" /\ endpoint[s] = "prices" /\ ready'[s] = {}
      /\ \A o \in Sockets \ {s} : phase'[o] = phase[o]
      /\ phase' \in [Sockets -> Live \cup {"absent", "snapshot"}]
      /\ UNCHANGED <<published, endpoint, ready>>
  BY DEF Subscribe, FanInv, Live
<1>4. TopicsOf(s) = {Tick}
  BY <1>3 DEF TopicsOf
<1>5. OneSocket(s)
  BY <1>1, <1>2, <1>3, <1>4 DEF FanInv, OneSocket
<1> QED BY <1>5, OneSocketGood

LEMMA TakeUpGood ==
  ASSUME FanInv, NEW s \in Sockets, NEW t \in Topics, NEW batch \in SUBSET Topics,
         endpoint[s] = "feed", phase[s] \in Live, t \in batch,
         \A u \in batch : sub[s][u].getter # 0,
         TakeUp(s, t, batch)
  PROVE  FanInv'
<1> DEFINE r == sub[s][t]
<1>1. TopicsOf(s) = Topics
  BY DEF TopicsOf
<1>2. r \in Sub /\ Good(Taken(r), Len(published[t])) /\ Taken(r) \in Sub
  <2>1. r \in Sub /\ Good(r, Len(published[t])) /\ Len(published[t]) \in Nat
    BY <1>1, Served
  <2>2. r.getter # 0
    OBVIOUS
  <2> HIDE DEF r
  <2> QED BY <2>1, <2>2, TakenGood DEF Good
<1>3. /\ sub' \in [Sockets -> [Topics -> Sub]]
      /\ \A o \in Sockets \ {s} : sub'[o] = sub[o]
      /\ \A u \in Topics : sub'[s][u] = IF u = t THEN Taken(r) ELSE sub[s][u]
  BY <1>2 DEF TakeUp, FanInv
<1> HIDE DEF r
<1>4. /\ phase'[s] = "sending" /\ ready'[s] = batch \ {t}
      /\ \A o \in Sockets \ {s} : phase'[o] = phase[o] /\ ready'[o] = ready[o]
      /\ phase' \in [Sockets -> Live \cup {"absent", "snapshot"}]
      /\ ready' \in [Sockets -> SUBSET Topics]
      /\ UNCHANGED <<published, endpoint>>
  BY DEF TakeUp, FanInv, Live
<1>5. \A u \in Topics : Good(sub'[s][u], Len(published[u]))
  BY <1>1, <1>2, <1>3, Served
<1>6. OneSocket(s)
  BY <1>3, <1>4, <1>5 DEF OneSocket
<1> QED BY <1>6, OneSocketGood

LEMMA WakeGood ==
  ASSUME FanInv, NEW s \in Sockets, Wake(s)
  PROVE  FanInv'
<1>1. PICK t \in Completed(s) : TakeUp(s, t, Completed(s))
  BY DEF Wake
<1>2. /\ Completed(s) \in SUBSET Topics /\ t \in Topics
      /\ \A u \in Completed(s) : sub[s][u].getter # 0
  BY DEF Completed
<1>3. endpoint[s] = "feed" /\ phase[s] \in Live
  BY DEF Wake, Live
<1> QED BY <1>1, <1>2, <1>3, TakeUpGood

LEMMA SentNextGood ==
  ASSUME FanInv, NEW s \in Sockets, SentNext(s)
  PROVE  FanInv'
<1>1. PICK t \in ready[s] : TakeUp(s, t, ready[s])
  BY DEF SentNext
<1>2. /\ ready[s] \in SUBSET Topics /\ t \in Topics
      /\ \A u \in ready[s] : sub[s][u].getter # 0
  BY DEF FanInv
<1>3. endpoint[s] = "feed" /\ phase[s] \in Live
  BY DEF SentNext, Live
<1> QED BY <1>1, <1>2, <1>3, TakeUpGood

\* Only the phase of one socket that has nothing left in `done` changes, and no socket
\* becomes live by it.
LEMMA PhaseGood ==
  ASSUME FanInv, NEW s \in Sockets, NEW p \in Live \cup {"absent", "snapshot"},
         p \in Live => phase[s] \in Live,
         p = "snapshot" => endpoint[s] = "prices",
         ready[s] = {},
         phase' = [phase EXCEPT ![s] = p],
         UNCHANGED <<published, endpoint, ready, sub>>
  PROVE  FanInv'
<1>1. \A t \in Topics : p \in Live /\ t \in TopicsOf(s) =>
          Good(sub[s][t], Len(published[t]))
  BY Served
<1>2. phase'[s] = p
  BY DEF FanInv
<1>3. OneSocket(s)
  BY <1>1, <1>2 DEF FanInv, OneSocket
<1> QED BY <1>3, OneSocketGood

LEMMA SentLastGood ==
  ASSUME FanInv, NEW s \in Sockets, SentLast(s)
  PROVE  FanInv'
  BY PhaseGood DEF SentLast, Live

LEMMA KeepAliveGood ==
  ASSUME FanInv, NEW s \in Sockets, KeepAlive(s)
  PROVE  FanInv'
<1>1. ready[s] = {} /\ phase[s] = "waiting"
  BY DEF FanInv, KeepAlive
<1> QED BY <1>1, PhaseGood DEF KeepAlive, Live

LEMMA ReadSnapshotGood ==
  ASSUME FanInv, NEW s \in Sockets, ReadSnapshot(s)
  PROVE  FanInv'
<1>1. ready[s] = {} /\ endpoint[s] = "prices"
  BY DEF FanInv, ReadSnapshot
<1>2. "snapshot" \notin Live
  BY DEF Live
<1> QED BY <1>1, <1>2, PhaseGood DEF ReadSnapshot

LEMMA TakeTickGood ==
  ASSUME FanInv, NEW s \in Sockets, TakeTick(s)
  PROVE  FanInv'
<1> DEFINE r == sub[s][Tick]
<1>1. /\ endpoint[s] = "prices" /\ phase[s] = "waiting" /\ r.getter # 0
      /\ UNCHANGED <<published, endpoint, ready>>
      /\ sub' = [sub EXCEPT ![s][Tick] = Taken(r)]
  BY TickIsTopic DEF TakeTick, FanInv
<1>2. phase[s] \in Live /\ TopicsOf(s) = {Tick} /\ ready[s] = {}
  BY <1>1 DEF TopicsOf, Live, FanInv
<1>3. Good(Taken(r), Len(published[Tick])) /\ Taken(r) \in Sub
  <2>1. r \in Sub /\ Good(r, Len(published[Tick])) /\ Len(published[Tick]) \in Nat
    BY <1>2, TickIsTopic, Served
  <2> HIDE DEF r
  <2> QED BY <1>1, <2>1, TakenGood DEF Good
<1>4. /\ sub' \in [Sockets -> [Topics -> Sub]]
      /\ \A o \in Sockets \ {s} : sub'[o] = sub[o]
      /\ sub'[s][Tick] = Taken(r)
  BY <1>1, <1>3, TickIsTopic DEF FanInv
<1>5. /\ phase'[s] \in {"sending", "waiting"}
      /\ \A o \in Sockets \ {s} : phase'[o] = phase[o]
      /\ phase' \in [Sockets -> Live \cup {"absent", "snapshot"}]
  BY DEF TakeTick, FanInv, Live
<1> HIDE DEF r
<1>6. OneSocket(s)
  BY <1>1, <1>2, <1>3, <1>4, <1>5 DEF FanInv, OneSocket
<1> QED BY <1>6, OneSocketGood

-------------------------------------------------------------------------------------
(* What a client of /prices shows.  Its queue holds the newest ticks without a gap;  *)
(* the ticks before those were handed over, or were pushed out by a full queue.      *)

\* The last of the first n elements of a sequence that is m.
LEMMA LastOf ==
  ASSUME NEW S, NEW P \in Seq(S), NEW m, NEW n \in 0..Len(P)
  PROVE  \E i \in 0..n : (i = 0 \/ P[i] = m) /\ \A j \in i + 1..n : P[j] # m
<1> DEFINE T == {k \in 0..n : k = n \/ P[n - k] = m}
<1>1. n \in T /\ T \in SUBSET Nat
  OBVIOUS
<1>2. PICK k \in T : \A y \in T : k <= y
  BY <1>1, Least
<1>3. k \in 0..n /\ (k = n \/ P[n - k] = m)
  BY <1>2
<1>4. ASSUME NEW j \in (n - k) + 1..n, P[j] = m PROVE FALSE
  <2>1. n - j \in 0..n /\ n - (n - j) = j /\ n - j < k
    BY <1>3, <1>4
  <2>2. n - j \in T
    BY <1>4, <2>1
  <2> QED BY SMTT(30), <1>2, <1>3, <2>1, <2>2
<1>5. n - k \in 0..n /\ (n - k = 0 \/ P[n - k] = m)
  BY <1>3
<1> QED BY <1>4, <1>5

\* The client shows a tick of its market, none if there is none, and nothing older
\* than the snapshot it was sent.
Displayed(P, m, k, w) ==
    /\ k \in 0..Len(P) /\ w \in 0..Len(P)
    /\ w = 0 \/ P[w] = m
    /\ \A j \in 1..k : P[j] = m => j <= w

Gapless(q, n) == \A i \in 1..Len(q) : q[i] = n - Len(q) + i

\* Where the ticks published since the subscription are: those the handler was given
\* up to l, the newer ones in the getter g and in the queue q, of b places.
Whereabouts(P, m, q, g, f, l, k, w, b) ==
    /\ k <= f
    /\ Gapless(q, Len(P))
    /\ \A j \in f + 1..l : P[j] = m => j <= w \/ j + b <= Len(P)
    /\ \A j \in l + 1..Len(P) : j = g \/ j > Len(P) - Len(q) \/ j + b <= Len(P)

LEMMA AppendKeeps ==
  ASSUME NEW S, NEW P \in Seq(S), NEW x \in S
  PROVE  /\ Append(P, x) \in Seq(S) /\ Len(Append(P, x)) = Len(P) + 1
         /\ \A i \in 1..Len(P) : Append(P, x)[i] = P[i]
  OBVIOUS

\* One more tick.
LEMMA DisplayedNext ==
  ASSUME NEW S, NEW P \in Seq(S), NEW x \in S, NEW m, NEW k, NEW w,
         Displayed(P, m, k, w)
  PROVE  Displayed(Append(P, x), m, k, w)
<1> DEFINE Q == Append(P, x)
<1>1. Len(Q) = Len(P) + 1 /\ Len(P) \in Nat /\ \A i \in 1..Len(P) : Q[i] = P[i]
  OBVIOUS
<1> HIDE DEF Q
<1>2. k \in 0..Len(P) /\ w \in 0..Len(P) /\ (w = 0 \/ P[w] = m)
  BY DEF Displayed
<1>3. k \in 0..Len(Q) /\ w \in 0..Len(Q) /\ (w = 0 \/ Q[w] = m)
  BY <1>1, <1>2
<1>4. ASSUME NEW j \in 1..k, Q[j] = m PROVE j <= w
  BY <1>1, <1>2, <1>4 DEF Displayed
<1> QED BY <1>3, <1>4 DEF Displayed, Q

LEMMA WhereaboutsNext ==
  ASSUME NEW S, NEW P \in Seq(S), NEW x \in S, NEW m, NEW q \in Seq(Nat), NEW p \in Seq(Nat),
         NEW g \in Nat, NEW f \in Nat, NEW l \in Nat, NEW k \in Nat, NEW w \in Nat, NEW b \in Nat,
         l <= Len(P), Whereabouts(P, m, q, g, f, l, k, w, b),
         Gapless(p, Len(P) + 1), Len(p) > 0,
         \/ Len(p) = Len(q) + 1
         \/ Len(p) = Len(q) /\ b <= Len(q)
  PROVE  Whereabouts(Append(P, x), m, p, g, f, l, k, w, b)
<1> DEFINE Q == Append(P, x)
           n == Len(P)
           y == Len(p)
           z == Len(q)
<1>1. Len(Q) = n + 1 /\ n \in Nat /\ \A i \in 1..n : Q[i] = P[i]
  OBVIOUS
<1>2. /\ y \in Nat /\ z \in Nat /\ y > 0 /\ l <= n
      /\ y = z + 1 \/ (y = z /\ b <= z)
  BY SMTT(30)
<1> HIDE DEF Q, n, y, z
<1>3. ASSUME NEW j \in f + 1..l, Q[j] = m PROVE j <= w \/ j + b <= n + 1
  <2>1. j \in 1..n /\ j \in f + 1..l
    BY <1>1, <1>2
  <2>2. P[j] = m
    BY <1>1, <1>3, <2>1
  <2>3. j <= w \/ j + b <= n
    BY <2>1, <2>2 DEF Whereabouts, n
  <2> QED BY SMTT(30), <1>1, <2>1, <2>3
<1>4. ASSUME NEW j \in l + 1..n + 1
      PROVE  j = g \/ j > n + 1 - y \/ j + b <= n + 1
  <2>1. CASE j = n + 1
    BY <1>1, <1>2, <2>1
  <2>2. CASE j # n + 1
    <3>1. j \in l + 1..n
      BY SMTT(30), <1>1, <1>4, <2>2
    <3>2. j = g \/ j > n - z \/ j + b <= n
      BY <3>1 DEF Whereabouts, n, z
    <3> QED BY <1>1, <1>2, <3>1, <3>2
  <2> QED BY <2>1, <2>2
<1>5. k <= f /\ Gapless(p, n + 1)
  BY DEF Whereabouts, n
<1> QED BY <1>1, <1>3, <1>4, <1>5 DEF Whereabouts, Q, y

LEMMA AppendGapless ==
  ASSUME NEW q \in Seq(Nat), NEW n \in Nat, Gapless(q, n)
  PROVE  /\ Gapless(Append(q, n + 1), n + 1) /\ Append(q, n + 1) \in Seq(Nat)
         /\ Len(Append(q, n + 1)) = Len(q) + 1
<1> DEFINE p == Append(q, n + 1)
<1>1. /\ p \in Seq(Nat) /\ Len(p) = Len(q) + 1 /\ Len(q) \in Nat
      /\ \A i \in 1..Len(q) : p[i] = q[i]
      /\ p[Len(q) + 1] = n + 1
  OBVIOUS
<1> HIDE DEF p
<1>2. ASSUME NEW i \in 1..Len(p) PROVE p[i] = (n + 1) - Len(p) + i
  <2>1. CASE i = Len(q) + 1
    BY <1>1, <2>1
  <2>2. CASE i \in 1..Len(q)
    <3>1. q[i] = n - Len(q) + i
      BY <2>2 DEF Gapless
    <3> QED BY <1>1, <2>2, <3>1
  <2> QED BY <1>1, <2>1, <2>2
<1> QED BY <1>1, <1>2 DEF Gapless, p

LEMMA TailGapless ==
  ASSUME NEW q \in Seq(Nat), NEW n \in Nat, Gapless(q, n), Len(q) > 0
  PROVE  /\ Gapless(Tail(q), n) /\ Tail(q) \in Seq(Nat) /\ Len(Tail(q)) = Len(q) - 1
         /\ Head(q) = n - Len(q) + 1
<1> DEFINE p == Tail(q)
<1>1. /\ p \in Seq(Nat) /\ Len(p) = Len(q) - 1 /\ Len(q) \in Nat
      /\ \A i \in 1..Len(q) - 1 : p[i] = q[i + 1]
      /\ Head(q) = q[1]
  OBVIOUS
<1> HIDE DEF p
<1>2. ASSUME NEW i \in 1..Len(p) PROVE p[i] = n - Len(p) + i
  <2>1. q[i + 1] = n - Len(q) + (i + 1)
    BY <1>1 DEF Gapless
  <2> QED BY <1>1, <2>1
<1>3. q[1] = n - Len(q) + 1
  BY <1>1 DEF Gapless
<1> QED BY <1>1, <1>2, <1>3 DEF Gapless, p

\* The getter takes the head of the queue.
LEMMA WhereaboutsResumed ==
  ASSUME NEW S, NEW P \in Seq(S), NEW m, NEW q \in Seq(Nat),
         NEW f \in Nat, NEW l \in Nat, NEW k \in Nat, NEW w \in Nat, NEW b \in Nat,
         Whereabouts(P, m, q, 0, f, l, k, w, b), Len(q) > 0
  PROVE  Whereabouts(P, m, Tail(q), Head(q), f, l, k, w, b)
<1> DEFINE p == Tail(q)
           h == Head(q)
           n == Len(P)
           y == Len(p)
           z == Len(q)
<1>1. /\ Gapless(p, n) /\ y = z - 1 /\ h = n - z + 1 /\ z \in Nat /\ n \in Nat
  BY TailGapless DEF Whereabouts
<1> HIDE DEF p, h, n, y, z
<1>2. ASSUME NEW j \in l + 1..n PROVE j = h \/ j > n - y \/ j + b <= n
  <2>1. j # 0 /\ (j = 0 \/ j > n - z \/ j + b <= n)
    BY <1>1 DEF Whereabouts, n, z
  <2> QED BY <1>1, <2>1
<1> QED BY <1>1, <1>2 DEF Whereabouts, p, h, n, y

\* The handler takes the tick the getter holds.
LEMMA WhereaboutsTaken ==
  ASSUME NEW S, NEW P \in Seq(S), NEW m, NEW q \in Seq(Nat), NEW g \in Nat \ {0},
         NEW f \in Nat, NEW l \in Nat, NEW k \in Nat, NEW w \in Nat, NEW v \in Nat, NEW b \in Nat,
         Whereabouts(P, m, q, g, f, l, k, w, b), l < g, g <= Len(P),
         \A i \in 1..Len(q) : g < q[i],
         v = IF P[g] = m THEN g ELSE w
  PROVE  Whereabouts(P, m, q, 0, f, g, k, v, b)
<1> DEFINE n == Len(P)
<1>1. n \in Nat /\ Len(q) \in Nat /\ k <= f /\ Gapless(q, n)
  BY DEF Whereabouts
<1>2. g <= n - Len(q)
  <2>1. CASE Len(q) = 0
    BY <1>1, <2>1
  <2>2. CASE Len(q) # 0
    <3>1. g < q[1] /\ q[1] = n - Len(q) + 1
      BY <1>1, <2>2 DEF Gapless
    <3> QED BY <1>1, <3>1
  <2> QED BY <2>1, <2>2
<1>3. ASSUME NEW j \in l + 1..n
      PROVE  j = g \/ j > n - Len(q) \/ j + b <= n
  BY DEF Whereabouts
<1>4. ASSUME NEW j \in f + 1..l, P[j] = m
      PROVE  j <= w \/ j + b <= n
  BY <1>4 DEF Whereabouts
<1> DEFINE z == Len(q)
<1> HIDE DEF n, z
<1>5. ASSUME NEW j \in f + 1..g, P[j] = m
      PROVE  j <= v \/ j + b <= n
  <2>1. CASE P[g] = m
    BY <2>1
  <2>2. CASE P[g] # m
    <3>1. v = w /\ j # g
      BY <1>5, <2>2
    <3>2. CASE j <= l
      BY <1>4, <1>5, <3>1, <3>2
    <3>3. CASE j > l
      <4>1. j \in l + 1..n /\ j < g
        BY <1>1, <1>2, <3>1, <3>3 DEF z
      <4>2. j = g \/ j > n - z \/ j + b <= n
        BY <1>3, <4>1 DEF z
      <4> QED BY <1>1, <1>2, <3>1, <4>1, <4>2 DEF z
    <3> QED BY <3>2, <3>3
  <2> QED BY <2>1, <2>2
<1>6. ASSUME NEW j \in g + 1..n
      PROVE  j = 0 \/ j > n - Len(q) \/ j + b <= n
  <2>1. j \in l + 1..n /\ j # g
    BY <1>1
  <2> QED BY <1>3, <2>1
<1> QED BY <1>1, <1>5, <1>6 DEF Whereabouts, n

-------------------------------------------------------------------------------------
(* The invariant behind PricesAreCurrent, next to the one above.                     *)

Shows(s) ==
    LET r == sub[s][Tick] IN
    endpoint[s] = "prices" /\ phase[s] # "absent" =>
        /\ Displayed(published[Tick], MarketOf[s], snapshot[s], shown[s])
        /\ phase[s] \in Live =>
             Whereabouts(published[Tick], MarketOf[s], r.queue, r.getter, r.since, r.last,
                         snapshot[s], shown[s], BusSize)

ShowInv ==
    /\ stored \in 0..Len(published[Tick])
    /\ snapshot \in [Sockets -> Nat] /\ shown \in [Sockets -> Nat]
    /\ \A s \in Sockets, t \in Topics : Len(sub[s][t].queue) <= SizeOf(t)
    /\ \A s \in Sockets : Shows(s)

LEMMA Ticks ==
  ASSUME FanInv
  PROVE  /\ published[Tick] \in Seq(Slugs) /\ Len(published[Tick]) \in Nat
         /\ SizeOf(Tick) = BusSize /\ BusSize \in Nat \ {0}
         /\ \A s \in Sockets : MarketOf[s] \in Slugs
  BY TickIsTopic, FanOutAssumption DEF FanInv, About, SizeOf

LEMMA SizesPositive ==
  ASSUME NEW t \in Topics
  PROVE  SizeOf(t) \in Nat \ {0}
  BY FanOutAssumption DEF SizeOf

LEMMA InitShows == FanInit => ShowInv
<1> SUFFICES ASSUME FanInit PROVE ShowInv
  OBVIOUS
<1>1. published[Tick] = <<>> /\ Len(published[Tick]) = 0
  BY TickIsTopic DEF FanInit
<1>2. ASSUME NEW s \in Sockets, NEW t \in Topics PROVE Len(sub[s][t].queue) <= SizeOf(t)
  <2>1. sub[s][t].queue = <<>> /\ Len(<<>>) = 0
    BY DEF FanInit, NoSub
  <2> QED BY <2>1, SizesPositive
<1>3. \A s \in Sockets : Shows(s)
  BY DEF FanInit, Shows
<1> QED BY <1>1, <1>2, <1>3 DEF FanInit, ShowInv

\* An action that concerns one socket.
LEMMA OneShows ==
  ASSUME FanInv, ShowInv, NEW s \in Sockets,
         UNCHANGED <<published, stored, endpoint>>,
         \A o \in Sockets \ {s} :
            /\ phase'[o] = phase[o] /\ sub'[o] = sub[o]
            /\ snapshot'[o] = snapshot[o] /\ shown'[o] = shown[o],
         snapshot' \in [Sockets -> Nat], shown' \in [Sockets -> Nat],
         \A t \in Topics : Len(sub'[s][t].queue) <= SizeOf(t),
         Shows(s)'
  PROVE  ShowInv'
<1>1. ASSUME NEW o \in Sockets, o # s PROVE Shows(o)'
  <2>1. Shows(o)
    BY DEF ShowInv
  <2> QED BY <1>1, <2>1 DEF Shows
<1>2. ASSUME NEW o \in Sockets, NEW t \in Topics
      PROVE  Len(sub'[o][t].queue) <= SizeOf(t)
  BY <1>2 DEF ShowInv
<1> QED BY <1>1, <1>2 DEF ShowInv

\* A tick or another message is published.
LEMMA PublishShows ==
  ASSUME FanInv, ShowInv, NEW t \in Topics, NEW m \in About(t), Publish(t, m)
  PROVE  ShowInv'
<1> DEFINE P == published[Tick]
           n == Len(P)
<1>1. /\ P \in Seq(Slugs) /\ n \in Nat /\ SizeOf(Tick) = BusSize /\ BusSize \in Nat \ {0}
      /\ Tick \in BusTopics
  BY Ticks, FanOutAssumption
<1>2. published'[Tick] = IF t = Tick THEN Append(P, m) ELSE P
  BY TickIsTopic DEF Publish, FanInv
<1>3. stored' \in 0..Len(published'[Tick])
  BY <1>1, <1>2 DEF Publish, ShowInv, About
<1>4. /\ UNCHANGED <<endpoint, phase, snapshot, shown>>
      /\ \A s \in Sockets, u \in Topics :
            sub'[s][u] = IF u = t /\ Subscribed(s, t)
                         THEN Delivered(t, sub[s][t], Len(published[t]) + 1) ELSE sub[s][u]
  BY DEF Publish
<1>5. ASSUME NEW s \in Sockets, NEW u \in Topics
      PROVE  Len(sub'[s][u].queue) <= SizeOf(u)
  <2>1. /\ sub[s][u] \in Sub /\ Len(sub[s][u].queue) <= SizeOf(u)
        /\ SizeOf(u) \in Nat \ {0}
    BY SizesPositive DEF FanInv, ShowInv
  <2> DEFINE r == sub[s][u]
             k == Len(published[t]) + 1
             d == Delivered(u, r, k)
  <2>2. r.queue \in Seq(Nat \ {0}) /\ Len(r.queue) \in Nat /\ k \in Nat \ {0}
    BY SMTT(30), <2>1, MessagesCounted DEF Sub
  <2> HIDE DEF k
  <2>3. Len(d.queue) <= SizeOf(u)
    <3>1. CASE Len(r.queue) < SizeOf(u)
      <4>1. d.queue = Append(r.queue, k)
        BY <2>1, <3>1 DEF Delivered, Sub
      <4> QED BY <2>1, <2>2, <3>1, <4>1
    <3>2. CASE ~(Len(r.queue) < SizeOf(u)) /\ u \in BusTopics
      <4>1. d.queue = Append(Tail(r.queue), k)
        BY <2>1, <3>2 DEF Delivered, Sub
      <4>2. Tail(r.queue) \in Seq(Nat \ {0}) /\ Len(Tail(r.queue)) = Len(r.queue) - 1
        BY <2>1, <2>2, <3>2
      <4> HIDE DEF r, d
      <4> QED BY <2>1, <2>2, <3>2, <4>1, <4>2 DEF r
    <3>3. CASE ~(Len(r.queue) < SizeOf(u)) /\ u \notin BusTopics
      <4>1. d.queue = r.queue
        BY <2>1, <3>3 DEF Delivered, Sub
      <4> QED BY <2>1, <4>1
    <3> QED BY <3>1, <3>2, <3>3
  <2>4. sub'[s][u] = d \/ sub'[s][u] = r
    BY <1>4 DEF k
  <2> HIDE DEF d, r
  <2> QED BY <2>1, <2>3, <2>4 DEF r
<1>6. ASSUME NEW s \in Sockets PROVE Shows(s)'
  <2>0. Shows(s) /\ Tick \in Topics
    BY TickIsTopic DEF ShowInv
  <2>1. CASE t # Tick
    <3>1. sub'[s][Tick] = sub[s][Tick] /\ published'[Tick] = P
      BY <1>2, <1>4, <2>0, <2>1
    <3> QED BY <1>4, <2>0, <3>1 DEF Shows
  <2>2. CASE t = Tick
    <3> SUFFICES ASSUME endpoint[s] = "prices", phase[s] # "absent"
                 PROVE  Shows(s)'
      BY <1>4 DEF Shows
    <3> DEFINE r == sub[s][Tick]
               q == r.queue
               p == sub'[s][Tick].queue
    <3>1. published'[Tick] = Append(P, m) /\ m \in Slugs
      BY <1>2, <2>2 DEF About
    <3>2. Displayed(P, MarketOf[s], snapshot[s], shown[s])
      BY <2>0 DEF Shows
    <3>3. Displayed(Append(P, m), MarketOf[s], snapshot[s], shown[s])
      <4> HIDE DEF P
      <4> QED BY <1>1, <3>1, <3>2, DisplayedNext
    <3>4. ASSUME phase[s] \in Live
          PROVE  /\ sub'[s][Tick].getter = r.getter /\ sub'[s][Tick].since = r.since
                 /\ sub'[s][Tick].last = r.last
                 /\ Whereabouts(Append(P, m), MarketOf[s], p, r.getter, r.since, r.last,
                                snapshot[s], shown[s], BusSize)
      <4>1. /\ sub'[s][Tick] = Delivered(Tick, r, n + 1)
            /\ r \in Sub /\ Good(r, n)
            /\ Len(q) <= BusSize
        BY <1>1, <1>4, <2>0, <2>2, <3>4, Served DEF Subscribed, TopicsOf, ShowInv
      <4>2. /\ q \in Seq(Nat) /\ r.getter \in Nat /\ r.since \in Nat /\ r.last \in Nat
            /\ Len(q) \in Nat /\ r.last <= n
            /\ snapshot[s] \in Nat /\ shown[s] \in Nat
        BY SMTT(30), <4>1 DEF Sub, Good, Ordered, ShowInv
      <4>3. Whereabouts(P, MarketOf[s], q, r.getter, r.since, r.last, snapshot[s],
                        shown[s], BusSize)
        BY <2>0, <3>4 DEF Shows
      <4>4. Gapless(q, n)
        BY <4>3 DEF Whereabouts
      <4>5. CASE Len(q) < BusSize
        <5>1. /\ p = Append(q, n + 1)
              /\ sub'[s][Tick].getter = r.getter /\ sub'[s][Tick].since = r.since
              /\ sub'[s][Tick].last = r.last
          BY <1>1, <4>1, <4>5 DEF Delivered, Sub
        <5> HIDE DEF r, q, p, P, n
        <5>2. Gapless(p, n + 1) /\ p \in Seq(Nat) /\ Len(p) = Len(q) + 1
          BY <1>1, <4>2, <4>4, <5>1, AppendGapless
        <5>3. Len(p) > 0
          BY <4>2, <5>2
        <5>4. Whereabouts(Append(P, m), MarketOf[s], p, r.getter, r.since, r.last,
                          snapshot[s], shown[s], BusSize)
          BY <1>1, <3>1, <4>2, <4>3, <5>2, <5>3, WhereaboutsNext DEF n
        <5> QED BY <5>1, <5>4
      <4>6. CASE ~(Len(q) < BusSize)
        <5>1. /\ p = Append(Tail(q), n + 1)
              /\ sub'[s][Tick].getter = r.getter /\ sub'[s][Tick].since = r.since
              /\ sub'[s][Tick].last = r.last
          BY <1>1, <4>1, <4>6 DEF Delivered, Sub
        <5> DEFINE o == Tail(q)
        <5>2. Len(q) = BusSize /\ Len(q) > 0
          BY <1>1, <4>1, <4>2, <4>6
        <5> HIDE DEF r, q, p, P, n
        <5>3. Gapless(o, n) /\ o \in Seq(Nat) /\ Len(o) = Len(q) - 1
          BY <1>1, <4>2, <4>4, <5>2, TailGapless
        <5> HIDE DEF o
        <5>4. Gapless(p, n + 1) /\ p \in Seq(Nat) /\ Len(p) = Len(o) + 1
          BY <1>1, <5>1, <5>3, AppendGapless DEF o
        <5>5. Len(p) = Len(q) /\ Len(p) > 0 /\ BusSize <= Len(q)
          BY <1>1, <4>2, <5>2, <5>3, <5>4
        <5>6. Whereabouts(Append(P, m), MarketOf[s], p, r.getter, r.since, r.last,
                          snapshot[s], shown[s], BusSize)
          BY <1>1, <3>1, <4>2, <4>3, <5>4, <5>5, WhereaboutsNext DEF n
        <5> QED BY <5>1, <5>6
      <4> QED BY <4>5, <4>6
    <3> QED BY <1>4, <3>1, <3>3, <3>4 DEF Shows
  <2> QED BY <2>1, <2>2
<1> QED BY <1>3, <1>4, <1>5, <1>6 DEF ShowInv

\* The getter of another topic than Tick, or of /feed, is no concern of Shows.
LEMMA ResumeShows ==
  ASSUME FanInv, ShowInv, NEW s \in Sockets, NEW t \in Topics, Resume(s, t)
  PROVE  ShowInv'
<1> DEFINE r == sub[s][t]
<1>1. /\ r.getter = 0 /\ r.queue # <<>> /\ phase[s] \in Live
      /\ UNCHANGED <<published, stored, endpoint, phase, ready, snapshot, shown>>
  BY DEF Resume, Subscribed
<1>2. /\ r \in Sub /\ r.queue \in Seq(Nat \ {0}) /\ r.queue \in Seq(Nat)
      /\ Len(r.queue) \in Nat \ {0} /\ Len(r.queue) <= SizeOf(t)
      /\ SizeOf(t) \in Nat
      /\ Tail(r.queue) \in Seq(Nat \ {0}) /\ Len(Tail(r.queue)) = Len(r.queue) - 1
      /\ Head(r.queue) \in Nat
  <2>1. r \in Sub /\ Len(r.queue) <= SizeOf(t) /\ SizeOf(t) \in Nat /\ r.queue # <<>>
    BY <1>1, SizesPositive DEF FanInv, ShowInv
  <2> HIDE DEF r
  <2>2. r.queue \in Seq(Nat \ {0}) /\ r.queue \in Seq(Nat)
    BY <2>1 DEF Sub
  <2> QED BY <2>1, <2>2
<1>3. /\ \A o \in Sockets \ {s} : sub'[o] = sub[o]
      /\ \A u \in Topics \ {t} : sub'[s][u] = sub[s][u]
      /\ sub'[s][t].queue = Tail(r.queue) /\ sub'[s][t].getter = Head(r.queue)
      /\ sub'[s][t].since = r.since /\ sub'[s][t].last = r.last
  <2> DEFINE a == [r EXCEPT !.getter = Head(r.queue)]
             b == [a EXCEPT !.queue = Tail(r.queue)]
  <2>1. a \in Sub /\ a.getter = Head(r.queue) /\ a.since = r.since /\ a.last = r.last
    BY <1>2 DEF Sub
  <2>2. b.queue = Tail(r.queue) /\ b.getter = a.getter /\ b.since = a.since /\ b.last = a.last
    <3> HIDE DEF a
    <3> QED BY <2>1 DEF Sub
  <2>3. sub' = [sub EXCEPT ![s][t] = b]
    BY DEF Resume, FanInv
  <2>4. /\ \A o \in Sockets \ {s} : sub'[o] = sub[o]
        /\ \A u \in Topics \ {t} : sub'[s][u] = sub[s][u]
        /\ sub'[s][t] = b
    <3> HIDE DEF b, a, r
    <3> QED BY <2>3 DEF FanInv
  <2> QED BY <2>1, <2>2, <2>4
<1>4. \A u \in Topics : Len(sub'[s][u].queue) <= SizeOf(u)
  <2>1. Len(sub'[s][t].queue) <= SizeOf(t)
    BY <1>2, <1>3
  <2> HIDE DEF r
  <2> QED BY <1>3, <2>1 DEF ShowInv
<1>5. Shows(s)'
  <2>1. Shows(s) /\ Tick \in Topics
    BY TickIsTopic DEF ShowInv
  <2>2. CASE t # Tick
    BY <1>1, <1>3, <2>1, <2>2 DEF Shows
  <2>3. CASE t = Tick
    <3> SUFFICES ASSUME endpoint[s] = "prices" PROVE Shows(s)'
      BY <1>1 DEF Shows
    <3> DEFINE P == published[Tick]
    <3>1. P \in Seq(Slugs) /\ BusSize \in Nat
      BY Ticks
    <3>2. Whereabouts(P, MarketOf[s], r.queue, 0, r.since, r.last, snapshot[s], shown[s],
                      BusSize)
      BY <1>1, <2>1, <2>3 DEF Shows, Live
    <3>3. /\ r.since \in Nat /\ r.last \in Nat /\ snapshot[s] \in Nat /\ shown[s] \in Nat
          /\ Len(r.queue) > 0
      <4>1. r \in Sub /\ Len(r.queue) > 0
        BY <1>2
      <4>2. snapshot[s] \in Nat /\ shown[s] \in Nat
        BY DEF ShowInv
      <4> HIDE DEF r
      <4> QED BY <4>1, <4>2 DEF Sub
    <3> HIDE DEF r, P
    <3>4. Whereabouts(P, MarketOf[s], Tail(r.queue), Head(r.queue), r.since, r.last,
                      snapshot[s], shown[s], BusSize)
      BY <1>2, <3>1, <3>2, <3>3, WhereaboutsResumed
    <3> QED BY <1>1, <1>3, <2>1, <2>3, <3>4 DEF Shows, P
  <2> QED BY <2>2, <2>3
<1> QED BY <1>1, <1>3, <1>4, <1>5, OneShows DEF ShowInv

\* /feed shows no price.
LEMMA FeedShows ==
  ASSUME FanInv, ShowInv, NEW s \in Sockets,
         endpoint[s] = "feed", UNCHANGED <<published, stored, endpoint, snapshot, shown>>,
         \A o \in Sockets \ {s} : phase'[o] = phase[o] /\ sub'[o] = sub[o],
         \A t \in Topics : Len(sub'[s][t].queue) <= SizeOf(t)
  PROVE  ShowInv'
<1>1. Shows(s)'
  BY DEF Shows
<1> QED BY <1>1, OneShows DEF ShowInv

LEMMA TakenQueue ==
  ASSUME NEW r \in Sub
  PROVE  /\ Taken(r).queue = r.queue /\ Taken(r).getter = 0 /\ Taken(r).since = r.since
         /\ Taken(r).last = r.getter
<1> DEFINE a == [r EXCEPT !.getter = 0]
           b == [a EXCEPT !.handed = @ + 1]
<1>1. a \in Sub /\ a.queue = r.queue /\ a.getter = 0 /\ a.since = r.since
      /\ a.handed = r.handed /\ a.last = r.last /\ a.dropped = r.dropped
  BY DEF Sub
<1>2. Taken(r) = [b EXCEPT !.last = r.getter]
  BY DEF Taken, Sub
<1> HIDE DEF a
<1>3. b \in Sub /\ b.queue = r.queue /\ b.getter = 0 /\ b.since = r.since
      /\ b.handed = r.handed + 1 /\ b.last = r.last /\ b.dropped = r.dropped
  BY <1>1 DEF Sub
<1> HIDE DEF b
<1> QED BY <1>2, <1>3 DEF Sub

LEMMA TakeUpShows ==
  ASSUME FanInv, ShowInv, NEW s \in Sockets, NEW t \in Topics, NEW batch,
         endpoint[s] = "feed", TakeUp(s, t, batch)
  PROVE  ShowInv'
<1>1. /\ UNCHANGED <<published, stored, endpoint, snapshot, shown>>
      /\ \A o \in Sockets \ {s} : phase'[o] = phase[o] /\ sub'[o] = sub[o]
  BY DEF TakeUp, FanInv
<1>2. ASSUME NEW u \in Topics PROVE Len(sub'[s][u].queue) <= SizeOf(u)
  <2>1. sub[s][t] \in Sub /\ Taken(sub[s][t]).queue = sub[s][t].queue
    BY TakenQueue DEF FanInv
  <2>2. sub'[s][u] = IF u = t THEN Taken(sub[s][t]) ELSE sub[s][u]
    BY DEF TakeUp, FanInv
  <2> QED BY <2>1, <2>2 DEF ShowInv
<1> QED BY <1>1, <1>2, FeedShows

LEMMA ConnectFeedShows ==
  ASSUME FanInv, ShowInv, NEW s \in Sockets, ConnectFeed(s)
  PROVE  ShowInv'
<1>1. /\ UNCHANGED <<published, stored, endpoint, snapshot, shown>> /\ endpoint[s] = "feed"
      /\ \A o \in Sockets \ {s} : phase'[o] = phase[o] /\ sub'[o] = sub[o]
  BY DEF ConnectFeed, FanInv
<1>2. ASSUME NEW u \in Topics PROVE Len(sub'[s][u].queue) <= SizeOf(u)
  <2>1. sub'[s][u].queue = <<>> /\ Len(<<>>) = 0
    BY DEF ConnectFeed, FanInv, NewSub
  <2> QED BY <2>1, SizesPositive
<1> QED BY <1>1, <1>2, FeedShows

LEMMA SentLastShows ==
  ASSUME FanInv, ShowInv, NEW s \in Sockets, SentLast(s)
  PROVE  ShowInv'
<1>1. /\ UNCHANGED <<published, stored, endpoint, sub, snapshot, shown>>
      /\ phase[s] \in Live /\ phase[s] # "absent" /\ phase'[s] \in Live
      /\ \A o \in Sockets \ {s} : phase'[o] = phase[o]
  BY DEF SentLast, FanInv, Live
<1>2. Shows(s)'
  BY <1>1 DEF ShowInv, Shows
<1> QED BY <1>1, <1>2, OneShows DEF ShowInv

LEMMA KeepAliveShows ==
  ASSUME FanInv, ShowInv, NEW s \in Sockets, KeepAlive(s)
  PROVE  ShowInv'
<1>1. /\ UNCHANGED <<published, stored, endpoint, sub, snapshot, shown>>
      /\ endpoint[s] = "feed"
      /\ \A o \in Sockets \ {s} : phase'[o] = phase[o]
  BY DEF KeepAlive, FanInv
<1> QED BY <1>1, FeedShows DEF ShowInv

LEMMA DisconnectShows ==
  ASSUME FanInv, ShowInv, NEW s \in Sockets, Disconnect(s)
  PROVE  ShowInv'
<1>1. /\ UNCHANGED <<published, stored, endpoint>>
      /\ phase'[s] = "absent"
      /\ snapshot' \in [Sockets -> Nat] /\ shown' \in [Sockets -> Nat]
      /\ \A o \in Sockets \ {s} :
            /\ phase'[o] = phase[o] /\ sub'[o] = sub[o]
            /\ snapshot'[o] = snapshot[o] /\ shown'[o] = shown[o]
  BY DEF Disconnect, FanInv, ShowInv
<1>2. ASSUME NEW u \in Topics PROVE Len(sub'[s][u].queue) <= SizeOf(u)
  <2>1. sub'[s][u].queue = <<>> /\ Len(<<>>) = 0
    BY DEF Disconnect, FanInv, NoSub
  <2> QED BY <2>1, SizesPositive
<1>3. Shows(s)'
  BY <1>1 DEF Shows
<1> QED BY <1>1, <1>2, <1>3, OneShows

\* The snapshot holds the newest tick of the market among those committed.
LEMMA ReadSnapshotShows ==
  ASSUME FanInv, ShowInv, NEW s \in Sockets, ReadSnapshot(s)
  PROVE  ShowInv'
<1> DEFINE P == published[Tick]
           m == MarketOf[s]
           w == NewestTick(m, stored)
<1>1. P \in Seq(Slugs) /\ Len(P) \in Nat /\ stored \in 0..Len(P)
  BY Ticks DEF ShowInv
<1>2. w \in 0..stored /\ (w = 0 \/ P[w] = m) /\ \A j \in w + 1..stored : P[j] # m
  <2>1. \E i \in 0..stored : (i = 0 \/ P[i] = m) /\ \A j \in i + 1..stored : P[j] # m
    BY ZenonT(40), <1>1, LastOf
  <2> QED BY <2>1 DEF NewestTick
<1> HIDE DEF w
<1>3. /\ UNCHANGED <<published, stored, endpoint, sub>>
      /\ phase'[s] = "snapshot" /\ phase'[s] \notin Live
      /\ snapshot'[s] = stored /\ shown'[s] = w
      /\ snapshot' \in [Sockets -> Nat] /\ shown' \in [Sockets -> Nat]
      /\ \A o \in Sockets \ {s} :
            /\ phase'[o] = phase[o] /\ sub'[o] = sub[o]
            /\ snapshot'[o] = snapshot[o] /\ shown'[o] = shown[o]
  BY <1>1, <1>2 DEF ReadSnapshot, FanInv, ShowInv, w, Live
<1>4. Displayed(P, m, stored, w)
  <2>1. ASSUME NEW j \in 1..stored, P[j] = m PROVE j <= w
    BY <1>1, <1>2, <2>1
  <2> QED BY <1>1, <1>2, <2>1 DEF Displayed
<1>5. Shows(s)'
  BY <1>3, <1>4 DEF Shows
<1> QED BY <1>3, <1>5, OneShows DEF ShowInv

LEMMA SubscribeShows ==
  ASSUME FanInv, ShowInv, NEW s \in Sockets, Subscribe(s)
  PROVE  ShowInv'
<1> DEFINE P == published[Tick]
           m == MarketOf[s]
<1>1. P \in Seq(Slugs) /\ Len(P) \in Nat /\ Tick \in Topics /\ BusSize \in Nat
  BY Ticks, TickIsTopic
<1>2. /\ UNCHANGED <<published, stored, endpoint, snapshot, shown>>
      /\ phase[s] = "snapshot" /\ endpoint[s] = "prices"
      /\ phase'[s] = "waiting"
      /\ \A o \in Sockets \ {s} : phase'[o] = phase[o] /\ sub'[o] = sub[o]
      /\ sub'[s][Tick] = NewSub(Tick)
      /\ \A u \in Topics \ {Tick} : sub'[s][u] = sub[s][u]
  BY <1>1 DEF Subscribe, FanInv
<1>3. /\ sub'[s][Tick].queue = <<>> /\ sub'[s][Tick].getter = 0
      /\ sub'[s][Tick].since = Len(P) /\ sub'[s][Tick].last = Len(P) /\ Len(<<>>) = 0
  BY <1>2 DEF NewSub
<1>4. ASSUME NEW u \in Topics PROVE Len(sub'[s][u].queue) <= SizeOf(u)
  BY SMTT(30), <1>2, <1>3, SizesPositive DEF ShowInv
<1>5. Displayed(P, m, snapshot[s], shown[s]) /\ snapshot[s] <= Len(P)
  <2>1. Displayed(P, m, snapshot[s], shown[s])
    BY <1>2 DEF ShowInv, Shows
  <2> QED BY <1>1, <2>1 DEF Displayed
<1> HIDE DEF P
<1>6. Whereabouts(P, m, <<>>, 0, Len(P), Len(P), snapshot[s], shown[s], BusSize)
  BY <1>1, <1>5 DEF Whereabouts, Gapless
<1>7. Shows(s)'
  BY <1>2, <1>3, <1>5, <1>6 DEF Shows, P
<1> QED BY <1>2, <1>4, <1>7, OneShows DEF ShowInv

LEMMA TakeTickShows ==
  ASSUME FanInv, ShowInv, NEW s \in Sockets, TakeTick(s)
  PROVE  ShowInv'
<1> DEFINE P == published[Tick]
           m == MarketOf[s]
           r == sub[s][Tick]
           g == r.getter
           w == shown[s]
           v == IF P[g] = m THEN g ELSE w
<1>1. P \in Seq(Slugs) /\ Len(P) \in Nat /\ Tick \in Topics /\ BusSize \in Nat
  BY Ticks, TickIsTopic
<1>2. /\ UNCHANGED <<published, stored, endpoint, snapshot>>
      /\ endpoint[s] = "prices" /\ phase[s] = "waiting" /\ phase[s] \in Live
      /\ g # 0
      /\ sub' = [sub EXCEPT ![s][Tick] = Taken(r)]
      /\ phase'[s] # "absent" /\ phase'[s] \in Live
      /\ shown' = [shown EXCEPT ![s] = v]
      /\ \A o \in Sockets \ {s} : phase'[o] = phase[o]
  BY <1>1 DEF TakeTick, FanInv, ShowInv, Live
<1>3. r \in Sub /\ Good(r, Len(P))
  BY <1>1, <1>2, Served DEF TopicsOf
<1>4. /\ r.queue \in Seq(Nat) /\ g \in Nat \ {0} /\ r.since \in Nat /\ r.last \in Nat
      /\ snapshot[s] \in Nat /\ w \in Nat /\ v \in Nat
      /\ r.since <= r.last /\ r.last < g /\ g <= Len(P)
      /\ \A i \in 1..Len(r.queue) : g < r.queue[i]
  <2>1. w \in Nat /\ snapshot[s] \in Nat
    BY DEF ShowInv
  <2> HIDE DEF r, w, P
  <2>2. r.queue \in Seq(Nat \ {0}) /\ g \in Nat \ {0} /\ r.since \in Nat /\ r.last \in Nat
    BY <1>2, <1>3 DEF Sub
  <2>3. /\ r.since <= r.last /\ r.last < g /\ g <= Len(P)
        /\ \A i \in 1..Len(r.queue) : g < r.queue[i]
    BY <1>2, <1>3, <2>2 DEF Good, Ordered
  <2> QED BY <2>1, <2>2, <2>3
<1>5. /\ sub'[s][Tick] = Taken(r)
      /\ \A o \in Sockets \ {s} : sub'[o] = sub[o]
      /\ \A u \in Topics \ {Tick} : sub'[s][u] = sub[s][u]
  BY <1>1, <1>2 DEF FanInv
<1>6. /\ sub'[s][Tick].queue = r.queue /\ sub'[s][Tick].getter = 0
      /\ sub'[s][Tick].since = r.since /\ sub'[s][Tick].last = g
  BY <1>3, <1>5, TakenQueue
<1>7. ASSUME NEW u \in Topics PROVE Len(sub'[s][u].queue) <= SizeOf(u)
  BY <1>1, <1>5, <1>6 DEF ShowInv
<1>8. /\ Displayed(P, m, snapshot[s], w)
      /\ Whereabouts(P, m, r.queue, g, r.since, r.last, snapshot[s], w, BusSize)
  BY <1>2 DEF ShowInv, Shows, Live
<1>9. shown'[s] = v /\ shown' \in [Sockets -> Nat]
      /\ \A o \in Sockets \ {s} : shown'[o] = shown[o]
  BY <1>2, <1>4 DEF ShowInv
<1>10. Whereabouts(P, m, r.queue, 0, r.since, g, snapshot[s], v, BusSize)
  <2> DEFINE q == r.queue
             f == r.since
             l == r.last
             k == snapshot[s]
  <2>1. v = IF P[g] = m THEN g ELSE w
    OBVIOUS
  <2>2. /\ q \in Seq(Nat) /\ g \in Nat \ {0} /\ f \in Nat /\ l \in Nat /\ k \in Nat /\ w \in Nat
        /\ v \in Nat /\ l < g /\ g <= Len(P) /\ \A i \in 1..Len(q) : g < q[i]
        /\ Whereabouts(P, m, q, g, f, l, k, w, BusSize)
    BY <1>4, <1>8
  <2> HIDE DEF P, m, r, g, w, v, q, f, l, k
  <2>3. Whereabouts(P, m, q, 0, f, g, k, v, BusSize)
    BY <1>1, <2>1, <2>2, WhereaboutsTaken
  <2> QED BY <2>3 DEF q, f, k
<1>11. Displayed(P, m, snapshot[s], v)
  <2>1. snapshot[s] <= r.since /\ snapshot[s] <= g
    BY SMTT(30), <1>4, <1>8 DEF Whereabouts
  <2>2. /\ snapshot[s] \in 0..Len(P) /\ w \in 0..Len(P) /\ (w = 0 \/ P[w] = m)
        /\ \A j \in 1..snapshot[s] : P[j] = m => j <= w
    BY <1>8 DEF Displayed
  <2>3. v \in 0..Len(P) /\ (v = 0 \/ P[v] = m)
    BY <1>1, <1>4, <2>2
  <2>4. \A j \in 1..snapshot[s] : P[j] = m => j <= v
    BY SMTT(30), <1>4, <2>1, <2>2
  <2> HIDE DEF v
  <2> QED BY <2>2, <2>3, <2>4 DEF Displayed
<1> HIDE DEF v
<1>12. Shows(s)'
  BY <1>2, <1>6, <1>9, <1>10, <1>11 DEF Shows
<1> QED BY <1>2, <1>5, <1>7, <1>9, <1>12, OneShows DEF ShowInv

LEMMA NextShows == FanInv /\ ShowInv /\ [FanNext]_fanVars => ShowInv'
<1> SUFFICES ASSUME FanInv, ShowInv, [FanNext]_fanVars PROVE ShowInv'
  OBVIOUS
<1>1. CASE StoreSnapshots
  <2>1. Len(published[Tick]) \in Nat
    BY Ticks
  <2> QED BY <1>1, <2>1 DEF StoreSnapshots, ShowInv, Shows
<1>2. CASE \E t \in Topics : \E m \in About(t) : Publish(t, m)
  BY <1>2, PublishShows
<1>3. ASSUME NEW s \in Sockets, Wake(s) PROVE ShowInv'
  <2>1. PICK t \in Completed(s) : TakeUp(s, t, Completed(s))
    BY <1>3 DEF Wake
  <2>2. t \in Topics /\ endpoint[s] = "feed"
    BY <1>3 DEF Completed, Wake
  <2> QED BY <2>1, <2>2, TakeUpShows
<1>4. ASSUME NEW s \in Sockets, SentNext(s) PROVE ShowInv'
  <2>1. PICK t \in ready[s] : TakeUp(s, t, ready[s])
    BY <1>4 DEF SentNext
  <2>2. t \in Topics /\ endpoint[s] = "feed"
    BY <1>4 DEF FanInv, SentNext
  <2> QED BY <2>1, <2>2, TakeUpShows
<1>5. ASSUME NEW s \in Sockets,
             \/ \E t \in Topics : Resume(s, t)
             \/ ConnectFeed(s) \/ SentLast(s) \/ KeepAlive(s) \/ ReadSnapshot(s)
             \/ Subscribe(s) \/ TakeTick(s) \/ Disconnect(s)
      PROVE  ShowInv'
  BY <1>5, ResumeShows, ConnectFeedShows, SentLastShows, KeepAliveShows,
     ReadSnapshotShows, SubscribeShows, TakeTickShows, DisconnectShows
<1>6. CASE UNCHANGED fanVars
  BY <1>6 DEF fanVars, ShowInv, Shows
<1> QED BY <1>1, <1>2, <1>3, <1>4, <1>5, <1>6 DEF FanNext

-------------------------------------------------------------------------------------
LEMMA NextGood == FanInv /\ [FanNext]_fanVars => FanInv'
<1> SUFFICES ASSUME FanInv, [FanNext]_fanVars PROVE FanInv'
  OBVIOUS
<1>1. CASE StoreSnapshots
  BY <1>1 DEF StoreSnapshots, FanInv, Subscribed, TopicsOf
<1>2. CASE \E t \in Topics : \E m \in About(t) : Publish(t, m)
  BY <1>2, PublishGood
<1>3. ASSUME NEW s \in Sockets,
             \/ \E t \in Topics : Resume(s, t)
             \/ ConnectFeed(s) \/ Wake(s) \/ SentNext(s) \/ SentLast(s)
             \/ KeepAlive(s) \/ ReadSnapshot(s) \/ Subscribe(s) \/ TakeTick(s)
             \/ Disconnect(s)
      PROVE  FanInv'
  BY <1>3, ResumeGood, ConnectFeedGood, WakeGood, SentNextGood, SentLastGood,
     KeepAliveGood, ReadSnapshotGood, SubscribeGood, TakeTickGood, DisconnectGood
<1>4. CASE UNCHANGED fanVars
  BY <1>4 DEF fanVars, FanInv, Subscribed, TopicsOf
<1> QED BY <1>1, <1>2, <1>3, <1>4 DEF FanNext

\* The invariant holds of every reachable state.
THEOREM FanInvariance == FanSpec => []FanInv
<1>1. FanInit => FanInv
  BY InitGood
<1>2. FanInv /\ [FanNext]_fanVars => FanInv'
  BY NextGood
<1> QED BY <1>1, <1>2, PTL DEF FanSpec

\* No handler is given a message twice or out of order, whatever the sizes of the
\* queues, the number of sockets and topics, and the order in which the tasks of the
\* event loop are resumed (ws.py:133-158).
THEOREM InOrder == FanSpec => []FeedInOrder
<1>1. FanInv => FeedInOrder
  BY DEF FanInv, FeedInOrder, Good
<1> QED BY <1>1, FanInvariance, PTL

\* Every message published while a handler is subscribed is handed over, held, queued
\* or counted among the dropped ones (event_bus.py, broadcast.py).
THEOREM AllAccounted == FanSpec => []EveryMessageAccounted
<1>1. FanInv => EveryMessageAccounted
  BY DEF FanInv, EveryMessageAccounted, Good
<1> QED BY <1>1, FanInvariance, PTL

\* What each client of /prices shows, and where the ticks it has not been given are.
THEOREM ShownInvariance == FanSpec => [](FanInv /\ ShowInv)
<1>1. FanInit => FanInv /\ ShowInv
  BY InitGood, InitShows
<1>2. (FanInv /\ ShowInv) /\ [FanNext]_fanVars => (FanInv /\ ShowInv)'
  BY NextGood, NextShows
<1> QED BY <1>1, <1>2, PTL DEF FanSpec

\* The queues stay within their sizes, and a topic left in `done` has a completed
\* getter (event_bus.py, broadcast.py, ws.py).
THEOREM FanTyped == FanSpec => []FanTypeOK
<1>1. FanInv /\ ShowInv => FanTypeOK
  BY DEF FanInv, ShowInv, FanTypeOK
<1> QED BY <1>1, ShownInvariance, PTL

\* A client of /prices that has nothing left to receive shows the newest tick of its
\* market, but for the two windows the handler leaves open (ws.py: read, then accept,
\* then subscribe; event_bus.py: a full queue loses its oldest tick), whatever the
\* number of markets, the size of the queue and the length of the stream.
THEOREM Current == FanSpec => []PricesAreCurrent
<1>1. ASSUME FanInv, ShowInv PROVE PricesAreCurrent
  <2> SUFFICES ASSUME NEW s \in Sockets, Idle(s)
               PROVE  LET count == Len(published[Tick])
                          newest == NewestTick(MarketOf[s], count)
                      IN  \/ shown[s] = newest
                          \/ snapshot[s] < newest /\ newest <= sub[s][Tick].since
                          \/ newest + BusSize <= count
    BY DEF PricesAreCurrent
  <2> DEFINE P == published[Tick]
             n == Len(P)
             m == MarketOf[s]
             w == shown[s]
             k == snapshot[s]
             r == sub[s][Tick]
             f == r.since
             l == r.last
             x == NewestTick(m, n)
  <2>1. P \in Seq(Slugs) /\ n \in Nat /\ BusSize \in Nat \ {0}
    BY <1>1, Ticks
  <2>2. x \in 0..n /\ (x = 0 \/ P[x] = m) /\ \A j \in x + 1..n : P[j] # m
    <3>1. \E i \in 0..n : (i = 0 \/ P[i] = m) /\ \A j \in i + 1..n : P[j] # m
      <4>1. n \in 0..Len(P)
        BY <2>1
      <4> HIDE DEF P, n, m
      <4> QED BY <2>1, <4>1, LastOf
    <3> QED BY <3>1 DEF NewestTick
  <2> HIDE DEF x
  <2>3. /\ Displayed(P, m, k, w) /\ Whereabouts(P, m, <<>>, 0, f, l, k, w, BusSize)
        /\ r \in Sub
    BY <1>1, TickIsTopic DEF Idle, Live, ShowInv, Shows, FanInv
  <2>4. /\ f \in Nat /\ l \in Nat /\ k \in 0..n /\ w \in 0..n /\ (w = 0 \/ P[w] = m)
        /\ Len(<<>>) = 0
    BY <2>3 DEF Displayed, Sub
  <2> HIDE DEF P, n, m, w, k, r, f, l
  <2>5. w <= x
    BY <2>1, <2>2, <2>4
  <2>6. CASE x = 0
    BY <2>4, <2>5, <2>6 DEF w, x, n, P, m
  <2>7. CASE x # 0 /\ x <= k
    <3>1. x <= w
      BY <2>1, <2>2, <2>3, <2>4, <2>7 DEF Displayed, n
    <3>2. w = x
      BY <2>2, <2>4, <2>5, <3>1
    <3> QED BY <3>2 DEF w, x, n, P, m
  <2>8. CASE k < x /\ x <= f
    BY <2>8 DEF k, x, n, P, m, f, r
  <2>9. CASE f < x /\ x <= l
    <3>1. x <= w \/ x + BusSize <= n
      BY <2>1, <2>2, <2>3, <2>4, <2>9 DEF Whereabouts, n
    <3>2. w = x \/ x + BusSize <= n
      BY <2>2, <2>4, <2>5, <3>1
    <3> QED BY <3>2 DEF w, x, n, P, m
  <2>10. CASE x # 0 /\ l < x
    <3>1. x = 0 \/ x > n - Len(<<>>) \/ x + BusSize <= n
      BY <2>1, <2>2, <2>3, <2>4, <2>10 DEF Whereabouts, n
    <3>2. x + BusSize <= n
      BY <2>1, <2>2, <2>4, <2>10, <3>1
    <3> QED BY <3>2 DEF x, n, P, m
  <2>11. x \in Nat /\ k \in Nat /\ f \in Nat /\ l \in Nat
    BY <2>1, <2>2, <2>4
  <2> QED BY <2>6, <2>7, <2>8, <2>9, <2>10, <2>11
<1> QED BY <1>1, ShownInvariance, PTL

-------------------------------------------------------------------------------------
(* MarketsCache.                                                                   *)

\* What is true of a cached list.
Honest(e) ==
    /\ e.rows \in Nat /\ e.rows <= committed
    /\ e.rows < cleared => e.raced
    /\ \A w \in Writers : writers[w] = "changed" => e.raced

Request == {NotReading} \cup [at : {"missed"}, key : Keys]
                        \cup [at : {"read"}, key : Keys, rows : Nat]

CacheInv ==
    /\ committed \in Nat /\ cleared \in Nat /\ cleared <= committed
    /\ writers \in [Writers -> {"idle", "changed"}]
    /\ readers \in [Readers -> Request]
    /\ \A r \in Readers :
          readers[r].at = "read" => readers[r].rows \in Nat /\ readers[r].rows <= committed
    /\ \A k \in DOMAIN cache : Honest(cache[k])

LEMMA InitHonest == CacheInit => CacheInv
  BY DEF CacheInit, CacheInv, Empty, NotReading, Request

\* A list that is put while a change is under way, or overtaken by one, is marked so.
LEMMA PutHonest ==
  ASSUME CacheInv, NEW r \in Readers, Put(r)
  PROVE  CacheInv'
<1> DEFINE key == readers[r].key
           e == Fill(readers[r].rows)
<1>1. readers[r].rows \in Nat /\ readers[r].rows <= committed
  BY DEF CacheInv, Put
<1>2. UNCHANGED <<committed, cleared, writers>>
  BY DEF Put
<1>3. /\ e.rows = readers[r].rows
      /\ e.raced <=> e.rows < cleared \/ \E w \in Writers : writers[w] = "changed"
  BY DEF Fill
<1>4. Honest(e)
  BY <1>1, <1>3 DEF Honest
<1>5. \A k \in DOMAIN Room : k \in DOMAIN cache /\ Room[k] = cache[k]
  BY DEF Room, Empty
<1> HIDE DEF e
<1>6. /\ DOMAIN cache' = {key} \cup DOMAIN Room
      /\ \A k \in DOMAIN cache' : cache'[k] = IF k = key THEN e ELSE Room[k]
  BY DEF Put, e
<1>7. ASSUME NEW k \in DOMAIN cache'
      PROVE  Honest(cache'[k])
  BY <1>4, <1>5, <1>6 DEF CacheInv
<1>8. ASSUME NEW k \in DOMAIN cache'
      PROVE  Honest(cache[k])'
  BY <1>2, <1>7 DEF Honest
<1>9. readers' \in [Readers -> Request]
  BY DEF CacheInv, Put, Request
<1>10. ASSUME NEW q \in Readers, readers'[q].at = "read"
       PROVE  readers'[q].rows \in Nat /\ readers'[q].rows <= committed'
  BY <1>2, <1>10 DEF CacheInv, Put, NotReading
<1> QED BY <1>2, <1>8, <1>9, <1>10 DEF CacheInv

LEMMA ReadHonest ==
  ASSUME CacheInv, NEW r \in Readers, ReadRows(r) \/ (\E k \in Keys : Miss(r, k))
  PROVE  CacheInv'
<1>1. UNCHANGED <<committed, cleared, cache, writers>>
  BY DEF ReadRows, Miss
<1>2. \A k \in DOMAIN cache' : Honest(cache[k])'
  BY <1>1 DEF CacheInv, Honest
<1>3. ASSUME NEW q \in Readers, readers'[q].at = "read"
      PROVE  readers'[q].rows \in Nat /\ readers'[q].rows <= committed'
  <2>1. CASE ReadRows(r)
    BY <1>1, <1>3, <2>1 DEF CacheInv, ReadRows
  <2>2. ASSUME NEW k \in Keys, Miss(r, k)
        PROVE  readers'[q].rows \in Nat /\ readers'[q].rows <= committed'
    BY <1>1, <1>3, <2>2 DEF CacheInv, Miss
  <2> QED BY <2>1, <2>2
<1>4. readers' \in [Readers -> Request]
  <2>1. CASE ReadRows(r)
    <3>1. readers[r] \in Request /\ readers[r].at = "missed"
      BY <2>1 DEF CacheInv, ReadRows
    <3>2. readers[r].key \in Keys
      BY <3>1 DEF Request, NotReading
    <3> QED BY <2>1, <3>2 DEF CacheInv, ReadRows, Request
  <2>2. ASSUME NEW k \in Keys, Miss(r, k)
        PROVE  readers' \in [Readers -> Request]
    BY <2>2 DEF CacheInv, Miss, Request
  <2> QED BY <2>1, <2>2
<1> QED BY <1>1, <1>2, <1>3, <1>4 DEF CacheInv

\* invalidate() leaves nothing to be marked.
LEMMA ChangeHonest ==
  ASSUME CacheInv, NEW w \in Writers, Change(w)
  PROVE  CacheInv'
  BY DEF CacheInv, Change, Invalidated, Empty

\* What the commit overtakes has been marked since.
LEMMA CommitHonest ==
  ASSUME CacheInv, NEW w \in Writers, CommitChange(w)
  PROVE  CacheInv'
<1>1. /\ writers[w] = "changed" /\ committed' = committed + 1 /\ cleared' = committed + 1
      /\ UNCHANGED <<cache, readers>>
      /\ writers' \in [Writers -> {"idle", "changed"}]
      /\ \A v \in Writers : writers'[v] = "changed" => writers[v] = "changed"
  BY DEF CacheInv, CommitChange
<1>2. ASSUME NEW k \in DOMAIN cache'
      PROVE  Honest(cache[k])'
  <2>1. cache'[k] = cache[k] /\ Honest(cache[k]) /\ cache[k].raced
    BY <1>1, <1>2 DEF CacheInv, Honest
  <2>2. cache[k].rows \in Nat /\ cache[k].rows <= committed + 1 /\ committed \in Nat
    BY <2>1 DEF CacheInv, Honest
  <2> QED BY <1>1, <2>1, <2>2 DEF Honest
<1>3. ASSUME NEW q \in Readers, readers'[q].at = "read"
      PROVE  readers'[q].rows \in Nat /\ readers'[q].rows <= committed'
  BY <1>1, <1>3 DEF CacheInv
<1> QED BY <1>1, <1>2, <1>3 DEF CacheInv

LEMMA RollbackHonest ==
  ASSUME CacheInv, NEW w \in Writers, RollbackChange(w)
  PROVE  CacheInv'
<1>1. /\ UNCHANGED <<committed, cleared, cache, readers>>
      /\ writers' \in [Writers -> {"idle", "changed"}]
      /\ \A v \in Writers : writers'[v] = "changed" => writers[v] = "changed"
  BY DEF CacheInv, RollbackChange
<1> QED BY <1>1 DEF CacheInv, Honest

\* What clears nothing adds nothing that the lists would have to show.
LEMMA SilentHonest ==
  ASSUME CacheInv, CommitSilently
  PROVE  CacheInv'
<1>1. /\ committed' = committed + 1 /\ committed \in Nat
      /\ UNCHANGED <<cleared, cache, readers, writers>>
  BY DEF CacheInv, CommitSilently
<1>2. ASSUME NEW k \in DOMAIN cache'
      PROVE  Honest(cache[k])'
  <2>1. /\ cache'[k] = cache[k] /\ cache[k].rows \in Nat /\ cache[k].rows <= committed
        /\ cache[k].rows < cleared => cache[k].raced
        /\ \A w \in Writers : writers[w] = "changed" => cache[k].raced
    BY <1>1, <1>2 DEF CacheInv, Honest
  <2> QED BY <1>1, <2>1 DEF Honest
<1>3. ASSUME NEW q \in Readers, readers'[q].at = "read"
      PROVE  readers'[q].rows \in Nat /\ readers'[q].rows <= committed'
  BY <1>1, <1>3 DEF CacheInv
<1> QED BY <1>1, <1>2, <1>3 DEF CacheInv

LEMMA ClockHonest ==
  ASSUME CacheInv, CacheClock
  PROVE  CacheInv'
<1>1. UNCHANGED <<committed, cleared, readers, writers>> /\ DOMAIN cache' = DOMAIN cache
  BY DEF CacheClock
<1>2. ASSUME NEW k \in DOMAIN cache
      PROVE  cache'[k].rows = cache[k].rows /\ cache'[k].raced = cache[k].raced
  BY DEF CacheClock
<1>3. \A k \in DOMAIN cache' : Honest(cache[k])'
  BY <1>1, <1>2 DEF CacheInv, Honest
<1> QED BY <1>1, <1>3 DEF CacheInv

LEMMA NextHonest == CacheInv /\ [CacheNext]_cacheVars => CacheInv'
<1> SUFFICES ASSUME CacheInv, [CacheNext]_cacheVars PROVE CacheInv'
  OBVIOUS
<1>1. CASE UNCHANGED cacheVars
  BY <1>1 DEF cacheVars, CacheInv, Honest
<1>2. CASE CacheNext
  BY <1>2, PutHonest, ReadHonest, ChangeHonest, CommitHonest, RollbackHonest,
     SilentHonest, ClockHonest DEF CacheNext
<1> QED BY <1>1, <1>2

\* The invariant holds of every reachable state.
THEOREM CacheInvariance == CacheSpec => []CacheInv
<1>1. CacheInit => CacheInv
  BY InitHonest
<1>2. CacheInv /\ [CacheNext]_cacheVars => CacheInv'
  BY NextHonest
<1> QED BY <1>1, <1>2, PTL DEF CacheSpec

\* A change of MarketService or of the admin's resolve, which clear the cache, is missing
\* from a served list only after one of the two races that clearing before the commit
\* leaves, for any number of requests, sessions and keys and whatever commits without
\* clearing (markets_cache.py, market_service.py).  Of those last commits, the resolver
\* and ingest loops' among them, nothing is claimed.
THEOREM ClearedChangesVisible == CacheSpec => []ClearedChangesShow
<1>1. CacheInv => ClearedChangesShow
  BY DEF CacheInv, Honest, ClearedChangesShow, Young
<1> QED BY <1>1, CacheInvariance, PTL

Cached == [rows : Nat, age : 0..Ttl, raced : BOOLEAN]

\* What the map holds: Room leaves it at its bound, and Put adds one key.
CacheHeld ==
    /\ DOMAIN cache \subseteq Keys
    /\ IsFiniteSet(DOMAIN cache) /\ Cardinality(DOMAIN cache) <= MaxKeys + 1
    /\ \A k \in DOMAIN cache : cache[k] \in Cached
    /\ committed <= MaxChanges

LEMMA PutHeld ==
  ASSUME CacheInv, CacheHeld, NEW r \in Readers, Put(r)
  PROVE  CacheHeld'
<1> DEFINE key == readers[r].key
           e == Fill(readers[r].rows)
<1>1. key \in Keys
  BY DEF CacheInv, Put, Request, NotReading
<1>2. e \in Cached
  <2>1. readers[r].rows \in Nat
    BY DEF CacheInv, Put
  <2> QED BY <2>1, CacheAssumption DEF Fill, Cached
<1>3. /\ DOMAIN Room \subseteq DOMAIN cache /\ \A k \in DOMAIN Room : Room[k] = cache[k]
      /\ IsFiniteSet(DOMAIN Room) /\ Cardinality(DOMAIN Room) <= MaxKeys
  <2>1. CASE Cardinality(DOMAIN cache) > MaxKeys
    <3>1. DOMAIN Room = {}
      BY <2>1 DEF Room, Empty
    <3> QED BY <3>1, FS_EmptySet, CacheAssumption
  <2>2. CASE ~(Cardinality(DOMAIN cache) > MaxKeys)
    <3>1. Room = cache /\ Cardinality(DOMAIN cache) \in Nat
      BY <2>2, FS_CardinalityType DEF Room, CacheHeld
    <3> QED BY <2>2, <3>1, CacheAssumption DEF CacheHeld
  <2> QED BY <2>1, <2>2
<1> HIDE DEF e
<1>4. /\ DOMAIN cache' = DOMAIN Room \cup {key}
      /\ \A k \in DOMAIN cache' : cache'[k] = IF k = key THEN e ELSE Room[k]
  BY DEF Put, e
<1>5. IsFiniteSet(DOMAIN cache') /\ Cardinality(DOMAIN cache') <= MaxKeys + 1
  <2>1. /\ IsFiniteSet(DOMAIN Room \cup {key})
        /\ Cardinality(DOMAIN Room \cup {key}) =
              IF key \in DOMAIN Room THEN Cardinality(DOMAIN Room)
                                     ELSE Cardinality(DOMAIN Room) + 1
    BY <1>3, FS_AddElement
  <2>2. Cardinality(DOMAIN Room) \in Nat
    BY <1>3, FS_CardinalityType
  <2> QED BY <1>3, <1>4, <2>1, <2>2, CacheAssumption
<1>6. ASSUME NEW k \in DOMAIN cache'
      PROVE  cache'[k] \in Cached
  BY <1>2, <1>3, <1>4, <1>6 DEF CacheHeld
<1>7. DOMAIN cache' \subseteq Keys
  BY <1>1, <1>3, <1>4 DEF CacheHeld
<1>8. committed' <= MaxChanges
  BY DEF Put, CacheHeld
<1> QED BY <1>5, <1>6, <1>7, <1>8 DEF CacheHeld

\* Entries age up to the TTL, and stay.
LEMMA ClockHeld ==
  ASSUME CacheInv, CacheHeld, CacheClock
  PROVE  CacheHeld'
<1>1. DOMAIN cache' = DOMAIN cache
  BY DEF CacheClock
<1>2. ASSUME NEW k \in DOMAIN cache
      PROVE  cache'[k] \in Cached
  <2>1. cache[k] \in Cached
    BY DEF CacheHeld
  <2>2. CASE Young(k)
    <3>1. cache'[k] = [cache[k] EXCEPT !.age = cache[k].age + 1] /\ cache[k].age < Ttl
      BY <2>2 DEF CacheClock, Young
    <3> QED BY <2>1, <3>1, CacheAssumption DEF Cached
  <2>3. CASE ~Young(k)
    BY <2>1, <2>3 DEF CacheClock
  <2> QED BY <2>2, <2>3
<1>3. committed' <= MaxChanges
  BY DEF CacheClock, CacheHeld
<1> QED BY <1>1, <1>2, <1>3 DEF CacheHeld

LEMMA HeldStep == CacheInv /\ CacheHeld /\ [CacheNext]_cacheVars => CacheHeld'
<1> SUFFICES ASSUME CacheInv, CacheHeld, [CacheNext]_cacheVars PROVE CacheHeld'
  OBVIOUS
<1>1. ASSUME UNCHANGED cache, committed' <= MaxChanges PROVE CacheHeld'
  BY <1>1 DEF CacheHeld
<1>2. CASE CommitSilently \/ \E w \in Writers : CommitChange(w)
  <2>1. committed \in Nat /\ committed' = committed + 1 /\ committed < MaxChanges /\ cache' = cache
    BY <1>2 DEF CommitSilently, CommitChange, CacheInv
  <2> QED BY <1>1, <2>1, CacheAssumption
<1>3. ASSUME NEW r \in Readers, (\E k \in Keys : Miss(r, k)) \/ ReadRows(r) PROVE CacheHeld'
  BY <1>1, <1>3 DEF Miss, ReadRows, CacheHeld
<1>4. ASSUME NEW w \in Writers, Change(w) PROVE CacheHeld'
  <2>1. DOMAIN cache' = {} /\ committed' = committed
    BY <1>4 DEF Change, Invalidated, Empty
  <2> QED BY <2>1, FS_EmptySet, CacheAssumption DEF CacheHeld
<1>5. ASSUME NEW w \in Writers, RollbackChange(w) PROVE CacheHeld'
  BY <1>1, <1>5 DEF RollbackChange, CacheHeld
<1>6. CASE UNCHANGED cacheVars
  BY <1>1, <1>6 DEF cacheVars, CacheHeld
<1> QED BY <1>2, <1>3, <1>4, <1>5, <1>6, PutHeld, ClockHeld DEF CacheNext

\* The map of lists never holds more than one key beyond its bound, however requests,
\* changes and time interleave, and no list is newer than what has committed
\* (markets_cache.py).
THEOREM CacheTyped == CacheSpec => []CacheTypeOK
<1>1. CacheInit => CacheInv /\ CacheHeld
  <2>1. CacheInit => CacheHeld
    BY FS_EmptySet, CacheAssumption DEF CacheInit, CacheHeld, Empty
  <2> QED BY <2>1, InitHonest
<1>2. CacheInv /\ CacheHeld /\ [CacheNext]_cacheVars => (CacheInv /\ CacheHeld)'
  BY NextHonest, HeldStep
<1>3. ASSUME CacheInv, CacheHeld PROVE CacheTypeOK
  <2>1. committed \in 0..MaxChanges /\ cleared \in 0..committed
    BY <1>3, CacheAssumption DEF CacheInv, CacheHeld
  <2>2. ASSUME NEW k \in DOMAIN cache
        PROVE  cache[k].rows \in 0..committed /\ cache[k].age \in 0..Ttl /\ cache[k].raced \in BOOLEAN
    <3>1. cache[k] \in Cached /\ cache[k].rows <= committed
      BY <1>3 DEF CacheInv, CacheHeld, Honest
    <3> QED BY <2>1, <3>1, CacheAssumption DEF Cached
  <2>3. ASSUME NEW r \in Readers
        PROVE  \/ readers[r] = NotReading
               \/ readers[r] \in [at : {"missed"}, key : Keys]
               \/ readers[r] \in [at : {"read"}, key : Keys, rows : 0..committed]
    <3>1. CASE readers[r] \in [at : {"read"}, key : Keys, rows : Nat]
      <4>1. readers[r].rows \in 0..committed
        BY <1>3, <2>1, <3>1, CacheAssumption DEF CacheInv
      <4> QED BY <3>1, <4>1
    <3> QED BY <1>3, <3>1 DEF CacheInv, Request
  <2> QED BY <1>3, <2>1, <2>2, <2>3 DEF CacheTypeOK, CacheInv, CacheHeld
<1> QED BY <1>1, <1>2, <1>3, PTL DEF CacheSpec

-------------------------------------------------------------------------------------
(* RateLimit.  A key's window counts its newest admissions, the oldest of them as  *)
(* old as the window; what is older came before the window, and that is less than  *)
(* a quota.                                                                        *)

Ages == 0..Window - 1

Open(c) == c \in Tracked /\ ~Expired(c)

\* Admissions of a key that has an open window, and of one that has none.
Counted(c) ==
    LET ages == admitted[c]
        k == windows[c].count
    IN  k <= Len(ages) /\ ages[k] = windows[c].age /\ Len(ages) < k + Quota

\* The last conjunct but one is what makes the bound inductive: an open window accounts
\* for its own admissions, and those before it are fewer than a quota.
RateInv ==
    /\ windows \in [Tracked -> [age : 0..Window, count : 1..Quota]]
    /\ Tracked \subseteq Clients /\ IsFiniteSet(Tracked) /\ Cardinality(Tracked) <= MaxWindows
    /\ admitted \in [Clients -> Seq(Ages)]
    /\ \A c \in Clients : \A i, j \in DOMAIN admitted[c] :
          i <= j => admitted[c][i] <= admitted[c][j]
    /\ \A c \in Clients : IF Open(c) THEN Counted(c) ELSE Len(admitted[c]) < Quota
    /\ told \in [DOMAIN told -> 0..Window + PerSecond] /\ DOMAIN told \subseteq Clients
    /\ \A c \in DOMAIN told : Refused(c) => told[c] >= Window - windows[c].age

\* The sizes are positive.
LEMMA WindowPositive == Window \in Nat \ {0} /\ Quota \in Nat \ {0} /\ PerSecond \in Nat \ {0}
                        /\ MaxWindows \in Nat \ {0}
  BY RateAssumption DEF Window

\* What the invariant says of one key.
LEMMA Shape ==
  ASSUME RateInv, NEW c \in Clients
  PROVE  /\ admitted[c] \in Seq(Ages) /\ Len(admitted[c]) \in Nat
         /\ DOMAIN admitted[c] = 1..Len(admitted[c])
         /\ \A i \in 1..Len(admitted[c]) : admitted[c][i] \in 0..Window - 1
         /\ c \in Tracked => windows[c].age \in 0..Window /\ windows[c].count \in 1..Quota
         /\ Open(c) => /\ windows[c].age \in 0..Window - 1
                       /\ windows[c].count \in 1..Len(admitted[c])
                       /\ admitted[c][windows[c].count] = windows[c].age
                       /\ Len(admitted[c]) < windows[c].count + Quota
<1>1. /\ admitted[c] \in Seq(Ages) /\ Len(admitted[c]) \in Nat
      /\ DOMAIN admitted[c] = 1..Len(admitted[c])
  BY DEF RateInv
<1>2. \A i \in 1..Len(admitted[c]) : admitted[c][i] \in 0..Window - 1
  BY <1>1, ElementOfSeq DEF Ages
<1>3. c \in Tracked => windows[c].age \in 0..Window /\ windows[c].count \in 1..Quota
  BY DEF RateInv
<1>4. ASSUME Open(c)
      PROVE  /\ windows[c].age \in 0..Window - 1
             /\ windows[c].count \in 1..Len(admitted[c])
             /\ admitted[c][windows[c].count] = windows[c].age
             /\ Len(admitted[c]) < windows[c].count + Quota
  <2>1. Counted(c) /\ c \in Tracked /\ ~(windows[c].age >= Window)
    BY <1>4 DEF RateInv, Open, Expired
  <2> QED BY <1>1, <1>3, <2>1, WindowPositive DEF Counted
<1> QED BY <1>1, <1>2, <1>3, <1>4

\* Nothing is tracked at the start.
LEMMA InitRate == RateInit => RateInv
<1> SUFFICES ASSUME RateInit PROVE RateInv
  OBVIOUS
<1>1. Tracked = {} /\ IsFiniteSet({}) /\ Cardinality({}) = 0
  BY FS_EmptySet DEF RateInit, Tracked
<1>2. \A c \in Clients : admitted[c] = <<>>
  BY DEF RateInit
<1>3. DOMAIN told = {}
  BY DEF RateInit
<1> QED BY <1>1, <1>2, <1>3, WindowPositive DEF RateInit, RateInv, Open, Ages

\* The rounding up to seconds: never less than what is left, never a second more.
LEMMA WaitCovers ==
  ASSUME NEW x \in 1..Window
  PROVE  /\ CeilSeconds(x) \in Nat \ {0}
         /\ CeilSeconds(x) * PerSecond >= x /\ CeilSeconds(x) * PerSecond < x + PerSecond
<1>1. x \in Nat /\ x > 0 /\ PerSecond \in Nat \ {0}
  BY WindowPositive
<1>2. /\ ((x + PerSecond - 1) \div PerSecond) * PerSecond >= x
      /\ ((x + PerSecond - 1) \div PerSecond) * PerSecond <= x + PerSecond - 1
      /\ (x + PerSecond - 1) \div PerSecond \in Nat
  BY <1>1
<1>3. (x + PerSecond - 1) \div PerSecond # 0
  BY <1>1, <1>2
<1> QED BY <1>1, <1>2, <1>3 DEF CeilSeconds

\* A refusal tells the key to wait for the rest of its window, or longer.
LEMMA RefuseRate ==
  ASSUME RateInv, NEW c \in Clients, Refuse(c)
  PROVE  RateInv'
<1> DEFINE left == Window - windows[c].age
           wait == RetryAfter(c) * PerSecond
<1>1. left \in 1..Window
  BY WindowPositive DEF RateInv, Refuse, Refused, Expired
<1>2. wait \in 0..Window + PerSecond /\ wait >= left
  BY <1>1, WaitCovers, WindowPositive DEF RetryAfter
<1>3. /\ DOMAIN told' = DOMAIN told \cup {c}
      /\ \A d \in DOMAIN told' : told'[d] = IF d = c THEN wait ELSE told[d]
      /\ told' = [d \in DOMAIN told' |-> told'[d]]
  BY DEF Refuse, With
<1>4. UNCHANGED <<windows, admitted>>
  BY DEF Refuse
<1> HIDE DEF wait
<1>5. told' \in [DOMAIN told' -> 0..Window + PerSecond] /\ DOMAIN told' \subseteq Clients
  BY <1>2, <1>3 DEF RateInv
<1>6. ASSUME NEW d \in DOMAIN told', Refused(d)'
      PROVE  told'[d] >= Window - windows'[d].age
  BY <1>2, <1>3, <1>4, <1>6 DEF RateInv, Refused, Tracked, Expired
<1> QED BY <1>4, <1>5, <1>6 DEF RateInv, Open, Counted, Tracked, Expired

\* A key that is admitted has one admission more, the newest.
LEMMA AdmitRate ==
  ASSUME RateInv, NEW c \in Clients, Admit(c)
  PROVE  /\ admitted' \in [Clients -> Seq(Ages)]
         /\ Len(admitted'[c]) = Len(admitted[c]) + 1
         /\ admitted'[c][1] = 0
         /\ \A i \in 2..Len(admitted[c]) + 1 : admitted'[c][i] = admitted[c][i - 1]
         /\ \A d \in Clients : d # c => admitted'[d] = admitted[d]
         /\ \A d \in Clients : \A i, j \in DOMAIN admitted'[d] :
              i <= j => admitted'[d][i] <= admitted'[d][j]
<1>1. admitted[c] \in Seq(Ages) /\ 0 \in Ages
  BY WindowPositive DEF RateInv, Ages
<1> DEFINE new == <<0>> \o admitted[c]
<1>2. /\ new \in Seq(Ages) /\ Len(new) = Len(admitted[c]) + 1 /\ new[1] = 0
      /\ \A i \in 2..Len(admitted[c]) + 1 : new[i] = admitted[c][i - 1]
  BY <1>1, Headed
<1> HIDE DEF new
<1>3. admitted' = [admitted EXCEPT ![c] = new]
  BY DEF Admit, new
<1>4. admitted' \in [Clients -> Seq(Ages)] /\ admitted'[c] = new
      /\ \A d \in Clients : d # c => admitted'[d] = admitted[d]
  BY <1>2, <1>3 DEF RateInv
<1>5. ASSUME NEW d \in Clients, NEW i \in DOMAIN admitted'[d], NEW j \in DOMAIN admitted'[d],
             i <= j
      PROVE  admitted'[d][i] <= admitted'[d][j]
  <2>1. CASE d # c
    BY <1>4, <1>5, <2>1 DEF RateInv
  <2>2. CASE d = c
    <3>1. i \in 1..Len(admitted[c]) + 1 /\ j \in 1..Len(admitted[c]) + 1
      BY <1>2, <1>4, <2>2
    <3>2. CASE i = 1
      <4>1. new[j] \in Ages
        BY <1>2, <3>1
      <4> QED BY <1>2, <1>4, <2>2, <3>2, <4>1, WindowPositive DEF Ages
    <3>3. CASE i # 1
      <4>1. i \in 2..Len(admitted[c]) + 1 /\ j \in 2..Len(admitted[c]) + 1
            /\ i - 1 \in DOMAIN admitted[c] /\ j - 1 \in DOMAIN admitted[c]
        BY <1>1, <1>5, <3>1, <3>3
      <4>2. admitted[c][i - 1] <= admitted[c][j - 1]
        BY <1>5, <4>1 DEF RateInv
      <4> QED BY <1>2, <1>4, <2>2, <4>1, <4>2
    <3> QED BY <3>2, <3>3
  <2> QED BY <2>1, <2>2
<1> HIDE DEF new
<1>6. \A d \in Clients : \A i, j \in DOMAIN admitted'[d] :
         i <= j => admitted'[d][i] <= admitted'[d][j]
  BY <1>5
<1> QED BY <1>2, <1>4, <1>6

\* It has been told nothing since.
LEMMA AdmitTold ==
  ASSUME RateInv, NEW c \in Clients, Admit(c)
  PROVE  /\ DOMAIN told' = DOMAIN told \ {c}
         /\ \A d \in DOMAIN told' : told'[d] = told[d]
         /\ told' \in [DOMAIN told' -> 0..Window + PerSecond]
  BY DEF RateInv, Admit, Without

\* A request is counted in the window that is open.
LEMMA CountRate ==
  ASSUME RateInv, NEW c \in Clients, Count(c)
  PROVE  RateInv'
<1>1. /\ Tracked' = Tracked
      /\ windows' \in [Tracked -> [age : 0..Window, count : 1..Quota]]
      /\ windows'[c].age = windows[c].age /\ windows'[c].count = windows[c].count + 1
      /\ \A d \in Tracked : d # c => windows'[d] = windows[d]
      /\ Open(c)
  BY WindowPositive DEF RateInv, Count, Tracked, Expired, Refused, Open
<1>2. Admit(c)
  BY DEF Count
<1>3. ASSUME NEW d \in Clients
      PROVE  IF Open(d)' THEN Counted(d)' ELSE Len(admitted'[d]) < Quota
  <2>1. CASE d # c
    BY <1>1, <1>2, <1>3, <2>1, AdmitRate DEF RateInv, Open, Counted, Expired
  <2>2. CASE d = c
    <3>1. windows[c].count \in 1..Len(admitted[c]) /\ Counted(c)
      BY <1>1, Shape DEF RateInv
    <3>2. windows[c].count + 1 \in 2..Len(admitted[c]) + 1
      BY <3>1, Shape
    <3>3. admitted'[c][windows[c].count + 1] = admitted[c][windows[c].count]
      <4>1. \A i \in 2..Len(admitted[c]) + 1 : admitted'[c][i] = admitted[c][i - 1]
        BY <1>2, AdmitRate
      <4> QED BY SMTT(30), <3>1, <3>2, <4>1, Shape
    <3>4. Counted(c)'
      <4>1. /\ Len(admitted[c]) \in Nat /\ Len(admitted'[c]) = Len(admitted[c]) + 1
            /\ windows[c].count \in Nat /\ Quota \in Nat
        BY <1>2, <3>1, AdmitRate, Shape, WindowPositive
      <4>2. /\ admitted'[c][windows[c].count + 1] = windows[c].age
            /\ windows[c].count <= Len(admitted[c])
            /\ Len(admitted[c]) < windows[c].count + Quota
        BY <3>1, <3>3 DEF Counted
      <4>3. windows'[c].age = windows[c].age /\ windows'[c].count = windows[c].count + 1
        BY <1>1
      <4> QED BY SMTT(30), <4>1, <4>2, <4>3 DEF Counted
    <3>5. Open(c)'
      BY <1>1 DEF Open, Expired
    <3> QED BY <2>2, <3>4, <3>5
  <2> QED BY <2>1, <2>2
<1>4. ASSUME NEW d \in DOMAIN told', Refused(d)'
      PROVE  told'[d] >= Window - windows'[d].age
  BY <1>1, <1>2, <1>4, AdmitTold DEF RateInv, Refused, Tracked, Expired
<1> QED BY <1>1, <1>2, <1>3, <1>4, AdmitRate, AdmitTold DEF RateInv

\* The map without its expired windows is no larger, and forgets no open one.
LEMMA BaseKeepsOpen ==
  ASSUME RateInv, NEW c \in Clients
  PROVE  /\ DOMAIN Base(c) \subseteq Tracked /\ IsFiniteSet(DOMAIN Base(c))
         /\ Cardinality(DOMAIN Base(c)) \in Nat
         /\ Cardinality(DOMAIN Base(c)) <= Cardinality(Tracked)
         /\ \A d \in DOMAIN Base(c) : Base(c)[d] = windows[d]
         /\ \A d \in Tracked : ~Expired(d) => d \in DOMAIN Base(c)
         /\ Base(c) = [d \in DOMAIN Base(c) |-> Base(c)[d]]
<1>1. DOMAIN Base(c) \subseteq Tracked
  BY DEF Base, Pruned, Tracked
<1>2. IsFiniteSet(Tracked) /\ Cardinality(Tracked) \in Nat
  BY FS_CardinalityType DEF RateInv
<1>3. \A d \in DOMAIN Base(c) : Base(c)[d] = windows[d]
  BY DEF Base, Pruned
<1>4. \A d \in Tracked : ~Expired(d) => d \in DOMAIN Base(c)
  BY DEF Base, Pruned, Tracked
<1>5. Base(c) = [d \in DOMAIN Base(c) |-> Base(c)[d]]
  BY DEF RateInv, Base, Pruned
<1>6. IsFiniteSet(DOMAIN Base(c)) /\ Cardinality(DOMAIN Base(c)) <= Cardinality(Tracked)
      /\ Cardinality(DOMAIN Base(c)) \in Nat
  BY <1>1, <1>2, FS_Subset, FS_CardinalityType
<1> QED BY <1>1, <1>3, <1>4, <1>5, <1>6

\* A request opens a window: what the key had is less than a quota.
LEMMA OpenRate ==
  ASSUME RateInv, NEW c \in Clients, OpenWindow(c)
  PROVE  RateInv'
<1> DEFINE new == [age |-> 0, count |-> 1]
<1>1. /\ Tracked' = DOMAIN Base(c) \cup {c}
      /\ \A d \in Tracked' : windows'[d] = IF d = c THEN new ELSE windows[d]
      /\ windows' = [d \in Tracked' |-> windows'[d]]
  BY BaseKeepsOpen DEF OpenWindow, Tracked, With
<1>2. Admit(c) /\ ~Open(c)
  BY DEF OpenWindow, Open
<1>3. windows' \in [Tracked' -> [age : 0..Window, count : 1..Quota]]
  <2>1. new \in [age : 0..Window, count : 1..Quota]
    BY WindowPositive
  <2>2. \A d \in Tracked' : d = c \/ d \in Tracked
    BY <1>1, BaseKeepsOpen
  <2> HIDE DEF new
  <2> QED BY <1>1, <2>1, <2>2 DEF RateInv
<1>4. Tracked' \subseteq Clients /\ IsFiniteSet(Tracked') /\ Cardinality(Tracked') <= MaxWindows
  <2>1. Tracked' \subseteq Clients /\ IsFiniteSet(Tracked')
    BY <1>1, BaseKeepsOpen, FS_AddElement DEF RateInv
  <2>2. CASE c \in DOMAIN Base(c)
    <3>1. Tracked' = DOMAIN Base(c)
      BY <1>1, <2>2
    <3> QED BY <2>1, <3>1, BaseKeepsOpen, FS_CardinalityType, WindowPositive DEF RateInv
  <2>3. CASE c \notin DOMAIN Base(c)
    <3>1. c \notin Tracked
      BY <2>3 DEF Base, Tracked
    <3>2. Cardinality(DOMAIN Base(c)) < MaxWindows
      BY <3>1, BaseKeepsOpen, WindowPositive DEF OpenWindow, FailsOpen
    <3>3. Cardinality(Tracked') = Cardinality(DOMAIN Base(c)) + 1
      BY <1>1, <2>3, BaseKeepsOpen, FS_AddElement
    <3> QED BY <2>1, <3>2, <3>3, BaseKeepsOpen, WindowPositive
  <2> QED BY <2>2, <2>3
<1>5. ASSUME NEW d \in Clients
      PROVE  IF Open(d)' THEN Counted(d)' ELSE Len(admitted'[d]) < Quota
  <2>1. CASE d # c
    <3>1. Open(d)' <=> Open(d)
      BY <1>1, <2>1, BaseKeepsOpen DEF Open, Expired
    <3>2. Open(d) => windows'[d] = windows[d]
      BY <1>1, <2>1, BaseKeepsOpen DEF Open
    <3>3. admitted'[d] = admitted[d]
      BY <1>2, <2>1, AdmitRate
    <3> QED BY <3>1, <3>2, <3>3 DEF RateInv, Counted
  <2>2. CASE d = c
    <3>1. Len(admitted[c]) < Quota /\ Len(admitted[c]) \in Nat
      BY <1>2 DEF RateInv
    <3>2. windows'[c].age = 0 /\ windows'[c].count = 1
      BY <1>1
    <3>3. Open(c)'
      BY <1>1, <3>2, WindowPositive DEF Open, Expired
    <3>4. Len(admitted'[c]) = Len(admitted[c]) + 1 /\ admitted'[c][1] = 0
      BY <1>2, AdmitRate
    <3>5. Counted(c)'
      BY <3>1, <3>2, <3>4, WindowPositive DEF Counted
    <3> QED BY <2>2, <3>3, <3>5
  <2> QED BY <2>1, <2>2
<1>6. ASSUME NEW d \in DOMAIN told', Refused(d)'
      PROVE  told'[d] >= Window - windows'[d].age
  <2>1. d # c /\ told'[d] = told[d] /\ d \in DOMAIN told
    BY <1>2, <1>6, AdmitTold
  <2>2. d \in Tracked /\ windows'[d] = windows[d]
    BY <1>1, <1>6, <2>1, BaseKeepsOpen DEF Refused
  <2>3. Refused(d)
    BY <1>6, <2>2 DEF Refused, Expired
  <2> QED BY <2>1, <2>2, <2>3 DEF RateInv
<1> QED BY <1>2, <1>3, <1>4, <1>5, <1>6, AdmitRate, AdmitTold DEF RateInv

\* A full map lets a request through and forgets expired windows only.
LEMMA LetThroughRate ==
  ASSUME RateInv, NEW c \in Clients, LetThrough(c)
  PROVE  RateInv'
<1>1. windows' = Base(c) /\ told' = Without(c) /\ admitted' = admitted
  BY DEF LetThrough
<1>2. Tracked' = DOMAIN Base(c) /\ \A d \in Tracked' : windows'[d] = windows[d]
  BY <1>1, BaseKeepsOpen DEF Tracked
<1>3. windows' \in [Tracked' -> [age : 0..Window, count : 1..Quota]]
  BY <1>1, <1>2, BaseKeepsOpen DEF RateInv
<1>4. Tracked' \subseteq Clients /\ IsFiniteSet(Tracked') /\ Cardinality(Tracked') <= MaxWindows
  BY <1>2, BaseKeepsOpen, WindowPositive, FS_CardinalityType DEF RateInv
<1>5. \A d \in Clients : /\ Open(d)' <=> Open(d)
                         /\ Open(d) => windows'[d] = windows[d]
  BY <1>2, BaseKeepsOpen DEF Open, Expired
<1>6. \A d \in Clients : IF Open(d)' THEN Counted(d)' ELSE Len(admitted'[d]) < Quota
  BY <1>1, <1>5 DEF RateInv, Counted
<1>7. /\ DOMAIN told' \subseteq DOMAIN told /\ \A d \in DOMAIN told' : told'[d] = told[d]
      /\ told' \in [DOMAIN told' -> 0..Window + PerSecond]
  BY <1>1 DEF RateInv, Without
<1>8. ASSUME NEW d \in DOMAIN told', Refused(d)'
      PROVE  told'[d] >= Window - windows'[d].age
  <2>1. windows'[d] = windows[d] /\ d \in Tracked
    BY <1>2, <1>8, BaseKeepsOpen DEF Refused
  <2>2. Refused(d)
    BY <1>8, <2>1 DEF Refused, Expired
  <2> QED BY <1>7, <2>1, <2>2 DEF RateInv
<1> QED BY <1>1, <1>3, <1>4, <1>6, <1>7, <1>8 DEF RateInv

\* What time leaves of a key's admissions are its newest.
LEMMA AgedIsPrefix ==
  ASSUME RateInv, NEW c \in Clients
  PROVE  \E k \in 0..Len(admitted[c]) :
            /\ Aged(admitted[c]) \in Seq(Ages) /\ Len(Aged(admitted[c])) = k
            /\ \A i \in 1..k : Aged(admitted[c])[i] = admitted[c][i] + 1
            /\ \A i \in 1..Len(admitted[c]) : i <= k <=> admitted[c][i] + 1 < Window
<1> DEFINE ages == admitted[c]
           young == {i \in DOMAIN ages : ages[i] + 1 < Window}
<1>1. ages \in Seq(Ages) /\ Len(ages) \in Nat /\ DOMAIN ages = 1..Len(ages)
  BY DEF RateInv
<1>2. \A i \in DOMAIN ages : ages[i] \in Ages
  BY <1>1
<1>3. \A i, j \in DOMAIN ages : i <= j => ages[i] <= ages[j]
  BY DEF RateInv
<1>4. ASSUME NEW i \in young, NEW j \in 1..Len(ages), j <= i
      PROVE  j \in young
  <2>1. ages[j] <= ages[i] /\ ages[i] \in 0..Window - 1 /\ ages[j] \in 0..Window - 1
    BY <1>1, <1>3, <1>4, Shape
  <2> QED BY <1>1, <1>4, <2>1, WindowPositive
<1>5. PICK k \in 0..Len(ages) : young = 1..k
  <2>1. young \in SUBSET (1..Len(ages))
    BY <1>1
  <2> HIDE DEF young
  <2> QED BY <1>1, <1>4, <2>1, InitialSegment
<1>6. Aged(ages) = [i \in 1..k |-> ages[i] + 1]
  BY <1>5 DEF Aged
<1>7. \A i \in 1..k : ages[i] + 1 \in Ages
  BY SMTT(30), <1>2, <1>5, WindowPositive DEF Ages
<1>8. Aged(ages) \in Seq(Ages) /\ Len(Aged(ages)) = k
  BY <1>6, <1>7
<1>9. \A i \in 1..k : Aged(ages)[i] = ages[i] + 1
  BY <1>6
<1>10. \A i \in 1..Len(ages) : i <= k <=> ages[i] + 1 < Window
  <2>1. \A i \in 1..Len(ages) : i \in young <=> ages[i] + 1 < Window
    BY <1>1
  <2>2. \A i \in 1..Len(ages) : i \in 1..k <=> i <= k
    BY <1>1
  <2> HIDE DEF young
  <2> QED BY <1>5, <2>1, <2>2
<1> HIDE DEF young
<1> QED BY <1>8, <1>9, <1>10

\* A step of the clock ages windows, admissions and waits alike.
LEMMA ClockRate ==
  ASSUME RateInv, RateClock
  PROVE  RateInv'
<1>1. /\ Tracked' = Tracked
      /\ windows' \in [Tracked -> [age : 0..Window, count : 1..Quota]]
      /\ \A c \in Tracked :
            /\ windows'[c].count = windows[c].count
            /\ windows'[c].age = IF windows[c].age < Window THEN windows[c].age + 1
                                                            ELSE windows[c].age
  <2> DEFINE older(c) == [windows[c] EXCEPT !.age = IF @ < Window THEN @ + 1 ELSE @]
  <2>1. windows' = [c \in Tracked |-> older(c)]
    BY DEF RateClock
  <2>2. ASSUME NEW c \in Tracked
        PROVE  /\ older(c) \in [age : 0..Window, count : 1..Quota]
               /\ older(c).count = windows[c].count
               /\ older(c).age = IF windows[c].age < Window THEN windows[c].age + 1
                                                            ELSE windows[c].age
    <3>1. windows[c] \in [age : 0..Window, count : 1..Quota]
      BY DEF RateInv
    <3> QED BY <3>1, WindowPositive
  <2> HIDE DEF older
  <2> QED BY <2>1, <2>2 DEF Tracked
<1>2. \A c \in Clients : admitted'[c] = Aged(admitted[c])
  BY DEF RateClock
<1>3. admitted' \in [Clients -> Seq(Ages)]
  BY <1>2, AgedIsPrefix DEF RateClock
<1>4. ASSUME NEW c \in Clients, NEW i \in DOMAIN admitted'[c], NEW j \in DOMAIN admitted'[c],
             i <= j
      PROVE  admitted'[c][i] <= admitted'[c][j]
  <2>1. PICK k \in 0..Len(admitted[c]) :
            /\ Aged(admitted[c]) \in Seq(Ages) /\ Len(Aged(admitted[c])) = k
            /\ \A n \in 1..k : Aged(admitted[c])[n] = admitted[c][n] + 1
    BY AgedIsPrefix
  <2>2. i \in 1..k /\ j \in 1..k
    BY <1>2, <1>4, <2>1
  <2>3. /\ i \in DOMAIN admitted[c] /\ j \in DOMAIN admitted[c]
        /\ admitted[c][i] \in Ages /\ admitted[c][j] \in Ages
    BY <2>2 DEF RateInv
  <2>4. admitted[c][i] <= admitted[c][j]
    BY <1>4, <2>3 DEF RateInv
  <2>5. admitted'[c][i] = admitted[c][i] + 1 /\ admitted'[c][j] = admitted[c][j] + 1
    BY <1>2, <2>1, <2>2
  <2> QED BY <2>3, <2>4, <2>5, WindowPositive DEF Ages
<1>5. ASSUME NEW c \in Clients
      PROVE  IF Open(c)' THEN Counted(c)' ELSE Len(admitted'[c]) < Quota
  <2> DEFINE ages == admitted[c]
  <2>1. PICK k \in 0..Len(ages) :
            /\ Aged(ages) \in Seq(Ages) /\ Len(Aged(ages)) = k
            /\ \A n \in 1..k : Aged(ages)[n] = ages[n] + 1
            /\ \A n \in 1..Len(ages) : n <= k <=> ages[n] + 1 < Window
    BY AgedIsPrefix
  <2>2. admitted'[c] = Aged(ages) /\ Len(ages) \in Nat
    BY <1>2 DEF RateInv
  <2>3. CASE ~Open(c)
    <3>1. ~Open(c)'
      BY <1>1, <2>3, WindowPositive DEF RateInv, Open, Expired
    <3> QED BY <2>1, <2>2, <2>3, <3>1, WindowPositive DEF RateInv
  <2>4. CASE Open(c)
    <3> DEFINE n == windows[c].count
               a == windows[c].age
    <3>1. /\ n \in 1..Quota /\ a \in 0..Window - 1 /\ n <= Len(ages) /\ ages[n] = a
          /\ Len(ages) < n + Quota
      BY <2>4, WindowPositive DEF RateInv, Open, Expired, Counted
    <3>2. windows'[c].count = n /\ windows'[c].age = a + 1 /\ c \in Tracked'
      BY <1>1, <2>4, <3>1, WindowPositive DEF Open
    <3>3. n <= k <=> a + 1 < Window
      BY <2>1, <3>1
    <3> HIDE DEF n, a, ages
    <3>4. CASE a + 1 < Window
      <4>1. Open(c)'
        BY <3>1, <3>2, <3>4, WindowPositive DEF Open, Expired
      <4>2. Aged(ages)[n] = a + 1
        BY <2>1, <3>1, <3>3, <3>4
      <4>3. Counted(c)'
        BY <2>1, <2>2, <3>1, <3>2, <3>3, <3>4, <4>2, WindowPositive DEF Counted
      <4> QED BY <4>1, <4>3
    <3>5. CASE ~(a + 1 < Window)
      <4>1. ~Open(c)'
        BY <3>1, <3>2, <3>5, WindowPositive DEF Open, Expired
      <4>2. k < n
        BY <2>1, <2>2, <3>1, <3>3, <3>5
      <4> QED BY <2>1, <2>2, <3>1, <4>1, <4>2, WindowPositive
    <3> QED BY <3>4, <3>5
  <2> QED BY <2>3, <2>4
<1>6. /\ DOMAIN told' = DOMAIN told
      /\ \A c \in DOMAIN told : told'[c] = IF told[c] > 0 THEN told[c] - 1 ELSE 0
      /\ told' = [c \in DOMAIN told |-> told'[c]]
  BY DEF RateClock
<1>7. told' \in [DOMAIN told' -> 0..Window + PerSecond]
  BY <1>6, WindowPositive DEF RateInv
<1>8. ASSUME NEW c \in DOMAIN told', Refused(c)'
      PROVE  told'[c] >= Window - windows'[c].age
  <2>1. c \in Tracked /\ windows[c].age \in 0..Window - 1 /\ windows'[c].age = windows[c].age + 1
    BY <1>1, <1>8, WindowPositive DEF RateInv, Refused, Expired
  <2>2. Refused(c)
    BY <1>1, <1>8, <2>1, WindowPositive DEF RateInv, Refused, Expired
  <2>3. told[c] \in Nat /\ told[c] >= Window - windows[c].age
    BY <1>6, <2>2, WindowPositive DEF RateInv
  <2> QED BY <1>6, <2>1, <2>3, WindowPositive
<1> QED BY <1>1, <1>3, <1>4, <1>5, <1>6, <1>7, <1>8 DEF RateInv

\* Every step preserves the invariant.
LEMMA NextRate == RateInv /\ [RateNext]_rateVars => RateInv'
<1> SUFFICES ASSUME RateInv, [RateNext]_rateVars PROVE RateInv'
  OBVIOUS
<1>1. CASE UNCHANGED rateVars
  BY <1>1 DEF rateVars, RateInv, Tracked, Open, Counted, Refused, Expired
<1>2. CASE RateNext
  BY <1>2, RefuseRate, CountRate, OpenRate, LetThroughRate, ClockRate DEF RateNext
<1> QED BY <1>1, <1>2

\* The inductive invariant of check_and_increment (ratelimit.py).
THEOREM RateInvariance == RateSpec => []RateInv
  BY InitRate, NextRate, PTL DEF RateSpec

\* The map never outgrows _MAX_KEYS and no window counts beyond the limit.
THEOREM RateTyped == RateSpec => []RateTypeOK
<1>1. ASSUME RateInv
      PROVE  RateTypeOK
  <2>1. \A c \in Clients : \A i \in DOMAIN admitted[c] : admitted[c][i] \in 0..Window - 1
    BY <1>1, Shape
  <2> QED BY <1>1, <2>1 DEF RateInv, RateTypeOK
<1> QED BY <1>1, RateInvariance, PTL

\* Whatever the number of keys, the size of the map and the pace of the requests, a key
\* that is tracked is never admitted twice the limit within the length of a window.
THEOREM LessThanTwoQuotas == RateSpec => []NeverTwiceTheLimit
<1>1. ASSUME RateInv, NEW c \in Clients
      PROVE  Len(admitted[c]) < 2 * Quota
  <2>1. CASE Open(c)
    BY <1>1, <2>1, WindowPositive DEF RateInv, Open, Counted
  <2>2. CASE ~Open(c)
    BY <1>1, <2>2, WindowPositive DEF RateInv
  <2> QED BY <2>1, <2>2
<1>2. RateInv => NeverTwiceTheLimit
  BY <1>1 DEF NeverTwiceTheLimit
<1> QED BY <1>2, RateInvariance, PTL

\* A client that waits as long as Retry-After told it finds its window over: the rounding
\* to seconds (ratelimit.py, the middleware) never makes the wait too short.
THEOREM WaitSuffices == RateSpec => []WaitIsEnough
<1>1. RateInv => WaitIsEnough
  BY WindowPositive DEF RateInv, WaitIsEnough, Refused, Expired
<1> QED BY <1>1, RateInvariance, PTL

-------------------------------------------------------------------------------------
(* Breaker.  The failures that are counted are the newest results; what ends them  *)
(* is a success or, for a breaker, a result older than a cooldown.                 *)

\* A result and how long ago it was, up to a cooldown.
Result == [ok : BOOLEAN, age : 0..Cooldown]

CallState == {NotCalling, [at |-> "peeked", attempt |-> 0]}
                \cup [at : {"trying", "counted", "judged"}, attempt : 1..MaxAttempts]

\* A thread has counted a failure and not yet opened the gate.
Pending == \E c \in Callers : calls[c].at \in {"counted", "judged"}

\* What keeps a result from being counted with the newer ones.
EndsRow(r) == r.ok \/ (gate = "breaker" /\ r.age = Cooldown)

\* The two fields of a breaker change together,
BreakerFields ==
    /\ Quiet
    /\ failures = Threshold <=> openFor # NotOpen
    /\ openFor # NotOpen => openFor = Cooldown - recent[1].age

\* those of a client one after the other.
ClientFields ==
    failures = Threshold =>
        Pending \/ recent[1].age = Cooldown \/ openFor >= Cooldown - recent[1].age

\* The failures that are counted are the newest results, and what comes before them would
\* not be counted with them: that is what ties the counter to the history.
BreakInv ==
    /\ gate \in {"breaker", "client"}
    /\ failures \in 0..Threshold /\ openFor \in -1..Cooldown
    /\ calls \in [Callers -> CallState]
    /\ recent \in Seq(Result) /\ Len(recent) <= Threshold
    /\ failures <= Len(recent) /\ \A i \in 1..failures : ~recent[i].ok
    /\ failures < Len(recent) => EndsRow(recent[failures + 1])
    /\ gate = "breaker" => BreakerFields
    /\ gate = "client" => ClientFields

\* A gate that has seen no call is open.
LEMMA InitBreak == BreakerInit => BreakInv
  BY BreakerAssumption DEF BreakerInit, BreakInv, BreakerFields, ClientFields, Quiet,
     NotOpen, NotCalling, CallState

\* What the invariant says of the results.
LEMMA Results ==
  ASSUME BreakInv
  PROVE  /\ Threshold \in Nat \ {0} /\ Cooldown \in Nat /\ MaxAttempts \in Nat \ {0}
         /\ Len(recent) \in Nat /\ DOMAIN recent = 1..Len(recent)
         /\ \A i \in 1..Len(recent) : recent[i] \in Result
  BY BreakerAssumption, ElementOfSeq DEF BreakInv

\* A result that is noted comes before the others.
LEMMA NotedFirst ==
  ASSUME BreakInv, NEW ok \in BOOLEAN, Noted(ok)
  PROVE  /\ recent' \in Seq(Result) /\ Len(recent') \in 1..Threshold
         /\ Len(recent') = IF Len(recent) < Threshold THEN Len(recent) + 1 ELSE Threshold
         /\ recent'[1].ok = ok /\ recent'[1].age = 0
         /\ \A i \in 2..Len(recent') : recent'[i] = recent[i - 1]
<1> DEFINE n == IF Len(recent) < Threshold THEN Len(recent) + 1 ELSE Threshold
           r == [ok |-> ok, age |-> 0]
<1>1. n \in 1..Threshold /\ n <= Len(recent) + 1
  BY Results DEF BreakInv
<1>2. r \in Result /\ recent \in Seq(Result)
  BY Results DEF Result, BreakInv
<1>3. recent' = SubSeq(<<r>> \o recent, 1, n)
  BY DEF Noted
<1> HIDE DEF n, r
<1>4. /\ recent' \in Seq(Result) /\ Len(recent') = n
      /\ n > 0 => recent'[1] = r
      /\ \A i \in 2..n : recent'[i] = recent[i - 1]
  BY <1>1, <1>2, <1>3, Pushed
<1> QED BY <1>1, <1>4 DEF n, r

\* Steps that touch neither a result nor a field.
LEMMA CallsBreak ==
  ASSUME BreakInv, NEW c \in Callers,
         Enter(c) \/ Peek(c) \/ TurnAway(c) \/ Retry(c) \/ EndUnrecorded(c) \/ Judge(c)
  PROVE  BreakInv'
<1>1. UNCHANGED <<gate, failures, openFor, recent>>
  BY DEF Enter, Peek, TurnAway, Retry, EndUnrecorded, Judge
<1>2. calls[c] \in CallState /\ calls \in [Callers -> CallState]
  BY DEF BreakInv
<1>3. calls' \in [Callers -> CallState]
  <2>1. CASE Enter(c)
    BY <1>2, <2>1, BreakerAssumption DEF Enter, Trying, CallState
  <2>2. CASE Peek(c)
    BY <1>2, <2>2 DEF Peek, NotCalling, CallState
  <2>3. CASE TurnAway(c) \/ EndUnrecorded(c)
    BY <1>2, <2>3 DEF TurnAway, EndUnrecorded, CallState
  <2>4. CASE Retry(c)
    <3>1. calls[c] \in [at : {"trying"}, attempt : 1..MaxAttempts]
          /\ calls[c].attempt + 1 \in 1..MaxAttempts
      BY <1>2, <2>4, BreakerAssumption DEF Retry, CallState, NotCalling, Attempts
    <3> QED BY <1>2, <2>4, <3>1 DEF Retry, CallState
  <2>5. CASE Judge(c)
    <3>1. calls[c] \in [at : {"counted"}, attempt : 1..MaxAttempts]
      BY <1>2, <2>5 DEF Judge, CallState, NotCalling
    <3> QED BY <1>2, <2>5, <3>1 DEF Judge, CallState
  <2> QED BY <2>1, <2>2, <2>3, <2>4, <2>5
<1>4. ASSUME gate = "breaker" PROVE Quiet'
  <2>1. Quiet /\ calls[c].at \in {"idle", "trying"} /\ ~Peek(c) /\ ~TurnAway(c) /\ ~Judge(c)
    BY <1>4 DEF BreakInv, BreakerFields, Quiet, Peek, TurnAway, Judge
  <2>2. calls'[c].at \in {"idle", "trying"} /\ \A d \in Callers : d # c => calls'[d] = calls[d]
    <3>1. CASE Enter(c)
      BY <1>2, <3>1 DEF Enter, Trying
    <3>2. CASE Retry(c)
      <4>1. calls'[c].at = calls[c].at
        BY <1>2, <3>2 DEF Retry, CallState, NotCalling
      <4> QED BY <1>2, <2>1, <3>2, <4>1 DEF Retry
    <3>3. CASE EndUnrecorded(c)
      BY <1>2, <3>3 DEF EndUnrecorded, NotCalling
    <3> QED BY <2>1, <3>1, <3>2, <3>3
  <2> QED BY <2>1, <2>2 DEF Quiet
<1>5. ASSUME Pending, failures = Threshold PROVE Pending'
  <2>1. PICK d \in Callers : calls[d].at \in {"counted", "judged"}
    BY <1>5 DEF Pending
  <2>2. CASE d # c
    <3>1. calls'[d] = calls[d]
      BY <1>2, <2>2 DEF Enter, Peek, TurnAway, Retry, EndUnrecorded, Judge
    <3> QED BY <2>1, <3>1 DEF Pending
  <2>3. CASE d = c
    <3>1. Judge(c)
      BY <2>1, <2>3 DEF Enter, Peek, TurnAway, Retry, EndUnrecorded, NotCalling
    <3>2. calls' = [calls EXCEPT ![c].at = "judged"]
      BY <1>5, <3>1 DEF Judge
    <3>3. calls'[c].at = "judged"
      BY <1>2, <3>2 DEF CallState, NotCalling
    <3> QED BY <3>3 DEF Pending
  <2> QED BY <2>2, <2>3
<1> QED BY <1>1, <1>3, <1>4, <1>5 DEF BreakInv, BreakerFields, ClientFields, EndsRow

\* A cooldown that has passed.
LEMMA LapseBreak ==
  ASSUME BreakInv, ReportHealth \/ (\E c \in Callers : EnterLapsed(c) \/ Probe(c))
  PROVE  BreakInv'
<1>1. openFor = 0 /\ openFor' = NotOpen /\ UNCHANGED <<gate, recent>>
  BY DEF ReportHealth, EnterLapsed, Probe, Lapsed
<1>2. calls' \in [Callers -> CallState]
  BY BreakerAssumption DEF BreakInv, ReportHealth, EnterLapsed, Probe, Trying, CallState
<1>3. CASE gate = "breaker"
  <2>1. PICK c \in Callers : EnterLapsed(c)
    BY <1>3 DEF ReportHealth, Probe, BreakInv, BreakerFields, Quiet
  <2>2. failures' = 0 /\ calls' = [calls EXCEPT ![c] = Trying(1)]
    BY <2>1 DEF EnterLapsed
  <2>3. failures = Threshold /\ recent[1].age = Cooldown /\ Len(recent) > 0 /\ Quiet
    <3>1. failures = Threshold /\ 0 = Cooldown - recent[1].age /\ Quiet
      BY <1>1, <1>3 DEF BreakInv, BreakerFields, NotOpen
    <3>2. Len(recent) \in Nat /\ Len(recent) > 0
      BY <3>1, Results DEF BreakInv
    <3>3. recent[1].age \in 0..Cooldown
      BY <3>2, Results DEF Result
    <3> QED BY <3>1, <3>2, <3>3, Results
  <2>4. Quiet'
    BY <2>2, <2>3 DEF Quiet, Trying, BreakInv
  <2>5. EndsRow(recent[1])
    BY <1>3, <2>3 DEF EndsRow
  <2> QED BY <1>1, <1>2, <1>3, <2>2, <2>4, <2>5, Results DEF BreakInv, BreakerFields, EndsRow,
          NotOpen
<1>4. CASE gate = "client"
  <2>1. failures' = failures
    BY <1>4 DEF ReportHealth, Probe, EnterLapsed
  <2>2. ASSUME Pending PROVE Pending'
    <3>1. PICK d \in Callers : calls[d].at \in {"counted", "judged"}
      BY <2>2 DEF Pending
    <3>2. ReportHealth \/ \E c \in Callers : Probe(c)
      BY <1>4 DEF EnterLapsed
    <3>3. calls'[d] = calls[d]
      BY <3>1, <3>2 DEF ReportHealth, Probe, BreakInv
    <3> QED BY <3>1, <3>3 DEF Pending
  <2>3. ClientFields'
    <3> SUFFICES ASSUME failures = Threshold, ~Pending PROVE recent[1].age = Cooldown
      BY <1>1, <2>1, <2>2 DEF ClientFields
    <3>1. Len(recent) \in Nat /\ Len(recent) > 0 /\ Cooldown \in Nat
      BY Results DEF BreakInv
    <3>2. recent[1].age \in 0..Cooldown
      BY <3>1, Results DEF Result
    <3> QED BY <1>1, <1>4, <3>1, <3>2 DEF BreakInv, ClientFields
  <2> QED BY <1>1, <1>2, <1>4, <2>1, <2>3, Results DEF BreakInv, EndsRow, NotOpen
<1> QED BY <1>3, <1>4 DEF BreakInv

\* A success ends the row of failures.
LEMMA SucceedBreak ==
  ASSUME BreakInv, NEW c \in Callers, Succeed(c)
  PROVE  BreakInv'
<1>1. failures' = 0 /\ openFor' = NotOpen /\ gate' = gate /\ Noted(TRUE)
  BY DEF Succeed, CountAfterSuccess
<1>2. calls' = [calls EXCEPT ![c] = NotCalling]
  BY DEF Succeed
<1>3. calls' \in [Callers -> CallState] /\ (Quiet => Quiet')
  BY <1>2 DEF BreakInv, CallState, Quiet, NotCalling
<1>4. EndsRow(recent[1])' /\ recent' \in Seq(Result) /\ Len(recent') \in 1..Threshold
  BY <1>1, NotedFirst DEF EndsRow
<1>5. failures' # Threshold /\ failures' \in 0..Threshold /\ openFor' \in -1..Cooldown
  BY <1>1, Results DEF NotOpen
<1>6. gate' = "breaker" => BreakerFields'
  BY <1>1, <1>3, <1>5 DEF BreakInv, BreakerFields
<1>7. ClientFields'
  BY <1>5 DEF ClientFields
<1>8. /\ failures' <= Len(recent') /\ \A i \in 1..failures' : ~recent'[i].ok
      /\ failures' < Len(recent') => EndsRow(recent[failures + 1])'
  BY <1>1, <1>4
<1> QED BY <1>1, <1>3, <1>4, <1>5, <1>6, <1>7, <1>8 DEF BreakInv

\* One failure more is counted and noted.
LEMMA CountBreak ==
  ASSUME BreakInv, gate' = gate, CountedUp, Noted(FALSE)
  PROVE  /\ failures' \in 1..Threshold
         /\ failures' = IF failures < Threshold THEN failures + 1 ELSE failures
         /\ recent' \in Seq(Result) /\ Len(recent') <= Threshold
         /\ failures' <= Len(recent') /\ \A i \in 1..failures' : ~recent'[i].ok
         /\ failures' < Len(recent') => EndsRow(recent[failures + 1])'
<1>1. failures' = IF failures < Threshold THEN failures + 1 ELSE failures
  BY DEF CountedUp
<1>2. failures \in 0..Threshold /\ failures <= Len(recent) /\ Len(recent) <= Threshold
  BY DEF BreakInv
<1>3. /\ recent' \in Seq(Result) /\ Len(recent') \in 1..Threshold
      /\ Len(recent') = IF Len(recent) < Threshold THEN Len(recent) + 1 ELSE Threshold
      /\ recent'[1].ok = FALSE
      /\ \A i \in 2..Len(recent') : recent'[i] = recent[i - 1]
  BY NotedFirst
<1>4. failures' \in 1..Threshold /\ failures' <= Len(recent')
  BY <1>1, <1>2, <1>3, Results
<1>5. ASSUME NEW i \in 1..failures' PROVE ~recent'[i].ok
  <2>1. CASE i = 1
    BY <1>3, <2>1
  <2>2. CASE i # 1
    <3>1. i \in 2..Len(recent') /\ i - 1 \in 1..failures
      BY <1>1, <1>2, <1>4, <1>5, <2>2, Results
    <3> QED BY <1>3, <3>1 DEF BreakInv
  <2> QED BY <2>1, <2>2
<1>6. ASSUME failures' < Len(recent') PROVE EndsRow(recent[failures + 1])'
  <2>1. /\ failures' = failures + 1 /\ failures < Len(recent)
        /\ failures' + 1 \in 2..Len(recent')
    BY <1>1, <1>2, <1>3, <1>6, Results
  <2>2. recent'[failures' + 1] = recent[failures + 1]
    BY <1>2, <1>3, <2>1
  <2>3. EndsRow(recent[failures + 1])
    BY <2>1 DEF BreakInv
  <2> QED BY <2>2, <2>3 DEF EndsRow
<1> QED BY <1>1, <1>3, <1>4, <1>5, <1>6

\* A failure of a breaker is counted, and opens it, in one step.
LEMMA FailBreak ==
  ASSUME BreakInv, NEW c \in Callers, Fail(c)
  PROVE  BreakInv'
<1>1. /\ gate = "breaker" /\ gate' = gate /\ CountedUp /\ Noted(FALSE)
      /\ openFor' = IF failures' = Threshold THEN Cooldown ELSE openFor
      /\ calls' = [calls EXCEPT ![c] = NotCalling]
  BY DEF Fail
<1>2. calls' \in [Callers -> CallState] /\ (Quiet => Quiet')
  BY <1>1 DEF BreakInv, CallState, Quiet, NotCalling
<1>3. recent'[1].age = 0
  BY <1>1, NotedFirst
<1>4. /\ failures' \in 1..Threshold
      /\ failures' = IF failures < Threshold THEN failures + 1 ELSE failures
  BY <1>1, CountBreak
<1>5. BreakerFields'
  <2>1. CASE failures' = Threshold
    BY <1>1, <1>2, <1>3, <2>1, Results DEF BreakInv, BreakerFields, NotOpen
  <2>2. CASE failures' # Threshold
    <3>1. failures # Threshold /\ openFor = NotOpen
      BY <1>1, <1>4, <2>2, Results DEF BreakInv, BreakerFields
    <3> QED BY <1>1, <1>2, <2>2, <3>1 DEF BreakInv, BreakerFields
  <2> QED BY <2>1, <2>2
<1>6. openFor' \in -1..Cooldown
  BY <1>1, Results DEF BreakInv
<1> QED BY <1>1, <1>2, <1>4, <1>5, <1>6, CountBreak DEF BreakInv

\* A failure of a client is counted in one step,
LEMMA CountFailureBreak ==
  ASSUME BreakInv, NEW c \in Callers, CountFailure(c)
  PROVE  BreakInv'
<1>1. /\ gate = "client" /\ UNCHANGED <<gate, openFor>> /\ CountedUp /\ Noted(FALSE)
      /\ calls' = [calls EXCEPT ![c].at = "counted"] /\ calls[c].at = "trying"
  BY DEF CountFailure, Failing
<1>2. calls[c] \in [at : {"trying"}, attempt : 1..MaxAttempts]
  BY <1>1 DEF BreakInv, CallState, NotCalling
<1>3. calls' \in [Callers -> CallState] /\ calls'[c].at = "counted"
  BY <1>1, <1>2 DEF BreakInv, CallState
<1>4. Pending'
  BY <1>3 DEF Pending
<1> QED BY <1>1, <1>3, <1>4, CountBreak, Results DEF BreakInv, ClientFields

\* and opens it in a later one.
LEMMA OpenGateBreak ==
  ASSUME BreakInv, NEW c \in Callers, OpenGate(c)
  PROVE  BreakInv'
<1>1. /\ openFor' = Cooldown /\ UNCHANGED <<gate, failures, recent>>
      /\ calls' = [calls EXCEPT ![c] = NotCalling] /\ calls[c].at = "judged"
  BY DEF OpenGate
<1>2. gate = "client"
  BY <1>1 DEF BreakInv, BreakerFields, Quiet
<1>3. calls' \in [Callers -> CallState]
  BY <1>1 DEF BreakInv, CallState
<1>4. ClientFields'
  <2> SUFFICES ASSUME failures = Threshold PROVE Cooldown >= Cooldown - recent[1].age
    BY <1>1 DEF ClientFields
  <2>1. Len(recent) \in Nat /\ Len(recent) > 0
    BY Results DEF BreakInv
  <2>2. recent[1].age \in 0..Cooldown
    BY <2>1, Results DEF Result
  <2> QED BY <2>2, Results
<1> QED BY <1>1, <1>2, <1>3, <1>4, Results DEF BreakInv, EndsRow

\* Time passes for the results and for what is left of the cooldown.
LEMMA ClockBreak ==
  ASSUME BreakInv, BreakerClock
  PROVE  BreakInv'
<1> DEFINE older(i) == [recent[i] EXCEPT !.age = IF @ < Cooldown THEN @ + 1 ELSE @]
<1>1. /\ Quiet /\ UNCHANGED <<gate, failures, calls>>
      /\ openFor' = IF openFor > 0 THEN openFor - 1 ELSE openFor
      /\ recent' = [i \in DOMAIN recent |-> older(i)]
  BY DEF BreakerClock, Shut
<1>2. ASSUME NEW i \in 1..Len(recent)
      PROVE  /\ older(i) \in Result /\ older(i).ok = recent[i].ok
             /\ older(i).age = IF recent[i].age < Cooldown THEN recent[i].age + 1
                                                          ELSE recent[i].age
  <2>1. recent[i] \in Result
    BY Results
  <2> QED BY <2>1, Results DEF Result
<1> HIDE DEF older
<1>3. /\ recent' \in Seq(Result) /\ Len(recent') = Len(recent)
      /\ \A i \in 1..Len(recent) : recent'[i] = older(i)
  BY <1>1, <1>2, Results
<1>4. openFor' \in -1..Cooldown
  BY <1>1, Results DEF BreakInv
<1>5. failures < Len(recent) => EndsRow(recent[failures + 1])'
  <2> SUFFICES ASSUME failures < Len(recent) PROVE EndsRow(recent[failures + 1])'
    OBVIOUS
  <2>1. failures + 1 \in 1..Len(recent) /\ EndsRow(recent[failures + 1])
    BY Results DEF BreakInv
  <2> QED BY <1>1, <1>2, <1>3, <2>1, Results DEF EndsRow
<1>6. ASSUME failures = Threshold
      PROVE  /\ recent[1].age \in 0..Cooldown
             /\ recent'[1].age = IF recent[1].age < Cooldown THEN recent[1].age + 1
                                                             ELSE recent[1].age
  <2>1. 1 \in 1..Len(recent)
    BY <1>6, Results DEF BreakInv
  <2> QED BY <1>2, <1>3, <2>1, Results DEF Result
<1>7. gate = "breaker" => BreakerFields'
  BY <1>1, <1>6, Results DEF BreakInv, BreakerFields, NotOpen, Quiet
<1>8. gate = "client" => ClientFields'
  <2>1. ~Pending
    BY <1>1 DEF Quiet, Pending
  <2> QED BY SMTT(30), <1>1, <1>6, <2>1, Results DEF BreakInv, ClientFields
<1>9. failures \in 0..Threshold /\ \A i \in 1..failures : ~recent'[i].ok
  BY <1>2, <1>3, Results DEF BreakInv
<1> QED BY <1>1, <1>3, <1>4, <1>5, <1>7, <1>8, <1>9 DEF BreakInv

\* Every step preserves the invariant.
LEMMA NextBreak == BreakInv /\ [BreakerNext]_breakerVars => BreakInv'
<1> SUFFICES ASSUME BreakInv, [BreakerNext]_breakerVars PROVE BreakInv'
  OBVIOUS
<1>1. CASE UNCHANGED breakerVars
  BY <1>1 DEF breakerVars, BreakInv, BreakerFields, ClientFields, EndsRow, Quiet, Pending
<1>2. CASE BreakerNext
  BY <1>2, CallsBreak, LapseBreak, SucceedBreak, FailBreak, CountFailureBreak,
     OpenGateBreak, ClockBreak DEF BreakerNext
<1> QED BY <1>1, <1>2

\* The inductive invariant of the two gates (resilience.py, and the Polymarket client).
THEOREM BreakInvariance == BreakerSpec => []BreakInv
  BY InitBreak, NextBreak, PTL DEF BreakerSpec

\* The fields of a gate and the row of its results, whatever the callers do.
THEOREM BreakerTyped == BreakerSpec => []BreakerTypeOK
<1>1. ASSUME BreakInv PROVE BreakerTypeOK
  <2>1. \A i \in DOMAIN recent : recent[i].ok \in BOOLEAN /\ recent[i].age \in 0..Cooldown
    BY <1>1, Results DEF Result
  <2> QED BY <1>1, <2>1 DEF BreakInv, BreakerTypeOK, CallState
<1> QED BY <1>1, BreakInvariance, PTL

\* Whatever late answers, probes, lapses and thread switches do to the two fields, a gate
\* is shut while its last results are all recent failures, and a breaker only then, for
\* any threshold, cooldown and number of callers.
THEOREM ShutInTime == BreakerSpec => []ShutExactlyWhileFailing
<1>1. ASSUME BreakInv, Quiet, FailedRow(Threshold) PROVE Shut
  <2>1. /\ Len(recent) = Threshold
        /\ \A i \in 1..Threshold : ~recent[i].ok /\ recent[i].age < Cooldown
    BY <1>1, Results DEF FailedRow
  <2>2. failures = Threshold
    <3> SUFFICES ASSUME failures # Threshold PROVE FALSE
      OBVIOUS
    <3>1. failures + 1 \in 1..Threshold /\ EndsRow(recent[failures + 1])
      BY <1>1, <2>1, Results DEF BreakInv
    <3> QED BY <2>1, <3>1, Results, <1>1 DEF EndsRow, BreakInv
  <2>3. recent[1] \in Result /\ recent[1].age < Cooldown
    BY <1>1, <2>1, Results
  <2>4. ~Pending
    BY <1>1 DEF Quiet, Pending
  <2> QED BY <1>1, <2>2, <2>3, <2>4, Results
          DEF BreakInv, BreakerFields, ClientFields, Shut, Result
<1>2. ASSUME BreakInv, gate = "breaker", Shut PROVE FailedRow(1)
  <2>1. /\ failures = Threshold /\ Len(recent) = Threshold
        /\ openFor = Cooldown - recent[1].age /\ openFor > 0
    BY <1>2, Results DEF BreakInv, BreakerFields, Shut, NotOpen
  <2>2. recent[1].age \in 0..Cooldown
    BY <1>2, <2>1, Results DEF Result
  <2> QED BY <1>2, <2>1, <2>2, Results DEF BreakInv, FailedRow
<1>3. BreakInv => ShutExactlyWhileFailing
  BY <1>1, <1>2 DEF ShutExactlyWhileFailing
<1> QED BY <1>3, BreakInvariance, PTL

-------------------------------------------------------------------------------------
(* MCBackend.                                                                      *)

backendVars ==
    <<vars, fanVars, cacheVars, rateVars, arenaVars, breakerVars, writerVars, scannerVars,
      podVars, explored, crew>>

\* Bounding who takes part, and in what order identifiers are used, only takes steps away.
LEMMA CrewsAreSessions ==
  /\ CacheStep => CacheNext
  /\ ArenaStep => ArenaNext
  /\ WriterStep => WriterNext
  /\ ScannerStep => ScannerNext
<1>1. CacheStep => CacheNext
  BY DEF CacheStep
<1>2. ArenaStep => ArenaNext
  BY DEF ArenaStep, ArenaNext
<1>3. WriterStep => WriterNext
  BY DEF WriterStep, WriterNext
<1>4. ScannerStep => ScannerNext
  BY DEF ScannerStep
<1> QED BY <1>1, <1>2, <1>3, <1>4

\* A step of the composition is a step of the part explored; the others stand still.
LEMMA StepIsAPartsStep ==
  ASSUME [MCNext]_backendVars
  PROVE  /\ [Next]_vars /\ [FanNext]_fanVars /\ [CacheNext]_cacheVars
         /\ [RateNext]_rateVars /\ [ArenaNext]_arenaVars /\ [BreakerNext]_breakerVars
         /\ [WriterNext]_writerVars /\ [ScannerNext]_scannerVars /\ [PodNext]_podVars
<1>1. CASE UNCHANGED backendVars
  BY <1>1 DEF backendVars
<1>2. CASE MCNext
  <2>1. [Next]_vars
    BY <1>2 DEF MCNext, Still
  <2>2. [FanNext]_fanVars
    BY <1>2 DEF MCNext, Still
  <2>3. [CacheNext]_cacheVars
    BY <1>2, CrewsAreSessions DEF MCNext, Still
  <2>4. [RateNext]_rateVars
    BY <1>2 DEF MCNext, Still
  <2>5. [ArenaNext]_arenaVars
    BY <1>2, CrewsAreSessions DEF MCNext, Still
  <2>6. [BreakerNext]_breakerVars
    BY <1>2 DEF MCNext, Still
  <2>7. [WriterNext]_writerVars
    BY <1>2, CrewsAreSessions DEF MCNext, Still
  <2>8. [ScannerNext]_scannerVars
    BY <1>2, CrewsAreSessions DEF MCNext, Still
  <2>9. [PodNext]_podVars
    BY <1>2 DEF MCNext, Still
  <2> QED BY <2>1, <2>2, <2>3, <2>4, <2>5, <2>6, <2>7, <2>8, <2>9
<1> QED BY <1>1, <1>2

\* What MCBackend explores is a behaviour of each of its nine parts: what is proved of a
\* part, in this module and in those it extends, is proved of the composition.
THEOREM EveryPartRuns ==
  MCSpec => /\ Spec /\ FanSpec /\ CacheSpec /\ RateSpec /\ ArenaSpec /\ BreakerSpec
            /\ WriterSpec /\ ScannerSpec /\ PodSpec
<1>1. MCInit => /\ Init /\ FanInit /\ CacheInit /\ RateInit /\ ArenaInit /\ BreakerInit
                /\ WriterInit /\ ScannerInit /\ PodInit
  BY DEF MCInit
<1> QED
  BY <1>1, StepIsAPartsStep, PTL DEF MCSpec, backendVars, Spec, FanSpec, CacheSpec, RateSpec,
     ArenaSpec, BreakerSpec, WriterSpec, ScannerSpec, PodSpec

\* The nine parts of the backend, next to each other, keep the types of their state: the
\* queues their size, the cache its keys, a forecast row its columns.
THEOREM PartsTyped == MCSpec => []PartTypesOK
<1>1. /\ TypeOK /\ FanTypeOK /\ CacheTypeOK /\ RateTypeOK /\ ForecastTypeOK
      /\ BreakerTypeOK /\ WriterTypeOK /\ ScannerTypeOK /\ PodTypeOK
      => PartTypesOK
  BY DEF PartTypesOK
<1> QED
  BY <1>1, EveryPartRuns, BookIsTyped, FanTyped, CacheTyped, RateTyped, ArenaTyped,
     BreakerTyped, Typed, ScanTyped, PodTyped, PTL

=====================================================================================

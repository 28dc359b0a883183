----------------------------- MODULE ClobLedgerProofs -----------------------------
(***********************************************************************************)
(* Orders and balances reconcile with the fills, and the service looks like one    *)
(* request at a time, for any accounts, requests, bodies and bounds.               *)
(*                                                                                 *)
(* What an order counts as filled is the sum of its fills, and what an account     *)
(* holds is what it was seeded with, plus its sales, less its purchases.  The      *)
(* committed rows do not prove it alone.  Every version of a row is explained      *)
(* by the committed fills and those its holder has made and not committed; of a    *)
(* fill whose buyer's leg is posted and whose seller's is not, the buyer's half    *)
(* counts.  Nothing a request has made is of a row another holds, so one           *)
(* request's step leaves the explanations of the others alone, and a commit only   *)
(* moves fills from one side of the sum to the other.                              *)
(*                                                                                 *)
(* One request at a time: what a request has written and not committed is a step   *)
(* of AtomicExchange it has yet to take, so its commit takes it whole.             *)
(*                                                                                 *)
(* A heartbeat or pod pass that swallows the failure of a debit commits a fill no  *)
(* leg of which is posted; the theorems are about the behaviours in which none     *)
(* does (with Passes = {} they are all of them).                                   *)
(***********************************************************************************)
EXTENDS ClobProofs, DataLemmas

\* No pass has swallowed a failed debit.
NoneSwallowed == \A t \in Requests : tx[t].pc # "swallowed"

SellerLeg == {"seller", "sellerRow", "sellerPost"}

QtySum(F) == MapThenSumSet(LAMBDA f : f.qty, F)
Value(F)  == MapThenSumSet(LAMBDA f : f.price * f.qty, F)

Base(o) == IF o \in DOMAIN SeedOrders THEN SeedOrders[o].filled ELSE 0

Worth(f) == f.price * f.qty

On(F, o)     == {f \in F : o \in {f.buy, f.sell}}
Bought(F, a) == {f \in F : ordersW[f.buy].account = a}
Sold(F, a)   == {f \in F : ordersW[f.sell].account = a}

\* What the holder of a row has made and not committed.
Own(h)   == IF h \in Requests THEN tx[h].made ELSE {}
Known(h) == fills \cup Own(h)

Halfway(h) == h \in Requests /\ tx[h].pc \in SellerLeg

HalfQty(h, o)   == IF Halfway(h) /\ o = BuyId(h) THEN tx[h].applied ELSE 0
HalfValue(h, a) == IF Halfway(h) /\ LegAccount(h, "buyer") = a
                   THEN tx[h].applied * FillPrice(h) ELSE 0

RowExplained(o) ==
    ordersW[o] # None =>
        ordersW[o].filled = Base(o) + QtySum(On(Known(orderBy[o]), o)) + HalfQty(orderBy[o], o)

BalanceExplained(a) ==
    cashW[a] = SeedCash[a] + Value(Sold(Known(cashBy[a]), a))
                 - Value(Bought(Known(cashBy[a]), a)) - HalfValue(cashBy[a], a)

CommittedExplained ==
    /\ \A o \in OrderIds : Exists(o) => orders[o].filled = Base(o) + QtySum(On(fills, o))
    /\ \A a \in Accounts : cash[a] = SeedCash[a] + Value(Sold(fills, a)) - Value(Bought(fills, a))

\* Committed fills are of committed orders.
FillsFine == IsFiniteSet(fills) /\ \A f \in fills : Exists(f.buy) /\ Exists(f.sell)

\* The orders and accounts of an uncommitted fill are in the hands of its request.
Holds(u, f) ==
    /\ u \in {f.buy, f.sell}
    /\ \A o \in {f.buy, f.sell} :
          /\ orderBy[o] = u /\ ordersW[o] # None /\ cashBy[ordersW[o].account] = u
          /\ \A e \in tx[u].snap : e.id # o
          /\ tx[u].pc \in Legs => o # tx[u].maker

\* No maker is met twice, and the legs still to post have the room for it.
MadeFine(u) ==
    /\ IsFiniteSet(tx[u].made)
    /\ tx[u].pc \notin Matching => tx[u].made = {}
    /\ \A f \in tx[u].made : Holds(u, f)
    /\ tx[u].pc \in Legs =>
          /\ \A e \in tx[u].snap : e.id # tx[u].maker
          /\ tx[u].applied <= Room(SellId(u))
          /\ tx[u].pc \notin SellerLeg => tx[u].applied <= Room(BuyId(u))
    /\ tx[u].pc \in SellerLeg => cashBy[LegAccount(u, "buyer")] = u

CashSynced == \A a \in Accounts : cashBy[a] = None => cashW[a] = cash[a]

Reconciled ==
    /\ FillsFine /\ CashSynced /\ CommittedExplained
    /\ \A o \in OrderIds : RowExplained(o)
    /\ \A a \in Accounts : BalanceExplained(a)
    /\ \A u \in Requests : MadeFine(u)

LedgerInv == KInv /\ Reconciled

LEMMA TotalOut ==
  \A S : IsFiniteSet(S) => \A x \in S : \A w \in [S -> Int], v \in [S \ {x} -> Int] :
      (\A y \in S \ {x} : v[y] = w[y]) => Total(w) = w[x] + Total(v)
  BY TotalTakes

\* The sum of the quantities of a finite set of fills.
LEMMA QtyTotal ==
  ASSUME NEW R, R \subseteq Fill, IsFiniteSet(R)
  PROVE  QtySum(R) = Total([f \in R |-> f.qty]) /\ [f \in R |-> f.qty] \in [R -> Int]
<1> DEFINE v == [f \in R |-> f.qty]
           Iter(h) == h = [s \in SUBSET R |-> IF s = {} THEN 0
                            ELSE Pick(s).qty + h[s \ {Pick(s)}]]
<1>1. \A s \in SUBSET R : s # {} => v[Pick(s)] = Pick(s).qty
  BY Picked
<1>2. ASSUME NEW h PROVE Iter(h) <=> Summing(h, R, v)
  <2> HIDE DEF v
  <2> QED BY <1>1 DEF Summing
<1>3. QtySum(R) = (CHOOSE h : Iter(h))[R]
  BY DEF QtySum, MapThenSumSet, MapThenFoldSet, Pick
<1>4. (CHOOSE h : Iter(h)) = (CHOOSE h : Summing(h, R, v))
  <2> HIDE DEF Iter, v
  <2> QED BY <1>2
<1>5. DOMAIN v = R
  OBVIOUS
<1>6. QtySum(R) = Total(v)
  <2> HIDE DEF Iter, v
  <2> QED BY <1>3, <1>4, <1>5 DEF Total
<1>7. v \in [R -> Int]
  BY BodyAssumption DEF Fill, Ticks
<1> QED BY <1>6, <1>7

LEMMA QtyOf ==
  ASSUME NEW T, T \subseteq Fill, IsFiniteSet(T)
  PROVE  /\ QtySum(T) \in Int
         /\ T = {} => QtySum(T) = 0
         /\ \A f \in T : QtySum(T) = f.qty + QtySum(T \ {f})
<1> DEFINE w(R) == [f \in R |-> f.qty]
<1>1. ASSUME NEW R \in SUBSET T
      PROVE  QtySum(R) = Total(w(R)) /\ w(R) \in [R -> Int] /\ IsFiniteSet(R)
  BY QtyTotal, FS_Subset
<1>2. QtySum(T) \in Int /\ (T = {} => QtySum(T) = 0)
  <2> HIDE DEF w
  <2> QED BY <1>1, TotalType
<1>3. ASSUME NEW f \in T PROVE QtySum(T) = f.qty + QtySum(T \ {f})
  <2>1. w(T)[f] = f.qty /\ \A y \in T \ {f} : w(T \ {f})[y] = w(T)[y]
    OBVIOUS
  <2>2. T \in SUBSET T /\ T \ {f} \in SUBSET T
    OBVIOUS
  <2>3. /\ QtySum(T) = Total(w(T)) /\ w(T) \in [T -> Int]
        /\ QtySum(T \ {f}) = Total(w(T \ {f})) /\ w(T \ {f}) \in [T \ {f} -> Int]
    BY <1>1, <2>2, Zenon
  <2> HIDE DEF w
  <2>4. Total(w(T)) = w(T)[f] + Total(w(T \ {f}))
    BY TotalOut, <2>1, <2>3
  <2> QED BY <2>1, <2>3, <2>4
<1> QED BY <1>2, <1>3

\* The sum of their values.
LEMMA ValueTotal ==
  ASSUME NEW R, R \subseteq Fill, IsFiniteSet(R)
  PROVE  Value(R) = Total([f \in R |-> f.price * f.qty]) /\ [f \in R |-> f.price * f.qty] \in [R -> Int]
<1> DEFINE v == [f \in R |-> f.price * f.qty]
           Iter(h) == h = [s \in SUBSET R |-> IF s = {} THEN 0
                            ELSE Pick(s).price * Pick(s).qty + h[s \ {Pick(s)}]]
<1>1. \A s \in SUBSET R : s # {} => v[Pick(s)] = Pick(s).price * Pick(s).qty
  BY Picked
<1>2. ASSUME NEW h PROVE Iter(h) <=> Summing(h, R, v)
  <2> HIDE DEF v
  <2> QED BY <1>1 DEF Summing
<1>3. Value(R) = (CHOOSE h : Iter(h))[R]
  BY DEF Value, MapThenSumSet, MapThenFoldSet, Pick
<1>4. (CHOOSE h : Iter(h)) = (CHOOSE h : Summing(h, R, v))
  <2> HIDE DEF Iter, v
  <2> QED BY <1>2
<1>5. DOMAIN v = R
  OBVIOUS
<1>6. Value(R) = Total(v)
  <2> HIDE DEF Iter, v
  <2> QED BY <1>3, <1>4, <1>5 DEF Total
<1>7. v \in [R -> Int]
  BY BodyAssumption DEF Fill, Ticks
<1> QED BY <1>6, <1>7

LEMMA ValueOf ==
  ASSUME NEW T, T \subseteq Fill, IsFiniteSet(T)
  PROVE  /\ Value(T) \in Int
         /\ T = {} => Value(T) = 0
         /\ \A f \in T : Value(T) = f.price * f.qty + Value(T \ {f})
<1> DEFINE w(R) == [f \in R |-> f.price * f.qty]
<1>1. ASSUME NEW R \in SUBSET T
      PROVE  Value(R) = Total(w(R)) /\ w(R) \in [R -> Int] /\ IsFiniteSet(R)
  BY ValueTotal, FS_Subset
<1>2. Value(T) \in Int /\ (T = {} => Value(T) = 0)
  <2> HIDE DEF w
  <2> QED BY <1>1, TotalType
<1>4. \A f \in T : \A v \in [T -> Int], u \in [T \ {f} -> Int] :
         (\A y \in T \ {f} : u[y] = v[y]) => Total(v) = v[f] + Total(u)
  BY TotalOut
<1>3. ASSUME NEW f \in T PROVE Value(T) = f.price * f.qty + Value(T \ {f})
  <2>1. w(T)[f] = f.price * f.qty /\ \A y \in T \ {f} : w(T \ {f})[y] = w(T)[y]
    OBVIOUS
  <2>2. T \in SUBSET T /\ T \ {f} \in SUBSET T
    OBVIOUS
  <2>3. /\ Value(T) = Total(w(T)) /\ w(T) \in [T -> Int]
        /\ Value(T \ {f}) = Total(w(T \ {f})) /\ w(T \ {f}) \in [T \ {f} -> Int]
    BY <1>1, <2>2, Zenon
  <2> HIDE DEF w
  <2>4. Total(w(T)) = w(T)[f] + Total(w(T \ {f}))
    BY <1>4, <2>1, <2>3
  <2> QED BY <2>1, <2>3, <2>4
<1> QED BY <1>2, <1>3

\* Fills of two kinds.
LEMMA TwoKinds ==
  ASSUME NEW F \in SUBSET Fill, IsFiniteSet(F), NEW G \in SUBSET Fill, IsFiniteSet(G),
         F \cap G = {}
  PROVE  /\ QtySum(F \cup G) = QtySum(F) + QtySum(G) /\ QtySum(F) \in Int /\ QtySum(G) \in Int
         /\ Value(F \cup G) = Value(F) + Value(G) /\ Value(F) \in Int /\ Value(G) \in Int
<1> DEFINE T == F \cup G
           q(R) == [f \in R |-> f.qty]
           v(R) == [f \in R |-> f.price * f.qty]
<1>1. T \subseteq Fill /\ IsFiniteSet(T) /\ F \in SUBSET T /\ T \ F = G
  BY FS_Union
<1>2. /\ \A f \in F : q(F)[f] = q(T)[f] /\ v(F)[f] = v(T)[f]
      /\ \A f \in G : q(G)[f] = q(T)[f] /\ v(G)[f] = v(T)[f]
  BY <1>1
<1>3. \A R \in {F, G, T} : /\ QtySum(R) = Total(q(R)) /\ q(R) \in [R -> Int]
                           /\ Value(R) = Total(v(R)) /\ v(R) \in [R -> Int]
  BY <1>1, QtyTotal, ValueTotal
<1> HIDE DEF T, q, v
<1>4. Total(q(T)) = Total(q(F)) + Total(q(G)) /\ Total(v(T)) = Total(v(F)) + Total(v(G))
  <2>1. InParts(T, F, q(T), q(F), q(G)) /\ InParts(T, F, v(T), v(F), v(G))
    BY <1>1, <1>2, <1>3 DEF InParts
  <2> QED BY <2>1, TotalSplits
<1>5. \A R \in {F, G} : QtySum(R) \in Int /\ Value(R) \in Int
  BY QtyOf, ValueOf
<1> QED BY <1>1, <1>3, <1>4, <1>5 DEF T

\* One fill more.
LEMMA OneMore ==
  ASSUME NEW F \in SUBSET Fill, IsFiniteSet(F), NEW f \in Fill, f \notin F
  PROVE  /\ f.qty \in Int /\ Worth(f) \in Int
         /\ QtySum(F) \in Int /\ QtySum(F \cup {f}) = QtySum(F) + f.qty
         /\ Value(F) \in Int /\ Value(F \cup {f}) = Value(F) + Worth(f)
<1> DEFINE T == F \cup {f}
<1>1. T \in SUBSET Fill /\ f \in T /\ T \ {f} = F
  OBVIOUS
<1>2. IsFiniteSet(T)
  BY FS_AddElement
<1> HIDE DEF T
<1>3. QtySum(F) \in Int /\ Value(F) \in Int
  BY QtyOf, ValueOf
<1>4. QtySum(T) = f.qty + QtySum(F) /\ Value(T) = Worth(f) + Value(F)
  BY <1>1, <1>2, QtyOf, ValueOf DEF Worth
<1>5. f.qty \in Int /\ Worth(f) \in Int
  BY BodyAssumption DEF Fill, Ticks, Worth
<1> QED BY <1>3, <1>4, <1>5 DEF T

-------------------------------------------------------------------------------------
(* What any step leaves of the explanations.                                        *)

LEMMA KnownType ==
  ASSUME LedgerInv
  PROVE  /\ IsFiniteSet(fills) /\ fills \subseteq Fill
         /\ \A h : /\ IsFiniteSet(Known(h)) /\ Known(h) \subseteq Fill
                   /\ Own(h) \subseteq Fill /\ IsFiniteSet(Own(h))
         /\ Own(None) = {} /\ ~Halfway(None) /\ Own(Sweeper) = {} /\ ~Halfway(Sweeper)
<1>1. fills \subseteq Fill /\ IsFiniteSet(fills)
  BY DEF LedgerInv, KInv, FInv, IInv, TypeOK, Reconciled, FillsFine
<1>2. \A u \in Requests : tx[u].made \subseteq Fill /\ IsFiniteSet(tx[u].made)
  BY DEF LedgerInv, KInv, FInv, IInv, TypeOK, TxType, Reconciled, MadeFine
<1>3. ASSUME NEW h
      PROVE  /\ IsFiniteSet(Known(h)) /\ Known(h) \subseteq Fill
             /\ Own(h) \subseteq Fill /\ IsFiniteSet(Own(h))
  <2>1. IsFiniteSet(Own(h)) /\ Own(h) \subseteq Fill
    BY <1>2, FS_EmptySet DEF Own
  <2> QED BY <1>1, <2>1, FS_Union DEF Known
<1>4. None \notin Requests /\ Sweeper \notin Requests
  BY SeedAssumption DEF Lockers
<1> QED BY <1>1, <1>3, <1>4 DEF Own, Halfway

\* An uncommitted fill touches no row another holds.
LEMMA Foreign ==
  ASSUME LedgerInv, NEW s \in Lockers
  PROVE  /\ \A o \in OrderIds : orderBy[o] # s => On(Known(s), o) = On(fills, o)
         /\ \A a \in Accounts : cashBy[a] # s => /\ Sold(Known(s), a) = Sold(fills, a)
                                                 /\ Bought(Known(s), a) = Bought(fills, a)
<1>1. \A f \in Own(s) : /\ orderBy[f.buy] = s /\ orderBy[f.sell] = s
                        /\ cashBy[ordersW[f.buy].account] = s
                        /\ cashBy[ordersW[f.sell].account] = s
  BY DEF LedgerInv, Reconciled, MadeFine, Holds, Own
<1> QED BY <1>1 DEF Known, On, Sold, Bought

\* A row that s holds or could take is explained as if s held it.
LEMMA AsHeld ==
  ASSUME LedgerInv, NEW s \in Lockers
  PROVE  /\ \A o \in OrderIds : orderBy[o] \in {None, s} /\ ordersW[o] # None =>
               ordersW[o].filled = Base(o) + QtySum(On(Known(s), o)) + HalfQty(s, o)
         /\ \A a \in Accounts : cashBy[a] \in {None, s} =>
               cashW[a] = SeedCash[a] + Value(Sold(Known(s), a))
                            - Value(Bought(Known(s), a)) - HalfValue(s, a)
<1>1. Known(None) = fills /\ None # s
  BY KnownType, SeedAssumption DEF Known
<1>2. ASSUME NEW o \in OrderIds, orderBy[o] \in {None, s}, ordersW[o] # None
      PROVE  ordersW[o].filled = Base(o) + QtySum(On(Known(s), o)) + HalfQty(s, o)
  <2>1. CASE orderBy[o] = s
    BY <1>2, <2>1 DEF LedgerInv, Reconciled, RowExplained
  <2>2. CASE orderBy[o] = None
    <3>1. ordersW[o].filled = Base(o) + QtySum(On(Known(None), o)) + HalfQty(None, o)
      BY <1>2, <2>2 DEF LedgerInv, Reconciled, RowExplained
    <3>2. On(Known(s), o) = On(Known(None), o)
      BY <1>1, <2>2, Foreign
    <3>3. HalfQty(None, o) = 0
      BY KnownType DEF HalfQty
    <3>4. HalfQty(s, o) = 0
      <4>1. Halfway(s) => orderBy[BuyId(s)] = s
        BY DEF LedgerInv, KInv, FInv, IInv, TxFine, Halfway, SellerLeg, BuyId, Legs, Matching
      <4> QED BY <1>1, <2>2, <4>1 DEF HalfQty
    <3> QED BY <3>1, <3>2, <3>3, <3>4
  <2> QED BY <1>2, <2>1, <2>2
<1>3. ASSUME NEW a \in Accounts, cashBy[a] \in {None, s}
      PROVE  cashW[a] = SeedCash[a] + Value(Sold(Known(s), a))
                          - Value(Bought(Known(s), a)) - HalfValue(s, a)
  <2>1. CASE cashBy[a] = s
    BY <2>1 DEF LedgerInv, Reconciled, BalanceExplained
  <2>2. CASE cashBy[a] = None
    <3>1. cashW[a] = SeedCash[a] + Value(Sold(Known(None), a))
                       - Value(Bought(Known(None), a)) - HalfValue(None, a)
      BY <2>2 DEF LedgerInv, Reconciled, BalanceExplained
    <3>2. Sold(Known(s), a) = Sold(Known(None), a) /\ Bought(Known(s), a) = Bought(Known(None), a)
      BY <1>1, <2>2, Foreign
    <3>3. HalfValue(None, a) = 0
      BY KnownType DEF HalfValue
    <3>4. HalfValue(s, a) = 0
      BY <1>1, <2>2 DEF LedgerInv, Reconciled, MadeFine, Halfway, HalfValue
    <3> QED BY <3>1, <3>2, <3>3, <3>4
  <2> QED BY <1>3, <2>1, <2>2
<1> QED BY <1>2, <1>3

\* The rows of the others are theirs.
Leaves(s) ==
    /\ \A u \in Requests \ {s} : tx'[u] = tx[u]
    /\ \A o \in OrderIds :
          orderBy[o] \notin {None, s} \/ orderBy'[o] \notin {None, s} =>
             orderBy'[o] = orderBy[o] /\ ordersW'[o] = ordersW[o] /\ orders'[o] = orders[o]
    /\ \A a \in Accounts :
          cashBy[a] \notin {None, s} \/ cashBy'[a] \notin {None, s} =>
             cashBy'[a] = cashBy[a] /\ cashW'[a] = cashW[a] /\ cash'[a] = cash[a]

LEMMA OthersMade ==
  ASSUME LedgerInv, NEW s \in Lockers, Leaves(s), NEW u \in Requests, u # s
  PROVE  MadeFine(u)'
<1>1. tx'[u] = tx[u] /\ MadeFine(u) /\ TxFine(u) /\ u # None /\ u \in OrderIds
  BY SeedAssumption DEF LedgerInv, KInv, FInv, IInv, Reconciled, Leaves, Lockers, OrderIds
<1>2. tx[u].made \subseteq Fill /\ ordersW \in [OrderIds -> Order \cup {None}]
  BY DEF LedgerInv, KInv, FInv, IInv, TypeOK, TxType
<1>3. \A o \in OrderIds : orderBy[o] = u => orderBy'[o] = u /\ ordersW'[o] = ordersW[o]
  BY <1>1 DEF Leaves
<1>4. \A a \in Accounts : cashBy[a] = u => cashBy'[a] = u
  BY <1>1 DEF Leaves
<1>5. ASSUME NEW f \in tx[u].made PROVE Holds(u, f)'
  <2>1. Holds(u, f) /\ f.buy \in OrderIds /\ f.sell \in OrderIds
    BY <1>1, <1>2 DEF MadeFine, Fill
  <2>2. \A o \in {f.buy, f.sell} : ordersW[o].account \in Accounts
    BY <1>2, <2>1 DEF Holds, Order
  <2> QED BY <1>1, <1>3, <1>4, <2>1, <2>2 DEF Holds
<1>6. tx[u].pc \in Legs =>
         /\ BuyId(u) \in OrderIds /\ SellId(u) \in OrderIds
         /\ orderBy[BuyId(u)] = u /\ orderBy[SellId(u)] = u
         /\ LegAccount(u, "buyer") \in Accounts
  <2> SUFFICES ASSUME tx[u].pc \in Legs
               PROVE  /\ BuyId(u) \in OrderIds /\ SellId(u) \in OrderIds
                      /\ orderBy[BuyId(u)] = u /\ orderBy[SellId(u)] = u
                      /\ LegAccount(u, "buyer") \in Accounts
    OBVIOUS
  <2>1. orderBy[BuyId(u)] = u /\ orderBy[SellId(u)] = u
    BY <1>1 DEF TxFine, BuyId, SellId, Matching
  <2> QED BY <2>1, LegFacts DEF LedgerInv, KInv, FInv
<1>7. BuyId(u)' = BuyId(u) /\ SellId(u)' = SellId(u)
  BY <1>1 DEF BuyId, SellId
<1>8. tx[u].pc \in Legs =>
         /\ Room(BuyId(u))' = Room(BuyId(u)) /\ Room(SellId(u))' = Room(SellId(u))
         /\ LegAccount(u, "buyer")' = LegAccount(u, "buyer")
  BY <1>3, <1>6, <1>7 DEF Room, LegAccount
<1>9. SellerLeg \subseteq Legs
  BY DEF SellerLeg, Legs
<1> QED BY <1>1, <1>4, <1>5, <1>6, <1>8, <1>9 DEF MadeFine

\* The accounts of the orders of a fill stay what they are.
LEMMA Owned ==
  ASSUME LedgerInv, GoesOn, NEW s \in Lockers, Leaves(s), NEW h, h # s,
         NEW f \in Known(h)
  PROVE  /\ ordersW'[f.buy].account = ordersW[f.buy].account
         /\ ordersW'[f.sell].account = ordersW[f.sell].account
<1>1. CASE f \in fills
  <2>1. Exists(f.buy) /\ Exists(f.sell) /\ f \in Fill
    BY <1>1, KnownType DEF LedgerInv, Reconciled, FillsFine
  <2>2. ASSUME NEW o \in OrderIds, Exists(o) PROVE ordersW'[o].account = ordersW[o].account
    <3>1. Continues(orders[o], ordersW[o]) /\ Continues(orders[o], orders'[o])
      BY <2>2 DEF LedgerInv, KInv, FInv, Compatible, GoesOn
    <3>2. Continues(orders'[o], ordersW'[o])
      BY <3>1 DEF GoesOn, Continues
    <3> QED BY <3>1, <3>2 DEF Continues
  <2> QED BY <2>1, <2>2 DEF Fill
<1>2. CASE f \in Own(h)
  <2>1. h \in Requests /\ Holds(h, f) /\ f \in Fill
    BY <1>2, KnownType DEF LedgerInv, Reconciled, MadeFine, Own
  <2>2. h # None
    BY <2>1, SeedAssumption DEF Lockers
  <2> QED BY <2>1, <2>2 DEF Holds, Leaves, Fill
<1> QED BY <1>1, <1>2 DEF Known

\* The half-posted fill of another stays what it is.
LEMMA HalfStays ==
  ASSUME LedgerInv, NEW s \in Lockers, Leaves(s), NEW h, h # s
  PROVE  /\ \A o : HalfQty(h, o)' = HalfQty(h, o)
         /\ \A a : HalfValue(h, a)' = HalfValue(h, a)
<1>1. CASE h \notin Requests
  BY <1>1 DEF HalfQty, HalfValue, Halfway
<1>2. CASE h \in Requests
  <2>1. tx'[h] = tx[h] /\ h # None
    BY <1>2, SeedAssumption DEF Leaves, Lockers
  <2>2. \A o : HalfQty(h, o)' = HalfQty(h, o)
    BY <2>1 DEF HalfQty, Halfway, BuyId
  <2>3. ASSUME Halfway(h)
        PROVE  LegAccount(h, "buyer")' = LegAccount(h, "buyer") /\ FillPrice(h)' = FillPrice(h)
    <3>1. tx[h].pc \in Legs
      BY <2>3 DEF Halfway, SellerLeg, Legs
    <3>2. /\ orderBy[h] = h /\ orderBy[tx[h].maker] = h
          /\ h \in OrderIds /\ tx[h].maker \in OrderIds
      BY <1>2, <3>1 DEF LedgerInv, KInv, FInv, IInv, TxFine, Matching, OrderIds
    <3> QED BY <2>1, <3>2 DEF LegAccount, BuyId, FillPrice, Leaves
  <2>4. \A a : HalfValue(h, a)' = HalfValue(h, a)
    BY <2>1, <2>3 DEF HalfValue, Halfway
  <2> QED BY <2>2, <2>4
<1> QED BY <1>1, <1>2

\* A step that commits nothing reconciles if the rows of its transaction do.
LEMMA Frame ==
  ASSUME LedgerInv, KInv', GoesOn, NEW s \in Lockers, Leaves(s),
         UNCHANGED <<fills, orders, cash>>, CashSynced',
         \A o \in OrderIds : orderBy'[o] = s => RowExplained(o)',
         \A a \in Accounts : cashBy'[a] = s => BalanceExplained(a)',
         s \in Requests => MadeFine(s)'
  PROVE  LedgerInv'
<1>1. Known(None)' = fills /\ Known(None) = fills /\ None # s
  BY SeedAssumption DEF Known, Own, Lockers
<1>2. ASSUME NEW h, h # s, h \in Lockers \cup {None} PROVE Known(h)' = Known(h)
  BY <1>2 DEF Known, Own, Leaves
<1>3. ASSUME NEW h, h # s, h \in Lockers \cup {None}, NEW a
      PROVE  /\ Sold(Known(h), a)' = Sold(Known(h), a)
             /\ Bought(Known(h), a)' = Bought(Known(h), a)
  <2>1. \A f \in Known(h) : /\ ordersW'[f.buy].account = ordersW[f.buy].account
                            /\ ordersW'[f.sell].account = ordersW[f.sell].account
    BY <1>3, Owned
  <2> QED BY <1>2, <1>3, <2>1 DEF Sold, Bought
<1>4. \A a : Sold(fills, a)' = Sold(fills, a) /\ Bought(fills, a)' = Bought(fills, a)
  <2>1. \A f \in fills : /\ ordersW'[f.buy].account = ordersW[f.buy].account
                         /\ ordersW'[f.sell].account = ordersW[f.sell].account
    BY <1>1, Owned
  <2> QED BY <2>1 DEF Sold, Bought
<1>5. FillsFine'
  BY DEF LedgerInv, Reconciled, FillsFine, Exists
<1>6. CommittedExplained'
  <2>1. \A o \in OrderIds : On(fills, o)' = On(fills, o)
    BY DEF On
  <2>2. \A o \in OrderIds : Exists(o)' => orders'[o].filled = Base(o) + QtySum(On(fills, o)')
    BY <2>1 DEF LedgerInv, Reconciled, CommittedExplained, Exists
  <2>3. \A a \in Accounts : cash'[a] = SeedCash[a] + Value(Sold(fills, a)') - Value(Bought(fills, a)')
    BY <1>4 DEF LedgerInv, Reconciled, CommittedExplained
  <2> QED BY <2>2, <2>3 DEF CommittedExplained
<1>7. ASSUME NEW o \in OrderIds PROVE RowExplained(o)'
  <2>1. CASE orderBy'[o] = s
    BY <2>1
  <2>2. CASE orderBy'[o] = None
    <3>1. ordersW'[o] = orders[o]
      BY <2>2 DEF KInv, FInv, IInv, Synced
    <3>2. Known(orderBy[o])' = fills /\ HalfQty(orderBy[o], o)' = 0
      BY <2>2, SeedAssumption DEF Known, Own, HalfQty, Halfway, Lockers
    <3>3. ordersW'[o] # None => ordersW'[o].filled = Base(o) + QtySum(On(fills, o)) + 0
      <4>1. ordersW'[o] # None => ordersW'[o].filled = Base(o) + QtySum(On(fills, o))
        BY <3>1 DEF LedgerInv, Reconciled, CommittedExplained, Exists
      <4>2. Base(o) + QtySum(On(fills, o)) \in Int
        <5>1. QtySum(On(fills, o)) \in Int
          BY KnownType, FS_Subset, QtyOf DEF On
        <5>2. Base(o) \in Int
          BY SeedAssumption, BodyAssumption DEF Base, Order
        <5> QED BY <5>1, <5>2
      <4> QED BY <4>1, <4>2
    <3>4. On(Known(orderBy[o]), o)' = On(fills, o)
      BY <3>2 DEF On
    <3> QED BY <3>2, <3>3, <3>4 DEF RowExplained
  <2>3. CASE orderBy'[o] \notin {None, s}
    <3>1. orderBy[o] = orderBy'[o] /\ ordersW'[o] = ordersW[o] /\ orderBy[o] \in Lockers
      BY <2>3 DEF Leaves, LedgerInv, KInv, FInv, IInv, TypeOK
    <3>2. PICK h : h = orderBy[o]
      OBVIOUS
    <3>3. Known(h)' = Known(h) /\ HalfQty(h, o)' = HalfQty(h, o)
      BY <1>2, <2>3, <3>1, <3>2, HalfStays
    <3>4. Known(orderBy[o])' = Known(h)' /\ HalfQty(orderBy[o], o)' = HalfQty(h, o)'
      BY <3>1, <3>2 DEF Known, Own, HalfQty, Halfway, BuyId
    <3>5. On(Known(orderBy[o]), o)' = On(Known(h), o)
      BY <3>3, <3>4 DEF On
    <3>6. ordersW[o] # None => ordersW[o].filled = Base(o) + QtySum(On(Known(h), o)) + HalfQty(h, o)
      BY <3>2 DEF LedgerInv, Reconciled, RowExplained
    <3> QED BY <3>1, <3>3, <3>4, <3>5, <3>6 DEF RowExplained
  <2> QED BY <2>1, <2>2, <2>3
<1>8. ASSUME NEW a \in Accounts PROVE BalanceExplained(a)'
  <2>1. CASE cashBy'[a] = s
    BY <2>1
  <2>2. CASE cashBy'[a] = None
    <3>1. cashW'[a] = cash[a]
      BY <2>2 DEF CashSynced
    <3>2. Known(cashBy[a])' = fills /\ HalfValue(cashBy[a], a)' = 0
      BY <2>2, SeedAssumption DEF Known, Own, HalfValue, Halfway, Lockers
    <3>3. /\ Sold(Known(cashBy[a]), a)' = Sold(fills, a)
          /\ Bought(Known(cashBy[a]), a)' = Bought(fills, a)
      BY <1>4, <3>2 DEF Sold, Bought
    <3>4. cash[a] = SeedCash[a] + Value(Sold(fills, a)) - Value(Bought(fills, a)) - 0
      <4>1. cash[a] = SeedCash[a] + Value(Sold(fills, a)) - Value(Bought(fills, a))
        BY DEF LedgerInv, Reconciled, CommittedExplained
      <4>2. Value(Sold(fills, a)) \in Int /\ Value(Bought(fills, a)) \in Int
        BY KnownType, FS_Subset, ValueOf DEF Sold, Bought
      <4>3. SeedCash[a] \in Int
        BY SeedAssumption
      <4> QED BY <4>1, <4>2, <4>3
    <3> QED BY <3>1, <3>2, <3>3, <3>4 DEF BalanceExplained
  <2>3. CASE cashBy'[a] \notin {None, s}
    <3>1. cashBy[a] = cashBy'[a] /\ cashW'[a] = cashW[a] /\ cashBy[a] \in Requests
      BY <2>3 DEF Leaves, LedgerInv, KInv, FInv, IInv, TypeOK
    <3>2. PICK h : h = cashBy[a]
      OBVIOUS
    <3>3. /\ Sold(Known(h), a)' = Sold(Known(h), a) /\ Bought(Known(h), a)' = Bought(Known(h), a)
          /\ HalfValue(h, a)' = HalfValue(h, a)
      BY <1>3, <2>3, <3>1, <3>2, HalfStays DEF Lockers
    <3>4. /\ Known(cashBy[a])' = Known(h)'
          /\ HalfValue(cashBy[a], a)' = HalfValue(h, a)'
      BY <3>1, <3>2 DEF Known, Own, HalfValue, Halfway, LegAccount, BuyId, FillPrice
    <3>5. /\ Sold(Known(cashBy[a]), a)' = Sold(Known(h), a)
          /\ Bought(Known(cashBy[a]), a)' = Bought(Known(h), a)
      BY <3>3, <3>4 DEF Sold, Bought
    <3>6. cashW[a] = SeedCash[a] + Value(Sold(Known(h), a)) - Value(Bought(Known(h), a)) - HalfValue(h, a)
      BY <3>2 DEF LedgerInv, Reconciled, BalanceExplained
    <3> QED BY <3>1, <3>3, <3>4, <3>5, <3>6 DEF BalanceExplained
  <2> QED BY <2>1, <2>2, <2>3
<1>9. ASSUME NEW u \in Requests PROVE MadeFine(u)'
  BY <1>9, OthersMade
<1> QED BY <1>5, <1>6, <1>7, <1>8, <1>9 DEF LedgerInv, Reconciled

-------------------------------------------------------------------------------------
(* The steps that write no order and no balance.                                    *)

\* A request that is not matching has made nothing.
LEMMA MadeNothing ==
  ASSUME NEW s \in Requests, tx'[s].pc \notin Matching, tx'[s].made = {}
  PROVE  MadeFine(s)' /\ ~Halfway(s)'
  BY FS_EmptySet DEF MadeFine, Matching, Legs, SellerLeg, Halfway

LEMMA Local ==
  ASSUME LedgerInv, KInv', GoesOn, NEW s \in Requests,
         \A u \in Requests \ {s} : tx'[u] = tx[u],
         UNCHANGED <<fills, cash, cashW, orders, ordersW, orderBy>>,
         \A a \in Accounts : cashBy'[a] = cashBy[a] \/ (cashBy[a] = None /\ cashBy'[a] = s),
         tx'[s].made = tx[s].made, Halfway(s)' <=> Halfway(s),
         Halfway(s) => /\ tx'[s].maker = tx[s].maker /\ tx'[s].applied = tx[s].applied
                       /\ tx'[s].body = tx[s].body,
         MadeFine(s)'
  PROVE  LedgerInv'
<1>0. s \in Lockers /\ s # None
  BY SeedAssumption DEF Lockers
<1>1. Leaves(s)
  BY DEF Leaves
<1>2. CashSynced'
  BY <1>0 DEF CashSynced, LedgerInv, Reconciled
<1>3. Known(s)' = Known(s)
  BY DEF Known, Own
<1>4. \A o : HalfQty(s, o)' = HalfQty(s, o)
  BY DEF HalfQty, BuyId
<1>5. \A a : HalfValue(s, a)' = HalfValue(s, a)
  BY DEF HalfValue, LegAccount, BuyId, FillPrice
<1>6. ASSUME NEW o \in OrderIds, orderBy'[o] = s PROVE RowExplained(o)'
  <2>1. On(Known(orderBy[o]), o)' = On(Known(s), o) /\ HalfQty(orderBy[o], o)' = HalfQty(s, o)
    <3>1. Known(orderBy[o])' = Known(s)' /\ HalfQty(orderBy[o], o)' = HalfQty(s, o)'
      BY <1>6 DEF Known, Own, HalfQty, Halfway, BuyId
    <3> QED BY <3>1, <1>3, <1>4 DEF On
  <2>2. ordersW[o] # None => ordersW[o].filled = Base(o) + QtySum(On(Known(s), o)) + HalfQty(s, o)
    BY <1>0, <1>6, AsHeld
  <2> QED BY <2>1, <2>2 DEF RowExplained
<1>7. ASSUME NEW a \in Accounts, cashBy'[a] = s PROVE BalanceExplained(a)'
  <2>1. /\ Sold(Known(cashBy[a]), a)' = Sold(Known(s), a)
        /\ Bought(Known(cashBy[a]), a)' = Bought(Known(s), a)
        /\ HalfValue(cashBy[a], a)' = HalfValue(s, a)
    <3>1. Known(cashBy[a])' = Known(s)' /\ HalfValue(cashBy[a], a)' = HalfValue(s, a)'
      BY <1>7 DEF Known, Own, HalfValue, Halfway, LegAccount, BuyId, FillPrice
    <3> QED BY <3>1, <1>3, <1>5 DEF Sold, Bought
  <2>2. cashW[a] = SeedCash[a] + Value(Sold(Known(s), a)) - Value(Bought(Known(s), a)) - HalfValue(s, a)
    BY <1>0, <1>7, AsHeld
  <2> QED BY <2>1, <2>2 DEF BalanceExplained
<1> QED BY <1>0, <1>1, <1>2, <1>6, <1>7, Frame

\* A request that matches neither before nor after.
LEMMA Early ==
  ASSUME LedgerInv, KInv', GoesOn, NEW s \in Requests,
         \A u \in Requests \ {s} : tx'[u] = tx[u],
         UNCHANGED <<fills, cash, cashW, orders, ordersW, orderBy>>,
         \A a \in Accounts : cashBy'[a] = cashBy[a] \/ (cashBy[a] = None /\ cashBy'[a] = s),
         tx[s].pc \notin Matching, tx'[s].pc \notin Matching, tx'[s].made = {}
  PROVE  LedgerInv'
<1>1. tx[s].made = {} /\ ~Halfway(s)
  BY DEF LedgerInv, Reconciled, MadeFine, Halfway, SellerLeg, Legs, Matching
<1> QED BY <1>1, MadeNothing, Local

\* Answers, arrivals, the pricing and the reservation write no order and no balance.
LEMMA EarlyFacts ==
  ASSUME LedgerInv, NEW t \in Requests,
         \/ \E b \in Submits : Arrive(t, b)
         \/ \E b \in Cancels : ArriveCancel(t, b)
         \/ Price(t) \/ Reserve(t)
         \/ CancelOrder(t) /\ UNCHANGED orderRows
  PROVE  /\ tx[t].pc \in {"idle", "price", "reserve", "cancel"}
         /\ \A u \in Requests \ {t} : tx'[u] = tx[u]
         /\ tx'[t].pc \notin Matching /\ tx'[t].made = {}
         /\ UNCHANGED <<fills, cash, cashW, orders, ordersW, orderBy>>
         /\ \A a \in Accounts : cashBy'[a] = cashBy[a] \/ (cashBy[a] = None /\ cashBy'[a] = t)
<1>1. tx \in [Requests -> TxType] /\ (tx[t].pc \notin Matching => tx[t].made = {})
  BY SMTT(30) DEF LedgerInv, KInv, FInv, IInv, TypeOK, Reconciled, MadeFine
<1>2. tx[t].pc \in {"idle", "price", "reserve", "cancel"}
  BY ZenonT(40) DEF Arrive, ArriveCancel, Price, Reserve, CancelOrder
<1>3. tx[t].pc \notin Matching /\ tx[t].made = {}
  BY <1>1, <1>2 DEF Matching, Legs
<1> DEFINE Becomes == \E r : /\ tx' = [tx EXCEPT ![t] = r] /\ r.made = {}
                             /\ r.pc \in Ended \cup {"price", "reserve", "insert", "cancel", "cancelled"}
<1>4. Becomes
  <2>1. ASSUME NEW b \in Submits, Arrive(t, b) PROVE Becomes
    <3> DEFINE q == [IdleTx EXCEPT !.pc = "refused", !.body = b]
               r == [IdleTx EXCEPT !.pc = "price", !.body = b, !.at = clock + 1,
                                   !.cashSeen = cash[b.account]]
    <3>1. tx' = [tx EXCEPT ![t] = q] \/ tx' = [tx EXCEPT ![t] = r]
      BY ZenonT(40), <2>1 DEF Arrive
    <3>2. q.made = {} /\ q.pc = "refused" /\ r.made = {} /\ r.pc = "price"
      BY DEF IdleTx
    <3> HIDE DEF q, r
    <3> QED BY SMTT(30), <3>1, <3>2 DEF Ended
  <2>2. ASSUME NEW b \in Cancels, ArriveCancel(t, b) PROVE Becomes
    <3> DEFINE r == [IdleTx EXCEPT !.pc = "cancel", !.body = b]
    <3>1. tx' = [tx EXCEPT ![t] = r] /\ r.made = {} /\ r.pc = "cancel"
      BY <2>2 DEF ArriveCancel, IdleTx
    <3> HIDE DEF r
    <3> QED BY <3>1
  <2>3. ASSUME NEW pc \in Ended, NEW reply, Answer(t, pc, reply) PROVE Becomes
    <3> DEFINE r == EndedTx(t, pc, reply)
    <3>1. tx' = [tx EXCEPT ![t] = r] /\ r.made = {} /\ r.pc = pc
      BY <2>3 DEF Answer, EndedTx, IdleTx
    <3> HIDE DEF r
    <3> QED BY <3>1
  <2>4. CASE Price(t)
    <3> DEFINE b == tx[t].body
               book == IF b.kind = "market" THEN Hydrated(b.side) ELSE {}
               seen == IF b.side = "sell" THEN Held(b.account) ELSE 0
               mine == {o \in LiveOrders(b.account) : orders[o].side = "sell"}
               sells == {e \in Entry : b.side = "sell" /\ e.id \in mine
                                       /\ e.remaining = Left(e.id)}
               r == [tx[t] EXCEPT !.pc = "reserve", !.snap = book, !.heldSeen = seen,
                                  !.sellsSeen = sells]
    <3>1. CASE \E o \in ByKey(b.account, b.key) : Answer(t, "done", o)
      BY <2>3, <3>1 DEF Ended
    <3>2. CASE Answer(t, "refused", None)
      BY <2>3, <3>2 DEF Ended
    <3>3. CASE tx' = [tx EXCEPT ![t].pc = "reserve", ![t].snap = book, ![t].heldSeen = seen,
                                ![t].sellsSeen = sells]
      <4>1. tx' = [tx EXCEPT ![t] = r]
        BY <3>3
      <4> HIDE DEF book, seen, sells
      <4>2. r.made = {} /\ r.pc = "reserve"
        BY <1>1, <1>3 DEF TxType
      <4> HIDE DEF r
      <4> QED BY <4>1, <4>2
    <3> QED BY ZenonT(40), <2>4, <3>1, <3>2, <3>3 DEF Price
  <2>5. CASE tx' = [tx EXCEPT ![t].pc = "insert"] \/ tx' = [tx EXCEPT ![t].pc = "cancelled"]
    <3>1. PICK pc \in {"insert", "cancelled"} : tx' = [tx EXCEPT ![t].pc = pc]
      BY <2>5
    <3> DEFINE r == [tx[t] EXCEPT !.pc = pc]
    <3>2. tx' = [tx EXCEPT ![t] = r] /\ r.made = {} /\ r.pc = pc
      BY <1>1, <1>3, <3>1 DEF TxType
    <3> HIDE DEF r
    <3> QED BY <3>1, <3>2
  <2>6. CASE Reserve(t)
    BY SMTT(30), <2>3, <2>5, <2>6 DEF Reserve, Ended
  <2>7. CASE CancelOrder(t)
    BY <2>3, <2>5, <2>7 DEF CancelOrder, Ended
  <2> QED BY <2>1, <2>2, <2>4, <2>6, <2>7
<1>5. /\ \A u \in Requests \ {t} : tx'[u] = tx[u]
      /\ tx'[t].pc \notin Matching /\ tx'[t].made = {}
  BY SMTT(30), <1>1, <1>4 DEF Matching, Legs, Ended
<1>6. UNCHANGED <<fills, cash, cashW, orders, ordersW, orderBy>>
  BY ZenonT(40) DEF Arrive, ArriveCancel, Price, Reserve, Answer, KeepRows, accountRows, orderRows, CancelOrder
<1>7. \A a \in Accounts : cashBy'[a] = cashBy[a] \/ (cashBy[a] = None /\ cashBy'[a] = t)
  <2>1. CASE Reserve(t)
    <3>1. cashBy' = cashBy \/ (/\ cashBy[tx[t].body.account] = None
                               /\ cashBy' = [cashBy EXCEPT ![tx[t].body.account] = t])
      BY SMTT(30), <2>1 DEF Reserve, Answer, KeepRows, accountRows
    <3> QED BY <3>1 DEF LedgerInv, KInv, FInv, IInv, TypeOK
  <2>2. CASE ~Reserve(t)
    BY ZenonT(40), <2>2 DEF Arrive, ArriveCancel, Price, Answer, KeepRows, accountRows, CancelOrder
  <2> QED BY <2>1, <2>2
<1> QED BY <1>2, <1>5, <1>6, <1>7

LEMMA EarlyLedger ==
  ASSUME LedgerInv, KInv', GoesOn, NEW t \in Requests,
         \/ \E b \in Submits : Arrive(t, b)
         \/ \E b \in Cancels : ArriveCancel(t, b)
         \/ Price(t) \/ Reserve(t)
         \/ CancelOrder(t) /\ UNCHANGED orderRows
  PROVE  LedgerInv'
<1>1. tx[t].pc \notin Matching
  BY EarlyFacts DEF Matching, Legs
<1> QED BY <1>1, EarlyFacts, Early

\* The reading and the creation of a position write none of these rows.
LEMMA PositionFacts ==
  ASSUME LedgerInv, NEW t \in Requests, NEW leg \in {"buyer", "seller"},
         ReadPosition(t, leg) \/ CreatePosition(t, leg), ~Abort(t)
  PROVE  /\ UNCHANGED <<fills, cash, cashW, cashBy, orders, ordersW, orderBy>>
         /\ \A u \in Requests \ {t} : tx'[u] = tx[u]
         /\ tx'[t].made = tx[t].made /\ tx'[t].maker = tx[t].maker
         /\ tx'[t].applied = tx[t].applied /\ tx'[t].body = tx[t].body
         /\ tx'[t].snap = tx[t].snap
         /\ tx[t].pc \in Legs /\ tx'[t].pc \in Legs
         /\ tx[t].pc \in SellerLeg <=> tx'[t].pc \in SellerLeg
<1>1. tx \in [Requests -> TxType]
  BY DEF LedgerInv, KInv, FInv, IInv, TypeOK
<1>2. /\ tx[t].pc \in IF leg = "buyer" THEN {"buyer", "buyerRow"} ELSE {"seller", "sellerRow"}
      /\ UNCHANGED <<fills, cash, cashW, cashBy, orders, ordersW, orderBy>>
  BY SMTT(30) DEF ReadPosition, CreatePosition, KeepRows, accountRows, orderRows
<1> DEFINE Seen(pc, p) == [tx[t] EXCEPT !.pc = pc, !.posSeen = p]
           Moves == \E pc \in IF leg = "buyer" THEN {"buyerRow", "buyerPost"}
                              ELSE {"sellerRow", "sellerPost"} :
                       \E p : tx' = [tx EXCEPT ![t] = Seen(pc, p)]
<1>3. Moves
  <2>1. CASE tx' = [tx EXCEPT ![t].pc = IF leg = "buyer" THEN "buyerRow" ELSE "sellerRow"]
    <3> DEFINE pc == IF leg = "buyer" THEN "buyerRow" ELSE "sellerRow"
    <3>1. tx' = [tx EXCEPT ![t] = Seen(pc, tx[t].posSeen)]
      BY <1>1, <2>1 DEF TxType
    <3> HIDE DEF Seen
    <3> QED BY <3>1
  <2>2. ASSUME NEW p, tx' = [tx EXCEPT ![t].pc = IF leg = "buyer" THEN "buyerPost" ELSE "sellerPost",
                                      ![t].posSeen = p]
        PROVE  Moves
    <3> DEFINE pc == IF leg = "buyer" THEN "buyerPost" ELSE "sellerPost"
    <3>1. tx' = [tx EXCEPT ![t] = Seen(pc, p)]
      BY <1>1, <2>2 DEF TxType
    <3> HIDE DEF Seen
    <3> QED BY <3>1
  <2> QED BY <2>1, <2>2 DEF ReadPosition, CreatePosition
<1>4. PICK pc, p : /\ pc \in IF leg = "buyer" THEN {"buyerRow", "buyerPost"}
                             ELSE {"sellerRow", "sellerPost"}
                   /\ tx' = [tx EXCEPT ![t] = Seen(pc, p)]
  BY <1>3
<1>5. /\ \A u \in Requests \ {t} : tx'[u] = tx[u]
      /\ tx'[t].pc = pc /\ tx'[t].made = tx[t].made /\ tx'[t].maker = tx[t].maker
      /\ tx'[t].applied = tx[t].applied /\ tx'[t].body = tx[t].body /\ tx'[t].snap = tx[t].snap
  BY <1>1, <1>4 DEF TxType
<1>6. /\ tx[t].pc \in Legs /\ tx'[t].pc \in Legs
      /\ tx[t].pc \in SellerLeg <=> tx'[t].pc \in SellerLeg
  BY <1>2, <1>4, <1>5 DEF SellerLeg, Legs
<1> QED BY <1>2, <1>5, <1>6

LEMMA PositionLedger ==
  ASSUME LedgerInv, KInv', GoesOn, NEW t \in Requests, NEW leg \in {"buyer", "seller"},
         ReadPosition(t, leg) \/ CreatePosition(t, leg), ~Abort(t)
  PROVE  LedgerInv'
<1>1. MadeFine(t)
  BY DEF LedgerInv, Reconciled
<1>2. /\ UNCHANGED <<fills, cash, cashW, cashBy, orders, ordersW, orderBy>>
      /\ \A u \in Requests \ {t} : tx'[u] = tx[u]
      /\ tx'[t].made = tx[t].made /\ tx'[t].maker = tx[t].maker
      /\ tx'[t].applied = tx[t].applied /\ tx'[t].body = tx[t].body /\ tx'[t].snap = tx[t].snap
      /\ tx[t].pc \in Legs /\ tx'[t].pc \in Legs
      /\ tx[t].pc \in SellerLeg <=> tx'[t].pc \in SellerLeg
  BY PositionFacts
<1>3. Halfway(t)' <=> Halfway(t)
  BY <1>2 DEF Halfway
<1>4. BuyId(t)' = BuyId(t) /\ SellId(t)' = SellId(t)
  BY <1>2 DEF BuyId, SellId
<1>5. /\ Room(BuyId(t))' = Room(BuyId(t)) /\ Room(SellId(t))' = Room(SellId(t))
      /\ LegAccount(t, "buyer")' = LegAccount(t, "buyer")
  BY <1>2, <1>4 DEF Room, LegAccount
<1>6. \A f \in tx[t].made : Holds(t, f)'
  BY <1>1, <1>2 DEF MadeFine, Holds
<1>7. MadeFine(t)'
  BY <1>1, <1>2, <1>5, <1>6 DEF MadeFine, Matching
<1> QED BY <1>2, <1>3, <1>7, Local

-------------------------------------------------------------------------------------
(* The steps that write orders or balances and commit nothing.                      *)

\* A lost transaction leaves the committed versions, which are explained.
LEMMA RollbackLedger ==
  ASSUME LedgerInv, KInv', GoesOn, NEW t \in Requests, RollbackRows(t), fills' = fills,
         NEW r, tx' = [tx EXCEPT ![t] = r], r.made = {}, r.pc \notin Matching
  PROVE  LedgerInv'
<1>0. t \in Lockers /\ t # None
  BY SeedAssumption DEF Lockers
<1>1. tx'[t] = r /\ \A u \in Requests \ {t} : tx'[u] = tx[u]
  BY LocalOf DEF LedgerInv
<1>2. UNCHANGED <<fills, orders, cash>>
  BY DEF RollbackRows
<1>3. /\ \A o \in OrderIds : /\ ordersW'[o] = IF orderBy[o] = t THEN orders[o] ELSE ordersW[o]
                             /\ orderBy'[o] = IF orderBy[o] = t THEN None ELSE orderBy[o]
      /\ \A a \in Accounts : /\ cashW'[a] = IF cashBy[a] = t THEN cash[a] ELSE cashW[a]
                             /\ cashBy'[a] = IF cashBy[a] = t THEN None ELSE cashBy[a]
  BY DEF RollbackRows
<1>4. Leaves(t)
  BY <1>0, <1>1, <1>2, <1>3 DEF Leaves
<1>5. CashSynced'
  BY <1>2, <1>3 DEF CashSynced, LedgerInv, Reconciled
<1>6. \A o \in OrderIds : orderBy'[o] # t
  BY <1>0, <1>3
<1>7. \A a \in Accounts : cashBy'[a] # t
  BY <1>0, <1>3
<1>8. MadeFine(t)'
  BY <1>1, MadeNothing
<1> QED BY <1>0, <1>2, <1>4, <1>5, <1>6, <1>7, <1>8, Frame

LEMMA AbortLedger ==
  ASSUME LedgerInv, KInv', GoesOn, NEW t \in Requests, Abort(t)
  PROVE  LedgerInv'
<1> DEFINE r == EndedTx(t, "refused", None)
<1>1. tx' = [tx EXCEPT ![t] = r] /\ RollbackRows(t) /\ fills' = fills
  BY DEF Abort
<1>2. r.made = {} /\ r.pc \notin Matching
  BY DEF EndedTx, IdleTx, Matching, Legs
<1> HIDE DEF r
<1> QED BY <1>1, <1>2, RollbackLedger

\* A new order has traded nothing.
LEMMA InsertLedger ==
  ASSUME LedgerInv, KInv', GoesOn, NEW t \in Requests, Insert(t)
  PROVE  LedgerInv'
<1> DEFINE b == tx[t].body
           snap == IF b.kind = "limit" THEN Hydrated(b.side) ELSE tx[t].snap
           row(price) == [ account |-> b.account, side |-> b.side, kind |-> b.kind,
                           price |-> price, qty |-> b.qty, filled |-> 0, status |-> "OPEN",
                           key |-> b.key, gtd |-> b.gtd, at |-> tx[t].at ]
           r == [tx[t] EXCEPT !.pc = "match", !.left = b.qty, !.snap = snap]
<1>1. ASSUME NEW o, RollbackRows(t), tx' = [tx EXCEPT ![t] = EndedTx(t, "done", o)]
      PROVE  LedgerInv'
  <2> DEFINE q == EndedTx(t, "done", o)
  <2>1. q.made = {} /\ q.pc \notin Matching
    BY DEF EndedTx, IdleTx, Matching, Legs
  <2>2. tx' = [tx EXCEPT ![t] = q] /\ fills' = fills
    BY <1>1 DEF Insert
  <2> HIDE DEF q
  <2> QED BY <1>1, <2>1, <2>2, RollbackLedger
<1>2. ASSUME NEW price, ordersW' = [ordersW EXCEPT ![t] = row(price)],
             orderBy' = [orderBy EXCEPT ![t] = t], UNCHANGED <<accountRows, orders>>,
             tx' = [tx EXCEPT ![t].pc = "match", ![t].left = b.qty,
                              ![t].snap = IF b.kind = "limit" THEN Hydrated(b.side) ELSE @]
      PROVE  LedgerInv'
  <2>1. /\ t \in Lockers /\ t # None /\ t \in OrderIds /\ tx[t] \in TxType /\ tx[t].pc = "insert"
        /\ tx \in [Requests -> TxType] /\ ordersW \in [OrderIds -> Order \cup {None}]
        /\ orderBy \in [OrderIds -> Lockers \cup {None}]
        /\ orderBy[t] = None /\ orders[t] = None /\ tx[t].made = {}
    BY SeedAssumption
       DEF Lockers, OrderIds, LedgerInv, KInv, FInv, IInv, TypeOK, TxFine, Unplaced, Reconciled,
           MadeFine, Matching, Legs, Insert
  <2>2. tx' = [tx EXCEPT ![t] = r]
    BY <1>2
  <2>3. r.made = {} /\ r.pc = "match"
    <3> HIDE DEF snap
    <3> QED BY <2>1 DEF TxType
  <2> HIDE DEF r
  <2>4. tx'[t] = r /\ \A u \in Requests \ {t} : tx'[u] = tx[u]
    BY <2>2, LocalOf DEF LedgerInv
  <2>5. UNCHANGED <<fills, orders, cash, cashW, cashBy>>
    BY <1>2 DEF Insert, accountRows
  <2>6. \A o \in OrderIds \ {t} : ordersW'[o] = ordersW[o] /\ orderBy'[o] = orderBy[o]
    BY <1>2, <2>1
  <2>7. orderBy'[t] = t /\ ordersW'[t].filled = 0
    BY <1>2, <2>1
  <2>8. Leaves(t)
    BY <2>1, <2>4, <2>5, <2>6, <2>7 DEF Leaves
  <2>9. CashSynced'
    BY <2>5 DEF CashSynced, LedgerInv, Reconciled
  <2>10. Known(t)' = fills /\ Known(t) = fills
    BY <2>1, <2>3, <2>4, <2>5 DEF Known, Own
  <2>11. ~Halfway(t) /\ ~Halfway(t)'
    BY <2>1, <2>3, <2>4 DEF Halfway, SellerLeg
  <2>12. ASSUME NEW o \in OrderIds, orderBy'[o] = t PROVE RowExplained(o)'
    <3>1. On(Known(orderBy[o]), o)' = On(fills, o)
      BY <2>10, <2>12 DEF On, Known, Own
    <3>2. HalfQty(orderBy[o], o)' = 0 /\ HalfQty(t, o) = 0
      BY <2>11, <2>12 DEF HalfQty, Halfway
    <3>3. CASE o = t
      <4>1. On(fills, t) = {}
        BY <2>1, KnownType DEF LedgerInv, Reconciled, FillsFine, On, Exists
      <4>2. QtySum({}) = 0
        BY QtyOf, FS_EmptySet
      <4>3. Base(t) = 0
        BY SeedAssumption DEF Base
      <4> QED BY <2>7, <3>1, <3>2, <3>3, <4>1, <4>2, <4>3 DEF RowExplained
    <3>4. CASE o # t
      <4>1. orderBy[o] = t /\ ordersW'[o] = ordersW[o]
        BY <2>6, <2>12, <3>4
      <4>2. ordersW[o] # None => ordersW[o].filled = Base(o) + QtySum(On(Known(t), o)) + HalfQty(t, o)
        BY <2>1, <4>1, AsHeld
      <4> QED BY <2>10, <3>1, <3>2, <4>1, <4>2 DEF RowExplained
    <3> QED BY <3>3, <3>4
  <2>13. ASSUME NEW a \in Accounts, cashBy'[a] = t PROVE BalanceExplained(a)'
    <3>1. \A f \in fills : /\ ordersW'[f.buy].account = ordersW[f.buy].account
                           /\ ordersW'[f.sell].account = ordersW[f.sell].account
      BY <2>1, <2>6, KnownType DEF LedgerInv, Reconciled, FillsFine, Exists, Fill
    <3>2. /\ Sold(Known(cashBy[a]), a)' = Sold(fills, a)
          /\ Bought(Known(cashBy[a]), a)' = Bought(fills, a)
      BY <2>10, <2>13, <3>1 DEF Sold, Bought, Known, Own
    <3>3. HalfValue(cashBy[a], a)' = 0 /\ HalfValue(t, a) = 0
      BY <2>11, <2>13 DEF HalfValue, Halfway
    <3>4. cashBy[a] = t /\ cashW'[a] = cashW[a]
      BY <2>5, <2>13
    <3>5. cashW[a] = SeedCash[a] + Value(Sold(Known(t), a)) - Value(Bought(Known(t), a)) - HalfValue(t, a)
      BY <2>1, <3>4, AsHeld
    <3> QED BY <2>10, <3>2, <3>3, <3>4, <3>5 DEF BalanceExplained
  <2>14. MadeFine(t)'
    BY <2>3, <2>4, FS_EmptySet DEF MadeFine, Matching, Legs, SellerLeg
  <2> QED BY SMTT(30), <2>1, <2>5, <2>8, <2>9, <2>12, <2>13, <2>14, Frame
<1> QED BY <1>1, <1>2 DEF Insert

\* The next entry of the book is the only one of its order.
LEMMA NextUpAlone ==
  ASSUME LedgerInv, NEW t \in Requests, NEW e \in NextUp(t)
  PROVE  e \in tx[t].snap /\ \A g \in tx[t].snap \ {e} : g.id # e.id
<1>1. \A g \in tx[t].snap \ {e} : Ahead(tx[t].body.side, e, g)
  BY DEF NextUp
<1>2. tx[t].snap \subseteq Entry /\ \A g \in tx[t].snap : orders[g.id] # None
  BY DEF LedgerInv, KInv, FInv, IInv, TypeOK, TxType, TxFine
<1>3. e \in tx[t].snap
  BY DEF NextUp
<1>4. orders[e.id] \in Order
  BY <1>2, <1>3 DEF LedgerInv, KInv, FInv, IInv, TypeOK, Entry
<1>5. orders[e.id].price \in Int /\ orders[e.id].at \in Int
  BY <1>4, BodyAssumption DEF Order, Ticks
<1>6. ASSUME NEW g \in tx[t].snap \ {e}, g.id = e.id PROVE FALSE
  <2>1. Ahead(tx[t].body.side, e, g)
    BY <1>1
  <2> QED BY <1>5, <1>6, <2>1 DEF Ahead, SortsBefore
<1> QED BY <1>3, <1>6

\* Locking a maker writes nothing, and takes another's order.
LEMMA LockFacts ==
  ASSUME LedgerInv, NEW t \in Requests, LockOrders(t)
  PROVE  \E e \in NextUp(t) :
            /\ tx[t].pc = "match" /\ orderBy[e.id] \in {None, t} /\ Takes(t, e)
            /\ e \in tx[t].snap /\ \A g \in tx[t].snap \ {e} : g.id # e.id
            /\ e.id \in OrderIds /\ orders[e.id] # None /\ ordersW[e.id] \in Order /\ e.id # t
            /\ UNCHANGED <<fills, orders, ordersW, cash, cashW, cashBy>>
            /\ \A o \in OrderIds : orderBy'[o] = IF o = e.id THEN t ELSE orderBy[o]
            /\ \A u \in Requests \ {t} : tx'[u] = tx[u]
            /\ tx'[t].made = tx[t].made /\ tx'[t].snap = tx[t].snap \ {e}
            /\ tx'[t].body = tx[t].body
            /\ \/ tx'[t].pc = "match"
               \/ tx'[t].pc = "buyer" /\ tx'[t].maker = e.id /\ tx'[t].applied = Applied(t, e)
<1>1. PICK e \in NextUp(t) :
         /\ tx[t].pc = "match" /\ orderBy[e.id] \in {None, t} /\ Takes(t, e)
         /\ orderBy' = [orderBy EXCEPT ![e.id] = t]
         /\ IF Applied(t, e) <= 0
            THEN tx' = [tx EXCEPT ![t].left = @ - Want(t, e), ![t].snap = @ \ {e}]
            ELSE tx' = [tx EXCEPT ![t].pc = "buyer", ![t].maker = e.id,
                                  ![t].want = Want(t, e), ![t].applied = Applied(t, e),
                                  ![t].snap = @ \ {e}]
         /\ UNCHANGED <<world, clock, accountRows, positionRows, orders, ordersW, fills,
                        published>>
  BY DEF LockOrders
<1>2. /\ t \in Lockers /\ t # None /\ t \in OrderIds /\ tx[t] \in TxType
      /\ tx \in [Requests -> TxType] /\ orderBy \in [OrderIds -> Lockers \cup {None}]
      /\ orderBy[t] = t /\ orders[t] = None /\ ordersW[t] \in Order /\ MadeFine(t)
      /\ e \in tx[t].snap /\ (\A g \in tx[t].snap \ {e} : g.id # e.id)
  <2>1. tx[t].pc \in Matching /\ KeyFine(t) /\ t \in OrderIds
    BY <1>1 DEF Matching, LedgerInv, KInv, OrderIds
  <2>2. orders[t] = None /\ ordersW[t] # None /\ orderBy[t] = t
    BY <2>1 DEF KeyFine, Placed, LedgerInv, KInv, FInv, IInv, TxFine
  <2> QED BY <1>1, <2>1, <2>2, NextUpAlone, SeedAssumption
          DEF LedgerInv, KInv, FInv, IInv, TypeOK, Reconciled, Lockers
<1>3. e.id \in OrderIds /\ orders[e.id] # None /\ ordersW[e.id] \in Order /\ e.id # t
  BY <1>2 DEF LedgerInv, KInv, FInv, IInv, TypeOK, TxFine, Synced, TxType, Entry
<1> DEFINE skip == [tx[t] EXCEPT !.left = @ - Want(t, e), !.snap = @ \ {e}]
           leg == [tx[t] EXCEPT !.pc = "buyer", !.maker = e.id, !.want = Want(t, e),
                                !.applied = Applied(t, e), !.snap = @ \ {e}]
<1>4. \/ tx' = [tx EXCEPT ![t] = skip]
      \/ tx' = [tx EXCEPT ![t] = leg]
  BY <1>1
<1>5. /\ skip.made = tx[t].made /\ skip.pc = "match" /\ skip.snap = tx[t].snap \ {e}
      /\ skip.body = tx[t].body
      /\ leg.made = tx[t].made /\ leg.pc = "buyer" /\ leg.snap = tx[t].snap \ {e}
      /\ leg.body = tx[t].body /\ leg.maker = e.id /\ leg.applied = Applied(t, e)
  BY <1>1, <1>2 DEF TxType
<1> HIDE DEF skip, leg
<1>6. /\ \A u \in Requests \ {t} : tx'[u] = tx[u]
      /\ tx'[t].made = tx[t].made /\ tx'[t].snap = tx[t].snap \ {e} /\ tx'[t].body = tx[t].body
      /\ \/ tx'[t].pc = "match"
         \/ tx'[t].pc = "buyer" /\ tx'[t].maker = e.id /\ tx'[t].applied = Applied(t, e)
  BY <1>2, <1>4, <1>5
<1>7. UNCHANGED <<fills, orders, ordersW, cash, cashW, cashBy>>
  BY <1>1 DEF accountRows
<1>8. \A o \in OrderIds : orderBy'[o] = IF o = e.id THEN t ELSE orderBy[o]
  BY <1>1, <1>2
<1> QED BY SMTT(30), <1>1, <1>2, <1>3, <1>6, <1>7, <1>8

LEMMA LockOrdersLedger ==
  ASSUME LedgerInv, KInv', GoesOn, NEW t \in Requests, LockOrders(t)
  PROVE  LedgerInv'
<1>1. PICK e \in NextUp(t) :
         /\ tx[t].pc = "match" /\ orderBy[e.id] \in {None, t}
         /\ e \in tx[t].snap /\ \A g \in tx[t].snap \ {e} : g.id # e.id
         /\ e.id \in OrderIds /\ orders[e.id] # None /\ ordersW[e.id] \in Order /\ e.id # t
         /\ UNCHANGED <<fills, orders, ordersW, cash, cashW, cashBy>>
         /\ \A o \in OrderIds : orderBy'[o] = IF o = e.id THEN t ELSE orderBy[o]
         /\ \A u \in Requests \ {t} : tx'[u] = tx[u]
         /\ tx'[t].made = tx[t].made /\ tx'[t].snap = tx[t].snap \ {e}
         /\ tx'[t].body = tx[t].body
         /\ \/ tx'[t].pc = "match"
            \/ tx'[t].pc = "buyer" /\ tx'[t].maker = e.id /\ tx'[t].applied = Applied(t, e)
  BY LockFacts
<1>2. /\ t \in Lockers /\ t # None /\ t \in OrderIds /\ tx[t] \in TxType /\ MadeFine(t)
      /\ ordersW[t] \in Order /\ orderBy[t] = t
  <2>1. tx[t].pc \in Matching /\ KeyFine(t) /\ t \in OrderIds
    BY <1>1 DEF Matching, LedgerInv, KInv, OrderIds
  <2>2. orders[t] = None /\ ordersW[t] # None /\ orderBy[t] = t
    BY <2>1 DEF KeyFine, Placed, LedgerInv, KInv, FInv, IInv, TxFine
  <2> QED BY <2>1, <2>2, SeedAssumption DEF LedgerInv, KInv, FInv, IInv, TypeOK, Reconciled, Lockers
<1>3. Leaves(t)
  BY <1>1, <1>2 DEF Leaves
<1>4. CashSynced'
  BY <1>1 DEF CashSynced, LedgerInv, Reconciled
<1>5. Known(t)' = Known(t) /\ ~Halfway(t) /\ ~Halfway(t)'
  BY <1>1 DEF Known, Own, Halfway, SellerLeg
<1>6. ASSUME NEW o \in OrderIds, orderBy'[o] = t PROVE RowExplained(o)'
  <2>1. orderBy[o] \in {None, t}
    BY <1>1, <1>6
  <2>2. On(Known(orderBy[o]), o)' = On(Known(t), o)
    <3>1. Known(orderBy[o])' = Known(t)'
      BY <1>6 DEF Known, Own
    <3> QED BY <1>5, <3>1 DEF On
  <2>3. HalfQty(orderBy[o], o)' = 0 /\ HalfQty(t, o) = 0
    BY <1>5, <1>6 DEF HalfQty, Halfway
  <2>4. ordersW[o] # None => ordersW[o].filled = Base(o) + QtySum(On(Known(t), o)) + HalfQty(t, o)
    BY <1>2, <2>1, AsHeld
  <2> QED BY <1>1, <2>2, <2>3, <2>4 DEF RowExplained
<1>7. ASSUME NEW a \in Accounts, cashBy'[a] = t PROVE BalanceExplained(a)'
  <2>1. cashBy[a] = t
    BY <1>1, <1>7
  <2>2. /\ Sold(Known(cashBy[a]), a)' = Sold(Known(t), a)
        /\ Bought(Known(cashBy[a]), a)' = Bought(Known(t), a)
    <3>1. Known(cashBy[a])' = Known(t)'
      BY <1>7 DEF Known, Own
    <3> QED BY <1>1, <1>5, <3>1 DEF Sold, Bought
  <2>3. HalfValue(cashBy[a], a)' = 0 /\ HalfValue(t, a) = 0
    BY <1>5, <1>7 DEF HalfValue, Halfway
  <2>4. cashW[a] = SeedCash[a] + Value(Sold(Known(t), a)) - Value(Bought(Known(t), a)) - HalfValue(t, a)
    BY <1>2, <2>1, AsHeld
  <2> QED BY <1>1, <2>2, <2>3, <2>4 DEF BalanceExplained
<1>8. MadeFine(t)'
  <2>1. \A f \in tx[t].made : f.buy \in OrderIds /\ f.sell \in OrderIds
    BY <1>2 DEF TxType, Fill
  <2>2. \A f \in tx[t].made : Holds(t, f)'
    <3> SUFFICES ASSUME NEW f \in tx[t].made PROVE Holds(t, f)'
      OBVIOUS
    <3>1. Holds(t, f) /\ \A o \in {f.buy, f.sell} : o \in OrderIds /\ e.id # o
      BY <1>1, <1>2, <2>1 DEF MadeFine, Holds
    <3>2. \A o \in {f.buy, f.sell} : orderBy'[o] = t
      BY <1>1, <3>1 DEF Holds
    <3>3. tx'[t].pc \in Legs => tx'[t].maker = e.id
      BY <1>1 DEF Legs
    <3> QED BY <1>1, <3>1, <3>2, <3>3 DEF Holds
  <2>3. tx'[t].pc \in Matching /\ tx'[t].pc \notin SellerLeg
    BY <1>1 DEF Matching, Legs, SellerLeg
  <2>4. tx'[t].pc \in Legs =>
           /\ \A g \in tx'[t].snap : g.id # tx'[t].maker
           /\ tx'[t].applied <= Room(SellId(t))' /\ tx'[t].applied <= Room(BuyId(t))'
    <3> SUFFICES ASSUME tx'[t].pc \in Legs
                 PROVE  /\ \A g \in tx'[t].snap : g.id # tx'[t].maker
                        /\ tx'[t].applied <= Room(SellId(t))' /\ tx'[t].applied <= Room(BuyId(t))'
      OBVIOUS
    <3>1. tx'[t].maker = e.id /\ tx'[t].applied = Applied(t, e)
      BY <1>1 DEF Legs
    <3>2. {BuyId(t)', SellId(t)'} = {t, e.id}
      BY <3>1 DEF BuyId, SellId
    <3>3. Room(t)' = Room(t) /\ Room(e.id)' = Room(e.id)
      BY <1>1 DEF Room
    <3>4. Room(t) \in Int /\ Room(e.id) \in Int /\ Want(t, e) \in Int
      BY <1>1, <1>2, BodyAssumption DEF Room, Order, Want, Lesser, TxType, Entry
    <3>5. Applied(t, e) <= Room(t) /\ Applied(t, e) <= Room(e.id)
      BY <3>4 DEF Applied, Lesser
    <3>6. /\ Room(SellId(t))' \in {Room(t)', Room(e.id)'}
          /\ Room(BuyId(t))' \in {Room(t)', Room(e.id)'}
      BY <3>2 DEF Room
    <3> QED BY <1>1, <1>2, <3>1, <3>3, <3>5, <3>6
  <2>5. IsFiniteSet(tx'[t].made)
    BY <1>1, <1>2 DEF MadeFine
  <2> QED BY <1>1, <2>2, <2>3, <2>4, <2>5 DEF MadeFine
<1> QED BY <1>1, <1>2, <1>3, <1>4, <1>6, <1>7, <1>8, Frame

\* What the posting of a leg relies on.
LEMMA PostFacts ==
  ASSUME LedgerInv, NEW t \in Requests, tx[t].pc \in Legs
  PROVE  /\ t \in Lockers /\ t # None /\ t \in OrderIds /\ orders[t] = None
         /\ tx[t] \in TxType /\ tx \in [Requests -> TxType] /\ MadeFine(t)
         /\ ordersW \in [OrderIds -> Order \cup {None}] /\ orderBy \in [OrderIds -> Lockers \cup {None}]
         /\ cashW \in [Accounts -> Int] /\ cashBy \in [Accounts -> Requests \cup {None}]
         /\ tx[t].maker \in OrderIds /\ tx[t].maker # t /\ orders[tx[t].maker] # None
         /\ BuyId(t) \in OrderIds /\ SellId(t) \in OrderIds /\ BuyId(t) # SellId(t)
         /\ {BuyId(t), SellId(t)} = {t, tx[t].maker}
         /\ ordersW[BuyId(t)] \in Order /\ ordersW[SellId(t)] \in Order
         /\ orderBy[BuyId(t)] = t /\ orderBy[SellId(t)] = t
         /\ TheFill(t) \in Fill /\ tx[t].applied \in Nat /\ FillPrice(t) \in Nat
         /\ tx[t].applied * FillPrice(t) = Worth(TheFill(t))
         /\ tx[t].applied * FillPrice(t) \in Int
         /\ TheFill(t).qty = tx[t].applied
         /\ TheFill(t).buy = BuyId(t) /\ TheFill(t).sell = SellId(t)
         /\ LegAccount(t, "buyer") \in Accounts /\ LegAccount(t, "seller") \in Accounts
         /\ ordersW[BuyId(t)].account = LegAccount(t, "buyer")
         /\ ordersW[SellId(t)].account = LegAccount(t, "seller")
<1>1. /\ t \in Lockers /\ t # None /\ t \in OrderIds
      /\ tx[t] \in TxType /\ tx \in [Requests -> TxType] /\ MadeFine(t)
      /\ ordersW \in [OrderIds -> Order \cup {None}] /\ orderBy \in [OrderIds -> Lockers \cup {None}]
      /\ cashW \in [Accounts -> Int] /\ cashBy \in [Accounts -> Requests \cup {None}]
      /\ TxFine(t) /\ KeyFine(t)
  BY SeedAssumption DEF Lockers, OrderIds, LedgerInv, KInv, FInv, IInv, TypeOK, Reconciled
<1>2. orders[t] = None /\ orderBy[t] = t /\ orderBy[tx[t].maker] = t /\ orders[tx[t].maker] # None
  BY <1>1 DEF TxFine, KeyFine, Placed, Matching
<1>3. {BuyId(t), SellId(t)} = {t, tx[t].maker} /\ BuyId(t) # SellId(t)
  BY <1>2 DEF BuyId, SellId
<1>4. /\ tx[t].maker \in OrderIds /\ BuyId(t) \in OrderIds /\ SellId(t) \in OrderIds
      /\ tx[t].applied \in 1..MaxQty /\ FillPrice(t) \in Ticks
      /\ ordersW[BuyId(t)] \in Order /\ ordersW[SellId(t)] \in Order
      /\ LegAccount(t, "buyer") \in Accounts /\ LegAccount(t, "seller") \in Accounts
  BY LegFacts DEF LedgerInv, KInv, FInv
<1>5. TheFill(t) \in Fill
  BY <1>4 DEF TheFill, Fill
<1>6. tx[t].applied \in Nat /\ FillPrice(t) \in Nat
  BY <1>4, BodyAssumption DEF Ticks
<1>7. \A m, n \in Nat : m * n = n * m /\ m * n \in Int
  OBVIOUS
<1>8. TheFill(t).price = FillPrice(t) /\ TheFill(t).qty = tx[t].applied
  BY DEF TheFill
<1>9. /\ tx[t].applied * FillPrice(t) = Worth(TheFill(t))
      /\ tx[t].applied * FillPrice(t) \in Int
  BY <1>6, <1>7, <1>8 DEF Worth
<1>10. orderBy[BuyId(t)] = t /\ orderBy[SellId(t)] = t
  BY <1>2, <1>3
<1>11. /\ TheFill(t).buy = BuyId(t) /\ TheFill(t).sell = SellId(t)
       /\ ordersW[BuyId(t)].account = LegAccount(t, "buyer")
       /\ ordersW[SellId(t)].account = LegAccount(t, "seller")
  BY DEF TheFill, LegAccount
<1> QED BY <1>1, <1>2, <1>3, <1>4, <1>5, <1>6, <1>8, <1>9, <1>10, <1>11

\* What the holder of a row knows, by its name.
LEMMA HolderIs ==
  ASSUME NEW s
  PROVE  /\ \A o : orderBy'[o] = s => /\ Known(orderBy[o])' = Known(s)'
                                     /\ HalfQty(orderBy[o], o)' = HalfQty(s, o)'
         /\ \A a : cashBy'[a] = s => /\ Known(cashBy[a])' = Known(s)'
                                    /\ HalfValue(cashBy[a], a)' = HalfValue(s, a)'
  BY DEF Known, Own, HalfQty, HalfValue, Halfway, LegAccount, BuyId, FillPrice

\* A fill that is within the room of an order advances it by its quantity.
LEMMA AdvancedBy ==
  ASSUME NEW o \in Order, NEW q \in Nat, q <= o.qty - o.filled
  PROVE  Advanced(o, q).filled = o.filled + q /\ Advanced(o, q).account = o.account
<1>1. o.filled \in Int /\ o.qty \in Int
  BY BodyAssumption DEF Order
<1> QED BY <1>1 DEF Advanced, Lesser, Order

\* Every row keeps its account.
LEMMA SameOwners ==
  ASSUME LedgerInv, \A o \in OrderIds : ordersW'[o].account = ordersW[o].account
  PROVE  \A F \in SUBSET Fill, a \in Accounts :
            /\ {f \in F : ordersW'[f.sell].account = a} = Sold(F, a)
            /\ {f \in F : ordersW'[f.buy].account = a} = Bought(F, a)
  BY DEF Sold, Bought, Fill

\* The buyer's leg: the order and the balance move by the same fill, half of it posted.
LEMMA BuyerLedger ==
  ASSUME LedgerInv, KInv', GoesOn, NEW t \in Requests, tx[t].pc = "buyerPost",
         fills' = fills, orders' = orders, cash' = cash, orderBy' = orderBy,
         LET a == LegAccount(t, "buyer") IN
         /\ cashBy[a] \in {None, t} /\ cashBy' = [cashBy EXCEPT ![a] = t]
         /\ cashW' = [cashW EXCEPT ![a] = @ - tx[t].applied * FillPrice(t)],
         ordersW' = [ordersW EXCEPT ![BuyId(t)] = Advanced(@, tx[t].applied)],
         tx' = [tx EXCEPT ![t].pc = "seller"]
  PROVE  LedgerInv'
<1> DEFINE a == LegAccount(t, "buyer")
           id == BuyId(t)
           q == tx[t].applied
           amount == tx[t].applied * FillPrice(t)
<1>0. tx[t].pc \in Legs /\ ~Halfway(t)
  BY DEF Legs, Halfway, SellerLeg
<1>1. /\ t \in Lockers /\ t # None /\ tx[t] \in TxType /\ tx \in [Requests -> TxType] /\ MadeFine(t)
      /\ ordersW \in [OrderIds -> Order \cup {None}]
      /\ cashW \in [Accounts -> Int] /\ cashBy \in [Accounts -> Requests \cup {None}]
      /\ id \in OrderIds /\ SellId(t) \in OrderIds /\ id # SellId(t)
      /\ ordersW[id] \in Order /\ orderBy[id] = t /\ q \in Nat /\ amount \in Int
      /\ a \in Accounts /\ ordersW[id].account = a
  BY <1>0, PostFacts
<1>2. /\ \A u \in Requests \ {t} : tx'[u] = tx[u]
      /\ tx'[t].pc = "seller" /\ tx'[t].made = tx[t].made /\ tx'[t].maker = tx[t].maker
      /\ tx'[t].applied = q /\ tx'[t].body = tx[t].body /\ tx'[t].snap = tx[t].snap
  BY <1>1 DEF TxType
<1>3. q <= ordersW[id].qty - ordersW[id].filled
  BY <1>0, <1>1 DEF MadeFine, Room, SellerLeg
<1>4. /\ ordersW'[id].filled = ordersW[id].filled + q
      /\ \A o \in OrderIds : /\ ordersW'[o].account = ordersW[o].account
                             /\ o # id => ordersW'[o] = ordersW[o]
      /\ ordersW'[id] # None
  <2>1. ordersW'[id] = Advanced(ordersW[id], q) /\ \A o \in OrderIds \ {id} : ordersW'[o] = ordersW[o]
    BY <1>1
  <2>2. /\ Advanced(ordersW[id], q).filled = ordersW[id].filled + q
        /\ Advanced(ordersW[id], q).account = ordersW[id].account
    BY <1>1, <1>3, AdvancedBy
  <2>3. Advanced(ordersW[id], q) # None
    <3>1. RowFine(ordersW[id]) /\ q \in 1..MaxQty
      <4>1. q \in 1..MaxQty /\ ordersW[id] # None
        BY <1>0, <1>1, LegFacts, SeedAssumption DEF LedgerInv, KInv, FInv
      <4> QED BY <1>1, <4>1 DEF LedgerInv, KInv, FInv, IInv, RowsFine
    <3>2. Advanced(ordersW[id], q) \in Order
      BY <1>1, <3>1, AdvancedFine
    <3> QED BY <3>2, SeedAssumption
  <2> HIDE DEF id, q
  <2> QED BY <2>1, <2>2, <2>3
<1>5. /\ cashBy'[a] = t /\ cashW'[a] = cashW[a] - amount
      /\ \A c \in Accounts : c # a => cashBy'[c] = cashBy[c] /\ cashW'[c] = cashW[c]
  BY <1>1
<1>6. Leaves(t)
  BY <1>1, <1>2, <1>4, <1>5 DEF Leaves
<1>7. CashSynced'
  BY <1>1, <1>5 DEF CashSynced, LedgerInv, Reconciled
<1>8. Known(t)' = Known(t) /\ Halfway(t)' /\ BuyId(t)' = id /\ SellId(t)' = SellId(t)
  BY <1>2 DEF Known, Own, Halfway, SellerLeg, BuyId, SellId
<1>9. LegAccount(t, "buyer")' = a /\ FillPrice(t)' = FillPrice(t)
  BY <1>1, <1>2, <1>4, <1>8 DEF LegAccount, FillPrice
<1>10. ASSUME NEW o \in OrderIds, orderBy'[o] = t PROVE RowExplained(o)'
  <2>1. On(Known(orderBy[o]), o)' = On(Known(t), o)
    <3>1. Known(orderBy[o])' = Known(t)'
      BY <1>10 DEF Known, Own
    <3> QED BY <1>8, <3>1 DEF On
  <2>2. HalfQty(orderBy[o], o)' = IF o = id THEN q ELSE 0
    <3>1. HalfQty(orderBy[o], o)' = HalfQty(t, o)'
      BY <1>10 DEF HalfQty, Halfway, BuyId
    <3> QED BY <1>2, <1>8, <3>1 DEF HalfQty
  <2>3. ordersW[o] # None => ordersW[o].filled = Base(o) + QtySum(On(Known(t), o)) + 0
    <3>1. HalfQty(t, o) = 0
      BY <1>0 DEF HalfQty
    <3> QED BY <1>1, <1>10, <3>1, AsHeld
  <2>4. Base(o) \in Int /\ QtySum(On(Known(t), o)) \in Int
    BY SeedAssumption, BodyAssumption, KnownType, FS_Subset, QtyOf DEF Base, Order, On
  <2>5. CASE o = id
    BY <1>1, <1>4, <2>1, <2>2, <2>3, <2>4, <2>5, SeedAssumption DEF RowExplained
  <2>6. CASE o # id
    BY <1>4, <2>1, <2>2, <2>3, <2>4, <2>6 DEF RowExplained
  <2> QED BY <2>5, <2>6
<1>11. ASSUME NEW c \in Accounts, cashBy'[c] = t PROVE BalanceExplained(c)'
  <2>1. /\ Sold(Known(cashBy[c]), c)' = Sold(Known(t), c)
        /\ Bought(Known(cashBy[c]), c)' = Bought(Known(t), c)
    <3>1. Known(cashBy[c])' = Known(t)
      BY <1>8, <1>11 DEF Known, Own
    <3>2. Known(t) \in SUBSET Fill
      BY KnownType
    <3>3. /\ Sold(Known(cashBy[c]), c)' = {f \in Known(t) : ordersW'[f.sell].account = c}
          /\ Bought(Known(cashBy[c]), c)' = {f \in Known(t) : ordersW'[f.buy].account = c}
      BY <3>1 DEF Sold, Bought
    <3> QED BY <1>4, <3>2, <3>3, SameOwners
  <2>2. HalfValue(cashBy[c], c)' = IF c = a THEN amount ELSE 0
    <3>1. HalfValue(cashBy[c], c)' = HalfValue(t, c)'
      BY <1>11, HolderIs
    <3> QED BY <1>2, <1>8, <1>9, <3>1 DEF HalfValue
  <2>3. cashW[c] = SeedCash[c] + Value(Sold(Known(t), c)) - Value(Bought(Known(t), c)) - 0
    <3>1. HalfValue(t, c) = 0
      BY <1>0 DEF HalfValue
    <3>2. cashBy[c] \in {None, t}
      BY <1>5, <1>11
    <3> QED BY <1>1, <3>1, <3>2, AsHeld
  <2>4. /\ SeedCash[c] \in Int /\ Value(Sold(Known(t), c)) \in Int
        /\ Value(Bought(Known(t), c)) \in Int /\ amount \in Int
    BY <1>1, SeedAssumption, KnownType, FS_Subset, ValueOf DEF Sold, Bought
  <2> HIDE DEF a, amount
  <2>5. CASE c = a
    BY <1>5, <2>1, <2>2, <2>3, <2>4, <2>5 DEF BalanceExplained
  <2>6. CASE c # a
    BY <1>5, <2>1, <2>2, <2>3, <2>4, <2>6 DEF BalanceExplained
  <2> QED BY <2>5, <2>6
<1>12. MadeFine(t)'
  <2>1. \A f \in tx[t].made : Holds(t, f)'
    <3> SUFFICES ASSUME NEW f \in tx[t].made PROVE Holds(t, f)'
      OBVIOUS
    <3>1. Holds(t, f) /\ \A o \in {f.buy, f.sell} : o \in OrderIds
      BY <1>1 DEF MadeFine, TxType, Fill
    <3>2. \A o \in {f.buy, f.sell} : ordersW'[o] # None /\ ordersW[o].account \in Accounts
      BY <1>1, <1>4, <3>1 DEF Holds, Order
    <3>3. \A o \in {f.buy, f.sell} : cashBy'[ordersW'[o].account] = t
      BY <1>4, <1>5, <3>1, <3>2 DEF Holds
    <3> QED BY <1>0, <1>2, <3>1, <3>2, <3>3 DEF Holds
  <2>2. Room(SellId(t))' = Room(SellId(t))
    BY <1>1, <1>4, <1>8 DEF Room
  <2>3. "seller" \in Legs /\ "seller" \in SellerLeg /\ "seller" \in Matching
    BY DEF Legs, SellerLeg, Matching
  <2>4. cashBy'[LegAccount(t, "buyer")'] = t
    BY <1>5, <1>9
  <2> QED BY <1>0, <1>1, <1>2, <2>1, <2>2, <2>3, <2>4 DEF MadeFine
<1> QED BY <1>1, <1>6, <1>7, <1>10, <1>11, <1>12, Frame

\* A fill that is neither committed nor made before joins those of its orders and
\* accounts.
LEMMA Joins ==
  ASSUME LedgerInv, NEW t \in Requests, NEW f \in Fill, f \notin Known(t)
  PROVE  /\ \A o : QtySum(On(Known(t) \cup {f}, o))
                     = QtySum(On(Known(t), o)) + (IF o \in {f.buy, f.sell} THEN f.qty ELSE 0)
         /\ \A a : /\ Value(Sold(Known(t) \cup {f}, a))
                        = Value(Sold(Known(t), a))
                            + (IF ordersW[f.sell].account = a THEN Worth(f) ELSE 0)
                   /\ Value(Bought(Known(t) \cup {f}, a))
                        = Value(Bought(Known(t), a))
                            + (IF ordersW[f.buy].account = a THEN Worth(f) ELSE 0)
<1> DEFINE K == Known(t)
<1>1. K \subseteq Fill /\ IsFiniteSet(K)
  BY KnownType
<1>2. ASSUME NEW G \in SUBSET K
      PROVE  /\ f.qty \in Int /\ Worth(f) \in Int
             /\ QtySum(G) \in Int /\ Value(G) \in Int
             /\ QtySum(G \cup {f}) = QtySum(G) + f.qty
             /\ Value(G \cup {f}) = Value(G) + Worth(f)
  <2>1. G \in SUBSET Fill /\ IsFiniteSet(G) /\ f \notin G
    BY <1>1, FS_Subset
  <2> QED BY <2>1, OneMore
<1> HIDE DEF K
<1>3. ASSUME NEW o
      PROVE  QtySum(On(K \cup {f}, o))
               = QtySum(On(K, o)) + (IF o \in {f.buy, f.sell} THEN f.qty ELSE 0)
  <2>1. On(K, o) \in SUBSET K
    BY DEF On
  <2>2. On(K \cup {f}, o) = IF o \in {f.buy, f.sell} THEN On(K, o) \cup {f} ELSE On(K, o)
    BY DEF On
  <2> QED BY <1>2, <2>1, <2>2
<1>4. ASSUME NEW a
      PROVE  Value(Sold(K \cup {f}, a))
               = Value(Sold(K, a)) + (IF ordersW[f.sell].account = a THEN Worth(f) ELSE 0)
  <2>1. Sold(K, a) \in SUBSET K
    BY DEF Sold
  <2>2. Sold(K \cup {f}, a) = IF ordersW[f.sell].account = a THEN Sold(K, a) \cup {f} ELSE Sold(K, a)
    BY DEF Sold
  <2> QED BY <1>2, <2>1, <2>2
<1>5. ASSUME NEW a
      PROVE  Value(Bought(K \cup {f}, a))
               = Value(Bought(K, a)) + (IF ordersW[f.buy].account = a THEN Worth(f) ELSE 0)
  <2>1. Bought(K, a) \in SUBSET K
    BY DEF Bought
  <2>2. Bought(K \cup {f}, a) = IF ordersW[f.buy].account = a THEN Bought(K, a) \cup {f} ELSE Bought(K, a)
    BY DEF Bought
  <2> QED BY <1>2, <2>1, <2>2
<1> QED BY <1>3, <1>4, <1>5 DEF K

\* The seller's leg: the fill is made, and both of its halves are posted.
LEMMA SellerLedger ==
  ASSUME LedgerInv, KInv', GoesOn, NEW t \in Requests, tx[t].pc = "sellerPost",
         fills' = fills, orders' = orders, cash' = cash, orderBy' = orderBy,
         LET a == LegAccount(t, "seller") IN
         /\ cashBy[a] \in {None, t} /\ cashBy' = [cashBy EXCEPT ![a] = t]
         /\ cashW' = [cashW EXCEPT ![a] = @ + tx[t].applied * FillPrice(t)],
         ordersW' = [ordersW EXCEPT ![SellId(t)] = Advanced(@, tx[t].applied)],
         tx' = [tx EXCEPT ![t].pc = "match", ![t].left = @ - tx[t].want,
                          ![t].made = @ \cup {TheFill(t)}, ![t].maker = None,
                          ![t].want = 0, ![t].applied = 0, ![t].posSeen = 0]
  PROVE  LedgerInv'
<1> DEFINE a == LegAccount(t, "seller")
           b == LegAccount(t, "buyer")
           id == SellId(t)
           q == tx[t].applied
           amount == tx[t].applied * FillPrice(t)
<1>a. PICK f : f = TheFill(t)
  OBVIOUS
<1>0. tx[t].pc \in Legs /\ Halfway(t) /\ tx[t].pc \in SellerLeg
  BY DEF Legs, Halfway, SellerLeg
<1>1. /\ t \in Lockers /\ t # None /\ t \in OrderIds /\ orders[t] = None
      /\ tx[t] \in TxType /\ tx \in [Requests -> TxType] /\ MadeFine(t)
      /\ ordersW \in [OrderIds -> Order \cup {None}]
      /\ cashW \in [Accounts -> Int] /\ cashBy \in [Accounts -> Requests \cup {None}]
  BY <1>0, PostFacts
<1>2. /\ tx[t].maker # t /\ orders[tx[t].maker] # None
      /\ id \in OrderIds /\ BuyId(t) \in OrderIds /\ BuyId(t) # id
      /\ {BuyId(t), id} = {t, tx[t].maker}
      /\ ordersW[id] \in Order /\ ordersW[BuyId(t)] \in Order
      /\ orderBy[id] = t /\ orderBy[BuyId(t)] = t /\ q \in Nat /\ amount \in Int
      /\ a \in Accounts /\ ordersW[id].account = a
      /\ b \in Accounts /\ ordersW[BuyId(t)].account = b
      /\ f \in Fill /\ f.qty = q /\ Worth(f) = amount /\ f.buy = BuyId(t) /\ f.sell = id
  BY <1>0, <1>a, PostFacts
<1>3. /\ \A u \in Requests \ {t} : tx'[u] = tx[u]
      /\ tx'[t].pc = "match" /\ tx'[t].made = tx[t].made \cup {f}
      /\ tx'[t].snap = tx[t].snap
  BY <1>1, <1>a DEF TxType
<1>4. q <= ordersW[id].qty - ordersW[id].filled
  BY <1>0, <1>1 DEF MadeFine, Room
<1>5. f \notin Known(t)
  <2>1. t \in {f.buy, f.sell} /\ tx[t].maker \in {f.buy, f.sell}
    BY <1>2
  <2>2. f \notin fills
    BY <1>1, <2>1 DEF LedgerInv, Reconciled, FillsFine, Exists
  <2>3. f \notin tx[t].made
    BY <1>0, <1>1, <2>1 DEF MadeFine, Holds
  <2> QED BY <2>2, <2>3 DEF Known, Own
<1>6. /\ ordersW'[id].filled = ordersW[id].filled + q
      /\ \A o \in OrderIds : /\ ordersW'[o].account = ordersW[o].account
                             /\ o # id => ordersW'[o] = ordersW[o]
      /\ ordersW'[id] # None
  <2>1. ordersW'[id] = Advanced(ordersW[id], q) /\ \A o \in OrderIds \ {id} : ordersW'[o] = ordersW[o]
    BY <1>1, <1>2
  <2>2. /\ Advanced(ordersW[id], q).filled = ordersW[id].filled + q
        /\ Advanced(ordersW[id], q).account = ordersW[id].account
    BY <1>2, <1>4, AdvancedBy
  <2>3. Advanced(ordersW[id], q) # None
    <3>1. q \in 1..MaxQty /\ ordersW[id] # None
      BY <1>0, <1>2, LegFacts, SeedAssumption DEF LedgerInv, KInv, FInv
    <3>2. RowFine(ordersW[id])
      BY <1>2, <3>1 DEF LedgerInv, KInv, FInv, IInv, RowsFine
    <3>3. Advanced(ordersW[id], q) \in Order
      BY <1>2, <3>1, <3>2, AdvancedFine
    <3> QED BY <3>3, SeedAssumption
  <2> HIDE DEF id, q
  <2> QED BY <2>1, <2>2, <2>3
<1>7. /\ cashBy'[a] = t /\ cashW'[a] = cashW[a] + amount
      /\ \A c \in Accounts : c # a => cashBy'[c] = cashBy[c] /\ cashW'[c] = cashW[c]
  BY SMTT(30), <1>1, <1>2
<1>8. Leaves(t)
  BY ZenonT(40), <1>1, <1>2, <1>3, <1>6, <1>7 DEF Leaves
<1>9. CashSynced'
  BY SMTT(30), <1>1, <1>7 DEF CashSynced, LedgerInv, Reconciled
<1>10. Known(t)' = Known(t) \cup {f} /\ ~Halfway(t)'
  BY ZenonT(40), <1>3 DEF Known, Own, Halfway, SellerLeg
<1>11. ASSUME NEW o \in OrderIds, orderBy'[o] = t PROVE RowExplained(o)'
  <2>1. On(Known(orderBy[o]), o)' = On(Known(t) \cup {f}, o)
    <3>1. Known(orderBy[o])' = Known(t)'
      BY SMTT(30), <1>11, HolderIs
    <3> QED BY <1>10, <3>1 DEF On
  <2>2. HalfQty(orderBy[o], o)' = 0
    <3>1. HalfQty(orderBy[o], o)' = HalfQty(t, o)'
      BY <1>11, HolderIs
    <3> QED BY <1>10, <3>1 DEF HalfQty
  <2>3. ordersW[o] # None => ordersW[o].filled = Base(o) + QtySum(On(Known(t), o)) + HalfQty(t, o)
    BY <1>1, <1>11, AsHeld
  <2>4. HalfQty(t, o) = IF o = BuyId(t) THEN q ELSE 0
    BY <1>0 DEF HalfQty
  <2>5. QtySum(On(Known(t) \cup {f}, o))
          = QtySum(On(Known(t), o)) + (IF o \in {BuyId(t), id} THEN q ELSE 0)
    <3> HIDE DEF id, q
    <3>1. QtySum(On(Known(t) \cup {f}, o))
            = QtySum(On(Known(t), o)) + (IF o \in {f.buy, f.sell} THEN f.qty ELSE 0)
      <4>1. f \in Fill
        BY <1>2
      <4> QED BY ZenonT(40), <1>5, <4>1, Joins
    <3> QED BY <1>2, <3>1
  <2>6. Base(o) \in Int /\ QtySum(On(Known(t), o)) \in Int
    BY SeedAssumption, BodyAssumption, KnownType, FS_Subset, QtyOf DEF Base, Order, On
  <2>7. ordersW[id] # None
    BY <1>2, SeedAssumption
  <2>8. PICK n : n = QtySum(On(Known(t), o))
    OBVIOUS
  <2>9. ordersW'[o] # None => ordersW'[o].filled = Base(o) + QtySum(On(Known(t) \cup {f}, o)) + 0
    <3> HIDE DEF id, q
    <3>1. CASE o = id
      BY <1>2, <1>6, <2>3, <2>4, <2>5, <2>6, <2>7, <2>8, <3>1
    <3>2. CASE o # id
      BY <1>2, <1>6, <2>3, <2>4, <2>5, <2>6, <2>8, <3>2
    <3> QED BY <3>1, <3>2
  <2> QED BY <2>1, <2>2, <2>9 DEF RowExplained
<1>b. \A x : /\ Value(Sold(Known(t) \cup {f}, x))
                = Value(Sold(Known(t), x)) + (IF ordersW[f.sell].account = x THEN Worth(f) ELSE 0)
            /\ Value(Bought(Known(t) \cup {f}, x))
                = Value(Bought(Known(t), x)) + (IF ordersW[f.buy].account = x THEN Worth(f) ELSE 0)
  <2>1. f \in Fill
    BY <1>2
  <2> QED BY <1>5, <2>1, Joins, Zenon
<1>12. ASSUME NEW c \in Accounts, cashBy'[c] = t PROVE BalanceExplained(c)'
  <2>1. /\ Sold(Known(cashBy[c]), c)' = Sold(Known(t) \cup {f}, c)
        /\ Bought(Known(cashBy[c]), c)' = Bought(Known(t) \cup {f}, c)
    <3>1. Known(cashBy[c])' = Known(t) \cup {f}
      BY <1>10, <1>12, HolderIs
    <3>2. Known(t) \cup {f} \in SUBSET Fill
      BY <1>2, KnownType
    <3>3. /\ Sold(Known(cashBy[c]), c)' = {g \in Known(t) \cup {f} : ordersW'[g.sell].account = c}
          /\ Bought(Known(cashBy[c]), c)' = {g \in Known(t) \cup {f} : ordersW'[g.buy].account = c}
      BY SMTT(30), <3>1 DEF Sold, Bought
    <3> QED BY <1>6, <3>2, <3>3, SameOwners
  <2>2. HalfValue(cashBy[c], c)' = 0
    <3>1. HalfValue(cashBy[c], c)' = HalfValue(t, c)'
      BY <1>12, HolderIs
    <3> QED BY <1>10, <3>1 DEF HalfValue
  <2>3. cashW[c] = SeedCash[c] + Value(Sold(Known(t), c)) - Value(Bought(Known(t), c)) - HalfValue(t, c)
    <3>1. cashBy[c] \in {None, t}
      BY <1>7, <1>12
    <3> QED BY <1>1, <3>1, AsHeld
  <2>4. HalfValue(t, c) = IF c = b THEN amount ELSE 0
    BY <1>0 DEF HalfValue
  <2>5. /\ Value(Sold(Known(t) \cup {f}, c)) = Value(Sold(Known(t), c)) + (IF c = a THEN amount ELSE 0)
        /\ Value(Bought(Known(t) \cup {f}, c))
             = Value(Bought(Known(t), c)) + (IF c = b THEN amount ELSE 0)
    <3>1. ordersW[f.sell].account = a /\ ordersW[f.buy].account = b
      BY <1>2
    <3>2. f \in Fill /\ amount = Worth(f)
      BY <1>2
    <3> HIDE DEF a, b, amount
    <3>4. Value(Sold(Known(t) \cup {f}, c))
            = Value(Sold(Known(t), c)) + (IF ordersW[f.sell].account = c THEN Worth(f) ELSE 0)
      BY <1>b, Zenon
    <3>5. Value(Bought(Known(t) \cup {f}, c))
            = Value(Bought(Known(t), c)) + (IF ordersW[f.buy].account = c THEN Worth(f) ELSE 0)
      BY <1>b, Zenon
    <3> QED BY <3>1, <3>2, <3>4, <3>5
  <2>6. /\ SeedCash[c] \in Int /\ Value(Sold(Known(t), c)) \in Int
        /\ Value(Bought(Known(t), c)) \in Int /\ amount \in Int
    <3>1. Value(Sold(Known(t), c)) \in Int /\ Value(Bought(Known(t), c)) \in Int
      BY KnownType, FS_Subset, ValueOf DEF Sold, Bought
    <3> QED BY <1>2, <3>1, SeedAssumption
  <2> HIDE DEF a, b, amount
  <2>7. cashW'[c] = cashW[c] + (IF c = a THEN amount ELSE 0)
    <3>1. cashW[c] \in Int
      BY <1>1
    <3> QED BY <1>7, <3>1
  <2>8. cashW'[c] = SeedCash[c] + Value(Sold(Known(t) \cup {f}, c))
                      - Value(Bought(Known(t) \cup {f}, c)) - 0
    BY SMTT(30), <2>3, <2>4, <2>5, <2>6, <2>7
  <2> QED BY SMTT(30), <2>1, <2>2, <2>8 DEF BalanceExplained
<1>13. MadeFine(t)'
  <2>1. ASSUME NEW o \in OrderIds, ordersW[o] # None, cashBy[ordersW[o].account] = t
        PROVE  ordersW'[o] # None /\ cashBy'[ordersW'[o].account] = t
    <3>1. ordersW[o].account \in Accounts
      BY SMTT(30), <1>1, <2>1 DEF Order
    <3> QED BY <1>6, <1>7, <2>1, <3>1
  <2>2. \A g \in tx[t].made : Holds(t, g)'
    <3> SUFFICES ASSUME NEW g \in tx[t].made PROVE Holds(t, g)'
      OBVIOUS
    <3>1. Holds(t, g) /\ \A o \in {g.buy, g.sell} : o \in OrderIds
      BY SMTT(30), <1>1 DEF MadeFine, TxType, Fill
    <3>2. \A o \in {g.buy, g.sell} : ordersW'[o] # None /\ cashBy'[ordersW'[o].account] = t
      BY SMTT(30), <2>1, <3>1 DEF Holds
    <3> QED BY ZenonT(40), <1>3, <3>1, <3>2 DEF Holds, Legs
  <2>3. Holds(t, f)'
    <3>1. cashBy[b] = t
      BY <1>0, <1>1 DEF MadeFine
    <3>2. cashBy'[b] = t
      BY SMTT(30), <1>2, <1>7, <3>1
    <3>3. \A o \in {f.buy, f.sell} : ordersW'[o] # None /\ cashBy'[ordersW'[o].account] = t
      <4>1. ordersW'[BuyId(t)].account = b /\ ordersW'[id].account = a /\ ordersW'[BuyId(t)] # None
        BY <1>2, <1>6, SeedAssumption
      <4> QED BY <1>2, <1>6, <1>7, <3>2, <4>1
    <3>4. \A o \in {f.buy, f.sell} : o = t \/ o = tx[t].maker
      BY <1>2
    <3>5. \A e \in tx[t].snap : e.id # t /\ e.id # tx[t].maker
      <4>1. \A e \in tx[t].snap : orders[e.id] # None
        BY ZenonT(40) DEF LedgerInv, KInv, FInv, IInv, TxFine
      <4> QED BY <1>0, <1>1, <4>1 DEF MadeFine
    <3>6. t \in {f.buy, f.sell} /\ \A o \in {f.buy, f.sell} : orderBy[o] = t
      BY <1>2
    <3> QED BY ZenonT(40), <1>3, <3>3, <3>4, <3>5, <3>6 DEF Holds, Legs
  <2>4. "match" \in Matching /\ "match" \notin Legs /\ "match" \notin SellerLeg
    BY DEF Legs, SellerLeg, Matching
  <2>5. IsFiniteSet(tx'[t].made)
    <3>1. IsFiniteSet(tx[t].made)
      BY <1>1 DEF MadeFine
    <3>2. IsFiniteSet(tx[t].made \cup {f})
      BY <3>1, FS_AddElement
    <3> QED BY ZenonT(40), <1>3, <3>2
  <2> QED BY ZenonT(40), <1>3, <2>2, <2>3, <2>4, <2>5 DEF MadeFine
<1> QED BY <1>1, <1>8, <1>9, <1>11, <1>12, <1>13, Frame

\* Posting a leg reconciles, unless its failure is swallowed.
LEMMA PostLedger ==
  ASSUME LedgerInv, KInv', GoesOn, NEW t \in Requests, NEW leg \in {"buyer", "seller"},
         Post(t, leg), tx'[t].pc # "swallowed"
  PROVE  LedgerInv'
<1>0. tx \in [Requests -> TxType]
  BY DEF LedgerInv, KInv, FInv, IInv, TypeOK
<1>1. ~Swallow(t)
  BY <1>0 DEF Swallow, TxType
<1>2. CASE Abort(t)
  BY <1>2, AbortLedger
<1>3. CASE leg = "buyer" /\ ~Abort(t)
  BY SMTT(30), <1>1, <1>3, BuyerLedger DEF Post, Balance
<1>4. CASE leg = "seller"
  BY ZenonT(40), <1>4, SellerLedger DEF Post, Balance
<1> QED BY <1>2, <1>3, <1>4

-------------------------------------------------------------------------------------
(* Commits: what the transaction made joins the committed fills, and every row it    *)
(* held is explained by them.                                                        *)

\* What a commit does to the rows of s: they become the committed ones, perhaps with
\* another status.
Concludes(s) ==
    /\ fills' = fills \cup Own(s) /\ cashW' = cashW
    /\ \A o \in OrderIds : /\ ordersW'[o] = None <=> ordersW[o] = None
                           /\ ordersW'[o].account = ordersW[o].account
                           /\ ordersW'[o].filled = ordersW[o].filled
    /\ \A o \in OrderIds : orderBy[o] = s => orderBy'[o] = None /\ orders'[o] = ordersW'[o]
    /\ \A o \in OrderIds : orderBy[o] # s => /\ orderBy'[o] = orderBy[o]
                                             /\ orders'[o] = orders[o]
                                             /\ ordersW'[o] = ordersW[o]
    /\ \A a \in Accounts : cashBy[a] = s => cashBy'[a] = None /\ cash'[a] = cashW[a]
    /\ \A a \in Accounts : cashBy[a] # s => cashBy'[a] = cashBy[a] /\ cash'[a] = cash[a]

\* The committed fills afterwards are those the rows of s know already, and none is of
\* a row of another.
LEMMA Committed ==
  ASSUME LedgerInv, NEW s \in Lockers, Concludes(s)
  PROVE  /\ fills' = Known(s)
         /\ \A o \in OrderIds : orderBy[o] # s => On(fills', o) = On(fills, o)
         /\ \A a \in Accounts : cashBy[a] # s => /\ Sold(fills', a) = Sold(fills, a)
                                                 /\ Bought(fills', a) = Bought(fills, a)
<1>1. fills' = Known(s)
  BY DEF Concludes, Known
<1> QED BY <1>1, Foreign

\* Every row is explained by the committed fills and those of its holder.
LEMMA CommitRowsExplained ==
  ASSUME LedgerInv, GoesOn, NEW s \in Lockers, Leaves(s), Concludes(s), ~Halfway(s),
         NEW o \in OrderIds
  PROVE  /\ RowExplained(o)'
         /\ Exists(o)' => orders'[o].filled = Base(o) + QtySum(On(fills', o))
<1>0. None # s /\ orderBy[o] \in Lockers \cup {None}
  BY SeedAssumption DEF Lockers, LedgerInv, KInv, FInv, IInv, TypeOK
<1>1. \A F \in SUBSET Fill : IsFiniteSet(F) => QtySum(On(F, o)) \in Int
  BY FS_Subset, QtyOf DEF On
<1>2. Base(o) \in Int
  BY SeedAssumption, BodyAssumption DEF Base, Order
<1>3. fills' = Known(s) /\ Known(s) \in SUBSET Fill /\ IsFiniteSet(Known(s))
  BY Committed, KnownType
<1>4. CASE orderBy[o] = s
  <2>1. ordersW[o] # None => ordersW[o].filled = Base(o) + QtySum(On(Known(s), o)) + HalfQty(s, o)
    BY <1>4, AsHeld
  <2>2. HalfQty(s, o) = 0
    BY DEF HalfQty
  <2>3. ordersW[o] # None => ordersW'[o].filled = Base(o) + QtySum(On(fills', o))
    <3>1. QtySum(On(Known(s), o)) \in Int
      BY <1>1, <1>3
    <3>2. ordersW[o] # None => ordersW[o].filled = Base(o) + QtySum(On(Known(s), o))
      BY <1>2, <2>1, <2>2, <3>1
    <3> QED BY <1>3, <3>2 DEF Concludes
  <2>4. orderBy'[o] = None /\ orders'[o] = ordersW'[o] /\ (ordersW'[o] = None <=> ordersW[o] = None)
    BY <1>4 DEF Concludes
  <2>5. Known(orderBy[o])' = fills' /\ HalfQty(orderBy[o], o)' = 0
    BY <2>4, SeedAssumption DEF Known, Own, HalfQty, Halfway, Lockers
  <2>6. On(Known(orderBy[o]), o)' = On(fills', o)
    BY <2>5 DEF On
  <2>7. QtySum(On(fills', o)) \in Int
    BY <1>1, <1>3
  <2>8. ordersW'[o] # None => ordersW'[o].filled = Base(o) + QtySum(On(fills', o)) + 0
    BY <1>2, <2>3, <2>4, <2>7
  <2> QED BY <2>3, <2>4, <2>5, <2>6, <2>8 DEF RowExplained, Exists
<1>5. CASE orderBy[o] # s
  <2>1. /\ orderBy'[o] = orderBy[o] /\ orders'[o] = orders[o] /\ ordersW'[o] = ordersW[o]
        /\ On(fills', o) = On(fills, o)
    BY <1>5, Committed DEF Concludes
  <2>2. PICK h : h = orderBy[o]
    OBVIOUS
  <2>3. HalfQty(h, o)' = HalfQty(h, o)
    BY <1>5, <2>2, HalfStays
  <2>4. Own(h)' = Own(h)
    BY <1>5, <2>2 DEF Own, Leaves
  <2>5. On(Known(h), o)' = On(Known(h), o)
    BY <2>1, <2>4 DEF On, Known
  <2>6. Known(orderBy[o])' = Known(h)' /\ HalfQty(orderBy[o], o)' = HalfQty(h, o)'
    BY <2>1, <2>2, HolderIs
  <2>7. On(Known(orderBy[o]), o)' = On(Known(h), o)
    BY <2>5, <2>6 DEF On
  <2>8. ordersW[o] # None => ordersW[o].filled = Base(o) + QtySum(On(Known(h), o)) + HalfQty(h, o)
    BY <2>2 DEF LedgerInv, Reconciled, RowExplained
  <2>9. Exists(o) => orders[o].filled = Base(o) + QtySum(On(fills, o))
    BY DEF LedgerInv, Reconciled, CommittedExplained
  <2> QED BY <2>1, <2>3, <2>6, <2>7, <2>8, <2>9 DEF RowExplained, Exists
<1> QED BY <1>4, <1>5

\* And every balance.
LEMMA CommitBalancesExplained ==
  ASSUME LedgerInv, GoesOn, NEW s \in Lockers, Leaves(s), Concludes(s), ~Halfway(s),
         NEW a \in Accounts
  PROVE  /\ BalanceExplained(a)'
         /\ cash'[a] = SeedCash[a] + Value(Sold(fills', a)) - Value(Bought(fills', a))
         /\ Sold(fills, a)' = Sold(fills', a) /\ Bought(fills, a)' = Bought(fills', a)
<1>0. None # s /\ cashBy[a] \in Requests \cup {None} /\ cashW[a] \in Int /\ SeedCash[a] \in Int
  BY SeedAssumption DEF Lockers, LedgerInv, KInv, FInv, IInv, TypeOK
<1>1. \A F \in SUBSET Fill : IsFiniteSet(F) => Value(Sold(F, a)) \in Int /\ Value(Bought(F, a)) \in Int
  <2> SUFFICES ASSUME NEW F \in SUBSET Fill, IsFiniteSet(F)
               PROVE  Value(Sold(F, a)) \in Int /\ Value(Bought(F, a)) \in Int
    OBVIOUS
  <2>1. /\ Sold(F, a) \subseteq Fill /\ IsFiniteSet(Sold(F, a))
        /\ Bought(F, a) \subseteq Fill /\ IsFiniteSet(Bought(F, a))
    BY FS_Subset DEF Sold, Bought
  <2> QED BY <2>1, ValueOf
<1>2. fills' = Known(s) /\ Known(s) \in SUBSET Fill /\ IsFiniteSet(Known(s))
  BY Committed, KnownType
<1>3. \A F \in SUBSET Fill : /\ {f \in F : ordersW'[f.sell].account = a} = Sold(F, a)
                             /\ {f \in F : ordersW'[f.buy].account = a} = Bought(F, a)
  BY SameOwners DEF Concludes
<1>4. Sold(fills, a)' = Sold(fills', a) /\ Bought(fills, a)' = Bought(fills', a)
  <2>1. /\ Sold(fills, a)' = {f \in fills' : ordersW'[f.sell].account = a}
        /\ Bought(fills, a)' = {f \in fills' : ordersW'[f.buy].account = a}
    BY DEF Sold, Bought
  <2> QED BY <1>2, <1>3, <2>1
<1>5. CASE cashBy[a] \in {None, s}
  <2>1. cashBy'[a] = None /\ cashW'[a] = cashW[a] /\ cash'[a] = cashW[a]
    BY <1>0, <1>5 DEF Concludes, LedgerInv, Reconciled, CashSynced
  <2>2. cashW[a] = SeedCash[a] + Value(Sold(Known(s), a)) - Value(Bought(Known(s), a)) - HalfValue(s, a)
    BY <1>5, AsHeld
  <2>3. HalfValue(s, a) = 0
    BY DEF HalfValue
  <2>4. Value(Sold(Known(s), a)) \in Int /\ Value(Bought(Known(s), a)) \in Int
    BY <1>1, <1>2
  <2>5. cashW[a] = SeedCash[a] + Value(Sold(Known(s), a)) - Value(Bought(Known(s), a))
    BY <1>0, <2>2, <2>3, <2>4
  <2>6. cashW[a] = SeedCash[a] + Value(Sold(fills', a)) - Value(Bought(fills', a))
    BY <1>2, <2>5
  <2>7. Known(cashBy[a])' = fills' /\ HalfValue(cashBy[a], a)' = 0
    BY <2>1, SeedAssumption DEF Known, Own, HalfValue, Halfway, Lockers
  <2>8. Sold(Known(cashBy[a]), a)' = Sold(fills', a) /\ Bought(Known(cashBy[a]), a)' = Bought(fills', a)
    BY <1>4, <2>7 DEF Sold, Bought
  <2>9. cashW'[a] = SeedCash[a] + Value(Sold(fills', a)) - Value(Bought(fills', a)) - 0
    BY <1>0, <1>2, <2>1, <2>4, <2>6
  <2> QED BY <1>4, <2>1, <2>6, <2>7, <2>8, <2>9 DEF BalanceExplained
<1>6. CASE cashBy[a] \notin {None, s}
  <2>1. /\ cashBy'[a] = cashBy[a] /\ cash'[a] = cash[a] /\ cashW'[a] = cashW[a]
        /\ Sold(fills', a) = Sold(fills, a) /\ Bought(fills', a) = Bought(fills, a)
    BY <1>6, Committed DEF Concludes
  <2>2. PICK h : h = cashBy[a]
    OBVIOUS
  <2>3. HalfValue(h, a)' = HalfValue(h, a)
    BY <1>6, <2>2, HalfStays
  <2>4. Own(h)' = Own(h) /\ Own(h) \in SUBSET Fill /\ fills \in SUBSET Fill
    BY <1>6, <2>2, KnownType DEF Own, Leaves
  <2>5. Sold(Known(h), a)' = Sold(Known(h), a) /\ Bought(Known(h), a)' = Bought(Known(h), a)
    <3>1. fills' \cup Own(h) \in SUBSET Fill
      BY <1>2, <2>4
    <3>2. /\ Sold(Known(h), a)' = {f \in fills' \cup Own(h) : ordersW'[f.sell].account = a}
          /\ Bought(Known(h), a)' = {f \in fills' \cup Own(h) : ordersW'[f.buy].account = a}
      BY <2>4 DEF Sold, Bought, Known
    <3>3. /\ Sold(Known(h), a)' = Sold(fills' \cup Own(h), a)
          /\ Bought(Known(h), a)' = Bought(fills' \cup Own(h), a)
      BY <1>3, <3>1, <3>2
    <3> QED BY <2>1, <3>3 DEF Sold, Bought, Known
  <2>6. Known(cashBy[a])' = Known(h)' /\ HalfValue(cashBy[a], a)' = HalfValue(h, a)'
    BY <2>1, <2>2, HolderIs
  <2>7. /\ Sold(Known(cashBy[a]), a)' = Sold(Known(h), a)
        /\ Bought(Known(cashBy[a]), a)' = Bought(Known(h), a)
    BY <2>5, <2>6 DEF Sold, Bought
  <2>8. cashW[a] = SeedCash[a] + Value(Sold(Known(h), a)) - Value(Bought(Known(h), a)) - HalfValue(h, a)
    BY <2>2 DEF LedgerInv, Reconciled, BalanceExplained
  <2>9. cash[a] = SeedCash[a] + Value(Sold(fills, a)) - Value(Bought(fills, a))
    BY DEF LedgerInv, Reconciled, CommittedExplained
  <2> QED BY <1>4, <2>1, <2>3, <2>6, <2>7, <2>8, <2>9 DEF BalanceExplained
<1> QED BY <1>5, <1>6

\* A commit reconciles.
LEMMA CommitLedger ==
  ASSUME LedgerInv, KInv', GoesOn, NEW s \in Lockers, Concludes(s), ~Halfway(s),
         \A u \in Requests \ {s} : tx'[u] = tx[u],
         s \in Requests => tx'[s].pc \notin Matching /\ tx'[s].made = {}
  PROVE  LedgerInv'
<1>1. Leaves(s)
  BY DEF Leaves, Concludes
<1>2. CashSynced'
  BY DEF CashSynced, LedgerInv, Reconciled, Concludes
<1>3. \A o \in OrderIds : Exists(o) => Exists(o)' /\ ordersW[o] # None
  BY DEF GoesOn, Continues, Exists, LedgerInv, KInv, FInv, Compatible
<1>4. FillsFine'
  <2>1. IsFiniteSet(fills')
    BY Committed, KnownType
  <2>2. ASSUME NEW f \in fills' PROVE Exists(f.buy)' /\ Exists(f.sell)'
    <3>1. f.buy \in OrderIds /\ f.sell \in OrderIds
      BY Committed, KnownType DEF Fill
    <3>2. CASE f \in fills
      BY <1>3, <3>1, <3>2 DEF LedgerInv, Reconciled, FillsFine
    <3>3. CASE f \in Own(s)
      <4>1. Holds(s, f)
        BY <3>3 DEF LedgerInv, Reconciled, MadeFine, Own
      <4> QED BY <3>1, <4>1 DEF Holds, Concludes, Exists
    <3> QED BY <2>2, <3>2, <3>3, Committed DEF Known
  <2> QED BY <2>1, <2>2 DEF FillsFine
<1>5. \A o \in OrderIds : RowExplained(o)'
  BY <1>1, CommitRowsExplained
<1>6. \A a \in Accounts : BalanceExplained(a)'
  BY <1>1, CommitBalancesExplained
<1>7. CommittedExplained'
  <2>1. \A o \in OrderIds : Exists(o)' => orders'[o].filled = Base(o) + QtySum(On(fills', o))
    BY <1>1, CommitRowsExplained
  <2>2. \A o \in OrderIds : On(fills, o)' = On(fills', o)
    BY DEF On
  <2>3. \A a \in Accounts :
           /\ cash'[a] = SeedCash[a] + Value(Sold(fills', a)) - Value(Bought(fills', a))
           /\ Sold(fills, a)' = Sold(fills', a) /\ Bought(fills, a)' = Bought(fills', a)
    BY <1>1, CommitBalancesExplained
  <2> QED BY <2>1, <2>2, <2>3 DEF CommittedExplained
<1>8. ASSUME NEW u \in Requests PROVE MadeFine(u)'
  BY <1>1, <1>8, OthersMade, MadeNothing
<1> QED BY <1>2, <1>4, <1>5, <1>6, <1>7, <1>8 DEF LedgerInv, Reconciled

\* The commits of a submission, of a cancel and of the sweep.
LEMMA CommitConcludes ==
  ASSUME LedgerInv, NEW t \in Requests, Commit(t) \/ CommitCancel(t)
  PROVE  /\ t \in Lockers /\ ~Halfway(t) /\ Concludes(t)
         /\ \A u \in Requests \ {t} : tx'[u] = tx[u]
         /\ tx'[t].pc \notin Matching /\ tx'[t].made = {}
<1>1. /\ t \in Lockers /\ tx[t] \in TxType /\ tx \in [Requests -> TxType]
      /\ ordersW \in [OrderIds -> Order \cup {None}]
  BY DEF LedgerInv, KInv, FInv, IInv, TypeOK, Lockers
<1>2. ~Halfway(t)
  BY DEF Commit, CommitCancel, Halfway, SellerLeg
<1>3. /\ \A u \in Requests \ {t} : tx'[u] = tx[u]
      /\ tx'[t].pc \notin Matching /\ tx'[t].made = {}
  <2>1. EndedTx(t, "done", t).pc \notin Matching /\ EndedTx(t, "done", t).made = {}
    BY DEF EndedTx, IdleTx, Matching, Legs
  <2>2. LET r == EndedTx(t, "done", tx[t].body.cancel) IN r.pc \notin Matching /\ r.made = {}
    BY DEF EndedTx, IdleTx, Matching, Legs
  <2>3. \E r : r.pc \notin Matching /\ r.made = {} /\ tx' = [tx EXCEPT ![t] = r]
    BY <2>1, <2>2 DEF Commit, CommitCancel
  <2> QED BY <1>1, <2>3
<1>4. /\ cashW' = cashW
      /\ \A a \in Accounts : cashBy[a] = t => cashBy'[a] = None /\ cash'[a] = cashW[a]
      /\ \A a \in Accounts : cashBy[a] # t => cashBy'[a] = cashBy[a] /\ cash'[a] = cash[a]
  BY DEF Commit, CommitCancel, CommitRows
<1>5. CASE Commit(t)
  <2> DEFINE closed == [ordersW[t] EXCEPT !.status = "CANCELLED"]
             close(o) == IF o = t /\ ordersW[t].kind = "market" /\ ordersW[t].filled < ordersW[t].qty
                         THEN closed ELSE ordersW[o]
  <2>1. ordersW[t] # None /\ t \in OrderIds
    BY <1>5 DEF LedgerInv, KInv, KeyFine, Placed, Matching, Commit, OrderIds
  <2>2. ordersW[t] \in Order
    BY <1>1, <2>1
  <2>3. closed # None /\ closed.account = ordersW[t].account /\ closed.filled = ordersW[t].filled
    <3>1. closed \in Order
      BY <2>2 DEF Order, Statuses
    <3> QED BY <2>2, <3>1, SeedAssumption DEF Order
  <2>4. \A o \in OrderIds : /\ orders'[o] = IF orderBy[o] = t THEN close(o) ELSE orders[o]
                            /\ ordersW'[o] = IF orderBy[o] = t THEN close(o) ELSE ordersW[o]
    BY <1>5 DEF Commit
  <2> HIDE DEF closed
  <2>5. \A o \in OrderIds : /\ close(o) = None <=> ordersW[o] = None
                            /\ close(o).account = ordersW[o].account
                            /\ close(o).filled = ordersW[o].filled
    BY <2>1, <2>3
  <2> HIDE DEF close
  <2>6. \A o \in OrderIds : orderBy'[o] = IF orderBy[o] = t THEN None ELSE orderBy[o]
    BY <1>5 DEF Commit, CommitRows
  <2>7. fills' = fills \cup Own(t)
    BY <1>5 DEF Commit, Own
  <2>8. Concludes(t)
    BY <1>4, <2>4, <2>5, <2>6, <2>7 DEF Concludes
  <2> QED BY <1>1, <1>2, <1>3, <2>8
<1>6. CASE CommitCancel(t)
  <2>1. Own(t) = {}
    BY <1>6 DEF LedgerInv, Reconciled, MadeFine, Own, CommitCancel, Matching, Legs
  <2>2. fills' = fills \cup Own(t) /\ ordersW' = ordersW
    BY <1>6, <2>1 DEF CommitCancel
  <2>3. \A o \in OrderIds : /\ orderBy'[o] = IF orderBy[o] = t THEN None ELSE orderBy[o]
                            /\ orders'[o] = IF orderBy[o] = t THEN ordersW[o] ELSE orders[o]
    BY <1>6 DEF CommitCancel, CommitRows
  <2>4. Concludes(t)
    BY <1>4, <2>2, <2>3 DEF Concludes
  <2> QED BY <1>1, <1>2, <1>3, <2>4
<1> QED BY <1>5, <1>6

LEMMA SweepConcludes ==
  ASSUME LedgerInv, CommitSweep
  PROVE  /\ Sweeper \in Lockers /\ ~Halfway(Sweeper) /\ Concludes(Sweeper)
         /\ Sweeper \notin Requests /\ Own(Sweeper) = {}
         /\ \A u \in Requests \ {Sweeper} : tx'[u] = tx[u]
<1>1. /\ Sweeper \in Lockers /\ Sweeper \notin Requests /\ ~Halfway(Sweeper)
      /\ Own(Sweeper) = {}
  BY KnownType, SeedAssumption DEF Lockers, Halfway
<1>2. Concludes(Sweeper)
  BY <1>1 DEF CommitSweep, CommitRows, Concludes
<1>3. \A u \in Requests \ {Sweeper} : tx'[u] = tx[u]
  BY DEF CommitSweep
<1> QED BY <1>1, <1>2, <1>3

LEMMA CommitsLedger ==
  ASSUME LedgerInv, KInv', GoesOn,
         CommitSweep \/ \E t \in Requests : Commit(t) \/ CommitCancel(t)
  PROVE  LedgerInv'
<1>1. CASE CommitSweep
  BY <1>1, SweepConcludes, CommitLedger
<1>2. ASSUME NEW t \in Requests, Commit(t) \/ CommitCancel(t) PROVE LedgerInv'
  BY <1>2, CommitConcludes, CommitLedger
<1> QED BY <1>1, <1>2

\* A row that is locked and given another status counts as filled what it did.
LEMMA Restatused ==
  ASSUME LedgerInv, KInv', GoesOn, NEW s \in Lockers, Own(s) = {}, ~Halfway(s),
         s \in Requests => Own(s)' = {} /\ ~Halfway(s)' /\ MadeFine(s)',
         \A u \in Requests \ {s} : tx'[u] = tx[u],
         UNCHANGED <<fills, orders, cash, cashW, cashBy>>,
         \A o \in OrderIds :
            \/ ordersW'[o] = ordersW[o] /\ orderBy'[o] = orderBy[o]
            \/ /\ orderBy[o] = None /\ orderBy'[o] = s /\ ordersW[o] # None
               /\ ordersW'[o].filled = ordersW[o].filled
               /\ ordersW'[o].account = ordersW[o].account
  PROVE  LedgerInv'
<1>1. None # s
  BY SeedAssumption DEF Lockers
<1>2. Leaves(s)
  BY <1>1 DEF Leaves
<1>3. CashSynced'
  BY DEF CashSynced, LedgerInv, Reconciled
<1>4. Known(s)' = fills /\ Known(s) = fills /\ ~Halfway(s)'
  BY DEF Known, Own, Halfway
<1>5. ASSUME NEW o \in OrderIds, orderBy'[o] = s PROVE RowExplained(o)'
  <2>1. On(Known(orderBy[o]), o)' = On(Known(s), o)
    <3>1. Known(orderBy[o])' = Known(s)'
      BY <1>5, HolderIs
    <3> QED BY <1>4, <3>1 DEF On
  <2>2. HalfQty(orderBy[o], o)' = 0 /\ HalfQty(s, o) = 0
    <3>1. HalfQty(orderBy[o], o)' = HalfQty(s, o)'
      BY <1>5, HolderIs
    <3> QED BY <1>4, <3>1 DEF HalfQty
  <2>3. orderBy[o] \in {None, s}
    BY <1>5
  <2>4. ordersW[o] # None => ordersW[o].filled = Base(o) + QtySum(On(Known(s), o)) + HalfQty(s, o)
    BY <2>3, AsHeld
  <2>5. ordersW'[o].filled = ordersW[o].filled /\ (ordersW'[o] # None => ordersW[o] # None)
    OBVIOUS
  <2> QED BY <2>1, <2>2, <2>4, <2>5 DEF RowExplained
<1>6. ASSUME NEW a \in Accounts, cashBy'[a] = s PROVE BalanceExplained(a)'
  <2>1. \A F \in SUBSET Fill : /\ {f \in F : ordersW'[f.sell].account = a} = Sold(F, a)
                               /\ {f \in F : ordersW'[f.buy].account = a} = Bought(F, a)
    <3>1. \A o \in OrderIds : ordersW'[o].account = ordersW[o].account
      OBVIOUS
    <3> QED BY <3>1, SameOwners
  <2>2. Known(cashBy[a])' = fills /\ fills \in SUBSET Fill
    <3>1. Known(cashBy[a])' = Known(s)'
      BY <1>6, HolderIs
    <3> QED BY <1>4, <3>1, KnownType
  <2>3. Sold(Known(cashBy[a]), a)' = Sold(fills, a) /\ Bought(Known(cashBy[a]), a)' = Bought(fills, a)
    <3>1. /\ Sold(Known(cashBy[a]), a)' = {f \in fills : ordersW'[f.sell].account = a}
          /\ Bought(Known(cashBy[a]), a)' = {f \in fills : ordersW'[f.buy].account = a}
      BY <2>2 DEF Sold, Bought
    <3> QED BY <2>1, <2>2, <3>1
  <2>4. HalfValue(cashBy[a], a)' = 0 /\ HalfValue(s, a) = 0
    <3>1. HalfValue(cashBy[a], a)' = HalfValue(s, a)'
      BY <1>6, HolderIs
    <3> QED BY <1>4, <3>1 DEF HalfValue
  <2>5. cashW[a] = SeedCash[a] + Value(Sold(Known(s), a)) - Value(Bought(Known(s), a)) - HalfValue(s, a)
    BY <1>6, AsHeld
  <2> QED BY <1>4, <2>3, <2>4, <2>5 DEF BalanceExplained
<1> QED BY <1>2, <1>3, <1>5, <1>6, Frame

\* A cancellation, answered or taken under the row's lock.
LEMMA CancelLedger ==
  ASSUME LedgerInv, KInv', GoesOn, NEW t \in Requests, CancelOrder(t)
  PROVE  LedgerInv'
<1> DEFINE o == tx[t].body.cancel
<1>1. /\ t \in Lockers /\ tx[t] \in TxType /\ TxFine(t) /\ tx[t].pc = "cancel"
      /\ ordersW \in [OrderIds -> Order \cup {None}]
      /\ orderBy \in [OrderIds -> Lockers \cup {None}]
  BY DEF LedgerInv, KInv, FInv, IInv, TypeOK, Lockers, CancelOrder
<1>2. tx[t].made = {} /\ ~Halfway(t)
  BY <1>1 DEF LedgerInv, Reconciled, MadeFine, Halfway, SellerLeg, Matching, Legs
<1>3. CASE Answer(t, "refused", None) \/ Answer(t, "done", o)
  BY <1>3, EarlyLedger DEF Answer, KeepRows, orderRows
<1>4. CASE /\ orderBy[o] = None
           /\ ordersW' = [ordersW EXCEPT ![o].status = "CANCELLED"]
           /\ orderBy' = [orderBy EXCEPT ![o] = t] /\ tx' = [tx EXCEPT ![t].pc = "cancelled"]
           /\ UNCHANGED <<accountRows, orders, fills>>
  <2>1. o \in OrderIds /\ Exists(o)
    BY <1>1, BodyAssumption DEF TxFine, Exists, Cancels, Cancelling
  <2> HIDE DEF o
  <2>2. ordersW[o] \in Order
    BY <1>1, <2>1, SeedAssumption DEF LedgerInv, KInv, FInv, Compatible, Continues
  <2>3. /\ [ordersW[o] EXCEPT !.status = "CANCELLED"].filled = ordersW[o].filled
        /\ [ordersW[o] EXCEPT !.status = "CANCELLED"].account = ordersW[o].account
    BY <2>2 DEF Order
  <2>4. /\ ordersW'[o].filled = ordersW[o].filled /\ ordersW'[o].account = ordersW[o].account
        /\ orderBy'[o] = t /\ ordersW[o] # None
        /\ \A p \in OrderIds \ {o} : ordersW'[p] = ordersW[p] /\ orderBy'[p] = orderBy[p]
    <3>1. ordersW'[o] = [ordersW[o] EXCEPT !.status = "CANCELLED"] /\ orderBy'[o] = t
      BY <1>1, <1>4, <2>1
    <3> QED BY <1>4, <2>2, <2>3, <3>1, SeedAssumption
  <2> DEFINE r == [tx[t] EXCEPT !.pc = "cancelled"]
  <2>5. r.pc = "cancelled" /\ r.made = {} /\ tx' = [tx EXCEPT ![t] = r]
    BY <1>1, <1>2, <1>4 DEF TxType
  <2> HIDE DEF r
  <2>6. /\ tx'[t].pc \notin Matching /\ tx'[t].made = {}
        /\ \A u \in Requests \ {t} : tx'[u] = tx[u]
    BY <2>5, LocalOf DEF LedgerInv, Matching, Legs
  <2>7. Own(t) = {} /\ Own(t)' = {} /\ ~Halfway(t)' /\ MadeFine(t)'
    BY <1>2, <2>6, MadeNothing DEF Own
  <2>8. UNCHANGED <<fills, orders, cash, cashW, cashBy>>
    BY <1>4 DEF accountRows
  <2> QED BY <1>1, <1>2, <1>4, <2>1, <2>4, <2>6, <2>7, <2>8, Restatused
<1> QED BY <1>3, <1>4 DEF CancelOrder

\* The worker and the world.
LEMMA OutsideLedger ==
  ASSUME LedgerInv, KInv', GoesOn,
         SweepExpired \/ CommitSweep \/ TogglePause \/ TimePasses \/ UNCHANGED vars
  PROVE  LedgerInv'
<1>1. /\ Sweeper \in Lockers /\ Sweeper \notin Requests /\ ~Halfway(Sweeper)
      /\ Own(Sweeper) = {}
  BY KnownType, SeedAssumption DEF Lockers
<1>2. CASE SweepExpired
  <2>1. PICK batch \in SUBSET {o \in Lapsed : orderBy[o] = None} :
          /\ ordersW' = [o \in OrderIds |->
                           IF o \in batch THEN [ordersW[o] EXCEPT !.status = "CANCELLED"]
                           ELSE ordersW[o]]
          /\ orderBy' = [o \in OrderIds |-> IF o \in batch THEN Sweeper ELSE orderBy[o]]
    BY <1>2 DEF SweepExpired
  <2>2. \A o \in batch : orderBy[o] = None /\ Exists(o) /\ o \in OrderIds
    BY DEF Lapsed
  <2>3. ASSUME NEW o \in batch
        PROVE  /\ ordersW[o] # None
               /\ [ordersW[o] EXCEPT !.status = "CANCELLED"].filled = ordersW[o].filled
               /\ [ordersW[o] EXCEPT !.status = "CANCELLED"].account = ordersW[o].account
    <3>1. ordersW[o] \in Order
      BY <2>2 DEF LedgerInv, KInv, FInv, IInv, TypeOK, Compatible, Continues
    <3> QED BY <3>1, SeedAssumption DEF Order
  <2>4. \A o \in OrderIds :
            \/ ordersW'[o] = ordersW[o] /\ orderBy'[o] = orderBy[o]
            \/ /\ orderBy[o] = None /\ orderBy'[o] = Sweeper /\ ordersW[o] # None
               /\ ordersW'[o].filled = ordersW[o].filled
               /\ ordersW'[o].account = ordersW[o].account
    BY <2>1, <2>2, <2>3
  <2>5. UNCHANGED <<fills, orders, cash, cashW, cashBy, tx>>
    BY <1>2 DEF SweepExpired, accountRows
  <2> QED BY <1>1, <2>4, <2>5, Restatused
<1>3. CASE TogglePause \/ TimePasses \/ UNCHANGED vars
  <2>1. UNCHANGED <<fills, orders, ordersW, orderBy, cash, cashW, cashBy, tx>>
    BY <1>3 DEF TogglePause, TimePasses, KeepRows, vars, accountRows, orderRows
  <2> QED BY <1>1, <2>1, Restatused
<1> QED BY <1>2, <1>3, CommitsLedger

LEMMA NextLedger == LedgerInv /\ NoneSwallowed /\ NoneSwallowed' /\ [Next]_vars => LedgerInv'
<1> SUFFICES ASSUME LedgerInv, NoneSwallowed, NoneSwallowed', [Next]_vars PROVE LedgerInv'
  OBVIOUS
<1>0. KInv' /\ GoesOn
  BY NextKey, NextGoesOn DEF LedgerInv, KInv
<1>1. ASSUME NEW t \in Requests, \/ \E b \in Submits : Arrive(t, b)
                                 \/ \E b \in Cancels : ArriveCancel(t, b)
      PROVE  LedgerInv'
  BY <1>0, <1>1, EarlyLedger
<1>2. ASSUME NEW t \in Requests, Step(t) PROVE LedgerInv'
  <2>1. CASE Price(t) \/ Reserve(t) \/ Insert(t) \/ LockOrders(t)
    BY <1>0, <2>1, EarlyLedger, InsertLedger, LockOrdersLedger
  <2>2. ASSUME NEW leg \in {"buyer", "seller"},
               ReadPosition(t, leg) \/ CreatePosition(t, leg) \/ Post(t, leg)
        PROVE  LedgerInv'
    BY <1>0, <2>2, AbortLedger, PositionLedger, PostLedger DEF NoneSwallowed
  <2>3. CASE Commit(t) \/ CancelOrder(t) \/ CommitCancel(t)
    BY <1>0, <2>3, CommitsLedger, CancelLedger
  <2>4. CASE DeadlockVictim(t)
    BY <1>0, <2>4, AbortLedger DEF DeadlockVictim
  <2>5. ~CommitSwallowed(t)
    BY DEF CommitSwallowed, NoneSwallowed
  <2> QED BY <1>2, <2>1, <2>2, <2>3, <2>4, <2>5 DEF Step
<1>3. ASSUME NEW t \in Requests, Crash(t) PROVE LedgerInv'
  BY <1>0, <1>3, AbortLedger DEF Crash
<1> QED BY <1>0, <1>1, <1>2, <1>3, OutsideLedger DEF Next, Quiet

LEMMA InitLedger == Init => LedgerInv
<1> SUFFICES ASSUME Init PROVE LedgerInv
  OBVIOUS
<1>1. KInv /\ IsFiniteSet({}) /\ {} \subseteq Fill /\ fills = {}
  BY InitKey, FS_EmptySet DEF Init
<1>2. \A u \in Requests : tx[u].made = {} /\ tx[u].pc = "idle"
  BY DEF Init, IdleTx
<1>3. \A h : Known(h) = {} /\ ~Halfway(h)
  BY <1>1, <1>2 DEF Known, Own, Halfway, SellerLeg
<1>4. QtySum({}) = 0 /\ Value({}) = 0
  BY <1>1, QtyOf, ValueOf
<1>5. /\ \A o : On({}, o) = {}
      /\ \A a : Sold({}, a) = {} /\ Bought({}, a) = {}
  BY DEF On, Sold, Bought
<1>6. \A o \in OrderIds : orders[o] # None =>
         o \in DOMAIN SeedOrders /\ orders[o].filled = Base(o) /\ Base(o) \in Int
  BY SeedAssumption, BodyAssumption DEF Init, Base, Order
<1>7. \A a \in Accounts : cash[a] = SeedCash[a] /\ cashW[a] = SeedCash[a] /\ SeedCash[a] \in Int
  BY SeedAssumption DEF Init
<1>8. ordersW = orders
  BY DEF Init
<1>9. FillsFine /\ CashSynced
  BY <1>1, <1>7 DEF FillsFine, CashSynced
<1>10. CommittedExplained
  BY <1>1, <1>4, <1>5, <1>6, <1>7 DEF CommittedExplained, Exists
<1>11. \A o \in OrderIds : RowExplained(o)
  BY <1>3, <1>4, <1>5, <1>6, <1>8 DEF RowExplained, HalfQty
<1>12. \A a \in Accounts : BalanceExplained(a)
  BY <1>3, <1>4, <1>5, <1>7 DEF BalanceExplained, HalfValue
<1>13. \A u \in Requests : MadeFine(u)
  BY <1>1, <1>2 DEF MadeFine, Matching, Legs, SellerLeg
<1> QED BY <1>1, <1>9, <1>10, <1>11, <1>12, <1>13 DEF LedgerInv, Reconciled

\* What a committed order or balance must be, in the words of the properties.
LEMMA Explains ==
  ASSUME LedgerInv
  PROVE  FillsExplainOrders /\ FillsExplainCash
<1>1. CommittedExplained
  BY DEF LedgerInv, Reconciled
<1>2. FillsExplainOrders
  BY <1>1 DEF CommittedExplained, FillsExplainOrders, FillsOf, On, Base, QtySum
<1>3. \A a \in Accounts : Earned(a) = Sold(fills, a) /\ Paid(a) = Bought(fills, a)
  <2>1. \A f \in fills : f.buy \in OrderIds /\ f.sell \in OrderIds /\ Exists(f.buy) /\ Exists(f.sell)
    BY KnownType DEF Fill, LedgerInv, Reconciled, FillsFine
  <2>2. \A o \in OrderIds : Exists(o) => ordersW[o].account = orders[o].account
    BY DEF LedgerInv, KInv, FInv, Compatible, Continues
  <2> QED BY <2>1, <2>2 DEF Earned, Paid, Sold, Bought
<1>4. FillsExplainCash
  BY <1>1, <1>3 DEF CommittedExplained, FillsExplainCash, Value
<1> QED BY <1>2, <1>4

\* Unless a pass swallows the failure of a debit, every version of an order or a balance is
\* explained by the committed fills and those of the request that holds it, at each
\* statement of submit_order, cancel_order and the expiry worker.
THEOREM LedgerInvariance == Spec /\ []NoneSwallowed => []LedgerInv
  BY InitLedger, NextLedger, PTL DEF Spec

\* What an order counts as filled is the sum of its fills, over all the requests that
\* traded against it: _advance_order_fill_state loses no fill and counts none twice.
THEOREM FillsExplainWhatIsFilled == Spec /\ []NoneSwallowed => []FillsExplainOrders
<1>1. LedgerInv => FillsExplainOrders
  BY Explains
<1> QED BY <1>1, LedgerInvariance, PTL

\* A balance is the seeded one plus the sales and less the purchases of its account: no
\* posting of LedgerService is lost or doubled, whoever else is posting to the account.
THEOREM FillsExplainBalances == Spec /\ []NoneSwallowed => []FillsExplainCash
<1>1. LedgerInv => FillsExplainCash
  BY Explains
<1> QED BY <1>1, LedgerInvariance, PTL

\* Only a pass swallows.
LEMMA NextSwallows ==
  ASSUME Passes = {}, TypeOK, NoneSwallowed, [Next]_vars
  PROVE  NoneSwallowed'
<1>0. tx \in [Requests -> TxType]
  BY DEF TypeOK
<1>1. ASSUME NEW t \in Requests, NEW r, tx' = [tx EXCEPT ![t] = r], r.pc # "swallowed"
      PROVE  NoneSwallowed'
  BY <1>0, <1>1 DEF NoneSwallowed
<1>2. CASE tx' = tx
  BY <1>2 DEF NoneSwallowed
<1>3. ASSUME NEW t \in Requests, NEW pc, NEW reply, tx' = [tx EXCEPT ![t] = EndedTx(t, pc, reply)],
             pc # "swallowed"
      PROVE  NoneSwallowed'
  <2> DEFINE r == EndedTx(t, pc, reply)
  <2>1. r.pc = pc
    BY DEF EndedTx, IdleTx
  <2> HIDE DEF r
  <2> QED BY <1>1, <1>3, <2>1 DEF r
<1>4. ASSUME NEW t \in Requests, NEW pc, tx' = [tx EXCEPT ![t].pc = pc], pc # "swallowed"
      PROVE  NoneSwallowed'
  BY <1>0, <1>4 DEF NoneSwallowed, TxType
<1>5. ASSUME NEW t \in Requests, \/ \E b \in Submits : Arrive(t, b)
                                 \/ \E b \in Cancels : ArriveCancel(t, b)
      PROVE  NoneSwallowed'
  <2>1. ASSUME NEW b \in Submits, Arrive(t, b) PROVE NoneSwallowed'
    <3> DEFINE q == [IdleTx EXCEPT !.pc = "refused", !.body = b]
               r == [IdleTx EXCEPT !.pc = "price", !.body = b, !.at = clock + 1,
                                   !.cashSeen = cash[b.account]]
    <3>1. tx' = [tx EXCEPT ![t] = q] \/ tx' = [tx EXCEPT ![t] = r]
      BY <2>1 DEF Arrive
    <3>2. q.pc # "swallowed" /\ r.pc # "swallowed"
      BY DEF IdleTx
    <3> HIDE DEF q, r
    <3> QED BY <1>1, <3>1, <3>2
  <2>2. ASSUME NEW b \in Cancels, ArriveCancel(t, b) PROVE NoneSwallowed'
    <3> DEFINE r == [IdleTx EXCEPT !.pc = "cancel", !.body = b]
    <3>1. tx' = [tx EXCEPT ![t] = r] /\ r.pc # "swallowed"
      BY <2>2 DEF ArriveCancel, IdleTx
    <3> HIDE DEF r
    <3> QED BY <1>1, <3>1
  <2> QED BY <1>5, <2>1, <2>2
<1>6. ASSUME NEW t \in Requests, Step(t) PROVE NoneSwallowed'
  <2>1. CASE Price(t)
    BY <1>0, <1>3, <2>1 DEF Price, Answer, NoneSwallowed, TxType
  <2>2. CASE Reserve(t) \/ CancelOrder(t)
    BY SMTT(30), <1>3, <1>4, <2>2 DEF Reserve, CancelOrder, Answer
  <2>3. CASE Insert(t)
    BY <1>0, <1>3, <2>3 DEF Insert, NoneSwallowed, TxType
  <2>4. CASE LockOrders(t)
    BY <1>0, <2>4 DEF LockOrders, NoneSwallowed, TxType
  <2>5. ASSUME NEW leg \in {"buyer", "seller"}, ReadPosition(t, leg)
        PROVE  NoneSwallowed'
    BY <1>0, <2>5 DEF ReadPosition, NoneSwallowed, TxType
  <2>6. ASSUME NEW leg \in {"buyer", "seller"}, CreatePosition(t, leg)
        PROVE  NoneSwallowed'
    BY <1>0, <1>3, <2>6 DEF CreatePosition, Abort, NoneSwallowed, TxType
  <2>7. ASSUME NEW leg \in {"buyer", "seller"}, Post(t, leg)
        PROVE  NoneSwallowed'
    <3>1. Abort(t) \/ tx' = [tx EXCEPT ![t].pc = "seller"]
          \/ tx' = [tx EXCEPT ![t].pc = "match", ![t].left = @ - tx[t].want,
                              ![t].made = @ \cup {TheFill(t)}, ![t].maker = None,
                              ![t].want = 0, ![t].applied = 0, ![t].posSeen = 0]
      BY <2>7 DEF Post
    <3> QED BY SMTT(30), <1>0, <1>3, <1>4, <3>1 DEF Abort, NoneSwallowed, TxType
  <2>8. CASE Commit(t) \/ CommitSwallowed(t) \/ CommitCancel(t)
    BY <1>3, <2>8 DEF Commit, CommitSwallowed, CommitCancel
  <2>9. CASE DeadlockVictim(t)
    BY <1>3, <2>9 DEF DeadlockVictim, Abort
  <2> QED BY <1>6, <2>1, <2>2, <2>3, <2>4, <2>5, <2>6, <2>7, <2>8, <2>9 DEF Step
<1>7. ASSUME NEW t \in Requests, Crash(t) PROVE NoneSwallowed'
  BY <1>3, <1>7 DEF Crash, Abort
<1>8. CASE SweepExpired \/ CommitSweep \/ TogglePause \/ TimePasses \/ UNCHANGED vars
  BY <1>2, <1>8 DEF SweepExpired, CommitSweep, TogglePause, TimePasses, vars
<1> QED BY <1>5, <1>6, <1>7, <1>8 DEF Next, Quiet

\* With HTTP requests and the worker alone, the books always balance: no interleaving of
\* submissions, cancels, sweeps, crashes and deadlock victims makes orders or balances and
\* the fills table disagree.
THEOREM RequestsReconcile ==
  ASSUME Passes = {}
  PROVE  Spec => [](FillsExplainOrders /\ FillsExplainCash)
<1>1. Init => NoneSwallowed
  BY DEF Init, IdleTx, NoneSwallowed
<1>2. TypeOK /\ NoneSwallowed /\ [Next]_vars => NoneSwallowed'
  BY NextSwallows
<1>3. Spec => []NoneSwallowed
  BY <1>1, <1>2, Typed, PTL DEF Spec
<1> QED BY <1>3, FillsExplainWhatIsFilled, FillsExplainBalances, PTL


-------------------------------------------------------------------------------------
(* One at a time.  What a request has written of its own order is its body as far   *)
(* as it has traded, what it has written of another order is a trade of it, and a   *)
(* cancel or a sweep only retires: so each commit is one step of AtomicExchange.    *)

\* What trading and what retiring makes of the version of an order.
Traded(o, r) ==
    \/ r = o
    \/ /\ r.filled > o.filled
       /\ r = [o EXCEPT !.filled = r.filled,
                        !.status = IF r.filled = r.qty THEN "FILLED" ELSE "PARTIAL"]

Retired(o, r) == o.status \in Live /\ r = [o EXCEPT !.status = "CANCELLED"]

\* The order a request has placed: what its body asks, as far as it has traded.
AsPlaced(t) ==
    LET b == tx[t].body  r == ordersW[t] IN
    /\ orders[t] = None
    /\ r.side = b.side /\ r.kind = b.kind /\ (b.kind = "limit" => r.price = b.price)
    /\ r.status = IF r.filled = r.qty THEN "FILLED"
                  ELSE IF r.filled > 0 THEN "PARTIAL" ELSE "OPEN"

\* What a request has made of a row it holds, by its statement.
WrittenBy(h, o) ==
    /\ tx[h].pc \in Matching \cup {"cancelled"}
    /\ tx[h].pc = "cancelled" => Exists(o) /\ Retired(orders[o], ordersW[o])
    /\ tx[h].pc \in Matching =>
          IF o = h THEN AsPlaced(h) ELSE Exists(o) /\ Traded(orders[o], ordersW[o])

Written(o) ==
    /\ orderBy[o] = Sweeper => Exists(o) /\ Retired(orders[o], ordersW[o])
    /\ \A h \in Requests : orderBy[o] = h => WrittenBy(h, o)

\* A request trades at the price of the order it meets, if its body allows that.
Agreed(t, price) ==
    tx[t].body.kind = "market" \/ Crosses(tx[t].body.side, tx[t].body.price, price)

DealsFine(t) ==
    /\ tx[t].pc \in Legs => Agreed(t, FillPrice(t))
    /\ tx[t].pc \in Matching => \A f \in tx[t].made :
          /\ Agreed(t, f.price)
          /\ \A o \in {f.buy, f.sell} \ {t} : ordersW[o].price = f.price

SerialInv == (\A o \in OrderIds : Written(o)) /\ (\A t \in Requests : DealsFine(t))

\* What the steps of others leave of it.
LEMMA SerialFrame ==
  ASSUME LedgerInv, LedgerInv', SerialInv, NEW s \in Lockers, Leaves(s),
         \A o \in OrderIds : orderBy'[o] = s => Written(o)',
         s \in Requests => DealsFine(s)'
  PROVE  SerialInv'
<1>1. ASSUME NEW o \in OrderIds PROVE Written(o)'
  <2>1. CASE orderBy'[o] = s
    BY <2>1
  <2>2. CASE orderBy'[o] = None
    BY <2>2, SeedAssumption DEF Written, Lockers
  <2>3. CASE orderBy'[o] \notin {None, s}
    <3>1. /\ orderBy'[o] = orderBy[o] /\ ordersW'[o] = ordersW[o] /\ orders'[o] = orders[o]
          /\ Written(o)
      BY <2>3 DEF Leaves, SerialInv
    <3>2. orderBy[o] = Sweeper => Exists(o)' /\ Retired(orders'[o], ordersW'[o])
      BY <3>1 DEF Written, Exists
    <3>3. ASSUME NEW h \in Requests, orderBy[o] = h PROVE WrittenBy(h, o)'
      <4>1. tx'[h] = tx[h] /\ WrittenBy(h, o)
        BY <2>3, <3>1, <3>3 DEF Leaves, Written
      <4> QED BY <3>1, <4>1 DEF WrittenBy, AsPlaced, Exists
    <3> QED BY <3>1, <3>2, <3>3 DEF Written
  <2> QED BY <2>1, <2>2, <2>3
<1>2. ASSUME NEW u \in Requests PROVE DealsFine(u)'
  <2>1. CASE u = s
    BY <2>1
  <2>2. CASE u # s
    <3>1. tx'[u] = tx[u] /\ DealsFine(u) /\ u # None /\ tx[u] \in TxType /\ MadeFine(u)
      BY <2>2, SeedAssumption DEF Leaves, SerialInv, Lockers, LedgerInv, KInv, FInv, IInv,
                                  TypeOK, Reconciled
    <3>2. \A o \in OrderIds : orderBy[o] = u => ordersW'[o] = ordersW[o] /\ orders'[o] = orders[o]
      BY <2>2, <3>1 DEF Leaves
    <3>3. tx[u].pc \in Legs => FillPrice(u)' = FillPrice(u)
      <4>1. ASSUME tx[u].pc \in Legs PROVE tx[u].maker \in OrderIds /\ orderBy[tx[u].maker] = u
        BY <4>1 DEF LedgerInv, KInv, FInv, IInv, TxFine
      <4> QED BY <3>1, <3>2, <4>1 DEF FillPrice
    <3>4. \A f \in tx[u].made : \A o \in {f.buy, f.sell} : ordersW'[o] = ordersW[o]
      <4>1. \A f \in tx[u].made : /\ f.buy \in OrderIds /\ f.sell \in OrderIds
                                  /\ orderBy[f.buy] = u /\ orderBy[f.sell] = u
        BY <3>1 DEF TxType, Fill, MadeFine, Holds
      <4> QED BY <3>2, <4>1
    <3> QED BY <3>1, <3>3, <3>4 DEF DealsFine, Agreed
  <2> QED BY <2>1, <2>2
<1> QED BY <1>1, <1>2 DEF SerialInv

\* A transaction that ends, or has not placed its order yet, holds no order row.
LEMMA HoldsNone ==
  ASSUME LedgerInv, LedgerInv', SerialInv, NEW s \in Lockers, Leaves(s),
         \A o \in OrderIds : orderBy'[o] # s, s \in Requests => tx'[s].pc \notin Matching
  PROVE  SerialInv'
<1>1. s \in Requests => DealsFine(s)'
  BY DEF DealsFine, Matching
<1> QED BY <1>1, SerialFrame

\* Answers, arrivals, the pricing and the reservation.
LEMMA EarlySerial ==
  ASSUME LedgerInv, LedgerInv', SerialInv, NEW t \in Requests,
         \/ \E b \in Submits : Arrive(t, b)
         \/ \E b \in Cancels : ArriveCancel(t, b)
         \/ Price(t) \/ Reserve(t)
         \/ CancelOrder(t) /\ UNCHANGED orderRows
  PROVE  SerialInv'
<1>1. /\ tx[t].pc \in {"idle", "price", "reserve", "cancel"}
      /\ \A u \in Requests \ {t} : tx'[u] = tx[u]
      /\ tx'[t].pc \notin Matching
      /\ UNCHANGED <<fills, cash, cashW, orders, ordersW, orderBy>>
      /\ \A a \in Accounts : cashBy'[a] = cashBy[a] \/ (cashBy[a] = None /\ cashBy'[a] = t)
  BY EarlyFacts
<1>2. t \in Lockers /\ t # None
  BY SeedAssumption DEF Lockers
<1>3. Leaves(t)
  BY <1>1, <1>2 DEF Leaves
<1>4. \A o \in OrderIds : orderBy'[o] # t
  BY <1>1 DEF SerialInv, Written, WrittenBy, Matching, Legs
<1> QED BY <1>1, <1>2, <1>3, <1>4, HoldsNone

\* A rollback takes everything back.
LEMMA RollbackSerial ==
  ASSUME LedgerInv, LedgerInv', SerialInv, NEW t \in Requests, RollbackRows(t),
         NEW r, tx' = [tx EXCEPT ![t] = r], r.pc \notin Matching
  PROVE  SerialInv'
<1>1. t \in Lockers /\ t # None
  BY SeedAssumption DEF Lockers
<1>2. tx'[t] = r /\ \A u \in Requests \ {t} : tx'[u] = tx[u]
  BY LocalOf DEF LedgerInv
<1>3. /\ \A o \in OrderIds : /\ orders'[o] = orders[o]
                             /\ ordersW'[o] = IF orderBy[o] = t THEN orders[o] ELSE ordersW[o]
                             /\ orderBy'[o] = IF orderBy[o] = t THEN None ELSE orderBy[o]
      /\ \A a \in Accounts : /\ cash'[a] = cash[a]
                             /\ cashW'[a] = IF cashBy[a] = t THEN cash[a] ELSE cashW[a]
                             /\ cashBy'[a] = IF cashBy[a] = t THEN None ELSE cashBy[a]
  BY DEF RollbackRows
<1>4. Leaves(t)
  BY <1>1, <1>2, <1>3 DEF Leaves
<1>5. \A o \in OrderIds : orderBy'[o] # t
  BY <1>1, <1>3
<1> QED BY <1>1, <1>2, <1>4, <1>5, HoldsNone

LEMMA AbortSerial ==
  ASSUME LedgerInv, LedgerInv', SerialInv, NEW t \in Requests, Abort(t)
  PROVE  SerialInv'
<1> DEFINE r == EndedTx(t, "refused", None)
<1>1. tx' = [tx EXCEPT ![t] = r] /\ RollbackRows(t)
  BY DEF Abort
<1>2. r.pc \notin Matching
  BY DEF EndedTx, IdleTx, Matching, Legs
<1> HIDE DEF r
<1> QED BY <1>1, <1>2, RollbackSerial

\* A new order is what the body asks.
LEMMA InsertSerial ==
  ASSUME LedgerInv, LedgerInv', SerialInv, NEW t \in Requests, Insert(t)
  PROVE  SerialInv'
<1> DEFINE b == tx[t].body
           row(price) == [ account |-> b.account, side |-> b.side, kind |-> b.kind,
                           price |-> price, qty |-> b.qty, filled |-> 0, status |-> "OPEN",
                           key |-> b.key, gtd |-> b.gtd, at |-> tx[t].at ]
           snap == IF b.kind = "limit" THEN Hydrated(b.side) ELSE tx[t].snap
           r == [tx[t] EXCEPT !.pc = "match", !.left = b.qty, !.snap = snap]
<1>1. ASSUME NEW o, RollbackRows(t), tx' = [tx EXCEPT ![t] = EndedTx(t, "done", o)]
      PROVE  SerialInv'
  <2> DEFINE q == EndedTx(t, "done", o)
  <2>1. q.pc \notin Matching /\ tx' = [tx EXCEPT ![t] = q]
    BY <1>1 DEF EndedTx, IdleTx, Matching, Legs
  <2> HIDE DEF q
  <2> QED BY <1>1, <2>1, RollbackSerial
<1>2. ASSUME NEW price, b.kind = "limit" => price = b.price,
             ordersW' = [ordersW EXCEPT ![t] = row(price)],
             orderBy' = [orderBy EXCEPT ![t] = t], UNCHANGED <<accountRows, orders>>,
             tx' = [tx EXCEPT ![t].pc = "match", ![t].left = b.qty,
                              ![t].snap = IF b.kind = "limit" THEN Hydrated(b.side) ELSE @]
      PROVE  SerialInv'
  <2>1. /\ t \in Lockers /\ t # None /\ t \in OrderIds /\ tx[t] \in TxType /\ tx[t].pc = "insert"
        /\ tx \in [Requests -> TxType] /\ ordersW \in [OrderIds -> Order \cup {None}]
        /\ orderBy \in [OrderIds -> Lockers \cup {None}]
        /\ orderBy[t] = None /\ orders[t] = None /\ tx[t].made = {} /\ b \in Submits
    BY SeedAssumption
       DEF Lockers, OrderIds, LedgerInv, KInv, FInv, IInv, TypeOK, TxFine, Unplaced, Reconciled,
           MadeFine, Matching, Legs, Insert, Submitting
  <2>2. tx' = [tx EXCEPT ![t] = r]
    BY <1>2
  <2>3. r.made = {} /\ r.pc = "match" /\ r.body = b
    <3> HIDE DEF snap
    <3> QED BY <2>1 DEF TxType
  <2> HIDE DEF r
  <2>4. tx'[t] = r /\ \A u \in Requests \ {t} : tx'[u] = tx[u]
    BY <2>2, LocalOf DEF LedgerInv
  <2>5. UNCHANGED <<orders, cash, cashW, cashBy>>
    BY <1>2 DEF accountRows
  <2>6. \A o \in OrderIds \ {t} : ordersW'[o] = ordersW[o] /\ orderBy'[o] = orderBy[o]
    BY <1>2, <2>1
  <2>7. orderBy'[t] = t /\ ordersW'[t] = row(price)
    BY <1>2, <2>1
  <2>8. Leaves(t)
    BY <2>1, <2>4, <2>5, <2>6, <2>7 DEF Leaves
  <2>9. b.qty \in 1..MaxQty /\ MaxQty \in Nat
    BY <2>1, BodyAssumption
  <2>10. AsPlaced(t)'
    <3>1. tx'[t].body = b /\ orders'[t] = None
      BY <2>1, <2>3, <2>4, <2>5
    <3>2. /\ row(price).side = b.side /\ row(price).kind = b.kind /\ row(price).price = price
          /\ row(price).filled = 0 /\ row(price).qty = b.qty /\ row(price).status = "OPEN"
      OBVIOUS
    <3>3. b.qty # 0
      BY <2>9
    <3> HIDE DEF b, row
    <3> QED BY <1>2, <2>7, <3>1, <3>2, <3>3 DEF AsPlaced
  <2>11. \A o \in OrderIds : orderBy'[o] = t => o = t
    BY <2>1, <2>6 DEF SerialInv, Written, WrittenBy, Matching, Legs
  <2>12. WrittenBy(t, t)'
    BY <2>3, <2>4, <2>10 DEF WrittenBy, Matching
  <2>13. \A o \in OrderIds : orderBy'[o] = t => Written(o)'
    BY <2>1, <2>11, <2>12, SeedAssumption DEF Written
  <2>14. DealsFine(t)'
    BY <2>3, <2>4 DEF DealsFine, Legs
  <2> HIDE DEF b, row, snap
  <2> QED BY SMTT(30), <2>1, <2>8, <2>13, <2>14, SerialFrame
<1> QED BY <1>1, <1>2 DEF Insert

\* A maker is taken as it was committed, at a price the body allows.
LEMMA LockOrdersSerial ==
  ASSUME LedgerInv, LedgerInv', SerialInv, NEW t \in Requests, LockOrders(t)
  PROVE  SerialInv'
<1>1. PICK e \in NextUp(t) :
         /\ tx[t].pc = "match" /\ orderBy[e.id] \in {None, t} /\ Takes(t, e)
         /\ e.id \in OrderIds /\ orders[e.id] # None /\ e.id # t
         /\ UNCHANGED <<fills, orders, ordersW, cash, cashW, cashBy>>
         /\ \A o \in OrderIds : orderBy'[o] = IF o = e.id THEN t ELSE orderBy[o]
         /\ \A u \in Requests \ {t} : tx'[u] = tx[u]
         /\ tx'[t].made = tx[t].made /\ tx'[t].body = tx[t].body
         /\ tx'[t].pc = "match" \/ (tx'[t].pc = "buyer" /\ tx'[t].maker = e.id)
  BY LockFacts
<1>2. t \in Lockers /\ t # None /\ t # Sweeper
  BY SeedAssumption DEF Lockers
<1>3. Leaves(t)
  BY <1>1, <1>2 DEF Leaves
<1>4. ASSUME NEW o \in OrderIds, orderBy'[o] = t PROVE Written(o)'
  <2>1. tx[t].pc \in Matching /\ tx'[t].pc \in Matching /\ tx'[t].pc # "cancelled"
    BY <1>1 DEF Matching, Legs
  <2>2. CASE orderBy[o] = t
    <3>1. WrittenBy(t, o)
      BY <2>2 DEF SerialInv, Written
    <3>2. WrittenBy(t, o)'
      BY <1>1, <2>1, <3>1 DEF WrittenBy, AsPlaced, Exists
    <3> QED BY <1>2, <1>4, <3>2 DEF Written
  <2>3. CASE orderBy[o] # t
    <3>1. o = e.id /\ orderBy[o] = None
      BY <1>1, <1>4, <2>3
    <3>2. ordersW[o] = orders[o]
      BY <3>1 DEF LedgerInv, KInv, FInv, IInv, Synced
    <3>3. WrittenBy(t, o)'
      BY <1>1, <2>1, <3>1, <3>2 DEF WrittenBy, Traded, Exists
    <3> QED BY <1>2, <1>4, <3>3 DEF Written
  <2> QED BY <2>2, <2>3
<1>5. DealsFine(t)'
  <2>1. tx[t].pc \in Matching
    BY <1>1 DEF Matching
  <2>2. tx'[t].pc \in Legs => FillPrice(t)' = orders[e.id].price
    BY <1>1 DEF FillPrice, Legs
  <2>3. Agreed(t, orders[e.id].price)
    BY <1>1 DEF Takes, Agreed
  <2> QED BY <1>1, <2>1, <2>2, <2>3 DEF SerialInv, DealsFine, Agreed
<1> QED BY <1>2, <1>3, <1>4, <1>5, SerialFrame

\* The reading and the creation of a position.
LEMMA PositionSerial ==
  ASSUME LedgerInv, LedgerInv', SerialInv, NEW t \in Requests, NEW leg \in {"buyer", "seller"},
         ReadPosition(t, leg) \/ CreatePosition(t, leg), ~Abort(t)
  PROVE  SerialInv'
<1>1. /\ UNCHANGED <<fills, cash, cashW, cashBy, orders, ordersW, orderBy>>
      /\ \A u \in Requests \ {t} : tx'[u] = tx[u]
      /\ tx'[t].made = tx[t].made /\ tx'[t].maker = tx[t].maker /\ tx'[t].body = tx[t].body
      /\ tx[t].pc \in Legs /\ tx'[t].pc \in Legs
  BY PositionFacts
<1>2. t \in Lockers /\ t # None /\ t # Sweeper
  BY SeedAssumption DEF Lockers
<1>3. Leaves(t)
  BY <1>1, <1>2 DEF Leaves
<1>4. tx[t].pc \in Matching /\ tx'[t].pc \in Matching /\ tx'[t].pc # "cancelled"
  BY <1>1 DEF Matching, Legs
<1>5. ASSUME NEW o \in OrderIds, orderBy'[o] = t PROVE Written(o)'
  <2>1. WrittenBy(t, o)
    BY <1>1, <1>5 DEF SerialInv, Written
  <2>2. WrittenBy(t, o)'
    BY <1>1, <1>4, <2>1 DEF WrittenBy, AsPlaced, Exists
  <2> QED BY <1>2, <1>5, <2>2 DEF Written
<1>6. DealsFine(t)'
  BY <1>1, <1>4 DEF SerialInv, DealsFine, Agreed, FillPrice
<1> QED BY <1>2, <1>3, <1>5, <1>6, SerialFrame
\* A version of an order that has traded up to n.
FilledTo(o, n) ==
    [o EXCEPT !.filled = n, !.status = IF n = o.qty THEN "FILLED" ELSE "PARTIAL"]

LEMMA FilledToFields ==
  ASSUME NEW o \in Order, NEW n
  PROVE  LET r == FilledTo(o, n) IN
         /\ r.filled = n /\ r.status = IF n = o.qty THEN "FILLED" ELSE "PARTIAL"
         /\ r.qty = o.qty /\ r.price = o.price /\ r.side = o.side /\ r.kind = o.kind
  BY DEF FilledTo, Order

LEMMA TradedFields ==
  ASSUME NEW o \in Order, NEW r, Traded(o, r)
  PROVE  r.qty = o.qty /\ r.price = o.price /\ r.side = o.side /\ r.kind = o.kind
<1>1. CASE r = o
  BY <1>1
<1>2. CASE r = FilledTo(o, r.filled) /\ r.qty = o.qty
  BY <1>2, FilledToFields
<1>3. ASSUME r = [o EXCEPT !.filled = r.filled,
                           !.status = IF r.filled = r.qty THEN "FILLED" ELSE "PARTIAL"]
      PROVE  r.qty = o.qty
  BY <1>3 DEF Order
<1>4. ASSUME r = [o EXCEPT !.filled = r.filled,
                           !.status = IF r.filled = r.qty THEN "FILLED" ELSE "PARTIAL"]
      PROVE  r = FilledTo(o, r.filled)
  BY <1>3, <1>4 DEF FilledTo
<1> QED BY <1>1, <1>2, <1>3, <1>4 DEF Traded

\* A fill within the room of an order trades it.
LEMMA AdvancedTrades ==
  ASSUME NEW o \in Order, NEW q \in Nat, q > 0, q <= o.qty - o.filled
  PROVE  /\ o.filled >= 0 /\ o.filled \in Int /\ o.qty \in Int
         /\ Advanced(o, q) = FilledTo(o, o.filled + q)
<1>1. o.filled \in Int /\ o.qty \in Int /\ o.filled >= 0
  BY BodyAssumption DEF Order
<1>2. o.filled + Lesser(q, o.qty - o.filled) = o.filled + q
  BY <1>1 DEF Lesser
<1>3. (o.filled + q >= o.qty) <=> (o.filled + q = o.qty)
  BY <1>1
<1>4. Advanced(o, q) = FilledTo(o, o.filled + q)
  BY <1>2, <1>3 DEF Advanced, FilledTo
<1> QED BY <1>1, <1>4

\* A trade of a traded order.
LEMMA TradesOn ==
  ASSUME NEW o \in Order, NEW r \in Order, Traded(o, r), NEW q \in Nat, q > 0,
         q <= r.qty - r.filled
  PROVE  Traded(o, Advanced(r, q))
<1>1. PICK n : n = r.filled + q
  OBVIOUS
<1>2. Advanced(r, q) = FilledTo(r, n) /\ r.filled \in Int /\ n > r.filled
  BY <1>1, AdvancedTrades
<1>3. r.qty = o.qty
  BY TradedFields
<1>4. o.filled \in Int /\ r.filled >= o.filled
  BY <1>2, BodyAssumption DEF Traded, Order
<1>5. FilledTo(r, n) = FilledTo(o, n)
  BY <1>3 DEF Traded, FilledTo, Order
<1>6. FilledTo(o, n).filled = n /\ FilledTo(o, n).qty = o.qty
  BY FilledToFields
<1>7. n > o.filled
  BY <1>2, <1>4, <1>1
<1>8. FilledTo(o, n) = [o EXCEPT !.filled = FilledTo(o, n).filled,
                                 !.status = IF FilledTo(o, n).filled = FilledTo(o, n).qty
                                            THEN "FILLED" ELSE "PARTIAL"]
  <2>1. FilledTo(o, n) = [o EXCEPT !.filled = n, !.status = IF n = o.qty THEN "FILLED" ELSE "PARTIAL"]
    BY DEF FilledTo
  <2> QED BY <1>6, <2>1
<1> QED BY <1>2, <1>5, <1>6, <1>7, <1>8 DEF Traded

\* The posting of a leg.
LEMMA LegSerial ==
  ASSUME LedgerInv, LedgerInv', SerialInv, NEW t \in Requests, tx[t].pc \in Legs,
         NEW id \in {BuyId(t), SellId(t)}, tx[t].applied <= Room(id),
         ordersW' = [ordersW EXCEPT ![id] = Advanced(@, tx[t].applied)],
         UNCHANGED <<orders, orderBy, cash>>,
         \A a \in Accounts : \/ cashBy'[a] = cashBy[a] /\ cashW'[a] = cashW[a]
                             \/ cashBy[a] \in {None, t} /\ cashBy'[a] = t,
         \A u \in Requests \ {t} : tx'[u] = tx[u],
         tx'[t].body = tx[t].body, tx'[t].pc \in Matching,
         tx'[t].pc \in Legs => tx'[t].maker = tx[t].maker,
         tx'[t].made \in {tx[t].made, tx[t].made \cup {TheFill(t)}}
  PROVE  SerialInv'
<1> DEFINE q == tx[t].applied
           m == tx[t].maker
<1>1. /\ t \in Lockers /\ t # None /\ t \in OrderIds /\ t # Sweeper
      /\ ordersW \in [OrderIds -> Order \cup {None}] /\ orders \in [OrderIds -> Order \cup {None}]
      /\ m \in OrderIds /\ m # t /\ {BuyId(t), SellId(t)} = {t, m}
      /\ ordersW[id] \in Order /\ id \in OrderIds /\ orderBy[id] = t /\ orderBy[m] = t
      /\ orderBy[t] = t
      /\ TheFill(t).buy = BuyId(t) /\ TheFill(t).sell = SellId(t)
      /\ TheFill(t).price = FillPrice(t) /\ tx[t] \in TxType
  <2>1. /\ t \in Lockers /\ t # None /\ t \in OrderIds /\ tx[t] \in TxType
        /\ ordersW \in [OrderIds -> Order \cup {None}]
        /\ m \in OrderIds /\ m # t /\ {BuyId(t), SellId(t)} = {t, m}
        /\ ordersW[BuyId(t)] \in Order /\ ordersW[SellId(t)] \in Order
        /\ BuyId(t) \in OrderIds /\ SellId(t) \in OrderIds
        /\ orderBy[BuyId(t)] = t /\ orderBy[SellId(t)] = t
    BY PostFacts
  <2>2. t # Sweeper /\ orders \in [OrderIds -> Order \cup {None}]
    BY SeedAssumption DEF LedgerInv, KInv, FInv, IInv, TypeOK
  <2>3. /\ TheFill(t).buy = BuyId(t) /\ TheFill(t).sell = SellId(t)
        /\ TheFill(t).price = FillPrice(t)
    BY DEF TheFill
  <2> QED BY <2>1, <2>2, <2>3
<1>2. q \in Nat /\ q > 0 /\ q <= ordersW[id].qty - ordersW[id].filled
  <2>1. q \in 1..MaxQty
    BY LegFacts DEF LedgerInv, KInv, FInv
  <2> QED BY <2>1, BodyAssumption DEF Room
<1>3. tx[t].pc \in Matching /\ tx'[t].pc # "cancelled" /\ tx[t].pc # "cancelled"
  BY DEF Matching, Legs
<1>4. Leaves(t)
  <2>1. \A o \in OrderIds \ {id} : ordersW'[o] = ordersW[o]
    BY <1>1
  <2> QED BY <1>1, <2>1 DEF Leaves
<1>5. ordersW'[id] = Advanced(ordersW[id], q) /\ \A o \in OrderIds \ {id} : ordersW'[o] = ordersW[o]
  BY <1>1
<1>6. \A o \in OrderIds : orderBy[o] = t => WrittenBy(t, o)
  BY DEF SerialInv, Written
<1>7. AsPlaced(t)'
  <2>1. AsPlaced(t)
    BY <1>1, <1>3, <1>6 DEF WrittenBy
  <2>2. CASE id # t
    BY <1>1, <1>5, <2>1, <2>2 DEF AsPlaced
  <2>3. CASE id = t
    <3>1. PICK r : r = ordersW[t]
      OBVIOUS
    <3>2. PICK n : n = r.filled + q
      OBVIOUS
    <3>3. r \in Order /\ ordersW'[t] = FilledTo(r, n) /\ n > 0
      <4>1. ordersW'[t] = Advanced(r, q) /\ r \in Order
        BY <1>1, <1>5, <2>3, <3>1
      <4>2. q <= r.qty - r.filled
        BY <1>2, <2>3, <3>1
      <4> QED BY <1>2, <3>2, <4>1, <4>2, AdvancedTrades
    <3>4. /\ ordersW'[t].filled = n /\ ordersW'[t].qty = r.qty
          /\ ordersW'[t].status = IF n = r.qty THEN "FILLED" ELSE "PARTIAL"
          /\ ordersW'[t].side = r.side /\ ordersW'[t].kind = r.kind /\ ordersW'[t].price = r.price
      BY <3>3, FilledToFields
    <3> QED BY <2>1, <3>1, <3>3, <3>4 DEF AsPlaced
  <2> QED BY <2>2, <2>3
<1>8. ASSUME NEW o \in OrderIds, orderBy'[o] = t, o # t
      PROVE  Exists(o)' /\ Traded(orders'[o], ordersW'[o])
  <2>1. Exists(o) /\ Traded(orders[o], ordersW[o])
    BY <1>3, <1>6, <1>8 DEF WrittenBy
  <2>2. CASE id # o
    BY <1>5, <2>1, <2>2 DEF Exists
  <2>3. CASE id = o
    <3>1. orders[o] \in Order
      BY <1>1, <2>1 DEF Exists
    <3>2. Traded(orders[o], Advanced(ordersW[o], q))
      BY <1>1, <1>2, <2>1, <2>3, <3>1, TradesOn
    <3> QED BY <1>5, <2>1, <2>3, <3>2 DEF Exists
  <2> QED BY <2>2, <2>3
<1>9. ASSUME NEW o \in OrderIds, orderBy'[o] = t PROVE Written(o)'
  <2>1. WrittenBy(t, o)'
    BY <1>3, <1>7, <1>8, <1>9 DEF WrittenBy
  <2> QED BY <1>1, <1>9, <2>1 DEF Written
<1>10. DealsFine(t)'
  <2>1. DealsFine(t)
    BY DEF SerialInv
  <2>2. tx'[t].pc \in Legs => Agreed(t, FillPrice(t))'
    BY <2>1 DEF DealsFine, Agreed, FillPrice
  <2>3. \A o \in OrderIds : ordersW[o] \in Order => ordersW'[o].price = ordersW[o].price
    <3>1. ordersW'[id].price = ordersW[id].price
      BY <1>1, <1>2, <1>5, AdvancedTrades, FilledToFields
    <3> QED BY <1>5, <3>1
  <2>4. ASSUME NEW f \in tx[t].made
        PROVE  Agreed(t, f.price)' /\ \A o \in {f.buy, f.sell} \ {t} : ordersW'[o].price = f.price
    <3>1. f.buy \in OrderIds /\ f.sell \in OrderIds /\ Holds(t, f)
      BY <1>1 DEF TxType, Fill, LedgerInv, Reconciled, MadeFine
    <3>2. \A o \in {f.buy, f.sell} : ordersW[o] \in Order
      BY <1>1, <3>1 DEF Holds
    <3> QED BY <1>3, <2>1, <2>3, <3>1, <3>2 DEF DealsFine, Agreed
  <2> DEFINE f == TheFill(t)
             Fine(g) == /\ tx'[t].body.kind = "market"
                           \/ Crosses(tx'[t].body.side, tx'[t].body.price, g.price)
                        /\ \A o \in {g.buy, g.sell} \ {t} : ordersW'[o].price = g.price
  <2>5. Fine(f)
    <3>1. f.price = FillPrice(t) /\ {f.buy, f.sell} = {t, m}
      BY <1>1
    <3>2. Traded(orders'[m], ordersW'[m]) /\ orders'[m] \in Order
      BY <1>1, <1>8 DEF Exists
    <3>3. ordersW'[m].price = FillPrice(t)
      BY <3>2, TradedFields DEF FillPrice
    <3>4. tx[t].body.kind = "market" \/ Crosses(tx[t].body.side, tx[t].body.price, FillPrice(t))
      BY <2>1 DEF DealsFine, Agreed
    <3> QED BY <3>1, <3>3, <3>4
  <2>6. \A g \in tx[t].made : Fine(g)
    BY <2>4 DEF Agreed
  <2>7. \A g \in tx'[t].made : g \in tx[t].made \/ g = f
    OBVIOUS
  <2> HIDE DEF f
  <2>8. \A g \in tx'[t].made : Fine(g)
    <3> HIDE DEF Fine
    <3> QED BY <2>5, <2>6, <2>7
  <2> QED BY <2>2, <2>8 DEF DealsFine, Agreed
<1> QED BY <1>1, <1>4, <1>9, <1>10, SerialFrame
LEMMA PostSerial ==
  ASSUME LedgerInv, LedgerInv', SerialInv, NEW t \in Requests, NEW leg \in {"buyer", "seller"},
         Post(t, leg), tx'[t].pc # "swallowed"
  PROVE  SerialInv'
<1> DEFINE id == IF leg = "buyer" THEN BuyId(t) ELSE SellId(t)
           a == LegAccount(t, leg)
           f == TheFill(t)
           booked == [tx[t] EXCEPT !.pc = "match", !.left = @ - tx[t].want, !.made = @ \cup {f},
                                   !.maker = None, !.want = 0, !.applied = 0, !.posSeen = 0]
<1>1. tx \in [Requests -> TxType] /\ MadeFine(t)
  BY DEF LedgerInv, KInv, FInv, IInv, TypeOK, Reconciled
<1>2. ~Swallow(t)
  BY <1>1 DEF Swallow, TxType
<1>3. CASE Abort(t)
  BY <1>3, AbortSerial
<1>4. CASE ~Abort(t)
  <2>1. /\ tx[t].pc = IF leg = "buyer" THEN "buyerPost" ELSE "sellerPost"
        /\ cashBy[a] \in {None, t} /\ cashBy' = [cashBy EXCEPT ![a] = t]
        /\ ordersW' = [ordersW EXCEPT ![id] = Advanced(@, tx[t].applied)]
        /\ UNCHANGED <<orders, orderBy, cash>>
        /\ IF leg = "buyer" THEN tx' = [tx EXCEPT ![t].pc = "seller"]
           ELSE tx' = [tx EXCEPT ![t].pc = "match", ![t].left = @ - tx[t].want,
                                 ![t].made = @ \cup {TheFill(t)}, ![t].maker = None,
                                 ![t].want = 0, ![t].applied = 0, ![t].posSeen = 0]
    BY <1>2, <1>4 DEF Post
  <2>2. \E amount : cashW' = [cashW EXCEPT ![a] = amount]
    BY <1>2, <1>4 DEF Post
  <2>3. tx[t].pc \in Legs /\ tx[t].applied <= Room(id) /\ id \in {BuyId(t), SellId(t)}
    <3>1. tx[t].pc \in Legs /\ (leg = "buyer" => tx[t].pc \notin SellerLeg)
      BY <2>1 DEF Legs, SellerLeg
    <3> QED BY <1>1, <3>1 DEF MadeFine
  <2>4. a \in Accounts /\ cashBy \in [Accounts -> Requests \cup {None}]
        /\ cashW \in [Accounts -> Int]
    BY <2>3, PostFacts
  <2>5. \A c \in Accounts : \/ cashBy'[c] = cashBy[c] /\ cashW'[c] = cashW[c]
                            \/ cashBy[c] \in {None, t} /\ cashBy'[c] = t
    <3> HIDE DEF a
    <3> QED BY SMTT(30), <2>1, <2>2, <2>4
  <2>6. CASE leg = "buyer"
    <3>1. /\ \A u \in Requests \ {t} : tx'[u] = tx[u]
          /\ tx'[t].body = tx[t].body /\ tx'[t].pc = "seller"
          /\ tx'[t].maker = tx[t].maker /\ tx'[t].made = tx[t].made
      BY <1>1, <2>1, <2>6 DEF TxType
    <3>2. tx'[t].pc \in Matching
      BY SMTT(30), <3>1 DEF Matching, Legs
    <3> HIDE DEF id, a
    <3> QED BY <2>1, <2>3, <2>5, <3>1, <3>2, LegSerial
  <2>7. CASE leg = "seller"
    <3> HIDE DEF f
    <3>1. tx' = [tx EXCEPT ![t] = booked]
      BY <1>1, <2>1, <2>7 DEF f
    <3>2. booked.body = tx[t].body /\ booked.pc = "match" /\ booked.made = tx[t].made \cup {f}
      BY <1>1 DEF TxType
    <3> HIDE DEF booked
    <3>3. /\ \A u \in Requests \ {t} : tx'[u] = tx[u]
          /\ tx'[t].body = tx[t].body /\ tx'[t].pc = "match"
          /\ tx'[t].made = tx[t].made \cup {TheFill(t)}
      BY <1>1, <3>1, <3>2 DEF f
    <3>4. tx'[t].pc \in Matching /\ tx'[t].pc \notin Legs
      BY <3>3 DEF Matching, Legs
    <3> HIDE DEF id, a
    <3> QED BY <2>1, <2>3, <2>5, <3>3, <3>4, LegSerial
  <2> QED BY SMTT(30), <2>6, <2>7
<1> QED BY <1>3, <1>4

\* A cancellation under the row's lock retires the committed order.
LEMMA CancelSerial ==
  ASSUME LedgerInv, LedgerInv', SerialInv, NEW t \in Requests, CancelOrder(t)
  PROVE  SerialInv'
<1> DEFINE r == [tx[t] EXCEPT !.pc = "cancelled"]
<1>0. PICK o : o = tx[t].body.cancel
  OBVIOUS
<1>1. /\ t \in Lockers /\ t # None /\ t # Sweeper /\ tx[t] \in TxType /\ TxFine(t)
      /\ tx[t].pc = "cancel" /\ ordersW \in [OrderIds -> Order \cup {None}]
      /\ orderBy \in [OrderIds -> Lockers \cup {None}]
  BY SeedAssumption DEF LedgerInv, KInv, FInv, IInv, TypeOK, Lockers, CancelOrder
<1>2. CASE Answer(t, "refused", None) \/ Answer(t, "done", o)
  BY <1>2, EarlySerial DEF Answer, KeepRows, orderRows
<1>3. CASE /\ orderBy[o] = None /\ orders[o].status \in Live
           /\ ordersW' = [ordersW EXCEPT ![o].status = "CANCELLED"]
           /\ orderBy' = [orderBy EXCEPT ![o] = t] /\ tx' = [tx EXCEPT ![t].pc = "cancelled"]
           /\ UNCHANGED <<accountRows, orders, fills>>
  <2>1. o \in OrderIds /\ Exists(o)
    BY <1>0, <1>1, BodyAssumption DEF TxFine, Exists, Cancels, Cancelling
  <2>2. r.pc = "cancelled" /\ tx' = [tx EXCEPT ![t] = r]
    BY <1>1, <1>3 DEF TxType
  <2> HIDE DEF r
  <2>3. tx'[t] = r /\ \A u \in Requests \ {t} : tx'[u] = tx[u]
    BY <2>2, LocalOf DEF LedgerInv
  <2>4. ordersW[o] = orders[o]
    BY <1>3, <2>1 DEF LedgerInv, KInv, FInv, IInv, Synced
  <2>5. /\ ordersW'[o] = [orders[o] EXCEPT !.status = "CANCELLED"] /\ orderBy'[o] = t
        /\ \A p \in OrderIds \ {o} : ordersW'[p] = ordersW[p] /\ orderBy'[p] = orderBy[p]
    BY <1>1, <1>3, <2>1, <2>4
  <2>6. Leaves(t)
    BY <1>3, <2>3, <2>5 DEF Leaves, accountRows
  <2>7. \A p \in OrderIds : orderBy'[p] = t => p = o
    BY <1>1, <2>5 DEF SerialInv, Written, WrittenBy, Matching, Legs
  <2>8. WrittenBy(t, o)'
    BY <1>3, <2>1, <2>2, <2>3, <2>5 DEF WrittenBy, Retired, Exists, Matching, Legs
  <2>9. \A p \in OrderIds : orderBy'[p] = t => Written(p)'
    BY <1>1, <2>7, <2>8 DEF Written
  <2>10. DealsFine(t)'
    BY <2>2, <2>3 DEF DealsFine, Matching, Legs
  <2> QED BY <1>1, <2>6, <2>9, <2>10, SerialFrame
<1> QED BY <1>0, <1>2, <1>3 DEF CancelOrder

\* A commit leaves nothing in hand.
LEMMA ConcludeSerial ==
  ASSUME LedgerInv, LedgerInv', SerialInv, NEW s \in Lockers, Concludes(s),
         \A u \in Requests \ {s} : tx'[u] = tx[u],
         s \in Requests => tx'[s].pc \notin Matching
  PROVE  SerialInv'
<1>1. s # None
  BY SeedAssumption
<1>2. Leaves(s)
  BY DEF Leaves, Concludes
<1>3. \A o \in OrderIds : orderBy'[o] # s
  BY <1>1 DEF Concludes
<1> QED BY <1>2, <1>3, HoldsNone

\* The worker and the world.
LEMMA OutsideSerial ==
  ASSUME LedgerInv, LedgerInv', SerialInv,
         SweepExpired \/ TogglePause \/ TimePasses \/ UNCHANGED vars
  PROVE  SerialInv'
<1>1. Sweeper \in Lockers /\ Sweeper \notin Requests /\ Sweeper # None
  BY SeedAssumption DEF Lockers
<1>2. CASE SweepExpired
  <2>1. PICK batch \in SUBSET {o \in Lapsed : orderBy[o] = None} :
          /\ ordersW' = [o \in OrderIds |->
                           IF o \in batch THEN [ordersW[o] EXCEPT !.status = "CANCELLED"]
                           ELSE ordersW[o]]
          /\ orderBy' = [o \in OrderIds |-> IF o \in batch THEN Sweeper ELSE orderBy[o]]
    BY <1>2 DEF SweepExpired
  <2>2. \A o \in batch : /\ orderBy[o] = None /\ Exists(o) /\ o \in OrderIds
                         /\ orders[o].status \in Live
    BY DEF Lapsed
  <2>3. UNCHANGED <<fills, orders, cash, cashW, cashBy, tx>>
    BY <1>2 DEF SweepExpired, accountRows
  <2>4. \A o \in OrderIds : orderBy[o] # Sweeper
    BY <1>2 DEF SweepExpired
  <2>5. Leaves(Sweeper)
    BY <2>1, <2>2, <2>3 DEF Leaves
  <2>6. ASSUME NEW o \in OrderIds, orderBy'[o] = Sweeper PROVE Written(o)'
    <3>1. o \in batch
      BY <2>1, <2>4, <2>6
    <3>2. ordersW[o] = orders[o]
      BY <2>2, <3>1 DEF LedgerInv, KInv, FInv, IInv, Synced
    <3>3. ordersW'[o] = [orders[o] EXCEPT !.status = "CANCELLED"]
      BY <2>1, <3>1, <3>2
    <3> QED BY <1>1, <2>2, <2>3, <2>6, <3>1, <3>3 DEF Written, Retired, Exists
  <2> QED BY <1>1, <2>5, <2>6, SerialFrame
<1>3. CASE TogglePause \/ TimePasses \/ UNCHANGED vars
  <2>1. UNCHANGED <<fills, orders, ordersW, orderBy, tx>>
    BY <1>3 DEF TogglePause, TimePasses, KeepRows, vars, orderRows
  <2> QED BY <2>1 DEF SerialInv, Written, WrittenBy, AsPlaced, Exists, DealsFine, Agreed, FillPrice
<1> QED BY <1>2, <1>3

\* The commits.
LEMMA CommitsSerial ==
  ASSUME LedgerInv, LedgerInv', SerialInv,
         CommitSweep \/ \E t \in Requests : Commit(t) \/ CommitCancel(t)
  PROVE  SerialInv'
<1>1. CASE CommitSweep
  BY <1>1, SweepConcludes, ConcludeSerial
<1>2. ASSUME NEW t \in Requests, Commit(t) \/ CommitCancel(t) PROVE SerialInv'
  BY <1>2, CommitConcludes, ConcludeSerial
<1> QED BY <1>1, <1>2

LEMMA NextSerial ==
  ASSUME LedgerInv, LedgerInv', SerialInv, NoneSwallowed, NoneSwallowed', [Next]_vars
  PROVE  SerialInv'
<1>1. ASSUME NEW t \in Requests, \/ \E b \in Submits : Arrive(t, b)
                                 \/ \E b \in Cancels : ArriveCancel(t, b)
      PROVE  SerialInv'
  BY <1>1, EarlySerial
<1>2. ASSUME NEW t \in Requests, Step(t) PROVE SerialInv'
  <2>1. CASE Price(t) \/ Reserve(t) \/ Insert(t) \/ LockOrders(t)
    BY <2>1, EarlySerial, InsertSerial, LockOrdersSerial
  <2>2. ASSUME NEW leg \in {"buyer", "seller"},
               ReadPosition(t, leg) \/ CreatePosition(t, leg) \/ Post(t, leg)
        PROVE  SerialInv'
    BY <2>2, AbortSerial, PositionSerial, PostSerial DEF NoneSwallowed
  <2>3. CASE Commit(t) \/ CancelOrder(t) \/ CommitCancel(t)
    BY <2>3, CommitsSerial, CancelSerial
  <2>4. CASE DeadlockVictim(t)
    BY <2>4, AbortSerial DEF DeadlockVictim
  <2>5. ~CommitSwallowed(t)
    BY DEF CommitSwallowed, NoneSwallowed
  <2> QED BY <1>2, <2>1, <2>2, <2>3, <2>4, <2>5 DEF Step
<1>3. ASSUME NEW t \in Requests, Crash(t) PROVE SerialInv'
  BY <1>3, AbortSerial DEF Crash
<1>4. CASE CommitSweep
  BY <1>4, CommitsSerial
<1> QED BY <1>1, <1>2, <1>3, <1>4, OutsideSerial DEF Next, Quiet

LEMMA InitSerial == Init => SerialInv
<1> SUFFICES ASSUME Init PROVE SerialInv
  OBVIOUS
<1>1. \A o \in OrderIds : orderBy[o] = None
  BY DEF Init
<1>2. \A t \in Requests : tx[t].pc = "idle"
  BY DEF Init, IdleTx
<1> QED BY <1>1, <1>2, SeedAssumption DEF SerialInv, Written, DealsFine, Matching, Legs, Lockers

-------------------------------------------------------------------------------------
(* Every step is a step of the exchange that takes one request at a time.           *)

\* The words of the abstract exchange.
LEMMA AbstractQty == \A o, F : OneAtATime!QtyOf(o, F) = QtySum(On(F, o))
  BY DEF OneAtATime!QtyOf, OneAtATime!MapThenSumSet, OneAtATime!MapThenFoldSet,
         QtySum, MapThenSumSet, MapThenFoldSet, On

\* The fills a commit adds are of its own request, and what they add to a row is the
\* difference of its two committed versions.
LEMMA CommitAdds ==
  ASSUME LedgerInv, LedgerInv', NEW t \in Requests, Commit(t)
  PROVE  /\ fills \subseteq fills' /\ fills' \ fills = tx[t].made
         /\ tx[t].made \subseteq Fill /\ IsFiniteSet(tx[t].made)
         /\ \A f \in tx[t].made : Holds(t, f)
         /\ \A F \in SUBSET Fill : \A o : On(F, o) \in SUBSET Fill
         /\ \A o \in OrderIds : Exists(o) /\ Exists(o)' =>
               orders'[o].filled = orders[o].filled + QtySum(On(tx[t].made, o))
         /\ Exists(t)' => orders'[t].filled = QtySum(On(tx[t].made, t))
         /\ \A o \in OrderIds : orderBy[o] # t => On(tx[t].made, o) = {}
<1> DEFINE made == tx[t].made
<1>1. tx[t].pc = "match" /\ fills' = fills \cup made
  BY DEF Commit
<1>2. /\ made \subseteq Fill /\ IsFiniteSet(made) /\ fills \subseteq Fill /\ IsFiniteSet(fills)
      /\ Own(t) = made
  BY KnownType DEF Own
<1>3. \A f \in made : Holds(t, f)
  BY DEF LedgerInv, Reconciled, MadeFine
<1>4. t \in OrderIds /\ orders[t] = None /\ t \notin DOMAIN SeedOrders
  BY <1>1, SeedAssumption DEF LedgerInv, KInv, KeyFine, Placed, Matching, OrderIds
<1>5. On(fills, t) = {}
  BY <1>4 DEF LedgerInv, Reconciled, FillsFine, On, Exists
<1>6. fills \cap made = {}
  BY <1>3, <1>5 DEF Holds, On
<1>7. \A F \in SUBSET Fill : \A o : On(F, o) \in SUBSET Fill /\ (IsFiniteSet(F) => IsFiniteSet(On(F, o)))
  BY FS_Subset DEF On
<1>8. ASSUME NEW o
      PROVE  /\ QtySum(On(fills', o)) = QtySum(On(fills, o)) + QtySum(On(made, o))
             /\ QtySum(On(fills, o)) \in Int /\ QtySum(On(made, o)) \in Int
  <2>1. On(fills', o) = On(fills, o) \cup On(made, o) /\ On(fills, o) \cap On(made, o) = {}
    BY <1>1, <1>6 DEF On
  <2>2. /\ On(fills, o) \in SUBSET Fill /\ IsFiniteSet(On(fills, o))
        /\ On(made, o) \in SUBSET Fill /\ IsFiniteSet(On(made, o))
    BY <1>2, <1>7
  <2> QED BY <2>1, <2>2, TwoKinds
<1>9. \A o \in OrderIds : Exists(o) => orders[o].filled = Base(o) + QtySum(On(fills, o))
  BY DEF LedgerInv, Reconciled, CommittedExplained
<1>10. \A o \in OrderIds : Exists(o)' => orders'[o].filled = Base(o) + QtySum(On(fills', o))
  <2>1. \A o : On(fills, o)' = On(fills', o)
    BY DEF On
  <2> QED BY <2>1 DEF LedgerInv, Reconciled, CommittedExplained
<1>11. \A o \in OrderIds : Base(o) \in Int
  BY SeedAssumption, BodyAssumption DEF Base, Order
<1> HIDE DEF made
<1>12. \A o \in OrderIds : Exists(o) /\ Exists(o)' =>
               orders'[o].filled = orders[o].filled + QtySum(On(made, o))
  BY <1>8, <1>9, <1>10, <1>11
<1>13. Exists(t)' => orders'[t].filled = QtySum(On(made, t))
  <2>1. Base(t) = 0
    BY <1>4 DEF Base
  <2>2. On(fills', t) = On(made, t)
    BY <1>1, <1>5 DEF On
  <2> QED BY <1>4, <1>8, <1>10, <2>1, <2>2
<1>14. \A o \in OrderIds : orderBy[o] # t => On(made, o) = {}
  BY <1>3 DEF Holds, On
<1>15. fills' \ fills = made
  BY <1>1, <1>6
<1> QED BY <1>1, <1>2, <1>3, <1>7, <1>12, <1>13, <1>14, <1>15 DEF made

\* What a commit writes: the rows in hand, a market order's remainder cancelled.
LEMMA CommitWrites ==
  ASSUME LedgerInv, LedgerInv', SerialInv, NEW t \in Requests, Commit(t)
  PROVE  /\ t \in OrderIds /\ orderBy[t] = t /\ ordersW[t] \in Order /\ orders[t] = None
         /\ AsPlaced(t) /\ tx[t].body \in Submits
         /\ orders'[t] = IF ordersW[t].kind = "market" /\ ordersW[t].filled < ordersW[t].qty
                         THEN [ordersW[t] EXCEPT !.status = "CANCELLED"]
                         ELSE ordersW[t]
         /\ orders'[t] \in Order /\ RowFine(orders'[t])
         /\ \A o \in OrderIds \ {t} :
               IF orderBy[o] = t
               THEN /\ orders[o] \in Order /\ orders'[o] = ordersW[o] /\ orders'[o] # None
                    /\ Traded(orders[o], ordersW[o]) /\ RowFine(orders'[o])
               ELSE orders'[o] = orders[o]
<1>1. /\ t \in OrderIds /\ orders[t] = None /\ orderBy[t] = t /\ ordersW[t] \in Order
      /\ tx[t].body \in Submits /\ tx[t].pc \in Matching /\ tx[t].pc # "cancelled" /\ t # Sweeper
  <2>1. tx[t].pc = "match" /\ tx[t].pc \in Matching
    BY DEF Commit, Matching
  <2>2. ordersW \in [OrderIds -> Order \cup {None}]
    BY DEF LedgerInv, KInv, FInv, IInv, TypeOK
  <2> QED BY <2>1, <2>2, SeedAssumption
          DEF LedgerInv, KInv, FInv, IInv, TxFine, KeyFine, Placed, OrderIds
<1>2. \A o \in OrderIds : orderBy[o] = t => WrittenBy(t, o)
  BY DEF SerialInv, Written
<1>3. AsPlaced(t) /\ \A o \in OrderIds \ {t} : orderBy[o] = t =>
                        Exists(o) /\ Traded(orders[o], ordersW[o])
  BY <1>1, <1>2 DEF WrittenBy
<1> DEFINE closed == [ordersW[t] EXCEPT !.status = "CANCELLED"]
<1>4. closed \in Order
  BY <1>1 DEF Order, Statuses
<1>5. /\ orders'[t] = IF ordersW[t].kind = "market" /\ ordersW[t].filled < ordersW[t].qty
                      THEN closed ELSE ordersW[t]
      /\ \A o \in OrderIds \ {t} : orders'[o] = IF orderBy[o] = t THEN ordersW[o] ELSE orders[o]
  BY <1>1 DEF Commit
<1>6. /\ orders \in [OrderIds -> Order \cup {None}]
      /\ \A o \in OrderIds : orders'[o] # None => RowFine(orders'[o])
      /\ \A o \in OrderIds : orders[o] # None => ordersW[o] # None
  BY DEF LedgerInv, KInv, FInv, IInv, TypeOK, RowsFine, RowFine, Synced
<1>7. orders'[t] \in Order /\ orders'[t] # None
  <2> HIDE DEF closed
  <2> QED BY <1>1, <1>4, <1>5, SeedAssumption
<1>8. ASSUME NEW o \in OrderIds \ {t}
      PROVE  IF orderBy[o] = t
               THEN /\ orders[o] \in Order /\ orders'[o] = ordersW[o] /\ orders'[o] # None
                    /\ Traded(orders[o], ordersW[o]) /\ RowFine(orders'[o])
               ELSE orders'[o] = orders[o]
  BY <1>3, <1>5, <1>6 DEF Exists
<1> QED BY <1>1, <1>3, <1>5, <1>6, <1>7, <1>8

\* The order that arrives counts its own fills, closes as an order of its kind does, and
\* trades at prices both sides allow.
LEMMA CommitArrives ==
  ASSUME LedgerInv, LedgerInv', SerialInv, NEW t \in Requests, Commit(t)
  PROVE  OneAtATime!Arrives(t, tx[t].made)
<1>1. PICK made : made = tx[t].made
  OBVIOUS
<1>2. PICK w : w = ordersW[t]
  OBVIOUS
<1>3. PICK r : r = orders'[t]
  OBVIOUS
<1>4. /\ orders[t] = None /\ w \in Order /\ AsPlaced(t) /\ r \in Order /\ RowFine(r)
      /\ r = IF w.kind = "market" /\ w.filled < w.qty
             THEN [w EXCEPT !.status = "CANCELLED"] ELSE w
      /\ r # None /\ orders'[t] # None
  BY <1>2, <1>3, CommitWrites, SeedAssumption
<1>5. r.filled = QtySum(On(made, t)) /\ r.filled <= r.qty
  BY <1>1, <1>3, <1>4, CommitAdds DEF RowFine, Exists
<1>6. /\ r.filled = w.filled /\ r.qty = w.qty /\ r.kind = w.kind /\ r.side = w.side
      /\ r.price = w.price
      /\ r.status = IF w.kind = "market" /\ w.filled < w.qty THEN "CANCELLED" ELSE w.status
  BY <1>4 DEF Order
<1>7. r.status = IF r.kind = "market" /\ r.filled < r.qty THEN "CANCELLED"
                 ELSE OneAtATime!StatusOf(r, r.filled)
  BY <1>2, <1>4, <1>6 DEF AsPlaced, OneAtATime!StatusOf
<1>8. ASSUME NEW f \in made
      PROVE  /\ t \in {f.buy, f.sell}
             /\ \A o \in {f.buy, f.sell} : OneAtATime!Allows(orders'[o], f.price)
  <2>1. f \in Fill /\ Holds(t, f)
    BY <1>1, CommitAdds
  <2>2. /\ tx[t].body.kind = "market" \/ Crosses(tx[t].body.side, tx[t].body.price, f.price)
        /\ \A o \in {f.buy, f.sell} \ {t} : ordersW[o].price = f.price
    <3>1. DealsFine(t) /\ tx[t].pc \in Matching
      BY DEF SerialInv, Commit, Matching
    <3> QED BY <1>1, <3>1 DEF DealsFine, Agreed
  <2>3. OneAtATime!Allows(r, f.price)
    BY <1>2, <1>4, <1>6, <2>2, CommitWrites, BodyAssumption
       DEF AsPlaced, Crosses, OneAtATime!Allows, Sides
  <2>4. ASSUME NEW o \in {f.buy, f.sell} \ {t} PROVE OneAtATime!Allows(orders'[o], f.price)
    <3>1. o \in OrderIds \ {t} /\ orderBy[o] = t
      BY <2>1 DEF Fill, Holds
    <3>2. orders'[o] = ordersW[o] /\ orders[o] \in Order /\ Traded(orders[o], ordersW[o])
      BY <3>1, CommitWrites
    <3>3. ordersW[o].side = orders[o].side /\ orders[o].side \in Sides
      BY <3>2, TradedFields DEF Order
    <3>4. f.price \in Int
      BY <2>1, BodyAssumption DEF Fill, Ticks
    <3> QED BY <2>2, <3>2, <3>3, <3>4 DEF OneAtATime!Allows, Sides
  <2> QED BY <1>3, <2>1, <2>3, <2>4 DEF Holds
<1> QED BY <1>1, <1>3, <1>4, <1>5, <1>7, <1>8, AbstractQty
        DEF OneAtATime!Arrives, OneAtATime!Booked

\* The orders it meets count what it traded with them, and no other changes.
LEMMA CommitMeets ==
  ASSUME LedgerInv, LedgerInv', SerialInv, NEW t \in Requests, Commit(t)
  PROVE  OneAtATime!Meets(t, tx[t].made)
<1>1. PICK made : made = tx[t].made
  OBVIOUS
<1> DEFINE Met(o) ==
      LET filled == orders[o].filled + QtySum(On(made, o)) IN
      IF QtySum(On(made, o)) = 0 THEN orders'[o] = orders[o]
      ELSE /\ filled <= orders[o].qty
           /\ orders'[o] = [orders[o] EXCEPT !.filled = filled,
                                             !.status = OneAtATime!StatusOf(orders[o], filled)]
<1>2. ASSUME NEW o \in OrderIds \ {t} PROVE Met(o)
  <2>1. CASE orderBy[o] # t
    <3>1. On(made, o) = {}
      BY <1>1, <2>1, CommitAdds
    <3>2. QtySum(On(made, o)) = 0
      BY <3>1, QtyOf, FS_EmptySet
    <3> QED BY <2>1, <3>2, CommitWrites
  <2>2. CASE orderBy[o] = t
    <3>1. PICK q : q = QtySum(On(made, o))
      OBVIOUS
    <3>2. PICK old : old = orders[o]
      OBVIOUS
    <3>3. PICK new : new = orders'[o]
      OBVIOUS
    <3>4. old \in Order /\ new = ordersW[o] /\ Traded(old, new) /\ RowFine(new) /\ new # None
      BY <2>2, <3>2, <3>3, CommitWrites
    <3>5. old.filled \in Nat /\ new.qty = old.qty /\ old # None
      BY <3>4, TradedFields, BodyAssumption, SeedAssumption DEF Order
    <3>6. q \in Int
      <4>1. made \subseteq Fill /\ IsFiniteSet(made)
        BY <1>1, CommitAdds
      <4>2. On(made, o) \subseteq Fill /\ IsFiniteSet(On(made, o))
        BY <4>1, FS_Subset DEF On
      <4> QED BY <3>1, <4>2, QtyOf
    <3>7. new.filled = old.filled + q
      BY <1>1, <3>1, <3>2, <3>3, <3>4, <3>5, CommitAdds DEF Exists
    <3>8. CASE q = 0
      <4>1. new = old
        BY <3>4, <3>5, <3>7, <3>8 DEF Traded
      <4> QED BY <3>1, <3>2, <3>3, <3>8, <4>1
    <3>9. CASE q # 0
      <4>1. /\ new.filled > old.filled
            /\ new = [old EXCEPT !.filled = new.filled,
                                 !.status = IF new.filled = new.qty THEN "FILLED" ELSE "PARTIAL"]
        BY <3>4, <3>5, <3>6, <3>7, <3>9 DEF Traded
      <4>2. PICK n : n = new.filled
        OBVIOUS
      <4>3. n > 0 /\ n <= old.qty /\ n = old.filled + q
        BY <3>4, <3>5, <3>6, <3>7, <4>1, <4>2 DEF RowFine
      <4>4. OneAtATime!StatusOf(old, n) = IF n = old.qty THEN "FILLED" ELSE "PARTIAL"
        BY <4>3 DEF OneAtATime!StatusOf
      <4>5. new = [old EXCEPT !.filled = n, !.status = OneAtATime!StatusOf(old, n)]
        BY <3>5, <4>1, <4>2, <4>4
      <4> QED BY <3>1, <3>2, <3>3, <3>9, <4>3, <4>5
    <3> QED BY <3>8, <3>9
  <2> QED BY <2>1, <2>2
<1> QED BY <1>1, <1>2, AbstractQty DEF OneAtATime!Meets

\* The buyers pay and the sellers are paid, and nobody else's balance moves.
LEMMA CommitMovesCash ==
  ASSUME LedgerInv, LedgerInv', SerialInv, NEW t \in Requests, Commit(t)
  PROVE  OneAtATime!CashMoves(tx[t].made)
<1>1. PICK made : made = tx[t].made
  OBVIOUS
<1>2. /\ fills' = fills \cup made /\ fills \cap made = {} /\ made \in SUBSET Fill
      /\ IsFiniteSet(made) /\ fills \in SUBSET Fill /\ IsFiniteSet(fills)
      /\ \A f \in made : Holds(t, f)
  BY <1>1, CommitAdds, KnownType DEF Commit
<1>3. \A o \in OrderIds : ordersW'[o].account = ordersW[o].account
  BY CommitConcludes DEF Concludes
<1>4. \A f \in made : \A o \in {f.buy, f.sell} : orders'[o].account = ordersW[o].account
  BY <1>2, <1>3, CommitConcludes DEF Holds, Fill, Concludes
<1> DEFINE earned(a) == {f \in made : orders'[f.sell].account = a}
           paid(a)   == {f \in made : orders'[f.buy].account = a}
<1>5. \A a : earned(a) = Sold(made, a) /\ paid(a) = Bought(made, a)
  BY <1>4 DEF Sold, Bought
<1> HIDE DEF earned, paid
<1>6. ASSUME NEW a \in Accounts
      PROVE  cash'[a] = cash[a] + Value(earned(a)) - Value(paid(a))
  <2>1. /\ cash[a] = SeedCash[a] + Value(Sold(fills, a)) - Value(Bought(fills, a))
        /\ SeedCash[a] \in Int
    BY SeedAssumption DEF LedgerInv, Reconciled, CommittedExplained
  <2>2. cash'[a] = SeedCash[a] + Value(Sold(fills', a)) - Value(Bought(fills', a))
    <3>1. cash'[a] = SeedCash[a] + Value(Sold(fills, a)') - Value(Bought(fills, a)')
      BY DEF LedgerInv, Reconciled, CommittedExplained
    <3>2. /\ Sold(fills, a)' = {f \in fills' : ordersW'[f.sell].account = a}
          /\ Bought(fills, a)' = {f \in fills' : ordersW'[f.buy].account = a}
      BY DEF Sold, Bought
    <3>3. fills' \in SUBSET Fill
      BY <1>2
    <3> QED BY <1>3, <3>1, <3>2, <3>3, SameOwners
  <2>3. /\ Sold(fills', a) = Sold(fills, a) \cup Sold(made, a)
        /\ Bought(fills', a) = Bought(fills, a) \cup Bought(made, a)
        /\ Sold(fills, a) \cap Sold(made, a) = {} /\ Bought(fills, a) \cap Bought(made, a) = {}
    BY <1>2 DEF Sold, Bought
  <2>4. \A F \in {fills, made} :
           /\ Sold(F, a) \in SUBSET Fill /\ IsFiniteSet(Sold(F, a))
           /\ Bought(F, a) \in SUBSET Fill /\ IsFiniteSet(Bought(F, a))
    BY <1>2, FS_Subset DEF Sold, Bought
  <2>5. /\ Value(Sold(fills', a)) = Value(Sold(fills, a)) + Value(Sold(made, a))
        /\ Value(Sold(fills, a)) \in Int /\ Value(Sold(made, a)) \in Int
    BY ZenonT(40), <2>3, <2>4, TwoKinds
  <2>6. /\ Value(Bought(fills', a)) = Value(Bought(fills, a)) + Value(Bought(made, a))
        /\ Value(Bought(fills, a)) \in Int /\ Value(Bought(made, a)) \in Int
    BY ZenonT(40), <2>3, <2>4, TwoKinds
  <2> QED BY <1>5, <2>1, <2>2, <2>5, <2>6
<1>7. cash' \in [Accounts -> Int]
  BY DEF LedgerInv, KInv, FInv, IInv, TypeOK
<1>8. cash' = [a \in Accounts |-> cash[a] + Value(earned(a)) - Value(paid(a))]
  BY <1>6, <1>7
<1> QED BY <1>1, <1>8
        DEF OneAtATime!CashMoves, OneAtATime!MapThenSumSet, OneAtATime!MapThenFoldSet,
            Value, MapThenSumSet, MapThenFoldSet, earned, paid

LEMMA CommitExecutes ==
  ASSUME LedgerInv, LedgerInv', SerialInv, NEW t \in Requests, Commit(t)
  PROVE  OneAtATime!Execute(t)
<1>1. fills \subseteq fills' /\ fills' \ fills = tx[t].made
  BY CommitAdds
<1>2. \A a \in Accounts : cash'[a] >= 0
  BY DEF LedgerInv, KInv, FInv, IInv, CashFine
<1> QED BY <1>1, <1>2, CommitArrives, CommitMeets, CommitMovesCash DEF OneAtATime!Execute

\* A cancel or a sweep that commits retires the rows in hand, and nothing else.
LEMMA CommitRetires ==
  ASSUME LedgerInv, SerialInv, NEW s \in Lockers, CommitRows(s), Own(s) = {}, ~Halfway(s),
         s \in Requests => tx[s].pc = "cancelled",
         orders' = [o \in OrderIds |-> IF orderBy[o] = s THEN ordersW[o] ELSE orders[o]],
         UNCHANGED fills
  PROVE  \E gone \in SUBSET OrderIds : OneAtATime!Retire(gone)
<1>1. PICK gone : gone = {o \in OrderIds : orderBy[o] = s}
  OBVIOUS
<1>2. s \in Requests \/ s = Sweeper
  BY DEF Lockers
<1>3. ASSUME NEW o \in gone PROVE Exists(o) /\ Retired(orders[o], ordersW[o])
  <2>1. o \in OrderIds /\ orderBy[o] = s /\ Written(o)
    BY <1>1 DEF SerialInv
  <2> QED BY <1>2, <2>1, SeedAssumption DEF Written, WrittenBy
<1>4. \A o \in gone : /\ OneAtATime!Booked(o) /\ orders[o].status \in {"OPEN", "PARTIAL"}
                      /\ ordersW[o] = [orders[o] EXCEPT !.status = "CANCELLED"]
  BY <1>3 DEF Retired, Exists, Live, OneAtATime!Booked
<1>5. orders' = [o \in OrderIds |-> IF o \in gone THEN [orders[o] EXCEPT !.status = "CANCELLED"]
                                   ELSE orders[o]]
  BY <1>1, <1>4
<1>6. \A a \in Accounts : cashBy[a] = s => cashW[a] = cash[a]
  <2> SUFFICES ASSUME NEW a \in Accounts, cashBy[a] = s PROVE cashW[a] = cash[a]
    OBVIOUS
  <2>1. Known(s) = fills /\ HalfValue(s, a) = 0
    BY DEF Known, HalfValue
  <2>2. cashW[a] = SeedCash[a] + Value(Sold(fills, a)) - Value(Bought(fills, a)) - 0
    BY <2>1, AsHeld
  <2>3. cash[a] = SeedCash[a] + Value(Sold(fills, a)) - Value(Bought(fills, a))
    BY DEF LedgerInv, Reconciled, CommittedExplained
  <2>4. /\ Sold(fills, a) \subseteq Fill /\ IsFiniteSet(Sold(fills, a))
        /\ Bought(fills, a) \subseteq Fill /\ IsFiniteSet(Bought(fills, a))
    BY KnownType, FS_Subset DEF Sold, Bought
  <2>5. /\ Value(Sold(fills, a)) \in Int /\ Value(Bought(fills, a)) \in Int
        /\ SeedCash[a] \in Int
    BY <2>4, ValueOf, SeedAssumption
  <2> QED BY <2>2, <2>3, <2>5
<1>7. cash' = cash
  <2>1. cash \in [Accounts -> Int]
    BY DEF LedgerInv, KInv, FInv, IInv, TypeOK
  <2> QED BY <1>6, <2>1 DEF CommitRows
<1>8. OneAtATime!Retire(gone) /\ gone \in SUBSET OrderIds
  BY <1>1, <1>4, <1>5, <1>7 DEF OneAtATime!Retire
<1> QED BY <1>8

\* Every step of the service is a step of the exchange, or leaves orders, cash and fills.
LEMMA NextExchange ==
  ASSUME LedgerInv, LedgerInv', SerialInv, NoneSwallowed, [Next]_vars
  PROVE  [OneAtATime!Next]_(OneAtATime!exchange)
<1> DEFINE Stutters == UNCHANGED <<orders, cash, fills>>
<1>0. Stutters => [OneAtATime!Next]_(OneAtATime!exchange)
  BY DEF OneAtATime!exchange
<1>1. ASSUME NEW t \in Requests, Abort(t) PROVE Stutters
  BY SMTT(30), <1>1 DEF Abort, RollbackRows
<1>2. ASSUME NEW t \in Requests, \/ \E b \in Submits : Arrive(t, b)
                                 \/ \E b \in Cancels : ArriveCancel(t, b)
      PROVE  Stutters
  BY ZenonT(40), <1>2 DEF Arrive, ArriveCancel, KeepRows, accountRows, orderRows
<1>3. ASSUME NEW t \in Requests, Price(t) \/ Reserve(t) PROVE Stutters
  BY SMTT(30), <1>3, EarlyFacts
<1>4. ASSUME NEW t \in Requests, Insert(t) \/ LockOrders(t) \/ CancelOrder(t) PROVE Stutters
  BY ZenonT(40), <1>4 DEF Insert, LockOrders, CancelOrder, Answer, KeepRows,
     RollbackRows, accountRows, orderRows
<1>5. ASSUME NEW t \in Requests, NEW leg \in {"buyer", "seller"},
             ReadPosition(t, leg) \/ CreatePosition(t, leg) \/ Post(t, leg)
      PROVE  Stutters
  BY <1>1, <1>5 DEF ReadPosition, CreatePosition, Post, Swallow, KeepRows, accountRows, orderRows
<1>6. ASSUME NEW t \in Requests, Commit(t) PROVE OneAtATime!Next
  <2>1. t \in OrderIds
    BY DEF OrderIds
  <2> QED BY <1>6, <2>1, CommitExecutes DEF OneAtATime!Next
<1>7. ASSUME NEW t \in Requests, CommitCancel(t) PROVE OneAtATime!Next
  <2>1. t \in Lockers /\ ~Halfway(t) /\ tx[t].pc = "cancelled"
    BY <1>7, CommitConcludes DEF CommitCancel
  <2>2. Own(t) = {}
    BY <2>1 DEF LedgerInv, Reconciled, MadeFine, Own, Matching, Legs
  <2> QED BY <1>7, <2>1, <2>2, CommitRetires DEF CommitCancel, OneAtATime!Next
<1>8. ASSUME CommitSweep PROVE OneAtATime!Next
  BY <1>8, SweepConcludes, CommitRetires DEF CommitSweep, OneAtATime!Next
<1>9. ASSUME NEW t \in Requests, Step(t) PROVE Stutters \/ OneAtATime!Next
  <2>1. ~CommitSwallowed(t)
    BY DEF CommitSwallowed, NoneSwallowed
  <2> QED BY <1>1, <1>3, <1>4, <1>5, <1>6, <1>7, <1>9, <2>1 DEF Step, DeadlockVictim
<1>10. SweepExpired \/ TogglePause \/ TimePasses \/ UNCHANGED vars => Stutters
  BY DEF SweepExpired, TogglePause, TimePasses, KeepRows, vars, accountRows, orderRows
<1>11. ASSUME NEW t \in Requests, Crash(t) PROVE Stutters
  BY <1>1, <1>11 DEF Crash
<1> HIDE DEF Stutters
<1> QED BY <1>0, <1>2, <1>8, <1>9, <1>10, <1>11 DEF Next, Quiet

LEMMA InitExchange == Init => OneAtATime!Init
  BY SeedAssumption DEF Init, OneAtATime!Init

\* Unless a pass swallows the failure of a debit, everything a request has written and not
\* committed is one step of an exchange without concurrency: its own order as far as it
\* has traded, trades of the orders it holds at prices both bodies allow, or orders retired.
THEOREM SerialInvariance == Spec /\ []NoneSwallowed => []SerialInv
<1>1. LedgerInv /\ LedgerInv' /\ SerialInv /\ NoneSwallowed /\ NoneSwallowed' /\ [Next]_vars
      => SerialInv'
  BY NextSerial
<1> QED BY <1>1, InitSerial, LedgerInvariance, PTL DEF Spec

\* The order service is linearizable on orders, fills and cash: whatever interleaving of
\* submissions, cancels, sweeps, crashes and deadlock victims, each commit is one whole
\* step of AtomicExchange, and every other step leaves what it shows.
THEOREM OneRequestAtATime == Spec /\ []NoneSwallowed => Serializable
<1>1. /\ LedgerInv /\ LedgerInv' /\ SerialInv /\ NoneSwallowed /\ [Next]_vars
      => [OneAtATime!Next]_(OneAtATime!exchange)
  BY NextExchange
<1> QED BY <1>1, InitExchange, LedgerInvariance, SerialInvariance, PTL
        DEF Spec, Serializable, OneAtATime!Spec

\* With HTTP requests and the worker alone that is so of every behaviour.
THEOREM RequestsSerialize ==
  ASSUME Passes = {}
  PROVE  Spec => Serializable
<1>1. Init => NoneSwallowed
  BY DEF Init, IdleTx, NoneSwallowed
<1>2. TypeOK /\ NoneSwallowed /\ [Next]_vars => NoneSwallowed'
  BY NextSwallows
<1>3. Spec => []NoneSwallowed
  BY <1>1, <1>2, Typed, PTL DEF Spec
<1> QED BY <1>3, OneRequestAtATime, PTL

=====================================================================================

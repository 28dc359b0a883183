------------------------------ MODULE ClobProperties ------------------------------
(***********************************************************************************)
(* What the order service of Clob guarantees, and what it does not.                *)
(***********************************************************************************)
EXTENDS Clob

-------------------------------------------------------------------------------------
(* Guarantees.                                                                     *)

TxType ==
    [ pc : {"idle"} \cup Working \cup Ended, body : Submits \cup Cancels \cup {None},
      at : Nat, cashSeen : Int, heldSeen : Nat, sellsSeen : SUBSET Entry,
      snap : SUBSET Entry, left : 0..MaxQty, maker : OrderIds \cup {None},
      want : 0..MaxQty, applied : 0..MaxQty, posSeen : Int,
      made : SUBSET Fill, reply : OrderIds \cup {None} ]

\* Every row, lock and request local stays within its type.
TypeOK ==
    /\ market \in {"OPEN", "LOCKED"} /\ lapsed \in BOOLEAN
    /\ pauses \in 0..MaxPauses /\ crashes \in 0..MaxCrashes /\ clock \in Nat
    /\ cash \in [Accounts -> Int] /\ cashW \in [Accounts -> Int]
    /\ pos \in [Accounts -> Int \cup {None}] /\ posW \in [Accounts -> Int \cup {None}]
    /\ orders \in [OrderIds -> Order \cup {None}]
    /\ ordersW \in [OrderIds -> Order \cup {None}]
    /\ cashBy \in [Accounts -> Requests \cup {None}]
    /\ posBy \in [Accounts -> Requests \cup {None}]
    /\ orderBy \in [OrderIds -> Lockers \cup {None}]
    /\ fills \in SUBSET Fill /\ published \in SUBSET Fill
    /\ tx \in [Requests -> TxType]

\* No account is overdrawn, although a request checks a balance it read before it held
\* the account and spends it, fill by fill, much later: the guard of LedgerService.credit
\* is what holds.
CashNeverNegative == \A a \in Accounts : cash[a] >= 0

FillsOf(o) == {f \in fills : o \in {f.buy, f.sell}}

\* No order trades more than it asked for, and FILLED means exactly that it has traded
\* all of it: two takers that matched the same maker in private, stale books meet at
\* the row lock of _record_fill, and the second must see what the first took.
NoOverfill ==
    \A o \in OrderIds : Exists(o) =>
        /\ orders[o].filled <= orders[o].qty
        /\ orders[o].status = "FILLED" <=> orders[o].filled = orders[o].qty

\* The fills table explains the orders table: what an order counts as filled is the sum
\* of its fills, over all the requests that traded against it.
FillsExplainOrders ==
    \A o \in OrderIds : Exists(o) =>
        orders[o].filled = (IF o \in DOMAIN SeedOrders THEN SeedOrders[o].filled ELSE 0)
                             + MapThenSumSet(LAMBDA f : f.qty, FillsOf(o))

\* The balances are explained by the fills: no posting is lost or doubled although
\* LedgerService posts to accounts other requests are posting to.
Paid(a)   == {f \in fills : orders[f.buy].account = a}
Earned(a) == {f \in fills : orders[f.sell].account = a}

FillsExplainCash ==
    \A a \in Accounts :
        cash[a] = SeedCash[a]
                    + MapThenSumSet(LAMBDA f : f.price * f.qty, Earned(a))
                    - MapThenSumSet(LAMBDA f : f.price * f.qty, Paid(a))

\* One order per account and idempotency key, and every accepted request that carried
\* the key was answered with that order, however the duplicates raced.
KeyAnsweredOnce ==
    \A t, u \in Requests :
        LET b == tx[t].body  c == tx[u].body IN
        /\ tx[t].pc = "done" /\ tx[u].pc = "done"
        /\ b \in Submits /\ c \in Submits
        /\ b.account = c.account /\ b.key = c.key /\ b.key # None
        => tx[t].reply = tx[u].reply

\* An order's filled quantity never goes down and a filled order never changes again:
\* no late cancel, expiry sweep, rollback or stale taker can undo a trade.
FilledIsFinal ==
    [][ \A o \in OrderIds : Exists(o) =>
          /\ orders'[o] # None
          /\ orders'[o].filled >= orders[o].filled
          /\ orders[o].status = "FILLED" => orders'[o] = orders[o] ]_orders

\* Concurrent requests look like one request at a time on orders, fills and cash.
OneAtATime == INSTANCE AtomicExchange
Serializable == OneAtATime!Spec

\* Every request that arrives ends: what it waits for is released, and a cycle of
\* requests that wait for each other is broken.
EveryRequestEnds ==
    \A t \in Requests : tx[t].pc \in Working ~> tx[t].pc \in Ended

\* A GTD order that outlives its time leaves the book, whatever lock made the sweep
\* skip it and however a taker touched it in between.
StaysPastExpiry(o) ==
    lapsed /\ Exists(o) /\ orders[o].gtd /\ orders[o].status \in {"OPEN", "PARTIAL"}

LapsedOrdersLeave == \A o \in OrderIds : StaysPastExpiry(o) ~> ~StaysPastExpiry(o)

-------------------------------------------------------------------------------------
(* Expectations of the documentation or the tests that the code does not meet.      *)

\* A cancelled limit order does not trade: the owner was told it is cancelled and its
\* reservation is released.
CancelledStaysCancelled ==
    [][ \A o \in OrderIds :
          Exists(o) /\ orders[o].status = "CANCELLED" => orders'[o] = orders[o] ]_orders

\* The positions are explained by the fills: buys add shares and sells take them.
FillsExplainPositions ==
    \A a \in Accounts :
        (IF pos[a] = None THEN 0 ELSE pos[a]) =
            (IF SeedPos[a] = None THEN 0 ELSE SeedPos[a])
              + MapThenSumSet(LAMBDA f : f.qty, Paid(a))
              - MapThenSumSet(LAMBDA f : f.qty, Earned(a))

\* What is traded is booked, for the orders of the passes too: orders and balances
\* reconcile with the fills.
FillsReconcile == FillsExplainOrders /\ FillsExplainCash

=====================================================================================

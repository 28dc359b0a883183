-------------------------- MODULE PaperTradingProperties --------------------------
(***********************************************************************************)
(* What paper trading guarantees while requests and settlements race, and what it  *)
(* does not.                                                                       *)
(***********************************************************************************)
EXTENDS PaperTrading

-------------------------------------------------------------------------------------
(* Guarantees.                                                                     *)

ReqType ==
    [ pc : {"idle", "lookup", "debit", "select", "lock", "credit", "insert", "commit",
            "done", "refused", "replayed"},
      call : Calls \cup {None}, want : SUBSET Nat, holds : SUBSET Nat ]

SettlerType ==
    [ pc : {"idle", "claim", "rows", "flag", "done", "refused"},
      verdict : Verdicts \cup {None}, rows : [Users -> Seq(Order)] \cup {None},
      todo : SUBSET (Users \X Nat), holds : SUBSET (Users \X Nat), due : SUBSET Users ]

\* Every row, lock and session local stays within its type, and no balance is negative,
\* although buys race on balances they have looked at long before.
TypeOK ==
    /\ status \in {"OPEN", "RESOLVED"} /\ marketBy \in Settlers \cup {None}
    /\ resolution \in Verdicts \cup {None}
    /\ orders \in [Users -> Seq(Order)]
    /\ balance \in [Users -> Nat] /\ balanceBy \in [Users -> Sessions \cup {None}]
    /\ crashes \in 0..MaxCrashes
    /\ req \in [Requests -> ReqType]
    /\ settler \in [Settlers -> SettlerType]

\* A close that is going to sell has a row of the position locked.
ClosesLock ==
    \A r \in Requests :
        req[r].pc \in {"credit", "insert", "commit"} /\ req[r].call.action = "SELL" =>
            req[r].holds # {}

\* As long as each close finds a row to lock, closes that race each other and a settlement
\* never sell more than was bought: two of them cannot count the same shares.
NeverOversold == []ClosesLock => [](\A u \in Users : SharesOf(orders[u], DOMAIN orders[u]) >= 0)

Cash(rows) ==
    SumFunction([i \in DOMAIN rows |-> IF rows[i].action = "BUY"
                                       THEN 0 - rows[i].shares * rows[i].price
                                       ELSE rows[i].shares * rows[i].price])

Payouts(u) == SumFunction([p \in {q \in paid : q.user = u} |-> p.amount])

\* A balance is what the user's orders and settlements made of it: a lost, refused,
\* replayed or deadlocked transaction leaves nothing of itself.
OrdersExplainBalance ==
    \A u \in Users :
        balance[u] = SeedBalance[u] - Cash(SeedOrders[u]) + Cash(orders[u]) + Payouts(u)

\* However often and however concurrently a request is repeated, its key makes one order.
KeyAnsweredOnce ==
    \A u \in Users : \A i, j \in 1..Len(orders[u]) :
        orders[u][i].key = orders[u][j].key /\ orders[u][i].key # None => i = j

\* No order is paid out by two settlements, even one that reached a market another
\* settlement was resolving, and what is paid out is settled.
SettledOnce ==
    /\ \A p, q \in paid : p.user = q.user /\ p.rows \cap q.rows # {} => p = q
    /\ \A p \in paid : \A i \in p.rows : i \in 1..Len(orders[p.user]) /\ orders[p.user][i].settled

\* The price paid for every share that unsettled orders bought, the first one first.
Purchase(prices, order) ==
    IF order.action = "BUY" /\ ~order.settled
    THEN prices \o [k \in 1..order.shares |-> order.price] ELSE prices

Purchases(rows) == FoldLeft(Purchase, <<>>, rows)

\* What is still held is what was bought last: sold lots do not dilute the cost of later
\* ones.
HoldsNewestShares == \A u \in Users : IsSuffix(Lots(orders[u]), Purchases(orders[u]))

\* Every request and settlement that begins comes to an end, although closes and
\* settlements lock the same rows in different orders.
EveryRequestEnds ==
    /\ \A r \in Requests : req[r].pc # "idle" ~> req[r].pc \in {"done", "refused", "replayed"}
    /\ \A s \in Settlers : settler[s].pc # "idle" ~> settler[s].pc \in {"done", "refused"}

-------------------------------------------------------------------------------------
(* Expectations of the documentation that the code does not meet.                   *)

\* "valid order paths never over-sell": what a user's unsettled orders sell was bought by
\* them.
OpenOrdersNeverOversell ==
    \A u \in Users : SharesOf(orders[u], Unsettled(orders[u])) >= 0

=====================================================================================

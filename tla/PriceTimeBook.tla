------------------------------ MODULE PriceTimeBook -------------------------------
(***********************************************************************************)
(* What an order book promises, with no lists, no sort keys and no loop: resting   *)
(* orders form a set, and an incoming order is allocated against it by three       *)
(* rules.                                                                          *)
(*                                                                                 *)
(*   1. It trades only with orders of the other side whose price its limit allows. *)
(*   2. It trades as much as it can: all of itself or all of what it may reach.    *)
(*   3. Nobody is passed over: if an order is touched then every order with a      *)
(*      better claim (better price, or same price and earlier arrival) is used up. *)
(*                                                                                 *)
(* OrderBook is shown to implement this specification.                             *)
(***********************************************************************************)
EXTENDS Integers, Sequences, FiniteSets, FiniteSetsExt

CONSTANTS
    Ids,         \* order identifiers
    MinPrice,    \* lowest and highest tick a limit order may name
    MaxPrice,
    MaxQty       \* largest quantity of one order

VARIABLES
    resting,     \* the resting orders: a set of [id, side, price, remaining]
    arrived,     \* every order accepted so far, in arrival order
    trades       \* the trades made: a set of [taker, maker, price, qty]

vars == <<resting, arrived, trades>>

ArrivedBefore(a, b) ==
    \E i, j \in DOMAIN arrived : i < j /\ arrived[i] = a /\ arrived[j] = b

BetterClaim(a, b) ==
    \/ a.side = "buy" /\ a.price > b.price
    \/ a.side = "sell" /\ a.price < b.price
    \/ a.price = b.price /\ ArrivedBefore(a.id, b.id)

Reachable(side, limits) ==
    {o \in resting : o.side # side /\ o.price \in limits}

Total(alloc) == MapThenSumSet(LAMBDA o : alloc[o], DOMAIN alloc)
Volume(os) == MapThenSumSet(LAMBDA o : o.remaining, os)

Fair(alloc, qty) ==
    /\ \A o \in DOMAIN alloc : alloc[o] <= o.remaining
    /\ Total(alloc) = IF Volume(DOMAIN alloc) < qty THEN Volume(DOMAIN alloc) ELSE qty
    /\ \A a, b \in DOMAIN alloc :
            BetterClaim(a, b) /\ alloc[b] > 0 => alloc[a] = a.remaining

AfterAllocation(alloc) ==
    {o \in resting : o \notin DOMAIN alloc}
        \cup {[o EXCEPT !.remaining = @ - alloc[o]] :
                o \in {x \in DOMAIN alloc : alloc[x] < x.remaining}}

NewTrades(id, alloc) ==
    {[taker |-> id, maker |-> o.id, price |-> o.price, qty |-> alloc[o]] :
        o \in {x \in DOMAIN alloc : alloc[x] > 0}}

Init == resting = {} /\ arrived = <<>> /\ trades = {}

(***********************************************************************************)
(* An accepted order: `limits` are the prices it may trade at, and `rests` says    *)
(* whether its remainder stays in the book.                                        *)
(***********************************************************************************)
Accept(id, side, limits, qty, price, rests) ==
    \E alloc \in [Reachable(side, limits) -> 0..MaxQty] :
        /\ Fair(alloc, qty)
        /\ resting' = AfterAllocation(alloc) \cup
                        IF rests /\ Total(alloc) < qty
                        THEN {[id |-> id, side |-> side, price |-> price,
                               remaining |-> qty - Total(alloc)]}
                        ELSE {}
        /\ trades' = trades \cup NewTrades(id, alloc)
        /\ arrived' = Append(arrived, id)

Limit(id, side, price, qty) ==
    LET limits == IF side = "buy" THEN MinPrice..price ELSE price..MaxPrice
    IN  Accept(id, side, limits, qty, price, TRUE)

Market(id, side, qty) == Accept(id, side, MinPrice..MaxPrice, qty, MinPrice, FALSE)

Withdraw(id) ==
    /\ resting' = {o \in resting : o.id # id}
    /\ UNCHANGED <<arrived, trades>>

Next ==
    \E id \in Ids :
        \/ Withdraw(id)
        \/ /\ \A i \in DOMAIN arrived : arrived[i] # id
           /\ \E side \in {"buy", "sell"}, qty \in 1..MaxQty :
                \/ Market(id, side, qty)
                \/ \E price \in MinPrice..MaxPrice : Limit(id, side, price, qty)

Spec == Init /\ [][Next]_vars

=====================================================================================

------------------------------ MODULE AtomicExchange ------------------------------
(***********************************************************************************)
(* An exchange with no concurrency at all: an order arrives, trades and is booked  *)
(* in one step, with its cash; orders are retired in one step.  It is what the     *)
(* order service promises its clients about orders, fills and cash, whatever its   *)
(* transactions do in between.  Positions are not part of the promise (the code    *)
(* does not serialise them), and neither is that a trade spares retired orders.    *)
(***********************************************************************************)
EXTENDS Integers, FiniteSets, FiniteSetsExt

CONSTANTS Accounts, OrderIds, None

VARIABLES
    orders,     \* the order rows, None where there is none
    cash,       \* the balance of each account
    fills       \* the trades: [buy, sell, price, qty]

exchange == <<orders, cash, fills>>

Booked(o) == orders[o] # None

QtyOf(o, made) ==
    MapThenSumSet(LAMBDA f : f.qty, {f \in made : o \in {f.buy, f.sell}})

StatusOf(o, filled) ==
    IF filled = o.qty THEN "FILLED"
    ELSE IF filled > 0 THEN "PARTIAL" ELSE "OPEN"

Allows(o, price) ==
    \/ o.kind = "market"
    \/ o.side = "buy" /\ price <= o.price
    \/ o.side = "sell" /\ price >= o.price

Arrives(id, made) ==
    LET o == orders'[id] IN
    /\ ~Booked(id) /\ o # None
    /\ o.filled = QtyOf(id, made) /\ o.filled <= o.qty
    /\ o.status = IF o.kind = "market" /\ o.filled < o.qty THEN "CANCELLED"
                  ELSE StatusOf(o, o.filled)
    /\ \A f \in made : /\ id \in {f.buy, f.sell}
                       /\ Allows(orders'[f.buy], f.price) /\ Allows(orders'[f.sell], f.price)

Meets(id, made) ==
    \A o \in OrderIds \ {id} :
        LET filled == orders[o].filled + QtyOf(o, made) IN
        IF QtyOf(o, made) = 0 THEN orders'[o] = orders[o]
        ELSE /\ filled <= orders[o].qty
             /\ orders'[o] = [orders[o] EXCEPT !.filled = filled,
                                               !.status = StatusOf(orders[o], filled)]

CashMoves(made) ==
    cash' = [a \in Accounts |->
        cash[a]
          + MapThenSumSet(LAMBDA f : f.price * f.qty, {f \in made : orders'[f.sell].account = a})
          - MapThenSumSet(LAMBDA f : f.price * f.qty, {f \in made : orders'[f.buy].account = a})]

Execute(id) ==
    /\ fills \subseteq fills'
    /\ Arrives(id, fills' \ fills)
    /\ Meets(id, fills' \ fills)
    /\ CashMoves(fills' \ fills)
    /\ \A a \in Accounts : cash'[a] >= 0

Retire(gone) ==
    /\ \A o \in gone : Booked(o) /\ orders[o].status \in {"OPEN", "PARTIAL"}
    /\ orders' = [o \in OrderIds |-> IF o \in gone
                                     THEN [orders[o] EXCEPT !.status = "CANCELLED"]
                                     ELSE orders[o]]
    /\ UNCHANGED <<cash, fills>>

Next ==
    \/ \E id \in OrderIds : Execute(id)
    \/ \E gone \in SUBSET OrderIds : Retire(gone)

Init == fills = {} /\ \A a \in Accounts : cash[a] >= 0

Spec == Init /\ [][Next]_exchange

=====================================================================================

-------------------------------- MODULE OrderBook ---------------------------------
(***********************************************************************************)
(* One in-memory OrderBook (market/order_book.py) driven by any sequence of its    *)
(* operations: add_limit, add_market and cancel, each atomic because the class has *)
(* no await.  `arrived`, `placed`, `trades` and `dropped` record what happened;    *)
(* the code keeps none of them and no action reads them to decide anything.        *)
(***********************************************************************************)
EXTENDS MatchingEngine, FiniteSets, FiniteSetsExt

CONSTANTS
    Ids,         \* order identifiers (UUIDs in the code), each used once
    MinPrice,    \* MIN_PRICE and MAX_PRICE, in ticks
    MaxPrice,
    MaxQty       \* bound on the quantity of one order

ASSUME BoundsAssumption ==
    /\ MinPrice \in Nat \ {0} /\ MaxPrice \in Nat /\ MinPrice <= MaxPrice
    /\ MaxQty \in Nat \ {0}

VARIABLES
    book,        \* the OrderBook: two sorted lists and the sequence counter
    arrived,     \* the orders accepted, in the order they were accepted
    placed,      \* the quantity each of them asked for
    trades,      \* every MatchResult, with the incoming order as taker
    dropped      \* quantity that left the book untraded

vars == <<book, arrived, placed, trades, dropped>>

Fresh(id) == id \notin ToSet(arrived)

TradesOf(id, matches) ==
    {[taker |-> id, maker |-> matches[i].id, price |-> matches[i].price,
      qty |-> matches[i].qty] : i \in DOMAIN matches}

Resting(side, id) == {i \in DOMAIN book[side] : book[side][i].id = id}

RemainingOf(id) ==
    MapThenSumSet(LAMBDA i : book.buy[i].remaining, Resting("buy", id))
        + MapThenSumSet(LAMBDA i : book.sell[i].remaining, Resting("sell", id))

Init ==
    /\ book = EmptyBook
    /\ arrived = <<>>
    /\ placed = [id \in Ids |-> 0]
    /\ trades = {}
    /\ dropped = [id \in Ids |-> 0]

Record(id, qty, run) ==
    /\ book' = run.book
    /\ arrived' = Append(arrived, id)
    /\ placed' = [placed EXCEPT ![id] = qty]
    /\ trades' = trades \cup TradesOf(id, run.matches)

LimitOrder(id, side, price, qty) ==
    /\ Fresh(id)
    /\ Record(id, qty, AddLimit(book, id, side, price, qty))
    /\ UNCHANGED dropped

\* The code refuses a market order when the opposite list is empty.
MarketOrder(id, side, qty) ==
    LET run == AddMarket(book, side, qty) IN
    /\ Fresh(id)
    /\ book[OppositeSide(side)] # <<>>
    /\ Record(id, qty, run)
    /\ dropped' = [dropped EXCEPT ![id] = run.left]

Cancel(id) ==
    /\ book' = CancelEntry(book, id)
    /\ dropped' = [dropped EXCEPT ![id] = @ + RemainingOf(id)]
    /\ UNCHANGED <<arrived, placed, trades>>

Next ==
    \E id \in Ids :
        \/ Cancel(id)
        \/ \E side \in Sides, qty \in 1..MaxQty :
              \/ MarketOrder(id, side, qty)
              \/ \E price \in MinPrice..MaxPrice : LimitOrder(id, side, price, qty)

Spec == Init /\ [][Next]_vars

-------------------------------------------------------------------------------------
(* Properties.                                                                     *)

Entry == [id : Ids, price : MinPrice..MaxPrice, remaining : 1..MaxQty, seq : Nat]

\* The shape of the book and of the records kept about it (OrderBook, BookOrder).
TypeOK ==
    /\ \A side \in Sides : \A i \in DOMAIN book[side] : book[side][i] \in Entry
    /\ book.seq \in 0..Len(arrived)
    /\ ToSet(arrived) \subseteq Ids
    /\ placed \in [Ids -> 0..MaxQty] /\ dropped \in [Ids -> 0..MaxQty]
    /\ \A t \in trades : t.taker \in Ids /\ t.maker \in Ids

TradedBy(id) ==
    MapThenSumSet(LAMBDA t : t.qty, {t \in trades : id \in {t.taker, t.maker}})

\* Every unit an order asked for is resting, traded or dropped, and none is counted
\* twice: the loop's running remainders, the pop of an exhausted head and the
\* remainder that rests must all agree across every later match of the same order.
QuantityConserved ==
    \A id \in Ids : placed[id] = RemainingOf(id) + TradedBy(id) + dropped[id]

\* What quote_market announces is what add_market then does: submit_order reserves the
\* notional of the quote and only later runs the market order, so the two separate
\* loops of the code must agree level by level.
QuoteIsExact ==
    \A side \in Sides, qty \in 1..MaxQty :
        LET quote == QuoteMarket(book, side, qty)
            run   == AddMarket(book, side, qty)
        IN  /\ Len(quote) = Len(run.matches)
            /\ \A i \in DOMAIN quote :
                  quote[i] = [price |-> run.matches[i].price, qty |-> run.matches[i].qty]

\* The book as the abstract specification sees it: two sorted lists become one set.
RestingSet ==
    UNION {{[id |-> e.id, side |-> side, price |-> e.price, remaining |-> e.remaining] :
                e \in ToSet(book[side])} : side \in Sides}

Abstract == INSTANCE PriceTimeBook WITH resting <- RestingSet

\* Price-time priority: the sorted lists, the sequence counter and the loop allocate
\* every incoming order exactly as the three rules of PriceTimeBook demand.
PriceTimePriority == Abstract!Spec

=====================================================================================

------------------------------ MODULE MatchingEngine ------------------------------
(***********************************************************************************)
(* The pure part of the central limit order book, market/order_book.py: one        *)
(* outcome's bid and ask lists, kept best price first and, at one price, first     *)
(* come first served.  A book is a record of two sequences and the counter that    *)
(* _next_seq advances; an entry is what BookOrder keeps of a resting order.        *)
(*                                                                                 *)
(* Prices are integers (ticks).  The YES and the NO book of the code never touch   *)
(* each other, so one outcome is modelled.                                         *)
(***********************************************************************************)
EXTENDS Integers, Sequences, FiniteSets, SequencesExt

Sides == {"buy", "sell"}

OppositeSide(side) == IF side = "buy" THEN "sell" ELSE "buy"

EmptyBook == [buy |-> <<>>, sell |-> <<>>, seq |-> 0]

Lesser(a, b) == IF a < b THEN a ELSE b
Greater(a, b) == IF a > b THEN a ELSE b

\* Mutant: at one price the last to come is the first served.
SortsBeforeLifo(side, a, b) ==
    \/ side = "buy" /\ a.price > b.price
    \/ side = "sell" /\ a.price < b.price
    \/ a.price = b.price /\ a.seq > b.seq

(***********************************************************************************)
(* The sort keys: (-price, seq) for bids and (price, seq) for asks.                *)
(***********************************************************************************)
SortsBefore(side, a, b) ==
    \/ side = "buy" /\ a.price > b.price
    \/ side = "sell" /\ a.price < b.price
    \/ a.price = b.price /\ a.seq < b.seq

\* _insert_sorted appends and sorts: in a list that was sorted, the entry comes to stand
\* behind all those it does not sort before.
InsertSorted(side, entries, e) ==
    InsertAt(entries, 1 + Cardinality({i \in DOMAIN entries : ~SortsBefore(side, e, entries[i])}), e)

(***********************************************************************************)
(* A limit order takes the best opposite price as long as it is no worse than its  *)
(* own limit.                                                                      *)
(***********************************************************************************)
Crosses(side, limit, price) ==
    IF side = "buy" THEN limit >= price ELSE limit <= price

(***********************************************************************************)
(* The matching loop.  It looks only at the head of the opposite list, takes what  *)
(* it can of it, and stops at the first head that is not eligible or when nothing  *)
(* is left of the incoming order: an entry is reached only while no entry before   *)
(* it stays in the list.                                                           *)
(***********************************************************************************)
MatchStep(eligible, acc, best) ==
    IF acc.left > 0 /\ acc.rest = <<>> /\ best \in eligible
    THEN LET qty == Lesser(acc.left, best.remaining) IN
         [ left    |-> acc.left - qty,
           matches |-> Append(acc.matches,
                              [id |-> best.id, price |-> best.price, qty |-> qty]),
           rest    |-> IF best.remaining = qty THEN <<>>
                       ELSE <<[best EXCEPT !.remaining = @ - qty]>> ]
    ELSE [acc EXCEPT !.rest = Append(@, best)]

MatchLoop(eligible, qty, opposite) ==
    FoldLeft(LAMBDA acc, best : MatchStep(eligible, acc, best),
             [left |-> qty, matches |-> <<>>, rest |-> <<>>], opposite)

\* What is left of a limit order rests with the next sequence number.
Rest(book, id, side, price, left) ==
    IF left = 0 THEN book
    ELSE [book EXCEPT
            !.seq = @ + 1,
            ![side] = InsertSorted(side, @, [id |-> id, price |-> price, remaining |-> left,
                                             seq |-> book.seq + 1])]

(***********************************************************************************)
(* The two entry points return the new book, the matches in the order they were    *)
(* made, and the quantity the incoming order was left with; a market order drops   *)
(* it.                                                                             *)
(***********************************************************************************)
AddLimit(book, id, side, price, qty) ==
    LET opposite == book[OppositeSide(side)]
        run == MatchLoop({e \in ToSet(opposite) : Crosses(side, price, e.price)},
                         qty, opposite)
        hit == [book EXCEPT ![OppositeSide(side)] = run.rest]
    IN  [ book    |-> Rest(hit, id, side, price, run.left),
          matches |-> run.matches,
          left    |-> run.left ]

AddMarket(book, side, qty) ==
    LET opposite == book[OppositeSide(side)]
        run == MatchLoop(ToSet(opposite), qty, opposite)
    IN  [ book    |-> [book EXCEPT ![OppositeSide(side)] = run.rest],
          matches |-> run.matches,
          left    |-> run.left ]

\* Mutant: the quote does not count down what it has found.
QuoteMarketUncounted(book, side, qty) ==
    FoldLeft(LAMBDA acc, e :
                Append(acc, [price |-> e.price, qty |-> Lesser(qty, e.remaining)]),
             <<>>, book[OppositeSide(side)])

(***********************************************************************************)
(* quote_market: the levels a market order would take, without taking them.        *)
(***********************************************************************************)
QuoteStep(acc, e) ==
    IF acc.left = 0 THEN acc
    ELSE LET take == Lesser(acc.left, e.remaining) IN
         [ left   |-> acc.left - take,
           levels |-> Append(acc.levels, [price |-> e.price, qty |-> take]) ]

QuoteMarket(book, side, qty) ==
    FoldLeft(LAMBDA acc, e : QuoteStep(acc, e),
             [left |-> qty, levels |-> <<>>], book[OppositeSide(side)]).levels

\* A list without the entries of an order.
WithoutOrder(entries, id) ==
    FoldLeft(LAMBDA kept, e : IF e.id = id THEN kept ELSE Append(kept, e), <<>>, entries)

\* Mutant: only the bids are searched.
CancelBid(book, id) == [book EXCEPT !.buy = WithoutOrder(@, id)]

(***********************************************************************************)
(* cancel drops every entry of an order from every list; unknown ids change        *)
(* nothing.                                                                        *)
(***********************************************************************************)
CancelEntry(book, id) ==
    [book EXCEPT !.buy = WithoutOrder(@, id), !.sell = WithoutOrder(@, id)]

=====================================================================================

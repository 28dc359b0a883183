----------------------------------- MODULE Clob -----------------------------------
(***********************************************************************************)
(* The order service over the database (services/order_book_service.py with        *)
(* ledger_service.py, api/v1/routes.py, workers/order_expiry.py, db/session.py).   *)
(*                                                                                 *)
(* Every HTTP request runs in a database transaction of its own, hydrates an order *)
(* book of its own, and commits when the handler returns.  Requests run side by    *)
(* side; PostgreSQL's READ COMMITTED and its row locks are all that orders them.   *)
(* One action below is one statement (or a run of statements between which no      *)
(* other transaction can matter).                                                  *)
(*                                                                                 *)
(* Row versions.  For each table that requests write, `x` is the committed row,    *)
(* `xW` the version of the transaction that holds the row lock, and `xBy` that     *)
(* transaction, or None.  A plain SELECT sees `x`, or `xW` if it is its own.       *)
(*                                                                                 *)
(* One market and one outcome: the YES and NO branches of the code are copies of   *)
(* each other on separate columns.                                                 *)
(***********************************************************************************)
EXTENDS MatchingEngine, FiniteSets, FiniteSetsExt

CONSTANTS
    Accounts,      \* paper accounts
    Requests,      \* HTTP requests; a submission names its order after its request
    Passes,        \* those of them that are submissions of a heartbeat or pod pass
    Sweeper,       \* the order-expiry worker
    Submits,       \* the order bodies clients may send
    SeedOrders,    \* orders already in the table: a function from their ids
    Cancellable,   \* orders some client may ask to cancel
    SeedCash,      \* cash and positions at the start; a position row may be absent
    SeedPos,
    Unit,          \* what one share can pay, in ticks (the code's Decimal "1")
    MaxQty,        \* bound on the quantity of one order
    SweepBatch,    \* DEFAULT_EXPIRY_BATCH_SIZE
    MaxPauses,     \* bound on admin pauses and unpauses
    MaxCrashes,    \* bound on requests lost to a crash or a dropped connection
    None

OrderIds == Requests \cup DOMAIN SeedOrders
Lockers  == Requests \cup {Sweeper}
Statuses == {"OPEN", "PARTIAL", "FILLED", "CANCELLED"}
Live     == {"OPEN", "PARTIAL"}
Keys     == {b.key : b \in Submits} \cup {SeedOrders[o].key : o \in DOMAIN SeedOrders}

\* Prices between MIN_PRICE and MAX_PRICE, in ticks.
Ticks == 1..(Unit - 1)

Order == [ account : Accounts, side : Sides, kind : {"limit", "market"},
           price : Ticks, qty : 1..MaxQty, filled : 0..MaxQty, status : Statuses,
           key : Keys, gtd : BOOLEAN, at : Nat ]

Fill  == [buy : OrderIds, sell : OrderIds, price : Ticks, qty : 1..MaxQty]
Entry == [id : OrderIds, remaining : 1..MaxQty]

Cancels == [cancel : Cancellable, account : Accounts]

ASSUME SeedAssumption ==
    /\ Requests \cap DOMAIN SeedOrders = {} /\ Passes \subseteq Requests
    /\ Sweeper \notin Requests /\ None \notin Lockers /\ None \notin OrderIds
    /\ None \notin Int /\ None \notin Order /\ IsFiniteSet(DOMAIN SeedOrders)
    /\ SeedOrders \in [DOMAIN SeedOrders -> Order]
    /\ SeedCash \in [Accounts -> Nat]
    /\ SeedPos \in [Accounts -> Int \cup {None}]

ASSUME BodyAssumption ==
    /\ Unit \in Nat \ {0} /\ MaxQty \in Nat \ {0} /\ SweepBatch \in Nat \ {0}
    /\ MaxPauses \in Nat /\ MaxCrashes \in Nat
    /\ Cancellable \subseteq OrderIds
    /\ \A b \in Submits : /\ b.account \in Accounts /\ b.side \in Sides
                          /\ b.kind \in {"limit", "market"} /\ b.price \in Ticks
                          /\ b.qty \in 1..MaxQty /\ b.gtd \in BOOLEAN

\* No two seeded orders share an account and a key, and no body asks for two things.
ASSUME KeyAssumption ==
    /\ Submits \cap Cancels = {}
    /\ \A o, p \in DOMAIN SeedOrders :
          /\ SeedOrders[o].account = SeedOrders[p].account
          /\ SeedOrders[o].key = SeedOrders[p].key /\ SeedOrders[o].key # None
          => o = p

\* No seeded order is over-filled, and its status says how far it is filled.
ASSUME SeedFilledAssumption ==
    \A o \in DOMAIN SeedOrders :
        /\ SeedOrders[o].filled <= SeedOrders[o].qty
        /\ SeedOrders[o].status = "FILLED" <=> SeedOrders[o].filled = SeedOrders[o].qty

VARIABLES
    market,        \* MarketStatus: "OPEN" or "LOCKED"
    pauses,        \* admin pauses and unpauses so far
    lapsed,        \* the expiry time of the GTD orders has passed
    crashes,       \* requests lost so far
    clock,         \* transactions begun so far; an order's created_at
    cash, cashW, cashBy,        \* accounts.cash_balance
    pos, posW, posBy,           \* positions.yes_shares, None where no row exists
    orders, ordersW, orderBy,   \* orders, None where no row exists
    fills,         \* committed fills
    published,     \* fills announced on the in-process bus
    tx             \* what each request keeps in its session and on its stack

world        == <<market, pauses, lapsed, crashes>>
accountRows  == <<cash, cashW, cashBy>>
positionRows == <<pos, posW, posBy>>
orderRows    == <<orders, ordersW, orderBy>>
vars == <<world, clock, accountRows, positionRows, orderRows, fills, published, tx>>

(***********************************************************************************)
(* tx[t].pc is the next statement of request t.                                    *)
(***********************************************************************************)
Working == {"price", "reserve", "insert", "match", "buyer", "buyerRow", "buyerPost",
            "seller", "sellerRow", "sellerPost", "swallowed", "cancel", "cancelled"}
Ended   == {"done", "refused"}

IdleTx == [ pc |-> "idle", body |-> None, at |-> 0, cashSeen |-> 0, heldSeen |-> 0,
            sellsSeen |-> {}, snap |-> {}, left |-> 0, maker |-> None, want |-> 0,
            applied |-> 0, posSeen |-> 0, made |-> {}, reply |-> None ]

EndedTx(t, pc, reply) == [IdleTx EXCEPT !.pc = pc, !.body = tx[t].body, !.reply = reply]

Init ==
    /\ market = "OPEN" /\ pauses = 0 /\ lapsed = FALSE /\ crashes = 0
    /\ clock = Cardinality(DOMAIN SeedOrders)
    /\ cash = SeedCash /\ cashW = SeedCash /\ cashBy = [a \in Accounts |-> None]
    /\ pos = SeedPos /\ posW = SeedPos /\ posBy = [a \in Accounts |-> None]
    /\ orders = [o \in OrderIds |-> IF o \in DOMAIN SeedOrders THEN SeedOrders[o] ELSE None]
    /\ ordersW = orders
    /\ orderBy = [o \in OrderIds |-> None]
    /\ fills = {} /\ published = {}
    /\ tx = [t \in Requests |-> IdleTx]

-------------------------------------------------------------------------------------
(* What a SELECT of request t returns.                                             *)

Exists(o) == orders[o] # None
Left(o)   == orders[o].qty - orders[o].filled

MyPos(t, a) == IF posBy[a] = t THEN posW[a] ELSE pos[a]

Held(a) == IF pos[a] = None THEN 0 ELSE Greater(pos[a], 0)

LiveOrders(a) ==
    {o \in OrderIds : Exists(o) /\ orders[o].account = a /\ orders[o].status \in Live}

ByAge(os) ==
    SetToSortSeq(os, LAMBDA o, p : orders[o].at < orders[p].at)

\* Mutant: a retry finds only orders that are still live.
ByKeyLiveOnly(a, key) ==
    IF key = None THEN {} ELSE {o \in LiveOrders(a) : orders[o].key = key}

ByKey(a, key) ==
    IF key = None THEN {}
    ELSE {o \in OrderIds : Exists(o) /\ orders[o].account = a /\ orders[o].key = key}

(***********************************************************************************)
(* reserved_cash: open buys at their limit, open sells at the loss they could make *)
(* on the part no held share covers (oldest sell covered first), and one unit for  *)
(* every share already short.                                                      *)
(***********************************************************************************)
Reserved(a) ==
    LET Add(acc, o) ==
            LET covered == Lesser(acc.free, Left(o)) IN
            IF orders[o].side = "buy"
            THEN [acc EXCEPT !.total = @ + orders[o].price * Left(o)]
            ELSE [ free  |-> acc.free - covered,
                   total |-> acc.total + (Unit - orders[o].price) * (Left(o) - covered) ]
        short == IF pos[a] = None THEN 0 ELSE Greater(0 - pos[a], 0)
    IN  FoldLeft(Add, [free |-> Held(a), total |-> 0], ByAge(LiveOrders(a))).total
            + short * Unit

(***********************************************************************************)
(* _get_hydrated_book: every open limit order is added again, oldest first.  The   *)
(* matches that re-adding may cause are thrown away, yet both sides of such a      *)
(* match are consumed in the book.                                                 *)
(***********************************************************************************)
HydratedBook ==
    LET open == {o \in OrderIds : /\ Exists(o) /\ orders[o].kind = "limit"
                                  /\ orders[o].status \in Live /\ Left(o) > 0}
    IN  FoldLeft(LAMBDA b, o : AddLimit(b, o, orders[o].side, orders[o].price, Left(o)).book,
                 EmptyBook, ByAge(open))

\* The entries of the opposite list, as the matching loop will meet them.
Hydrated(side) ==
    LET list == HydratedBook[OppositeSide(side)]
    IN  {e \in Entry : /\ Exists(e.id)
                       /\ \E i \in DOMAIN list :
                             list[i].id = e.id /\ list[i].remaining = e.remaining}

\* Which of two entries the list holds first.
Ahead(side, e, f) ==
    SortsBefore(OppositeSide(side), [price |-> orders[e.id].price, seq |-> orders[e.id].at],
                                    [price |-> orders[f.id].price, seq |-> orders[f.id].at])

(***********************************************************************************)
(* The next match of the loop in add_limit / add_market.  The code runs the loop   *)
(* on its own book first and records the matches one by one; the book is private,  *)
(* so taking the matches one by one is the same.                                   *)
(***********************************************************************************)
NextUp(t) ==
    {e \in tx[t].snap : \A f \in tx[t].snap \ {e} : Ahead(tx[t].body.side, e, f)}

Takes(t, e) ==
    \/ tx[t].body.kind = "market"
    \/ Crosses(tx[t].body.side, tx[t].body.price, orders[e.id].price)

MatchPending(t) == tx[t].left > 0 /\ \E e \in NextUp(t) : Takes(t, e)

(***********************************************************************************)
(* The cash a submission must find free: the notional of a buy, or the possible    *)
(* loss on the part of a sell that no share covers after the open sells already    *)
(* resting.  A market order is priced level by level from its quote.               *)
(***********************************************************************************)
Levels(t) ==
    LET b == tx[t].body
        Take(acc, e) ==
            [ left   |-> acc.left - Lesser(acc.left, e.remaining),
              levels |-> IF acc.left = 0 THEN acc.levels
                         ELSE Append(acc.levels, [price |-> orders[e.id].price,
                                                  qty |-> Lesser(acc.left, e.remaining)]) ]
        queue == SetToSortSeq(tx[t].snap, LAMBDA e, f : Ahead(b.side, e, f))
    IN  IF b.kind = "limit" THEN <<[price |-> b.price, qty |-> b.qty]>>
        ELSE FoldLeft(Take, [left |-> b.qty, levels |-> <<>>], queue).levels

Need(t) ==
    LET open == MapThenSumSet(LAMBDA e : e.remaining, tx[t].sellsSeen)
        Cover(acc, l) ==
            LET covered == Lesser(acc.free, l.qty) IN
            [ free  |-> acc.free - covered,
              total |-> acc.total + (Unit - l.price) * (l.qty - covered) ]
    IN  IF tx[t].body.side = "buy"
        THEN FoldLeft(LAMBDA acc, l : acc + l.price * l.qty, 0, Levels(t))
        ELSE FoldLeft(Cover, [free |-> Greater(tx[t].heldSeen - open, 0), total |-> 0],
                      Levels(t)).total

-------------------------------------------------------------------------------------
(* Ending a transaction.                                                           *)

KeepRows == UNCHANGED <<accountRows, positionRows, orderRows>>

\* get_db commits: every row t wrote becomes the committed version.
CommitRows(t) ==
    /\ cash' = [a \in Accounts |-> IF cashBy[a] = t THEN cashW[a] ELSE cash[a]]
    /\ pos' = [a \in Accounts |-> IF posBy[a] = t THEN posW[a] ELSE pos[a]]
    /\ cashBy' = [a \in Accounts |-> IF cashBy[a] = t THEN None ELSE cashBy[a]]
    /\ posBy' = [a \in Accounts |-> IF posBy[a] = t THEN None ELSE posBy[a]]
    /\ orderBy' = [o \in OrderIds |-> IF orderBy[o] = t THEN None ELSE orderBy[o]]
    /\ UNCHANGED <<cashW, posW>>

\* Mutant: a rollback keeps the account locks.
RollbackRowsLeaky(t) ==
    /\ cashW' = [a \in Accounts |-> IF cashBy[a] = t THEN cash[a] ELSE cashW[a]]
    /\ posW' = [a \in Accounts |-> IF posBy[a] = t THEN pos[a] ELSE posW[a]]
    /\ ordersW' = [o \in OrderIds |-> IF orderBy[o] = t THEN orders[o] ELSE ordersW[o]]
    /\ posBy' = [a \in Accounts |-> IF posBy[a] = t THEN None ELSE posBy[a]]
    /\ orderBy' = [o \in OrderIds |-> IF orderBy[o] = t THEN None ELSE orderBy[o]]
    /\ UNCHANGED <<cash, pos, orders, cashBy>>

\* get_db rolls back: the versions t wrote vanish and its locks are released.
RollbackRows(t) ==
    /\ cashW' = [a \in Accounts |-> IF cashBy[a] = t THEN cash[a] ELSE cashW[a]]
    /\ posW' = [a \in Accounts |-> IF posBy[a] = t THEN pos[a] ELSE posW[a]]
    /\ ordersW' = [o \in OrderIds |-> IF orderBy[o] = t THEN orders[o] ELSE ordersW[o]]
    /\ cashBy' = [a \in Accounts |-> IF cashBy[a] = t THEN None ELSE cashBy[a]]
    /\ posBy' = [a \in Accounts |-> IF posBy[a] = t THEN None ELSE posBy[a]]
    /\ orderBy' = [o \in OrderIds |-> IF orderBy[o] = t THEN None ELSE orderBy[o]]
    /\ UNCHANGED <<cash, pos, orders>>

Abort(t) ==
    /\ RollbackRows(t)
    /\ tx' = [tx EXCEPT ![t] = EndedTx(t, "refused", None)]
    /\ UNCHANGED <<clock, fills, published>>

\* The request ends with an answer and nothing to roll back.
Answer(t, pc, reply) ==
    /\ tx' = [tx EXCEPT ![t] = EndedTx(t, pc, reply)]
    /\ KeepRows /\ UNCHANGED <<clock, fills, published>>

-------------------------------------------------------------------------------------
(* POST /markets/{slug}/orders                                                     *)

\* Pods buy at a limit; the heartbeat sells a position at the market.
OfAPass(b) == /\ <<b.side, b.kind>> \in {<<"buy", "limit">>, <<"sell", "market">>}
              /\ ~b.gtd

(***********************************************************************************)
(* The handler up to submit_order.  It reads the market and the account and keeps  *)
(* both objects for the rest of the request, so every later check of market.status *)
(* and account.cash_balance sees the values read here.  A pass has loaded both as   *)
(* well; only the order of its market check and its key lookup differs.            *)
(***********************************************************************************)
Arrive(t, b) ==
    /\ tx[t].pc = "idle" /\ (t \in Passes => OfAPass(b))
    /\ IF market # "OPEN" \/ (b.gtd /\ lapsed)
       THEN /\ tx' = [tx EXCEPT ![t] = [IdleTx EXCEPT !.pc = "refused", !.body = b]]
            /\ UNCHANGED clock
       ELSE /\ tx' = [tx EXCEPT ![t] = [IdleTx EXCEPT !.pc = "price", !.body = b,
                                            !.at = clock + 1, !.cashSeen = cash[b.account]]]
            /\ clock' = clock + 1
    /\ KeepRows /\ UNCHANGED <<world, fills, published>>

\* The idempotency lookup, the second look at the order's expiry, then what the order is
\* to be priced from: its own limit, or the quote of a book hydrated now; for a sell also
\* the shares and open sells it sees.
Price(t) ==
    LET b    == tx[t].body
        sell == b.side = "sell"
        book == IF b.kind = "market" THEN Hydrated(b.side) ELSE {}
        mine == {o \in LiveOrders(b.account) : orders[o].side = "sell"}
    IN
    /\ tx[t].pc = "price"
    /\ \/ \E o \in ByKey(b.account, b.key) : Answer(t, "done", o)
       \/ /\ ByKey(b.account, b.key) = {}
          /\ \/ b.gtd /\ lapsed
             \/ b.kind = "market" /\ book = {}
          /\ Answer(t, "refused", None)
       \/ /\ ByKey(b.account, b.key) = {}
          /\ ~(b.gtd /\ lapsed)
          /\ b.kind = "limit" \/ book # {}
          /\ tx' = [tx EXCEPT ![t].pc = "reserve", ![t].snap = book,
                              ![t].heldSeen = IF sell THEN Held(b.account) ELSE 0,
                              ![t].sellsSeen = {e \in Entry : sell /\ e.id \in mine
                                                              /\ e.remaining = Left(e.id)}]
          /\ KeepRows /\ UNCHANGED <<clock, fills, published>>
    /\ UNCHANGED world

\* _reserve_cash: lock the account row, then compare.  The lock does not refresh the
\* balance of an account the session already holds.
Reserve(t) ==
    LET a == tx[t].body.account IN
    /\ tx[t].pc = "reserve"
    /\ cashBy[a] = None
    /\ IF tx[t].cashSeen - Reserved(a) < Need(t)
       THEN Answer(t, "refused", None)
       ELSE /\ cashBy' = [cashBy EXCEPT ![a] = t]
            /\ tx' = [tx EXCEPT ![t].pc = "insert"]
            /\ UNCHANGED <<clock, cash, cashW, positionRows, orderRows, fills, published>>
    /\ UNCHANGED world

(***********************************************************************************)
(* A limit order hydrates its book only now.  Then the row is inserted; when the   *)
(* unique (account, key) pair is already taken everything is rolled back and the   *)
(* winner's order is the answer.                                                   *)
(***********************************************************************************)
Insert(t) ==
    LET b == tx[t].body
        row(price) == [ account |-> b.account, side |-> b.side, kind |-> b.kind,
                        price |-> price, qty |-> b.qty, filled |-> 0, status |-> "OPEN",
                        key |-> b.key, gtd |-> b.gtd, at |-> tx[t].at ]
    IN
    /\ tx[t].pc = "insert"
    /\ \/ \E o \in ByKey(b.account, b.key) :
             /\ RollbackRows(t)
             /\ tx' = [tx EXCEPT ![t] = EndedTx(t, "done", o)]
       \/ /\ ByKey(b.account, b.key) = {}
          /\ \E price \in IF b.kind = "limit" THEN {b.price}
                          ELSE {orders[e.id].price : e \in NextUp(t)} :
                ordersW' = [ordersW EXCEPT ![t] = row(price)]
          /\ orderBy' = [orderBy EXCEPT ![t] = t]
          /\ tx' = [tx EXCEPT ![t].pc = "match", ![t].left = b.qty,
                              ![t].snap = IF b.kind = "limit" THEN Hydrated(b.side) ELSE @]
          /\ UNCHANGED <<accountRows, positionRows, orders>>
    /\ UNCHANGED <<world, clock, fills, published>>

BuyId(t)  == IF tx[t].body.side = "buy" THEN t ELSE tx[t].maker
SellId(t) == IF tx[t].body.side = "buy" THEN tx[t].maker ELSE t

\* Mutant: the whole entry is taken, however little the taker has left.
WantAll(t, e) == e.remaining

\* The quantity of the match, from the private book.
Want(t, e) == Lesser(tx[t].left, e.remaining)

Room(o) == ordersW[o].qty - ordersW[o].filled

\* Mutant: the match is applied as the private book has it.
AppliedFromBook(t, e) == Want(t, e)

\* applied_quantity: the match, capped by what the locked rows have left.
Applied(t, e) == Lesser(Want(t, e), Lesser(Room(t), Room(e.id)))

(***********************************************************************************)
(* _record_fill, first half: lock both orders and cap the match.  The status of    *)
(* the maker is not looked at.                                                     *)
(***********************************************************************************)
LockOrders(t) ==
    \E e \in NextUp(t) :
        /\ tx[t].pc = "match" /\ tx[t].left > 0 /\ Takes(t, e)
        /\ orderBy[e.id] \in {None, t}
        /\ orderBy' = [orderBy EXCEPT ![e.id] = t]
        /\ IF Applied(t, e) <= 0
           THEN tx' = [tx EXCEPT ![t].left = @ - Want(t, e), ![t].snap = @ \ {e}]
           ELSE tx' = [tx EXCEPT ![t].pc = "buyer", ![t].maker = e.id,
                                 ![t].want = Want(t, e), ![t].applied = Applied(t, e),
                                 ![t].snap = @ \ {e}]
        /\ UNCHANGED <<world, clock, accountRows, positionRows, orders, ordersW, fills,
                       published>>

LegAccount(t, leg) ==
    ordersW[IF leg = "buyer" THEN BuyId(t) ELSE SellId(t)].account

\* _get_or_create_position, the SELECT: it takes no lock.
ReadPosition(t, leg) ==
    LET p == MyPos(t, LegAccount(t, leg)) IN
    /\ tx[t].pc = leg
    /\ IF p = None
       THEN tx' = [tx EXCEPT ![t].pc = IF leg = "buyer" THEN "buyerRow" ELSE "sellerRow"]
       ELSE tx' = [tx EXCEPT ![t].pc = IF leg = "buyer" THEN "buyerPost" ELSE "sellerPost",
                             ![t].posSeen = p]
    /\ KeepRows /\ UNCHANGED <<world, clock, fills, published>>

\* _get_or_create_position, the INSERT: the unique index makes it wait for another
\* insert of the same row and fail, with the whole request, if that one committed.
CreatePosition(t, leg) ==
    LET a == LegAccount(t, leg) IN
    /\ tx[t].pc = IF leg = "buyer" THEN "buyerRow" ELSE "sellerRow"
    /\ posBy[a] = None
    /\ IF pos[a] # None
       THEN Abort(t)
       ELSE /\ posBy' = [posBy EXCEPT ![a] = t]
            /\ posW' = [posW EXCEPT ![a] = 0]
            /\ tx' = [tx EXCEPT ![t].pc = IF leg = "buyer" THEN "buyerPost" ELSE "sellerPost",
                                ![t].posSeen = 0]
            /\ UNCHANGED <<clock, accountRows, pos, orderRows, fills, published>>
    /\ UNCHANGED world

\* Mutant: an order is full only when it is over-filled.
AdvancedLate(o, qty) ==
    LET filled == o.filled + Lesser(qty, o.qty - o.filled) IN
    [o EXCEPT !.filled = filled,
              !.status = IF filled > o.qty THEN "FILLED" ELSE "PARTIAL"]

\* Mutant: a partly filled order keeps its status.
AdvancedStaysOpen(o, qty) ==
    LET filled == o.filled + Lesser(qty, o.qty - o.filled) IN
    [o EXCEPT !.filled = filled, !.status = IF filled >= o.qty THEN "FILLED" ELSE @]

\* _advance_order_fill_state, from the fill's quantity and the row it applies to.
Advanced(o, qty) ==
    LET filled == o.filled + Lesser(qty, o.qty - o.filled) IN
    [o EXCEPT !.filled = filled,
              !.status = IF filled >= o.qty THEN "FILLED" ELSE "PARTIAL"]

FillPrice(t) == orders[tx[t].maker].price

TheFill(t) == [buy |-> BuyId(t), sell |-> SellId(t), price |-> FillPrice(t),
               qty |-> tx[t].applied]

\* Mutant: the balance is the one the session read when the request arrived.
BalanceSeen(t, a) == IF a = tx[t].body.account THEN tx[t].cashSeen ELSE cashW[a]

\* LedgerService.credit changes the balance in the statement that reads it.
Balance(t, a) == cashW[a]

\* Mutant: nothing stops a debit.
UncheckedDebit(t, a, amount) == FALSE

Overdrawn(t, a, amount) == Balance(t, a) < amount

(***********************************************************************************)
(* The heartbeat manager and the pod runner submit on a session of their pass.     *)
(* They log what submit_order raises, without a savepoint, and commit at the end:  *)
(* the order and the fill whose debit failed stay, with no leg of it posted.       *)
(***********************************************************************************)
Swallow(t) ==
    /\ tx' = [tx EXCEPT ![t].pc = "swallowed", ![t].made = @ \cup {TheFill(t)}]
    /\ KeepRows /\ UNCHANGED <<clock, fills, published>>

CommitSwallowed(t) ==
    /\ tx[t].pc = "swallowed"
    /\ CommitRows(t)
    /\ orders' = [o \in OrderIds |-> IF orderBy[o] = t THEN ordersW[o] ELSE orders[o]]
    /\ fills' = fills \cup tx[t].made
    /\ tx' = [tx EXCEPT ![t] = EndedTx(t, "refused", None)]
    /\ UNCHANGED <<world, clock, ordersW, published>>

(***********************************************************************************)
(* One leg of a fill: post the cash with one guarded UPDATE, write the position    *)
(* computed from the value read before, advance the order.  A debit the balance    *)
(* cannot cover raises and loses the whole request.                                *)
(***********************************************************************************)
Post(t, leg) ==
    LET a      == LegAccount(t, leg)
        amount == tx[t].applied * FillPrice(t)
        id     == IF leg = "buyer" THEN BuyId(t) ELSE SellId(t)
    IN
    /\ tx[t].pc = IF leg = "buyer" THEN "buyerPost" ELSE "sellerPost"
    /\ cashBy[a] \in {None, t} /\ posBy[a] \in {None, t}
    /\ IF leg = "buyer" /\ Overdrawn(t, a, amount)
       THEN IF t \in Passes THEN Swallow(t) ELSE Abort(t)
       ELSE /\ cashBy' = [cashBy EXCEPT ![a] = t]
            /\ cashW' = [cashW EXCEPT ![a] = IF leg = "buyer" THEN Balance(t, a) - amount
                                             ELSE Balance(t, a) + amount]
            /\ posBy' = [posBy EXCEPT ![a] = t]
            /\ posW' = [posW EXCEPT ![a] = IF leg = "buyer" THEN tx[t].posSeen + tx[t].applied
                                           ELSE tx[t].posSeen - tx[t].applied]
            /\ ordersW' = [ordersW EXCEPT ![id] = Advanced(@, tx[t].applied)]
            /\ IF leg = "buyer"
               THEN /\ tx' = [tx EXCEPT ![t].pc = "seller"]
                    /\ UNCHANGED published
               ELSE /\ tx' = [tx EXCEPT ![t].pc = "match", ![t].left = @ - tx[t].want,
                                        ![t].made = @ \cup {TheFill(t)}, ![t].maker = None,
                                        ![t].want = 0, ![t].applied = 0, ![t].posSeen = 0]
                    /\ published' = published \cup {TheFill(t)}
            /\ UNCHANGED <<clock, cash, pos, orders, orderBy, fills>>
    /\ UNCHANGED world

\* The remainder of a market order is cancelled; then get_db commits.
Commit(t) ==
    LET close(o) == IF o = t /\ ordersW[t].kind = "market" /\ ordersW[t].filled < ordersW[t].qty
                    THEN [ordersW[t] EXCEPT !.status = "CANCELLED"]
                    ELSE ordersW[o]
    IN
    /\ tx[t].pc = "match" /\ ~MatchPending(t)
    /\ CommitRows(t)
    /\ orders' = [o \in OrderIds |-> IF orderBy[o] = t THEN close(o) ELSE orders[o]]
    /\ ordersW' = [o \in OrderIds |-> IF orderBy[o] = t THEN close(o) ELSE ordersW[o]]
    /\ fills' = fills \cup tx[t].made
    /\ tx' = [tx EXCEPT ![t] = EndedTx(t, "done", t)]
    /\ UNCHANGED <<world, clock, published>>

-------------------------------------------------------------------------------------
(* POST /orders/{id}/cancel                                                        *)

ArriveCancel(t, b) ==
    /\ tx[t].pc = "idle" /\ Exists(b.cancel)
    /\ tx' = [tx EXCEPT ![t] = [IdleTx EXCEPT !.pc = "cancel", !.body = b]]
    /\ KeepRows /\ UNCHANGED <<world, clock, fills, published>>

\* cancel_order: the row is read under its lock, then ownership and status decide.
CancelOrder(t) ==
    LET o == tx[t].body.cancel IN
    /\ tx[t].pc = "cancel" /\ orderBy[o] = None
    /\ \/ /\ \/ orders[o].account # tx[t].body.account
             \/ orders[o].status = "FILLED"
          /\ Answer(t, "refused", None)
       \/ /\ orders[o].account = tx[t].body.account
          /\ orders[o].status = "CANCELLED"
          /\ Answer(t, "done", o)
       \/ /\ orders[o].account = tx[t].body.account
          /\ orders[o].status \in Live
          /\ ordersW' = [ordersW EXCEPT ![o].status = "CANCELLED"]
          /\ orderBy' = [orderBy EXCEPT ![o] = t]
          /\ tx' = [tx EXCEPT ![t].pc = "cancelled"]
          /\ UNCHANGED <<clock, accountRows, positionRows, orders, fills, published>>
    /\ UNCHANGED world

CommitCancel(t) ==
    /\ tx[t].pc = "cancelled"
    /\ CommitRows(t)
    /\ orders' = [o \in OrderIds |-> IF orderBy[o] = t THEN ordersW[o] ELSE orders[o]]
    /\ tx' = [tx EXCEPT ![t] = EndedTx(t, "done", tx[t].body.cancel)]
    /\ UNCHANGED <<world, clock, ordersW, fills, published>>

-------------------------------------------------------------------------------------
(* The expiry worker, every minute: it locks a batch of lapsed live orders, passing *)
(* over the rows others hold, cancels them through cancel_order and commits.        *)

\* Mutant: any row past its expiry that is not cancelled yet.
LapsedAnyStatus ==
    {o \in OrderIds : Exists(o) /\ lapsed /\ orders[o].gtd /\ orders[o].status # "CANCELLED"}

\* Mutant: partly filled orders are not swept.
LapsedOpenOnly ==
    {o \in OrderIds : Exists(o) /\ lapsed /\ orders[o].gtd /\ orders[o].status = "OPEN"}

Lapsed ==
    {o \in OrderIds : Exists(o) /\ lapsed /\ orders[o].gtd /\ orders[o].status \in Live}

SweepExpired ==
    /\ \A o \in OrderIds : orderBy[o] # Sweeper
    /\ \E batch \in SUBSET {o \in Lapsed : orderBy[o] = None} :
          /\ batch # {}
          /\ Cardinality(batch) =
                Lesser(SweepBatch, Cardinality({o \in Lapsed : orderBy[o] = None}))
          /\ ordersW' = [o \in OrderIds |->
                           IF o \in batch THEN [ordersW[o] EXCEPT !.status = "CANCELLED"]
                           ELSE ordersW[o]]
          /\ orderBy' = [o \in OrderIds |-> IF o \in batch THEN Sweeper ELSE orderBy[o]]
    /\ UNCHANGED <<world, clock, accountRows, positionRows, orders, fills, published, tx>>

CommitSweep ==
    /\ \E o \in OrderIds : orderBy[o] = Sweeper
    /\ CommitRows(Sweeper)
    /\ orders' = [o \in OrderIds |-> IF orderBy[o] = Sweeper THEN ordersW[o] ELSE orders[o]]
    /\ UNCHANGED <<world, clock, ordersW, fills, published, tx>>

-------------------------------------------------------------------------------------
(* What happens around the requests.                                               *)

\* pause_market and unpause_market, each committed at once.
TogglePause ==
    /\ pauses < MaxPauses
    /\ market' = IF market = "OPEN" THEN "LOCKED" ELSE "OPEN"
    /\ pauses' = pauses + 1
    /\ KeepRows /\ UNCHANGED <<lapsed, crashes, clock, fills, published, tx>>

TimePasses ==
    /\ ~lapsed /\ lapsed' = TRUE
    /\ KeepRows /\ UNCHANGED <<market, pauses, crashes, clock, fills, published, tx>>

\* The process dies or the connection drops: PostgreSQL rolls the transaction back.
Crash(t) ==
    /\ crashes < MaxCrashes /\ tx[t].pc \in Working
    /\ crashes' = crashes + 1
    /\ Abort(t) /\ UNCHANGED <<market, pauses, lapsed>>

(***********************************************************************************)
(* Who holds the lock the next statement of t needs, if anyone else does.          *)
(***********************************************************************************)
Blocker(t) ==
    LET pc == tx[t].pc
        other(h) == IF h = t THEN None ELSE h
    IN  CASE pc = "reserve" -> cashBy[tx[t].body.account]
          [] pc = "match"   -> IF MatchPending(t)
                               THEN other(orderBy[(CHOOSE e \in NextUp(t) : TRUE).id]) ELSE None
          [] pc = "buyerRow"  -> posBy[LegAccount(t, "buyer")]
          [] pc = "sellerRow" -> posBy[LegAccount(t, "seller")]
          [] pc = "buyerPost" ->
                IF other(cashBy[LegAccount(t, "buyer")]) # None
                THEN cashBy[LegAccount(t, "buyer")]
                ELSE other(posBy[LegAccount(t, "buyer")])
          [] pc = "sellerPost" ->
                IF other(cashBy[LegAccount(t, "seller")]) # None
                THEN cashBy[LegAccount(t, "seller")]
                ELSE other(posBy[LegAccount(t, "seller")])
          [] pc = "cancel"  -> orderBy[tx[t].body.cancel]
          [] OTHER -> None

OnWaitCycle(t) ==
    \E cycle \in SUBSET Requests :
        /\ t \in cycle
        /\ \A u \in cycle : Blocker(u) \in cycle
        /\ \A u \in cycle : \E v \in cycle : Blocker(v) = u

\* PostgreSQL's deadlock detector aborts a transaction of the cycle.
DeadlockVictim(t) ==
    /\ OnWaitCycle(t)
    /\ Abort(t) /\ UNCHANGED world

-------------------------------------------------------------------------------------

Step(t) ==
    \/ Price(t) \/ Reserve(t) \/ Insert(t) \/ LockOrders(t)
    \/ \E leg \in {"buyer", "seller"} :
          ReadPosition(t, leg) \/ CreatePosition(t, leg) \/ Post(t, leg)
    \/ Commit(t) \/ CommitSwallowed(t)
    \/ CancelOrder(t) \/ CommitCancel(t)
    \/ DeadlockVictim(t)

Quiet ==
    /\ \A t \in Requests : tx[t].pc \in Ended
    /\ Lapsed = {}
    /\ UNCHANGED vars

Next ==
    \/ \E t \in Requests :
          \/ \E b \in Submits : Arrive(t, b)
          \/ \E b \in Cancels : ArriveCancel(t, b)
          \/ Step(t)
          \/ Crash(t)
    \/ SweepExpired \/ CommitSweep
    \/ TogglePause \/ TimePasses
    \/ Quiet

Spec == Init /\ [][Next]_vars

(***********************************************************************************)
(* Fairness: the event loop resumes a coroutine whose statement can proceed, a     *)
(* lock is handed to its waiters, deadlocks are detected, and the worker's cron    *)
(* fires.  No request has to arrive, and neither time nor an admin has to act.     *)
(***********************************************************************************)
Fairness ==
    /\ \A t \in Requests : WF_vars(Step(t))
    /\ WF_vars(SweepExpired) /\ WF_vars(CommitSweep)

FairSpec == Spec /\ Fairness

=====================================================================================

-------------------------------- MODULE ClobProofs --------------------------------
(***********************************************************************************)
(* Safety of the order service for any accounts, requests, bodies and bounds.      *)
(*                                                                                 *)
(* Its rows and locals keep their types, no order is over-filled and no account    *)
(* is overdrawn: one inductive invariant, IInv, carries all three.                 *)
(*                                                                                 *)
(* A trade cannot be undone: the filled quantity of a committed order never goes   *)
(* down, and a filled order never changes again.  What a transaction has written   *)
(* of an order another one committed must be compatible with it, so IInv is joined *)
(* by an invariant about the two versions of a row.                                *)
(*                                                                                 *)
(* And a key makes one order, however its retries race.                            *)
(***********************************************************************************)
EXTENDS ClobProperties, FiniteSetTheorems, TLAPS

Unplaced   == {"idle", "price", "reserve", "insert"}
Legs       == {"buyer", "buyerRow", "buyerPost", "seller", "sellerRow", "sellerPost"}
Matching   == {"match"} \cup Legs
Submitting == {"price", "reserve", "insert"} \cup Matching
Cancelling == {"cancel", "cancelled"}

\* No balance is negative, committed or not.
CashFine == \A a \in Accounts : cash[a] >= 0 /\ cashW[a] >= 0

\* Every version of an order row says FILLED exactly when it is full, and is never over.
RowFine(r) ==
    /\ r.filled <= r.qty
    /\ r.status = "FILLED" <=> r.filled = r.qty

RowsFine ==
    \A o \in OrderIds : /\ orders[o] # None => RowFine(orders[o])
                        /\ ordersW[o] # None => RowFine(ordersW[o])

\* A row nobody has locked has one version; a row that exists is never written away.
Synced ==
    \A o \in OrderIds : /\ orderBy[o] = None => ordersW[o] = orders[o]
                        /\ orders[o] # None => ordersW[o] # None

\* What a request may rely on at each of its statements.
TxFine(t) ==
    /\ tx[t].pc \in Unplaced => orders[t] = None /\ orderBy[t] = None
    /\ tx[t].pc \in Submitting => tx[t].body \in Submits
    /\ tx[t].pc \in Cancelling =>
          tx[t].body \in Cancels /\ orders[tx[t].body.cancel] # None
    /\ \A e \in tx[t].snap : orders[e.id] # None
    /\ tx[t].pc \in Matching => orderBy[t] = t /\ ordersW[t] # None
    /\ tx[t].pc \in Legs =>
          /\ tx[t].maker \in OrderIds /\ orders[tx[t].maker] # None
          /\ orderBy[tx[t].maker] = t
          /\ tx[t].applied \in 1..MaxQty /\ tx[t].want <= tx[t].left

IInv == TypeOK /\ CashFine /\ RowsFine /\ Synced /\ \A t \in Requests : TxFine(t)

\* A request that has not arrived has locals of the right type.
LEMMA IdleType == IdleTx \in TxType
  BY BodyAssumption DEF IdleTx, TxType

\* A request that is answered or refused has locals of the right type.
LEMMA EndedType ==
  ASSUME TypeOK, NEW t \in Requests, NEW pc \in Ended, NEW reply \in OrderIds \cup {None}
  PROVE  EndedTx(t, pc, reply) \in TxType
  BY IdleType DEF EndedTx, IdleTx, TxType, TypeOK

\* The invariant holds at the start: the seeds are well formed and nobody runs.
LEMMA InitInv == Init => IInv
<1> SUFFICES ASSUME Init PROVE IInv
  OBVIOUS
<1>1. orders \in [OrderIds -> Order \cup {None}]
  BY SeedAssumption DEF Init, OrderIds
<1>2. clock \in Nat
  BY SeedAssumption, FS_CardinalityType DEF Init
<1>3. tx \in [Requests -> TxType]
  BY IdleType DEF Init
<1>4. /\ cash \in [Accounts -> Int] /\ cashW \in [Accounts -> Int]
      /\ pos \in [Accounts -> Int \cup {None}] /\ posW \in [Accounts -> Int \cup {None}]
  BY SeedAssumption DEF Init
<1>5. TypeOK
  <2>1. market \in {"OPEN", "LOCKED"} /\ lapsed \in BOOLEAN
    BY DEF Init
  <2>2. pauses \in 0..MaxPauses /\ crashes \in 0..MaxCrashes
    BY BodyAssumption DEF Init
  <2>3. /\ cashBy \in [Accounts -> Requests \cup {None}]
        /\ posBy \in [Accounts -> Requests \cup {None}]
        /\ orderBy \in [OrderIds -> Lockers \cup {None}]
    BY DEF Init
  <2>4. fills \in SUBSET Fill /\ published \in SUBSET Fill
    BY DEF Init
  <2>5. ordersW \in [OrderIds -> Order \cup {None}]
    BY <1>1 DEF Init
  <2> QED
    BY <1>1, <1>2, <1>3, <1>4, <2>1, <2>2, <2>3, <2>4, <2>5 DEF TypeOK
<1>6. CashFine
  BY SeedAssumption DEF Init, CashFine
<1>7. RowsFine
  BY SeedFilledAssumption DEF Init, RowsFine, RowFine, OrderIds
<1>8. Synced
  BY DEF Init, Synced
<1>9. \A t \in Requests : TxFine(t)
  BY SeedAssumption DEF Init, OrderIds, TxFine, IdleTx, Unplaced, Submitting, Cancelling, Matching, Legs
<1> QED
  BY <1>5, <1>6, <1>7, <1>8, <1>9 DEF IInv

-------------------------------------------------------------------------------------
(* Shared by the actions.                                                          *)

WorldType ==
    /\ market \in {"OPEN", "LOCKED"} /\ lapsed \in BOOLEAN
    /\ pauses \in 0..MaxPauses /\ crashes \in 0..MaxCrashes /\ clock \in Nat
    /\ fills \in SUBSET Fill /\ published \in SUBSET Fill

RowType ==
    /\ cash \in [Accounts -> Int] /\ cashW \in [Accounts -> Int]
    /\ pos \in [Accounts -> Int \cup {None}] /\ posW \in [Accounts -> Int \cup {None}]
    /\ orders \in [OrderIds -> Order \cup {None}]
    /\ ordersW \in [OrderIds -> Order \cup {None}]
    /\ cashBy \in [Accounts -> Requests \cup {None}]
    /\ posBy \in [Accounts -> Requests \cup {None}]
    /\ orderBy \in [OrderIds -> Lockers \cup {None}]

\* What an action of t must not do to the orders other requests rely on.
OrdersKept(t) ==
    /\ \A o \in OrderIds : orders[o] # None => orders'[o] # None
    /\ \A u \in Requests \ {t} :
          /\ orderBy[u] = u /\ ordersW[u] # None => ordersW'[u] # None
          /\ orders[u] = None /\ orderBy[u] = None => orders'[u] = None /\ orderBy'[u] = None
          /\ \A o \in OrderIds : orderBy[o] = u => orderBy'[o] = u

\* What one request relies on survives the steps of the others.
LEMMA OthersFine ==
  ASSUME IInv, NEW t, OrdersKept(t), NEW u \in Requests \ {t}, tx'[u] = tx[u]
  PROVE  TxFine(u)'
<1>1. TxFine(u) /\ tx[u] \in TxType
  BY DEF IInv, TypeOK
<1>2. \A e \in tx[u].snap : e.id \in OrderIds
  BY <1>1 DEF TxType, Entry
<1>3. tx[u].body \in Cancels => tx[u].body.cancel \in OrderIds
  BY BodyAssumption DEF Cancels
<1>4. u \in OrderIds
  BY DEF OrderIds
<1> QED
  BY <1>1, <1>2, <1>3, <1>4 DEF TxFine, OrdersKept

\* A step of request t preserves the invariant if it does so for the rows and for t.
LEMMA Assemble ==
  ASSUME IInv, NEW t \in Requests, NEW r \in TxType, tx' = [tx EXCEPT ![t] = r],
         WorldType', RowType', CashFine', RowsFine', Synced', OrdersKept(t), TxFine(t)'
  PROVE  IInv'
<1>1. tx \in [Requests -> TxType]
  BY DEF IInv, TypeOK
<1>2. tx' \in [Requests -> TxType]
  BY <1>1
<1>3. ASSUME NEW u \in Requests PROVE TxFine(u)'
  <2>1. CASE u = t
    BY <2>1
  <2>2. CASE u # t
    BY <1>1, <2>2, OthersFine
  <2> QED
    BY <2>1, <2>2
<1> QED
  BY <1>2, <1>3 DEF IInv, TypeOK, WorldType, RowType

\* The same for a step that leaves every row alone.
LEMMA AssembleLocal ==
  ASSUME IInv, NEW t \in Requests, NEW r \in TxType, tx' = [tx EXCEPT ![t] = r],
         WorldType', KeepRows, TxFine(t)'
  PROVE  IInv'
<1>1. RowType'
  BY DEF IInv, TypeOK, RowType, KeepRows, accountRows, positionRows, orderRows
<1>2. CashFine'
  BY DEF IInv, CashFine, KeepRows, accountRows
<1>3. RowsFine'
  BY DEF IInv, RowsFine, RowFine, KeepRows, orderRows
<1>4. Synced'
  BY DEF IInv, Synced, KeepRows, orderRows
<1>5. OrdersKept(t)
  BY DEF OrdersKept, KeepRows, orderRows
<1> QED
  BY <1>1, <1>2, <1>3, <1>4, <1>5, Assemble

\* A request that has ended relies on nothing.
LEMMA EndedFine ==
  ASSUME IInv, NEW t \in Requests, NEW pc \in Ended, NEW reply \in OrderIds \cup {None},
         tx' = [tx EXCEPT ![t] = EndedTx(t, pc, reply)]
  PROVE  TxFine(t)'
  BY DEF IInv, TypeOK, TxFine, EndedTx, IdleTx, Ended, Unplaced, Submitting, Cancelling, Matching, Legs

\* Rolling back a request restores the committed versions.
LEMMA RollbackFine ==
  ASSUME IInv, NEW t \in Requests, RollbackRows(t)
  PROVE  RowType' /\ CashFine' /\ RowsFine' /\ Synced' /\ OrdersKept(t)
<1> USE DEF IInv
<1>1. RowType'
  BY DEF TypeOK, RowType, RollbackRows
<1>2. CashFine'
  BY DEF TypeOK, CashFine, RollbackRows
<1>3. RowsFine'
  BY DEF TypeOK, RowsFine, RowFine, RollbackRows
<1>4. Synced'
  BY DEF TypeOK, Synced, RollbackRows
<1>5. OrdersKept(t)
  BY DEF TypeOK, OrdersKept, RollbackRows, OrderIds
<1> QED
  BY <1>1, <1>2, <1>3, <1>4, <1>5

\* Losing a request, for whatever reason, preserves the invariant.
LEMMA AbortInv ==
  ASSUME IInv, NEW t \in Requests, Abort(t), WorldType'
  PROVE  IInv'
<1>1. EndedTx(t, "refused", None) \in TxType
  BY EndedType DEF IInv, Ended
<1>2. TxFine(t)'
  BY EndedFine DEF Abort, Ended
<1>3. RowType' /\ CashFine' /\ RowsFine' /\ Synced' /\ OrdersKept(t)
  BY RollbackFine DEF Abort
<1>4. tx' = [tx EXCEPT ![t] = EndedTx(t, "refused", None)]
  BY DEF Abort
<1> QED
  BY <1>1, <1>2, <1>3, <1>4, Assemble

\* Answering a request that holds no row preserves the invariant.
LEMMA AnswerInv ==
  ASSUME IInv, NEW t \in Requests, NEW pc \in Ended, NEW reply \in OrderIds \cup {None},
         Answer(t, pc, reply), UNCHANGED world
  PROVE  IInv'
<1>1. EndedTx(t, pc, reply) \in TxType
  BY EndedType DEF IInv
<1>2. TxFine(t)'
  BY EndedFine DEF Answer
<1>3. tx' = [tx EXCEPT ![t] = EndedTx(t, pc, reply)] /\ KeepRows
  BY DEF Answer
<1>4. WorldType'
  BY DEF Answer, IInv, TypeOK, WorldType, world
<1> QED
  BY <1>1, <1>2, <1>3, <1>4, AssembleLocal

-------------------------------------------------------------------------------------
(* One lemma per action.                                                           *)

\* place_order up to the service call preserves the invariant.
LEMMA ArriveInv ==
  ASSUME IInv, NEW t \in Requests, NEW b \in Submits, Arrive(t, b)
  PROVE  IInv'
<1>1. CASE market # "OPEN" \/ (b.gtd /\ lapsed)
  <2> DEFINE r == [IdleTx EXCEPT !.pc = "refused", !.body = b]
  <2>1. tx' = [tx EXCEPT ![t] = r]
    BY <1>1 DEF Arrive
  <2>2. r \in TxType
    BY IdleType DEF TxType, IdleTx, Ended
  <2>3. TxFine(t)'
    BY <2>1 DEF IInv, TypeOK, TxFine, IdleTx, Unplaced, Submitting, Cancelling, Matching, Legs
  <2>4. WorldType' /\ KeepRows
    BY <1>1 DEF Arrive, IInv, TypeOK, WorldType, world
  <2> QED
    BY <2>1, <2>2, <2>3, <2>4, AssembleLocal
<1>2. CASE ~(market # "OPEN" \/ (b.gtd /\ lapsed))
  <2> DEFINE r == [IdleTx EXCEPT !.pc = "price", !.body = b, !.at = clock + 1,
                                 !.cashSeen = cash[b.account]]
  <2>1. tx' = [tx EXCEPT ![t] = r]
    BY <1>2 DEF Arrive
  <2>0. cash[b.account] \in Int /\ clock + 1 \in Nat
    BY BodyAssumption DEF IInv, TypeOK
  <2>2. r \in TxType
    BY <2>0, IdleType DEF TxType, IdleTx, Working
  <2>3. TxFine(t)'
    <3>1. tx'[t].pc = "price" /\ tx'[t].body = b /\ tx'[t].snap = {}
      BY <2>1 DEF IInv, TypeOK, IdleTx
    <3>2. orders' = orders /\ orderBy' = orderBy /\ TxFine(t) /\ tx[t].pc = "idle"
      BY <1>2 DEF Arrive, IInv, KeepRows, orderRows
    <3> QED
      BY <3>1, <3>2 DEF TxFine, Unplaced, Submitting, Cancelling, Matching, Legs
  <2>4. WorldType' /\ KeepRows
    BY SMTT(30), <1>2 DEF Arrive, IInv, TypeOK, WorldType, world
  <2> QED
    BY <2>1, <2>2, <2>3, <2>4, AssembleLocal
<1> QED
  BY <1>1, <1>2

\* The idempotency lookup and the pricing of submit_order preserve the invariant.
LEMMA PriceInv ==
  ASSUME IInv, NEW t \in Requests, Price(t)
  PROVE  IInv'
<1> DEFINE b == tx[t].body
           book == IF b.kind = "market" THEN Hydrated(b.side) ELSE {}
           seen == IF b.side = "sell" THEN Held(b.account) ELSE 0
           mine == {o \in LiveOrders(b.account) : orders[o].side = "sell"}
           sells == {e \in Entry : b.side = "sell" /\ e.id \in mine
                                   /\ e.remaining = Left(e.id)}
           r == [tx[t] EXCEPT !.pc = "reserve", !.snap = book, !.heldSeen = seen,
                              !.sellsSeen = sells]
<1>1. CASE \E o \in ByKey(b.account, b.key) : Answer(t, "done", o)
  <2>1. PICK o \in ByKey(b.account, b.key) : Answer(t, "done", o)
    BY SMTT(30), <1>1
  <2>2. o \in OrderIds /\ UNCHANGED world
    BY <2>1 DEF ByKey, Price
  <2> QED
    BY <2>1, <2>2, AnswerInv DEF Ended
<1>2. CASE Answer(t, "refused", None)
  BY SMTT(30), <1>2, AnswerInv DEF Price, Ended
<1>3. CASE /\ tx' = [tx EXCEPT ![t].pc = "reserve", ![t].snap = book, ![t].heldSeen = seen,
                               ![t].sellsSeen = sells]
           /\ KeepRows /\ UNCHANGED <<clock, fills, published>>
  <2>1. tx' = [tx EXCEPT ![t] = r]
    BY <1>3
  <2>2. tx[t] \in TxType /\ TxFine(t) /\ b \in Submits /\ tx[t].pc = "price"
    BY DEF IInv, TypeOK, TxFine, Price, Submitting
  <2>3. book \in SUBSET Entry /\ \A e \in book : orders[e.id] # None
    BY DEF Hydrated, Exists
  <2>4. seen \in Nat
    BY SMTT(30), <2>2, BodyAssumption DEF IInv, TypeOK, Held, Greater
  <2>5. r \in TxType
    BY ZenonT(40), <2>2, <2>3, <2>4 DEF TxType, Working
  <2>8. /\ tx'[t].pc = "reserve" /\ tx'[t].body = b /\ tx'[t].snap = book
        /\ orders' = orders /\ orderBy' = orderBy
    <3> HIDE DEF book, seen, sells
    <3> QED
      BY <1>3, <2>1, <2>2 DEF IInv, TypeOK, TxType, KeepRows, orderRows
  <2>6. TxFine(t)'
    <3> HIDE DEF book, seen, sells
    <3> QED
      BY <2>8, <2>2, <2>3 DEF TxFine, Unplaced, Submitting, Cancelling, Matching, Legs
  <2>7. WorldType' /\ KeepRows
    BY <1>3 DEF Price, IInv, TypeOK, WorldType, world
  <2> QED
    BY <2>1, <2>5, <2>6, <2>7, AssembleLocal
<1> QED
  BY <1>1, <1>2, <1>3 DEF Price

\* _reserve_cash preserves the invariant: it locks the account and changes no balance.
LEMMA ReserveInv ==
  ASSUME IInv, NEW t \in Requests, Reserve(t)
  PROVE  IInv'
<1> DEFINE a == tx[t].body.account
           r == [tx[t] EXCEPT !.pc = "insert"]
<1>1. CASE Answer(t, "refused", None)
  BY <1>1, AnswerInv DEF Reserve, Ended
<1>2. CASE /\ cashBy' = [cashBy EXCEPT ![a] = t]
           /\ tx' = [tx EXCEPT ![t].pc = "insert"]
           /\ UNCHANGED <<clock, cash, cashW, positionRows, orderRows, fills, published>>
  <2>1. tx' = [tx EXCEPT ![t] = r]
    BY <1>2
  <2>2. tx[t] \in TxType /\ TxFine(t) /\ tx[t].pc = "reserve"
    BY DEF IInv, TypeOK, Reserve
  <2>3. r \in TxType
    BY <2>2 DEF TxType, Working
  <2>4. TxFine(t)'
    BY <1>2, <2>1, <2>2 DEF IInv, TypeOK, TxFine, TxType, orderRows,
                            Unplaced, Submitting, Cancelling, Matching, Legs
  <2>5. WorldType'
    BY <1>2 DEF Reserve, IInv, TypeOK, WorldType, world
  <2>6. RowType'
    BY <1>2 DEF IInv, TypeOK, RowType, positionRows, orderRows
  <2>7. CashFine' /\ RowsFine' /\ Synced' /\ OrdersKept(t)
    BY SMTT(30), <1>2 DEF IInv, CashFine, RowsFine, RowFine, Synced, OrdersKept, orderRows
  <2> QED
    BY <2>1, <2>3, <2>4, <2>5, <2>6, <2>7, Assemble
<1> QED
  BY <1>1, <1>2 DEF Reserve

\* Inserting the order, or replaying the one its key finds, preserves the invariant.
LEMMA InsertInv ==
  ASSUME IInv, NEW t \in Requests, Insert(t)
  PROVE  IInv'
<1> DEFINE b == tx[t].body
           snap == IF b.kind = "limit" THEN Hydrated(b.side) ELSE tx[t].snap
           r == [tx[t] EXCEPT !.pc = "match", !.left = b.qty, !.snap = snap]
<1>0. tx[t] \in TxType /\ TxFine(t) /\ tx[t].pc = "insert" /\ b \in Submits /\ t \in OrderIds
  BY DEF IInv, TypeOK, Insert, TxFine, Submitting, OrderIds
<1>w. WorldType'
  BY DEF Insert, IInv, TypeOK, WorldType, world
<1>1. CASE \E o \in ByKey(b.account, b.key) :
              RollbackRows(t) /\ tx' = [tx EXCEPT ![t] = EndedTx(t, "done", o)]
  <2>1. PICK o \in ByKey(b.account, b.key) :
              RollbackRows(t) /\ tx' = [tx EXCEPT ![t] = EndedTx(t, "done", o)]
    BY <1>1
  <2>2. o \in OrderIds /\ "done" \in Ended
    BY <2>1 DEF ByKey, Ended
  <2>3. EndedTx(t, "done", o) \in TxType
    BY <2>2, EndedType DEF IInv
  <2>4. TxFine(t)'
    BY <2>1, <2>2, EndedFine
  <2>5. RowType' /\ CashFine' /\ RowsFine' /\ Synced' /\ OrdersKept(t)
    BY <2>1, RollbackFine
  <2> QED
    BY <2>1, <2>3, <2>4, <2>5, <1>w, Assemble
<1>2. ASSUME NEW price \in Ticks,
             ordersW' = [ordersW EXCEPT ![t] =
                [ account |-> b.account, side |-> b.side, kind |-> b.kind,
                  price |-> price, qty |-> b.qty, filled |-> 0, status |-> "OPEN",
                  key |-> b.key, gtd |-> b.gtd, at |-> tx[t].at ]],
             orderBy' = [orderBy EXCEPT ![t] = t],
             tx' = [tx EXCEPT ![t].pc = "match", ![t].left = b.qty, ![t].snap = snap],
             UNCHANGED <<accountRows, positionRows, orders>>
      PROVE  IInv'
  <2> DEFINE row == [ account |-> b.account, side |-> b.side, kind |-> b.kind,
                      price |-> price, qty |-> b.qty, filled |-> 0, status |-> "OPEN",
                      key |-> b.key, gtd |-> b.gtd, at |-> tx[t].at ]
  <2>1. tx' = [tx EXCEPT ![t] = r]
    BY <1>2
  <2>2. snap \in SUBSET Entry /\ \A e \in snap : orders[e.id] # None
    BY <1>0 DEF Hydrated, Exists, TxType, TxFine
  <2>3. r \in TxType
    <3>1. b.qty \in 0..MaxQty
      BY <1>0, BodyAssumption
    <3> HIDE DEF snap
    <3> QED
      BY <1>0, <2>2, <3>1 DEF TxType, Working
  <2>4. row \in Order /\ row # None /\ RowFine(row)
    BY <1>0, BodyAssumption, SeedAssumption DEF Order, TxType, Keys, Statuses, RowFine
  <2> HIDE DEF row, snap
  <2>5. ordersW' = [ordersW EXCEPT ![t] = row]
    BY <1>2 DEF row
  <2>6. RowType'
    BY <1>0, <1>2, <2>4, <2>5 DEF IInv, TypeOK, RowType, accountRows, positionRows, Lockers
  <2>7. CashFine'
    BY <1>2 DEF IInv, CashFine, accountRows
  <2>8. RowsFine'
    BY <1>0, <1>2, <2>4, <2>5 DEF IInv, TypeOK, RowsFine, RowFine
  <2>9. Synced' /\ OrdersKept(t)
    <3>1. orderBy[t] = None /\ orders[t] = None
      BY <1>0 DEF TxFine, Unplaced
    <3>2. Synced'
      BY <1>0, <1>2, <2>4, <2>5, SeedAssumption DEF IInv, TypeOK, Synced, Lockers
    <3>3. OrdersKept(t)
      BY <1>0, <1>2, <2>4, <2>5, <3>1, SeedAssumption
      DEF IInv, TypeOK, OrdersKept, Lockers, OrderIds
    <3> QED
      BY <3>2, <3>3
  <2>10. TxFine(t)'
    <3>1. /\ tx'[t].pc = "match" /\ tx'[t].body = b /\ tx'[t].snap = snap
          /\ orders' = orders /\ orderBy'[t] = t /\ ordersW'[t] = row
      BY <1>0, <1>2, <2>1, <2>5 DEF IInv, TypeOK, TxType
    <3> QED
      BY <3>1, <1>0, <2>2, <2>4 DEF TxFine, Unplaced, Submitting, Cancelling, Matching, Legs
  <2> QED
    BY <2>1, <2>3, <2>6, <2>7, <2>8, <2>9, <2>10, <1>w, Assemble
<1>3. \A e \in NextUp(t) : orders[e.id].price \in Ticks
  BY <1>0 DEF NextUp, TxFine, TxType, Entry, IInv, TypeOK, Order
<1>4. b.price \in Ticks
  BY <1>0, BodyAssumption
<1>5. CASE /\ \E price \in IF b.kind = "limit" THEN {b.price}
                            ELSE {orders[e.id].price : e \in NextUp(t)} :
                 ordersW' = [ordersW EXCEPT ![t] =
                    [ account |-> b.account, side |-> b.side, kind |-> b.kind,
                      price |-> price, qty |-> b.qty, filled |-> 0, status |-> "OPEN",
                      key |-> b.key, gtd |-> b.gtd, at |-> tx[t].at ]]
           /\ orderBy' = [orderBy EXCEPT ![t] = t]
           /\ tx' = [tx EXCEPT ![t].pc = "match", ![t].left = b.qty, ![t].snap = snap]
           /\ UNCHANGED <<accountRows, positionRows, orders>>
  <2>1. PICK price \in Ticks : ordersW' = [ordersW EXCEPT ![t] =
                    [ account |-> b.account, side |-> b.side, kind |-> b.kind,
                      price |-> price, qty |-> b.qty, filled |-> 0, status |-> "OPEN",
                      key |-> b.key, gtd |-> b.gtd, at |-> tx[t].at ]]
    BY <1>3, <1>4, <1>5
  <2> QED
    BY <1>2, <1>5, <2>1
<1> QED
  BY <1>1, <1>5 DEF Insert

\* The first half of _record_fill leaves a positive match that both locked rows have room for,
\* or none.
LEMMA LockOrdersInv ==
  ASSUME IInv, NEW t \in Requests, LockOrders(t)
  PROVE  IInv'
<1>1. PICK e \in NextUp(t) :
        /\ tx[t].pc = "match" /\ tx[t].left > 0
        /\ orderBy[e.id] \in {None, t}
        /\ orderBy' = [orderBy EXCEPT ![e.id] = t]
        /\ IF Applied(t, e) <= 0
           THEN tx' = [tx EXCEPT ![t].left = @ - Want(t, e), ![t].snap = @ \ {e}]
           ELSE tx' = [tx EXCEPT ![t].pc = "buyer", ![t].maker = e.id,
                                 ![t].want = Want(t, e), ![t].applied = Applied(t, e),
                                 ![t].snap = @ \ {e}]
        /\ UNCHANGED <<world, clock, accountRows, positionRows, orders, ordersW, fills,
                       published>>
  BY DEF LockOrders
<1>2. /\ tx[t] \in TxType /\ TxFine(t) /\ tx[t].body \in Submits
      /\ t \in OrderIds /\ orderBy[t] = t /\ ordersW[t] # None
  BY <1>1 DEF IInv, TypeOK, TxFine, Submitting, Matching, OrderIds
<1>3. e \in Entry /\ e.id \in OrderIds /\ e.remaining \in 1..MaxQty /\ orders[e.id] # None
  BY <1>1, <1>2 DEF NextUp, TxFine, TxType, Entry
<1>4. ordersW[t] \in Order /\ ordersW[e.id] \in Order
  BY <1>2, <1>3 DEF IInv, TypeOK, Synced
<1>5. /\ Want(t, e) \in 1..MaxQty /\ Want(t, e) <= tx[t].left /\ tx[t].left \in 0..MaxQty
  BY <1>1, <1>2, <1>3, BodyAssumption DEF Want, Lesser, TxType
<1>6. Applied(t, e) \in Int /\ Applied(t, e) <= Want(t, e)
  BY <1>4, <1>5, BodyAssumption DEF Applied, Room, Lesser, Order
<1>7. WorldType'
  BY <1>1 DEF IInv, TypeOK, WorldType, world
<1>8. RowType' /\ CashFine' /\ RowsFine'
  BY <1>1, <1>3 DEF IInv, TypeOK, RowType, CashFine, RowsFine, RowFine, accountRows,
                    positionRows, Lockers
<1>9. Synced' /\ OrdersKept(t)
  BY <1>1, <1>3, SeedAssumption DEF IInv, TypeOK, Synced, OrdersKept, Lockers, OrderIds
<1>10. orders' = orders /\ ordersW' = ordersW /\ orderBy'[t] = t /\ orderBy'[e.id] = t
  BY <1>1, <1>2, <1>3 DEF IInv, TypeOK
<1>11. CASE Applied(t, e) <= 0
  <2> DEFINE r == [tx[t] EXCEPT !.left = @ - Want(t, e), !.snap = @ \ {e}]
  <2>1. tx' = [tx EXCEPT ![t] = r]
    BY <1>1, <1>11
  <2>0. tx[t].left - Want(t, e) \in 0..MaxQty /\ tx[t].snap \ {e} \in SUBSET Entry
    BY <1>2, <1>5, BodyAssumption DEF TxType
  <2>2. r \in TxType
    BY <1>2, <2>0 DEF TxType
  <2>3. /\ tx'[t].pc = "match" /\ tx'[t].body = tx[t].body
        /\ tx'[t].snap \subseteq tx[t].snap
    BY <1>1, <1>2, <2>1 DEF IInv, TypeOK, TxType
  <2>4. TxFine(t)'
    BY <1>2, <1>10, <2>3 DEF TxFine, Unplaced, Submitting, Cancelling, Matching, Legs
  <2> QED
    BY <2>1, <2>2, <2>4, <1>7, <1>8, <1>9, Assemble
<1>12. CASE ~(Applied(t, e) <= 0)
  <2> DEFINE r == [tx[t] EXCEPT !.pc = "buyer", !.maker = e.id, !.want = Want(t, e),
                                !.applied = Applied(t, e), !.snap = @ \ {e}]
  <2>1. tx' = [tx EXCEPT ![t] = r]
    BY <1>1, <1>12
  <2>2. Applied(t, e) \in 1..MaxQty
    BY <1>5, <1>6, <1>12, BodyAssumption
  <2>0. /\ Want(t, e) \in 0..MaxQty /\ Applied(t, e) \in 0..MaxQty
        /\ e.id \in OrderIds \cup {None} /\ tx[t].snap \ {e} \in SUBSET Entry
    BY <1>2, <1>3, <1>5, <2>2, BodyAssumption DEF TxType
  <2>3. r \in TxType
    BY <1>2, <2>0 DEF TxType, Working
  <2>4. /\ tx'[t].pc = "buyer" /\ tx'[t].body = tx[t].body /\ tx'[t].maker = e.id
        /\ tx'[t].want = Want(t, e) /\ tx'[t].applied = Applied(t, e)
        /\ tx'[t].left = tx[t].left /\ tx'[t].snap \subseteq tx[t].snap
    BY <1>2, <2>1 DEF IInv, TypeOK, TxType
  <2>5. TxFine(t)'
    BY <1>2, <1>3, <1>5, <1>10, <2>2, <2>4
    DEF TxFine, Unplaced, Submitting, Cancelling, Matching, Legs
  <2> QED
    BY <2>1, <2>3, <2>5, <1>7, <1>8, <1>9, Assemble
<1> QED
  BY <1>11, <1>12

\* What holds of a request that is settling a match.
LEMMA LegFacts ==
  ASSUME IInv, NEW t \in Requests, tx[t].pc \in Legs
  PROVE  /\ tx[t] \in TxType /\ TxFine(t) /\ tx[t].body \in Submits
         /\ tx[t].maker \in OrderIds /\ tx[t].applied \in 1..MaxQty
         /\ BuyId(t) \in OrderIds /\ SellId(t) \in OrderIds
         /\ ordersW[BuyId(t)] \in Order /\ ordersW[SellId(t)] \in Order
         /\ FillPrice(t) \in Ticks
         /\ \A leg \in {"buyer", "seller"} : LegAccount(t, leg) \in Accounts
<1>1. tx[t] \in TxType /\ TxFine(t) /\ t \in OrderIds
  BY DEF IInv, TypeOK, OrderIds
<1>2. /\ tx[t].body \in Submits /\ tx[t].maker \in OrderIds /\ tx[t].applied \in 1..MaxQty
      /\ orders[tx[t].maker] # None /\ ordersW[t] # None
  BY <1>1 DEF TxFine, Submitting, Matching
<1>3. /\ ordersW[t] \in Order /\ ordersW[tx[t].maker] \in Order
      /\ orders[tx[t].maker] \in Order
  BY <1>1, <1>2 DEF IInv, TypeOK, Synced
<1>4. /\ BuyId(t) \in OrderIds /\ SellId(t) \in OrderIds
      /\ ordersW[BuyId(t)] \in Order /\ ordersW[SellId(t)] \in Order
  BY <1>1, <1>2, <1>3 DEF BuyId, SellId
<1>5. FillPrice(t) \in Ticks
  BY <1>3 DEF FillPrice, Order
<1>6. \A leg \in {"buyer", "seller"} : LegAccount(t, leg) \in Accounts
  BY <1>4 DEF LegAccount, Order
<1> QED
  BY <1>1, <1>2, <1>4, <1>5, <1>6

\* A step within the settling of a match keeps what the request relies on.
LEMMA LegStepFine ==
  ASSUME IInv, NEW t \in Requests, tx[t].pc \in Legs, NEW r \in TxType,
         tx' = [tx EXCEPT ![t] = r], r.pc \in Legs, r.body = tx[t].body, r.snap = tx[t].snap,
         r.maker = tx[t].maker, r.applied = tx[t].applied, r.want = tx[t].want,
         r.left = tx[t].left, orderBy' = orderBy, ordersW'[t] # None, orders' = orders
  PROVE  TxFine(t)'
<1>1. TxFine(t) /\ tx'[t] = r
  BY DEF IInv, TypeOK
<1> QED
  BY <1>1 DEF TxFine, Unplaced, Submitting, Cancelling, Matching, Legs

\* Reading a position preserves the invariant.
LEMMA ReadPositionInv ==
  ASSUME IInv, NEW t \in Requests, NEW leg \in {"buyer", "seller"}, ReadPosition(t, leg)
  PROVE  IInv'
<1> DEFINE p == MyPos(t, LegAccount(t, leg))
           row == IF leg = "buyer" THEN "buyerRow" ELSE "sellerRow"
           post == IF leg = "buyer" THEN "buyerPost" ELSE "sellerPost"
<1>1. /\ tx[t].pc \in Legs /\ tx[t] \in TxType
      /\ WorldType' /\ KeepRows /\ ordersW'[t] # None /\ orderBy' = orderBy /\ orders' = orders
  BY DEF ReadPosition, Legs, Matching, IInv, TypeOK, TxFine, WorldType, world, KeepRows, orderRows
<1>2. p \in Int \cup {None}
  BY <1>1, LegFacts DEF MyPos, IInv, TypeOK
<1>3. row \in Legs \cap Working /\ post \in Legs \cap Working
  BY DEF Legs, Working
<1> HIDE DEF p, row, post
<1>4. CASE p = None
  <2> DEFINE r == [tx[t] EXCEPT !.pc = row]
  <2>1. tx' = [tx EXCEPT ![t] = r]
    BY <1>4 DEF ReadPosition, p, row
  <2>2. /\ r \in TxType /\ r.pc \in Legs /\ r.body = tx[t].body /\ r.snap = tx[t].snap
        /\ r.maker = tx[t].maker /\ r.applied = tx[t].applied /\ r.want = tx[t].want
        /\ r.left = tx[t].left
    BY <1>1, <1>3 DEF TxType
  <2>3. TxFine(t)'
    BY <1>1, <2>1, <2>2, LegStepFine
  <2> QED
    BY <1>1, <2>1, <2>2, <2>3, AssembleLocal
<1>5. CASE p # None
  <2> DEFINE r == [tx[t] EXCEPT !.pc = post, !.posSeen = p]
  <2>1. tx' = [tx EXCEPT ![t] = r]
    BY <1>5 DEF ReadPosition, p, post
  <2>2. /\ r \in TxType /\ r.pc \in Legs /\ r.body = tx[t].body /\ r.snap = tx[t].snap
        /\ r.maker = tx[t].maker /\ r.applied = tx[t].applied /\ r.want = tx[t].want
        /\ r.left = tx[t].left
    BY ZenonT(40), <1>1, <1>2, <1>3, <1>5 DEF TxType
  <2>3. TxFine(t)'
    BY <1>1, <2>1, <2>2, LegStepFine
  <2> QED
    BY <1>1, <2>1, <2>2, <2>3, AssembleLocal
<1> QED
  BY <1>4, <1>5

\* Creating a position, or failing to, preserves the invariant.
LEMMA CreatePositionInv ==
  ASSUME IInv, NEW t \in Requests, NEW leg \in {"buyer", "seller"}, CreatePosition(t, leg)
  PROVE  IInv'
<1> DEFINE a == LegAccount(t, leg)
           post == IF leg = "buyer" THEN "buyerPost" ELSE "sellerPost"
           r == [tx[t] EXCEPT !.pc = post, !.posSeen = 0]
<1>1. tx[t].pc \in Legs /\ tx[t] \in TxType
  BY DEF CreatePosition, Legs, IInv, TypeOK
<1>2. a \in Accounts
  BY <1>1, LegFacts
<1>3. post \in Legs \cap Working
  BY DEF Legs, Working
<1> HIDE DEF a, post
<1>4. CASE Abort(t)
  <2>1. WorldType'
    BY <1>4 DEF CreatePosition, Abort, IInv, TypeOK, WorldType, world
  <2> QED
    BY <1>4, <2>1, AbortInv
<1>5. CASE /\ posBy' = [posBy EXCEPT ![a] = t]
           /\ posW' = [posW EXCEPT ![a] = 0]
           /\ tx' = [tx EXCEPT ![t].pc = post, ![t].posSeen = 0]
           /\ UNCHANGED <<clock, accountRows, pos, orderRows, fills, published>>
  <2>1. tx' = [tx EXCEPT ![t] = r]
    BY <1>5
  <2>2. /\ r \in TxType /\ r.pc \in Legs /\ r.body = tx[t].body /\ r.snap = tx[t].snap
        /\ r.maker = tx[t].maker /\ r.applied = tx[t].applied /\ r.want = tx[t].want
        /\ r.left = tx[t].left
    <3>1. 0 \in Int
      OBVIOUS
    <3> QED
      BY ZenonT(40), <1>1, <1>3, <3>1 DEF TxType
  <2>3. ordersW'[t] # None /\ orderBy' = orderBy /\ orders' = orders
    BY <1>1, <1>5 DEF IInv, TxFine, Matching, orderRows
  <2>4. TxFine(t)'
    BY <1>1, <2>1, <2>2, <2>3, LegStepFine
  <2>5. WorldType'
    BY <1>5 DEF CreatePosition, IInv, TypeOK, WorldType, world
  <2>6. RowType'
    BY <1>2, <1>5 DEF IInv, TypeOK, RowType, accountRows, orderRows
  <2>7. CashFine' /\ RowsFine' /\ Synced' /\ OrdersKept(t)
    BY <1>5 DEF IInv, CashFine, RowsFine, RowFine, Synced, OrdersKept, accountRows, orderRows
  <2> QED
    BY <2>1, <2>2, <2>4, <2>5, <2>6, <2>7, Assemble
<1> QED
  BY <1>4, <1>5 DEF CreatePosition, a, post

\* Amounts are not negative.
LEMMA ProductIsNat == \A m, n \in Nat : m * n \in Nat
  OBVIOUS

\* _advance_order_fill_state fills an order at most up to its quantity and says FILLED exactly
\* then.
LEMMA AdvancedFine ==
  ASSUME NEW o \in Order, RowFine(o), NEW qty \in 1..MaxQty
  PROVE  Advanced(o, qty) \in Order /\ RowFine(Advanced(o, qty))
<1> DEFINE filled == o.filled + Lesser(qty, o.qty - o.filled)
<1>1. o.filled \in 0..MaxQty /\ o.qty \in 1..MaxQty /\ o.filled <= o.qty
  BY DEF Order, RowFine
<1>2. filled \in 0..MaxQty /\ filled <= o.qty
  BY <1>1, BodyAssumption DEF Lesser
<1> DEFINE status == IF filled >= o.qty THEN "FILLED" ELSE "PARTIAL"
<1>3. Advanced(o, qty) = [o EXCEPT !.filled = filled, !.status = status]
  BY DEF Advanced
<1>4. status \in Statuses /\ (status = "FILLED" <=> filled = o.qty)
  BY <1>1, <1>2 DEF Statuses
<1> HIDE DEF filled, status
<1>5. /\ [o EXCEPT !.filled = filled, !.status = status] \in Order
      /\ [o EXCEPT !.filled = filled, !.status = status].filled = filled
      /\ [o EXCEPT !.filled = filled, !.status = status].status = status
      /\ [o EXCEPT !.filled = filled, !.status = status].qty = o.qty
  BY <1>2, <1>4 DEF Order
<1> QED
  BY <1>2, <1>3, <1>4, <1>5 DEF RowFine

\* A leg of a fill preserves the invariant: a debit is guarded by the balance it changes.
LEMMA PostInv ==
  ASSUME IInv, NEW t \in Requests, NEW leg \in {"buyer", "seller"}, Post(t, leg)
  PROVE  IInv'
<1> DEFINE a == LegAccount(t, leg)
           amount == tx[t].applied * FillPrice(t)
           id == IF leg = "buyer" THEN BuyId(t) ELSE SellId(t)
<1>1. tx[t].pc \in Legs
  BY DEF Post, Legs
<1>2. /\ tx[t] \in TxType /\ TxFine(t) /\ tx[t].body \in Submits
      /\ a \in Accounts /\ id \in OrderIds /\ ordersW[id] \in Order
      /\ tx[t].applied \in 1..MaxQty /\ FillPrice(t) \in Ticks
      /\ BuyId(t) \in OrderIds /\ SellId(t) \in OrderIds /\ t \in OrderIds
  BY <1>1, LegFacts DEF OrderIds
<1>3. amount \in Nat
  <2>1. tx[t].applied \in Nat /\ FillPrice(t) \in Nat
    BY <1>2, BodyAssumption DEF Ticks
  <2> QED
    BY <2>1, ProductIsNat
<1> HIDE DEF a, amount, id
<1>4. CASE Abort(t)
  <2>1. WorldType'
    BY <1>4 DEF Post, Abort, IInv, TypeOK, WorldType, world
  <2> QED
    BY <1>4, <2>1, AbortInv
<1>5. CASE Swallow(t)
  <2> DEFINE r == [tx[t] EXCEPT !.pc = "swallowed", !.made = @ \cup {TheFill(t)}]
  <2>1. tx' = [tx EXCEPT ![t] = r] /\ KeepRows /\ WorldType'
    BY ZenonT(40), <1>5 DEF Swallow, Post, IInv, TypeOK, WorldType, world
  <2>2. TheFill(t) \in Fill
    BY <1>2 DEF TheFill, Fill
  <2>3. r \in TxType
    BY <1>2, <2>2 DEF TxType, Working
  <2>4. tx'[t].pc = "swallowed" /\ tx'[t].snap = tx[t].snap /\ orders' = orders
    BY <1>2, <2>1 DEF IInv, TypeOK, TxType, KeepRows, orderRows
  <2>5. TxFine(t)'
    BY <1>2, <2>4 DEF TxFine, Unplaced, Submitting, Cancelling, Matching, Legs
  <2> QED
    BY <2>1, <2>3, <2>5, AssembleLocal
<1>6. CASE ~(leg = "buyer" /\ Overdrawn(t, a, amount))
  <2>1. /\ cashBy' = [cashBy EXCEPT ![a] = t]
        /\ cashW' = [cashW EXCEPT ![a] = IF leg = "buyer" THEN Balance(t, a) - amount
                                         ELSE Balance(t, a) + amount]
        /\ posBy' = [posBy EXCEPT ![a] = t]
        /\ posW' = [posW EXCEPT ![a] = IF leg = "buyer" THEN tx[t].posSeen + tx[t].applied
                                       ELSE tx[t].posSeen - tx[t].applied]
        /\ ordersW' = [ordersW EXCEPT ![id] = Advanced(ordersW[id], tx[t].applied)]
        /\ IF leg = "buyer"
           THEN /\ tx' = [tx EXCEPT ![t].pc = "seller"]
                /\ UNCHANGED published
           ELSE /\ tx' = [tx EXCEPT ![t].pc = "match", ![t].left = @ - tx[t].want,
                                    ![t].made = @ \cup {TheFill(t)}, ![t].maker = None,
                                    ![t].want = 0, ![t].applied = 0, ![t].posSeen = 0]
                /\ published' = published \cup {TheFill(t)}
        /\ UNCHANGED <<clock, cash, pos, orders, orderBy, fills>>
        /\ UNCHANGED world
    BY <1>2, <1>6 DEF Post, a, amount, id, IInv, TypeOK
  <2> DEFINE row == Advanced(ordersW[id], tx[t].applied)
  <2>2. row \in Order /\ RowFine(row) /\ row # None
    <3>1. ordersW[id] # None
      BY <1>2, SeedAssumption
    <3> QED
      BY <1>2, <3>1, AdvancedFine, SeedAssumption DEF IInv, RowsFine
  <2> HIDE DEF row
  <2>3. ordersW' = [ordersW EXCEPT ![id] = row]
    BY <2>1 DEF row
  <2>4. cashW[a] \in Int /\ cashW'[a] \in Int /\ cashW'[a] >= 0
    BY <1>2, <1>3, <1>6, <2>1 DEF IInv, TypeOK, CashFine, Overdrawn, Balance
  <2>5. tx[t].posSeen \in Int
    BY <1>2 DEF TxType
  <2>6. RowType'
    BY <1>2, <2>1, <2>2, <2>3, <2>4, <2>5, BodyAssumption DEF IInv, TypeOK, RowType
  <2>7. CashFine'
    BY <1>2, <2>1, <2>4 DEF IInv, TypeOK, CashFine
  <2>8. RowsFine'
    BY <1>2, <2>1, <2>2, <2>3 DEF IInv, TypeOK, RowsFine, RowFine
  <2>9. orderBy[id] = t
    BY <1>1, <1>2 DEF TxFine, Matching, BuyId, SellId, id
  <2>10. Synced'
    BY <1>2, <2>1, <2>2, <2>3, <2>9, SeedAssumption DEF IInv, TypeOK, Synced, Lockers
  <2>11. OrdersKept(t)
    BY <1>2, <2>1, <2>2, <2>3 DEF IInv, TypeOK, OrdersKept, OrderIds
  <2>12. TheFill(t) \in Fill
    BY <1>2 DEF TheFill, Fill
  <2>13. WorldType'
    BY <2>1, <2>12 DEF IInv, TypeOK, WorldType, world
  <2>14. ordersW'[t] # None /\ orderBy'[t] = t /\ orders' = orders
    BY <1>1, <1>2, <2>1, <2>2, <2>3 DEF IInv, TypeOK, TxFine, Matching
  <2>15. CASE leg = "buyer"
    <3> DEFINE r == [tx[t] EXCEPT !.pc = "seller"]
    <3>1. tx' = [tx EXCEPT ![t] = r]
      BY <2>1, <2>15
    <3>2. /\ r \in TxType /\ r.pc \in Legs /\ r.body = tx[t].body /\ r.snap = tx[t].snap
          /\ r.maker = tx[t].maker /\ r.applied = tx[t].applied /\ r.want = tx[t].want
          /\ r.left = tx[t].left
      BY <1>2 DEF TxType, Working, Legs
    <3>3. TxFine(t)'
      BY <1>1, <2>1, <2>14, <3>1, <3>2, LegStepFine
    <3> QED
      BY <3>1, <3>2, <3>3, <2>6, <2>7, <2>8, <2>10, <2>11, <2>13, Assemble
  <2>16. CASE leg # "buyer"
    <3> DEFINE r == [tx[t] EXCEPT !.pc = "match", !.left = @ - tx[t].want,
                                  !.made = @ \cup {TheFill(t)}, !.maker = None,
                                  !.want = 0, !.applied = 0, !.posSeen = 0]
    <3>1. tx' = [tx EXCEPT ![t] = r]
      BY ZenonT(40), <2>1, <2>16
    <3>2. /\ tx[t].left - tx[t].want \in 0..MaxQty /\ tx[t].made \cup {TheFill(t)} \in SUBSET Fill
          /\ 0 \in 0..MaxQty /\ None \in OrderIds \cup {None} /\ 0 \in Int
      BY <1>1, <1>2, <2>12, BodyAssumption DEF TxType, TxFine
    <3>3. r \in TxType
      BY <1>2, <3>2 DEF TxType, Working
    <3>4. /\ tx'[t].pc = "match" /\ tx'[t].body = tx[t].body /\ tx'[t].snap = tx[t].snap
      BY <1>2, <3>1 DEF IInv, TypeOK, TxType
    <3>5. TxFine(t)'
      BY <1>2, <2>14, <3>4 DEF TxFine, Unplaced, Submitting, Cancelling, Matching, Legs
    <3> QED
      BY <3>1, <3>3, <3>5, <2>6, <2>7, <2>8, <2>10, <2>11, <2>13, Assemble
  <2> QED
    BY <2>15, <2>16
<1> QED
  BY <1>4, <1>6, <1>5 DEF Post, a, amount, id

\* Committing makes the versions of one transaction, as w rewrites them, the rows.
LEMMA CommitFine ==
  ASSUME IInv, NEW s \in Lockers, NEW w, CommitRows(s),
         orders' = [o \in OrderIds |-> IF orderBy[o] = s THEN w[o] ELSE orders[o]],
         ordersW' = [o \in OrderIds |-> IF orderBy[o] = s THEN w[o] ELSE ordersW[o]],
         \A o \in OrderIds : orderBy[o] = s =>
            /\ w[o] \in Order \cup {None}
            /\ ordersW[o] # None => w[o] # None
            /\ w[o] # None => RowFine(w[o])
  PROVE  RowType' /\ CashFine' /\ RowsFine' /\ Synced' /\ OrdersKept(s)
<1>1. RowType'
  BY DEF IInv, TypeOK, RowType, CommitRows
<1>2. CashFine'
  BY DEF IInv, TypeOK, CashFine, CommitRows
<1>3. RowsFine'
  BY DEF IInv, TypeOK, RowsFine, RowFine
<1>4. Synced'
  BY SeedAssumption DEF IInv, TypeOK, Synced, CommitRows
<1>5. OrdersKept(s)
  BY SeedAssumption DEF IInv, TypeOK, Synced, OrdersKept, CommitRows, OrderIds, Lockers
<1> QED
  BY <1>1, <1>2, <1>3, <1>4, <1>5

\* Committing a submission, with the remainder of a market order cancelled, preserves the
\* invariant.
LEMMA CommitInv ==
  ASSUME IInv, NEW t \in Requests, Commit(t)
  PROVE  IInv'
<1> DEFINE closed == [ordersW[t] EXCEPT !.status = "CANCELLED"]
           w == [o \in OrderIds |->
                   IF o = t /\ ordersW[t].kind = "market" /\ ordersW[t].filled < ordersW[t].qty
                   THEN closed ELSE ordersW[o]]
<1>1. /\ tx[t] \in TxType /\ TxFine(t) /\ tx[t].pc = "match"
      /\ t \in OrderIds /\ t \in Lockers /\ orderBy[t] = t /\ ordersW[t] # None
  BY DEF Commit, IInv, TypeOK, TxFine, Matching, OrderIds, Lockers
<1>2. ordersW[t] \in Order /\ RowFine(ordersW[t])
  BY <1>1 DEF IInv, TypeOK, RowsFine
<1>3. closed \in Order /\ closed.status = "CANCELLED" /\ closed.filled = ordersW[t].filled
      /\ closed.qty = ordersW[t].qty
  BY <1>2 DEF Order, Statuses
<1>4. closed # None /\ (ordersW[t].filled < ordersW[t].qty => RowFine(closed))
  BY <1>2, <1>3, SeedAssumption, BodyAssumption DEF RowFine, Order
<1> HIDE DEF closed
<1>5. \A o \in OrderIds : orderBy[o] = t =>
            /\ w[o] \in Order \cup {None}
            /\ ordersW[o] # None => w[o] # None
            /\ w[o] # None => RowFine(w[o])
  BY <1>1, <1>3, <1>4 DEF IInv, TypeOK, RowsFine
<1>6. /\ CommitRows(t)
      /\ orders' = [o \in OrderIds |-> IF orderBy[o] = t THEN w[o] ELSE orders[o]]
      /\ ordersW' = [o \in OrderIds |-> IF orderBy[o] = t THEN w[o] ELSE ordersW[o]]
  BY DEF Commit, closed
<1> HIDE DEF w
<1>7. RowType' /\ CashFine' /\ RowsFine' /\ Synced' /\ OrdersKept(t)
  BY <1>1, <1>5, <1>6, CommitFine
<1>8. tx' = [tx EXCEPT ![t] = EndedTx(t, "done", t)] /\ "done" \in Ended
  BY DEF Commit, Ended
<1>9. EndedTx(t, "done", t) \in TxType
  BY <1>1, <1>8, EndedType DEF IInv
<1>10. TxFine(t)'
  BY <1>1, <1>8, EndedFine
<1>11. WorldType'
  BY <1>1 DEF Commit, IInv, TypeOK, WorldType, world, TxType
<1> QED
  BY <1>7, <1>8, <1>9, <1>10, <1>11, Assemble

\* Committing what a failed submission of a pass left preserves the invariant.
LEMMA CommitSwallowedInv ==
  ASSUME IInv, NEW t \in Requests, CommitSwallowed(t)
  PROVE  IInv'
<1>1. "refused" \in Ended /\ t \in Lockers /\ tx[t].made \in SUBSET Fill
  BY DEF Ended, Lockers, IInv, TypeOK, TxType
<1>2. ordersW' = [o \in OrderIds |-> IF orderBy[o] = t THEN ordersW[o] ELSE ordersW[o]]
  BY DEF CommitSwallowed, IInv, TypeOK
<1>3. RowType' /\ CashFine' /\ RowsFine' /\ Synced' /\ OrdersKept(t)
  BY <1>1, <1>2, CommitFine DEF CommitSwallowed, IInv, TypeOK, RowsFine
<1>4. tx' = [tx EXCEPT ![t] = EndedTx(t, "refused", None)]
  BY DEF CommitSwallowed
<1>5. EndedTx(t, "refused", None) \in TxType
  BY <1>1, EndedType DEF IInv
<1>6. TxFine(t)'
  BY <1>1, <1>4, EndedFine
<1>7. WorldType'
  BY <1>1 DEF CommitSwallowed, IInv, TypeOK, WorldType, world
<1> QED
  BY <1>3, <1>4, <1>5, <1>6, <1>7, Assemble

\* A cancel request that arrives preserves the invariant.
LEMMA ArriveCancelInv ==
  ASSUME IInv, NEW t \in Requests, NEW b \in Cancels, ArriveCancel(t, b)
  PROVE  IInv'
<1> DEFINE r == [IdleTx EXCEPT !.pc = "cancel", !.body = b]
<1>1. tx' = [tx EXCEPT ![t] = r] /\ KeepRows
  BY DEF ArriveCancel
<1>2. r \in TxType
  BY IdleType DEF TxType, IdleTx, Working
<1>3. TxFine(t)'
  <2>1. tx'[t].pc = "cancel" /\ tx'[t].body = b /\ tx'[t].snap = {}
    BY <1>1 DEF IInv, TypeOK, IdleTx
  <2>2. orders' = orders /\ orders[b.cancel] # None
    BY DEF ArriveCancel, KeepRows, orderRows, Exists
  <2> QED
    BY <2>1, <2>2 DEF TxFine, Unplaced, Submitting, Cancelling, Matching, Legs
<1>4. WorldType'
  BY DEF ArriveCancel, IInv, TypeOK, WorldType, world
<1> QED
  BY <1>1, <1>2, <1>3, <1>4, AssembleLocal

\* cancel_order preserves the invariant: it cancels live orders, which are not full.
LEMMA CancelOrderInv ==
  ASSUME IInv, NEW t \in Requests, CancelOrder(t)
  PROVE  IInv'
<1> DEFINE o == tx[t].body.cancel
           row == [ordersW[o] EXCEPT !.status = "CANCELLED"]
           r == [tx[t] EXCEPT !.pc = "cancelled"]
<1>1. /\ tx[t] \in TxType /\ TxFine(t) /\ tx[t].pc = "cancel"
      /\ tx[t].body \in Cancels /\ orders[o] # None /\ orderBy[o] = None
  BY DEF CancelOrder, IInv, TypeOK, TxFine, Cancelling
<1>2. o \in OrderIds
  BY <1>1, BodyAssumption DEF Cancels
<1>3. CASE Answer(t, "refused", None)
  BY <1>3, AnswerInv DEF CancelOrder, Ended
<1>4. CASE Answer(t, "done", o)
  BY <1>2, <1>4, AnswerInv DEF CancelOrder, Ended
<1>5. CASE /\ orders[o].status \in Live
           /\ ordersW' = [ordersW EXCEPT ![o].status = "CANCELLED"]
           /\ orderBy' = [orderBy EXCEPT ![o] = t]
           /\ tx' = [tx EXCEPT ![t].pc = "cancelled"]
           /\ UNCHANGED <<clock, accountRows, positionRows, orders, fills, published>>
  <2>1. ordersW[o] = orders[o] /\ ordersW[o] \in Order /\ RowFine(ordersW[o])
    BY <1>1, <1>2 DEF IInv, TypeOK, Synced, RowsFine
  <2>2. /\ row \in Order /\ row # None /\ row.status = "CANCELLED"
        /\ row.filled = ordersW[o].filled /\ row.qty = ordersW[o].qty
    BY <2>1, SeedAssumption DEF Order, Statuses
  <2>3. RowFine(row)
    BY <1>5, <2>1, <2>2 DEF RowFine, Live
  <2>4. ordersW' = [ordersW EXCEPT ![o] = row]
    BY <1>5
  <2> HIDE DEF row
  <2>5. RowType'
    BY SMTT(30), <1>2, <1>5, <2>2, <2>4 DEF IInv, TypeOK, RowType, accountRows, positionRows, Lockers
  <2>6. CashFine' /\ RowsFine'
    <3>1. CashFine'
      BY <1>5 DEF IInv, CashFine, accountRows
    <3>2. ASSUME NEW x \in OrderIds
          PROVE  /\ orders'[x] # None => RowFine(orders'[x])
                 /\ ordersW'[x] # None => RowFine(ordersW'[x])
      <4>1. ordersW \in [OrderIds -> Order \cup {None}] /\ RowsFine
        BY DEF IInv, TypeOK, RowType
      <4>2. orders' = orders
        BY <1>5
      <4>3. ordersW'[x] = IF x = o THEN row ELSE ordersW[x]
        BY <2>4, <4>1
      <4> QED BY <2>3, <4>1, <4>2, <4>3 DEF RowsFine
    <3>3. RowsFine'
      BY <3>2 DEF RowsFine
    <3> QED BY <3>1, <3>3
  <2>7. Synced' /\ OrdersKept(t)
    BY <1>1, <1>2, <1>5, <2>2, <2>4, SeedAssumption
    DEF IInv, TypeOK, Synced, OrdersKept, Lockers, OrderIds
  <2>8. tx' = [tx EXCEPT ![t] = r]
    BY <1>5
  <2>9. r \in TxType
    BY <1>1 DEF TxType, Working
  <2>10. TxFine(t)'
    <3>1. tx'[t].pc = "cancelled" /\ tx'[t].body = tx[t].body /\ tx'[t].snap = tx[t].snap
      BY <1>1, <2>8 DEF IInv, TypeOK, TxType
    <3> QED
      BY <1>1, <1>5, <3>1 DEF TxFine, Unplaced, Submitting, Cancelling, Matching, Legs
  <2>11. WorldType'
    BY <1>5 DEF CancelOrder, IInv, TypeOK, WorldType, world
  <2> QED
    BY <2>5, <2>6, <2>7, <2>8, <2>9, <2>10, <2>11, Assemble
<1> QED
  BY SMTT(30), <1>3, <1>4, <1>5 DEF CancelOrder

\* Committing a cancellation preserves the invariant.
LEMMA CommitCancelInv ==
  ASSUME IInv, NEW t \in Requests, CommitCancel(t)
  PROVE  IInv'
<1>1. tx[t].body.cancel \in OrderIds /\ "done" \in Ended /\ t \in Lockers
  BY BodyAssumption DEF CommitCancel, IInv, TxFine, Cancelling, Cancels, Ended, Lockers
<1>2. ordersW' = [o \in OrderIds |-> IF orderBy[o] = t THEN ordersW[o] ELSE ordersW[o]]
  BY DEF CommitCancel, IInv, TypeOK
<1>3. RowType' /\ CashFine' /\ RowsFine' /\ Synced' /\ OrdersKept(t)
  BY <1>1, <1>2, CommitFine DEF CommitCancel, IInv, TypeOK, RowsFine
<1>4. tx' = [tx EXCEPT ![t] = EndedTx(t, "done", tx[t].body.cancel)]
  BY DEF CommitCancel
<1>5. EndedTx(t, "done", tx[t].body.cancel) \in TxType
  BY <1>1, EndedType DEF IInv
<1>6. TxFine(t)'
  BY <1>1, <1>4, EndedFine
<1>7. WorldType'
  BY DEF CommitCancel, IInv, TypeOK, WorldType, world
<1> QED
  BY <1>3, <1>4, <1>5, <1>6, <1>7, Assemble

\* A step of no request preserves the invariant if it does so for the rows.
LEMMA AssembleOutside ==
  ASSUME IInv, NEW s, s \notin Requests, UNCHANGED tx,
         WorldType', RowType', CashFine', RowsFine', Synced', OrdersKept(s)
  PROVE  IInv'
<1>1. \A u \in Requests : TxFine(u)'
  BY OthersFine
<1> QED
  BY <1>1 DEF IInv, TypeOK, WorldType, RowType

\* The expiry sweep preserves the invariant: it cancels live rows nobody has locked.
LEMMA SweepExpiredInv ==
  ASSUME IInv, SweepExpired
  PROVE  IInv'
<1>1. PICK batch \in SUBSET {o \in Lapsed : orderBy[o] = None} :
        /\ ordersW' = [o \in OrderIds |->
                         IF o \in batch THEN [ordersW[o] EXCEPT !.status = "CANCELLED"]
                         ELSE ordersW[o]]
        /\ orderBy' = [o \in OrderIds |-> IF o \in batch THEN Sweeper ELSE orderBy[o]]
  BY DEF SweepExpired
<1>2. /\ UNCHANGED <<world, clock, accountRows, positionRows, orders, fills, published, tx>>
      /\ Sweeper \notin Requests /\ Sweeper # None
  BY SeedAssumption DEF SweepExpired, Lockers
<1>3. ASSUME NEW o \in batch
      PROVE  /\ o \in OrderIds /\ orders[o] # None /\ orderBy[o] = None
             /\ [ordersW[o] EXCEPT !.status = "CANCELLED"] \in Order
             /\ RowFine([ordersW[o] EXCEPT !.status = "CANCELLED"])
  <2>1. o \in OrderIds /\ orders[o] # None /\ orders[o].status \in Live /\ orderBy[o] = None
    BY DEF Lapsed, Exists
  <2>2. ordersW[o] = orders[o] /\ ordersW[o] \in Order /\ RowFine(ordersW[o])
    BY <2>1 DEF IInv, TypeOK, Synced, RowsFine
  <2> QED
    BY <2>1, <2>2 DEF Order, Statuses, RowFine, Live
<1>4. \A o \in batch : ordersW'[o] \in Order /\ RowFine(ordersW'[o]) /\ ordersW'[o] # None
  BY <1>1, <1>3, SeedAssumption
<1>5. \A o \in OrderIds \ batch : ordersW'[o] = ordersW[o] /\ orderBy'[o] = orderBy[o]
  BY <1>1
<1>6. /\ ordersW' \in [OrderIds -> Order \cup {None}]
      /\ orderBy' \in [OrderIds -> Lockers \cup {None}]
  BY <1>1, <1>3 DEF IInv, TypeOK, Lockers
<1>7. RowType'
  BY <1>2, <1>6 DEF IInv, TypeOK, RowType, accountRows, positionRows
<1>8. CashFine' /\ RowsFine'
  BY <1>2, <1>3, <1>4, <1>5 DEF IInv, CashFine, RowsFine, RowFine, accountRows
<1>9. Synced'
  <2>1. \A o \in batch : orderBy'[o] = Sweeper
    BY <1>1, <1>3
  <2> QED
    BY <1>2, <1>4, <1>5, <2>1 DEF IInv, Synced
<1>10. OrdersKept(Sweeper)
  BY ZenonT(40), <1>2, <1>3, <1>4, <1>5, SeedAssumption DEF IInv, TypeOK, OrdersKept, OrderIds, Lockers
<1>11. WorldType'
  BY <1>2 DEF IInv, TypeOK, WorldType, world
<1> QED
  BY <1>2, <1>7, <1>8, <1>9, <1>10, <1>11, AssembleOutside

\* Committing a sweep preserves the invariant.
LEMMA CommitSweepInv ==
  ASSUME IInv, CommitSweep
  PROVE  IInv'
<1>1. Sweeper \in Lockers /\ Sweeper \notin Requests
  BY SeedAssumption DEF Lockers
<1>2. ordersW' = [o \in OrderIds |-> IF orderBy[o] = Sweeper THEN ordersW[o] ELSE ordersW[o]]
  BY DEF CommitSweep, IInv, TypeOK
<1>3. RowType' /\ CashFine' /\ RowsFine' /\ Synced' /\ OrdersKept(Sweeper)
  BY <1>1, <1>2, CommitFine DEF CommitSweep, IInv, TypeOK, RowsFine
<1>4. WorldType' /\ UNCHANGED tx
  BY DEF CommitSweep, IInv, TypeOK, WorldType, world
<1> QED
  BY <1>1, <1>3, <1>4, AssembleOutside

\* Pauses and the passing of time touch no row and no request.
LEMMA WorldInv ==
  ASSUME IInv, TogglePause \/ TimePasses \/ UNCHANGED vars
  PROVE  IInv'
<1>1. UNCHANGED tx /\ KeepRows
  BY DEF TogglePause, TimePasses, vars, KeepRows
<1>2. WorldType'
  <2>1. CASE TogglePause
    BY <2>1, BodyAssumption DEF TogglePause, IInv, TypeOK, WorldType
  <2>2. CASE TimePasses
    BY <2>2 DEF TimePasses, IInv, TypeOK, WorldType
  <2>3. CASE UNCHANGED vars
    BY <2>3 DEF vars, world, IInv, TypeOK, WorldType
  <2> QED
    BY <2>1, <2>2, <2>3
<1>3. RowType'
  BY <1>1 DEF IInv, TypeOK, RowType, KeepRows, accountRows, positionRows, orderRows
<1>4. CashFine' /\ RowsFine' /\ Synced' /\ OrdersKept(Sweeper)
  BY <1>1 DEF IInv, CashFine, RowsFine, RowFine, Synced, OrdersKept, KeepRows, accountRows,
              orderRows
<1> QED
  BY <1>1, <1>2, <1>3, <1>4, SeedAssumption, AssembleOutside

\* Crashes and deadlock victims preserve the invariant.
LEMMA LostInv ==
  ASSUME IInv, NEW t \in Requests, Crash(t) \/ DeadlockVictim(t)
  PROVE  IInv'
<1>1. Abort(t)
  BY DEF Crash, DeadlockVictim
<1>2. WorldType'
  BY BodyAssumption DEF Abort, Crash, DeadlockVictim, IInv, TypeOK, WorldType, world
<1> QED
  BY <1>1, <1>2, AbortInv

\* Every statement of a request preserves the invariant.
LEMMA StepInv ==
  ASSUME IInv, NEW t \in Requests, Step(t)
  PROVE  IInv'
  BY PriceInv, ReserveInv, InsertInv, LockOrdersInv, ReadPositionInv, CreatePositionInv,
     PostInv, CommitInv, CommitSwallowedInv, CancelOrderInv, CommitCancelInv, LostInv DEF Step

\* Every step preserves the invariant.
LEMMA NextInv ==
  ASSUME IInv, [Next]_vars
  PROVE  IInv'
<1>1. CASE \E t \in Requests :
             \/ \E b \in Submits : Arrive(t, b)
             \/ \E b \in Cancels : ArriveCancel(t, b)
             \/ Step(t)
             \/ Crash(t)
  BY <1>1, ArriveInv, ArriveCancelInv, StepInv, LostInv
<1>2. CASE SweepExpired \/ CommitSweep
  BY <1>2, SweepExpiredInv, CommitSweepInv
<1>3. CASE TogglePause \/ TimePasses \/ Quiet
  BY <1>3, WorldInv DEF Quiet
<1>4. CASE UNCHANGED vars
  BY <1>4, WorldInv
<1> QED
  BY <1>1, <1>2, <1>3, <1>4 DEF Next

-------------------------------------------------------------------------------------
(* The theorems.                                                                   *)

\* The invariant holds in every state the service can reach.
THEOREM Invariance == Spec => []IInv
<1>1. Init => IInv
  BY InitInv
<1>2. IInv /\ [Next]_vars => IInv'
  BY NextInv
<1> QED
  BY <1>1, <1>2, PTL DEF Spec

\* Rows, locks and what each HTTP request keeps in its session keep their types, whichever
\* requests, sweeps and lost connections interleave.
THEOREM Typed == Spec => []TypeOK
<1>1. IInv => TypeOK
  BY DEF IInv
<1> QED
  BY <1>1, Invariance, PTL

\* No order is filled beyond its quantity and FILLED means full, for any number of
\* requests matching in private, stale books.
THEOREM NeverOverfilled == Spec => []NoOverfill
<1>1. IInv => NoOverfill
  BY DEF IInv, RowsFine, RowFine, NoOverfill, Exists
<1> QED
  BY <1>1, Invariance, PTL

\* No account is overdrawn: each debit of LedgerService is guarded by the balance it changes,
\* so it does not matter that submit_order checked another, older balance.
THEOREM NeverOverdrawn == Spec => []CashNeverNegative
<1>1. IInv => CashNeverNegative
  BY DEF IInv, CashFine, CashNeverNegative
<1> QED
  BY <1>1, Invariance, PTL


-------------------------------------------------------------------------------------
(* What becomes of an order.                                                        *)

\* What may become of a row.
Continues(old, new) ==
    /\ new # None
    /\ new.filled >= old.filled
    /\ old.status = "FILLED" => new = old
    /\ new.account = old.account /\ new.key = old.key

Compatible == \A o \in OrderIds : Exists(o) => Continues(orders[o], ordersW[o])

\* A step keeps the committed rows going, and leaves the written ones compatible.
GoesOn ==
    \A o \in OrderIds :
        /\ Exists(o) => Continues(orders[o], orders'[o])
        /\ orders'[o] # None => Continues(orders'[o], ordersW'[o])

FInv == IInv /\ Compatible

-------------------------------------------------------------------------------------
(* The shapes a step can have.                                                     *)

\* Every row is as it was, or was written anew.
LEMMA Rewrites ==
  ASSUME FInv, orders' = orders,
         \A o \in OrderIds : \/ ordersW'[o] = ordersW[o]
                             \/ Exists(o) => Continues(orders[o], ordersW'[o])
  PROVE  GoesOn
  BY DEF FInv, Compatible, GoesOn, Continues, Exists, IInv, TypeOK, Order

\* Every row is as it was, or its new version is the committed one.
LEMMA Commits ==
  ASSUME FInv,
         \A o \in OrderIds :
            \/ orders'[o] = orders[o] /\ ordersW'[o] = ordersW[o]
            \/ /\ orders'[o] = ordersW'[o] /\ ordersW'[o] \in Order \cup {None}
               /\ Exists(o) => Continues(orders[o], ordersW'[o])
  PROVE  GoesOn
  BY DEF FInv, Compatible, GoesOn, Continues, Exists, IInv, TypeOK, Order

\* A step that writes no order.
LEMMA Untouched ==
  ASSUME FInv, UNCHANGED <<orders, ordersW>>
  PROVE  GoesOn
  BY Rewrites

\* Losing a transaction.
LEMMA RollbackGoesOn ==
  ASSUME FInv, NEW t \in Requests, RollbackRows(t)
  PROVE  GoesOn
<1>1. orders' = orders
  BY DEF RollbackRows
<1>2. \A o \in OrderIds : \/ ordersW'[o] = ordersW[o]
                          \/ ordersW'[o] = orders[o]
  BY DEF RollbackRows
<1>3. \A o \in OrderIds : Exists(o) => Continues(orders[o], orders[o])
  BY DEF FInv, IInv, TypeOK, Order, Continues, Exists
<1> QED BY <1>1, <1>2, <1>3, Rewrites

LEMMA AbortGoesOn ==
  ASSUME FInv, NEW t \in Requests, Abort(t)
  PROVE  GoesOn
  BY RollbackGoesOn DEF Abort

\* Committing what was written.
LEMMA PlainCommit ==
  ASSUME FInv, NEW s \in Lockers, ordersW' = ordersW,
         orders' = [o \in OrderIds |-> IF orderBy[o] = s THEN ordersW[o] ELSE orders[o]]
  PROVE  GoesOn
<1>1. \A o \in OrderIds : ordersW[o] \in Order \cup {None}
  BY DEF FInv, IInv, TypeOK
<1>2. \A o \in OrderIds : Exists(o) => Continues(orders[o], ordersW[o])
  BY DEF FInv, Compatible
<1> QED BY <1>1, <1>2, Commits

-------------------------------------------------------------------------------------
(* The actions that write orders.                                                  *)

\* A request inserts its own order, which nobody has seen.
LEMMA InsertGoesOn ==
  ASSUME FInv, NEW t \in Requests, Insert(t)
  PROVE  GoesOn
<1>1. orders[t] = None
  BY DEF FInv, IInv, TxFine, Insert, Unplaced
<1>2. CASE RollbackRows(t)
  BY <1>2, RollbackGoesOn
<1>3. CASE orders' = orders /\ \E row : ordersW' = [ordersW EXCEPT ![t] = row]
  BY <1>1, <1>3, Rewrites DEF FInv, IInv, TypeOK, Exists
<1> QED BY <1>2, <1>3 DEF Insert

\* Advancing an order that is full changes nothing.
LEMMA FullStays ==
  ASSUME NEW o \in Order, RowFine(o), o.status = "FILLED", NEW qty \in 1..MaxQty
  PROVE  Advanced(o, qty) = o
<1>1. o.filled = o.qty /\ o.filled \in Int
  BY DEF Order, RowFine
<1> DEFINE filled == o.filled + Lesser(qty, o.qty - o.filled)
<1>2. filled = o.filled
  <2>1. o.qty - o.filled = 0 /\ qty \in Nat /\ qty > 0
    BY <1>1, BodyAssumption
  <2>2. Lesser(qty, o.qty - o.filled) = 0
    BY <2>1 DEF Lesser
  <2> QED BY <1>1, <2>2
<1> DEFINE status == IF filled >= o.qty THEN "FILLED" ELSE "PARTIAL"
<1>3. status = o.status
  BY <1>1, <1>2
<1>4. Advanced(o, qty) = [o EXCEPT !.filled = filled, !.status = status]
  BY DEF Advanced
<1> HIDE DEF filled, status
<1>5. [o EXCEPT !.filled = o.filled, !.status = o.status] = o
  BY DEF Order
<1> QED BY <1>2, <1>3, <1>4, <1>5

\* A fill advances its order, and leaves one alone that is full.
LEMMA PostGoesOn ==
  ASSUME FInv, NEW t \in Requests, NEW leg \in {"buyer", "seller"}, Post(t, leg)
  PROVE  GoesOn
<1> DEFINE id == IF leg = "buyer" THEN BuyId(t) ELSE SellId(t)
           row == Advanced(ordersW[id], tx[t].applied)
<1>1. CASE Abort(t)
  BY <1>1, AbortGoesOn
<1>2. CASE Swallow(t)
  BY <1>2, Untouched DEF Swallow, KeepRows, orderRows
<1>3. CASE orders' = orders /\ ordersW' = [ordersW EXCEPT ![id] = row]
  <2>1. id \in OrderIds /\ ordersW[id] \in Order /\ RowFine(ordersW[id]) /\ tx[t].applied \in 1..MaxQty
    <3>1. tx[t].pc \in Legs
      BY DEF Post, Legs
    <3> QED BY <3>1, LegFacts, SeedAssumption DEF FInv, IInv, RowsFine
  <2> HIDE DEF id
  <2>2. row.filled >= ordersW[id].filled
    BY <2>1, BodyAssumption DEF Advanced, Lesser, Order, RowFine
  <2>3. ordersW[id].status = "FILLED" => row = ordersW[id]
    BY <2>1, FullStays
  <2>4. /\ row \in Order /\ row # None
        /\ row.account = ordersW[id].account /\ row.key = ordersW[id].key
    BY ZenonT(40), <2>1, AdvancedFine, SeedAssumption DEF Advanced, Order
  <2> HIDE DEF row
  <2>5. Exists(id) => Continues(orders[id], row)
    BY <2>1, <2>2, <2>3, <2>4 DEF FInv, IInv, TypeOK, Compatible, Continues, Exists, Order
  <2> QED BY <1>3, <2>1, <2>5, Rewrites DEF FInv, IInv, TypeOK
<1> QED BY <1>1, <1>2, <1>3 DEF Post

\* What is left of a market order is cancelled, unless it is full.
LEMMA CommitGoesOn ==
  ASSUME FInv, NEW t \in Requests, Commit(t)
  PROVE  GoesOn
<1> DEFINE closed == [ordersW[t] EXCEPT !.status = "CANCELLED"]
<1>1. t \in OrderIds /\ ordersW[t] \in Order /\ RowFine(ordersW[t])
  BY DEF FInv, IInv, TypeOK, TxFine, RowsFine, Commit, Matching, OrderIds
<1>2. /\ closed \in Order /\ closed.filled = ordersW[t].filled
      /\ closed.account = ordersW[t].account /\ closed.key = ordersW[t].key
  BY <1>1 DEF Order, Statuses
<1>3. ordersW[t].filled < ordersW[t].qty /\ Exists(t) => Continues(orders[t], closed)
  BY SMTT(30), <1>1, <1>2, SeedAssumption DEF FInv, IInv, TypeOK, Compatible, Continues, RowFine, Order, Exists
<1>4. \A o \in OrderIds : orderBy[o] = t =>
         /\ orders'[o] = ordersW'[o]
         /\ \/ ordersW'[o] = ordersW[o]
            \/ o = t /\ ordersW'[o] = closed /\ ordersW[t].filled < ordersW[t].qty
  BY DEF Commit
<1>5. \A o \in OrderIds : orderBy[o] # t => orders'[o] = orders[o] /\ ordersW'[o] = ordersW[o]
  BY DEF Commit
<1> HIDE DEF closed
<1>6. \A o \in OrderIds : /\ ordersW[o] \in Order \cup {None}
                          /\ Exists(o) => Continues(orders[o], ordersW[o])
  BY DEF FInv, IInv, TypeOK, Compatible
<1> QED BY <1>2, <1>3, <1>4, <1>5, <1>6, Commits

\* Only a live order that nobody has locked is cancelled.
LEMMA CancelGoesOn ==
  ASSUME FInv, NEW t \in Requests, CancelOrder(t)
  PROVE  GoesOn
<1> DEFINE o == tx[t].body.cancel
<1>1. CASE UNCHANGED <<orders, ordersW>>
  BY <1>1, Untouched
<1>2. CASE /\ orderBy[o] = None /\ orders[o].status \in Live /\ orders' = orders
           /\ ordersW' = [ordersW EXCEPT ![o].status = "CANCELLED"]
  <2>1. o \in OrderIds /\ orders[o] \in Order /\ ordersW[o] = orders[o]
    BY <1>2, BodyAssumption
       DEF FInv, IInv, TypeOK, TxFine, Synced, CancelOrder, Cancelling, Cancels
  <2> HIDE DEF o
  <2> DEFINE row == [ordersW[o] EXCEPT !.status = "CANCELLED"]
  <2>2. /\ row \in Order /\ row.filled = orders[o].filled
        /\ row.account = orders[o].account /\ row.key = orders[o].key
        /\ ordersW' = [ordersW EXCEPT ![o] = row]
    BY <1>2, <2>1 DEF Order, Statuses, o
  <2> HIDE DEF row
  <2>3. Continues(orders[o], row)
    BY <1>2, <2>1, <2>2, SeedAssumption DEF Continues, Live, Order
  <2> QED BY SMTT(30), <1>2, <2>2, <2>3, Rewrites DEF FInv, IInv, TypeOK
<1> QED BY <1>1, <1>2 DEF CancelOrder, Answer, KeepRows, orderRows

\* So does the worker.
LEMMA SweepGoesOn ==
  ASSUME FInv, SweepExpired
  PROVE  GoesOn
<1>1. orders' = orders
  BY DEF SweepExpired
<1>2. PICK batch \in SUBSET {o \in Lapsed : orderBy[o] = None} :
         ordersW' = [o \in OrderIds |-> IF o \in batch THEN [ordersW[o] EXCEPT !.status = "CANCELLED"]
                                        ELSE ordersW[o]]
  BY DEF SweepExpired
<1>3. ASSUME NEW o \in batch PROVE Continues(orders[o], ordersW'[o])
  <2>1. o \in OrderIds /\ orders[o] \in Order /\ ordersW[o] = orders[o] /\ orders[o].status \in Live
    BY DEF Lapsed, FInv, IInv, TypeOK, Synced, Exists
  <2>2. ordersW'[o] = [orders[o] EXCEPT !.status = "CANCELLED"]
    BY <1>2, <2>1
  <2>3. /\ ordersW'[o] \in Order /\ ordersW'[o].filled = orders[o].filled
        /\ ordersW'[o].account = orders[o].account /\ ordersW'[o].key = orders[o].key
    BY <2>1, <2>2 DEF Order, Statuses
  <2> QED BY <2>1, <2>3, SeedAssumption DEF Continues, Live, Order
<1> QED BY <1>1, <1>2, <1>3, Rewrites

-------------------------------------------------------------------------------------
(* Trades are final.                                                               *)

\* No step undoes a trade.
LEMMA NextGoesOn ==
  ASSUME FInv, [Next]_vars
  PROVE  GoesOn
<1>1. ASSUME NEW t \in Requests, NEW b \in Submits, Arrive(t, b) PROVE GoesOn
  BY <1>1, Untouched DEF Arrive, Answer, KeepRows, orderRows
<1>2. ASSUME NEW t \in Requests, NEW b \in Cancels, ArriveCancel(t, b) PROVE GoesOn
  BY <1>2, Untouched DEF ArriveCancel, KeepRows, orderRows
<1>3. ASSUME NEW t \in Requests, Step(t) PROVE GoesOn
  <2>1. CASE Price(t) \/ Reserve(t) \/ LockOrders(t)
    BY ZenonT(40), <2>1, Untouched, AbortGoesOn DEF Price, Reserve, LockOrders, Answer, KeepRows, orderRows
  <2>2. ASSUME NEW leg \in {"buyer", "seller"}, ReadPosition(t, leg) \/ CreatePosition(t, leg)
        PROVE  GoesOn
    BY <2>2, Untouched, AbortGoesOn DEF ReadPosition, CreatePosition, KeepRows, orderRows
  <2>3. CASE CommitSwallowed(t) \/ CommitCancel(t)
    BY <2>3, PlainCommit DEF CommitSwallowed, CommitCancel, Lockers
  <2>4. CASE DeadlockVictim(t)
    BY <2>4, AbortGoesOn DEF DeadlockVictim
  <2> QED BY SMTT(30), <1>3, <2>1, <2>2, <2>3, <2>4, InsertGoesOn, PostGoesOn, CommitGoesOn, CancelGoesOn
          DEF Step
<1>4. ASSUME NEW t \in Requests, Crash(t) PROVE GoesOn
  BY <1>4, AbortGoesOn DEF Crash
<1>5. CASE CommitSweep
  BY <1>5, PlainCommit DEF CommitSweep, Lockers
<1>6. CASE TogglePause \/ TimePasses \/ UNCHANGED vars
  BY <1>6, Untouched DEF TogglePause, TimePasses, KeepRows, vars, orderRows
<1> QED BY <1>1, <1>2, <1>3, <1>4, <1>5, <1>6, SweepGoesOn DEF Next, Quiet

LEMMA InitFInv == Init => FInv
<1> SUFFICES ASSUME Init PROVE FInv
  OBVIOUS
<1>1. IInv /\ ordersW = orders
  BY InitInv DEF Init
<1> QED BY <1>1 DEF FInv, IInv, TypeOK, Compatible, Continues, Exists, Order

LEMMA NextFInv == FInv /\ [Next]_vars => FInv'
  BY NextInv, NextGoesOn DEF FInv, GoesOn, Compatible, Exists

\* An order's filled quantity never goes down and a filled order never changes again: no
\* late cancel, expiry sweep, rollback or stale taker undoes a trade that was committed.
THEOREM TradesAreFinal == Spec => FilledIsFinal
<1> DEFINE Final == \A o \in OrderIds : Exists(o) =>
                       /\ orders'[o] # None
                       /\ orders'[o].filled >= orders[o].filled
                       /\ orders[o].status = "FILLED" => orders'[o] = orders[o]
<1>1. Init => FInv
  BY InitFInv
<1>2. FInv /\ [Next]_vars => FInv'
  BY NextFInv
<1>3. FInv /\ [Next]_vars => [Final]_orders
  BY NextGoesOn DEF GoesOn, Continues
<1>4. Spec => [][Final]_orders
  <2> HIDE DEF Final
  <2> QED BY <1>1, <1>2, <1>3, PTL DEF Spec
<1> QED BY <1>4 DEF FilledIsFinal

-------------------------------------------------------------------------------------
(* A key makes one order.  A request holds the lock of its account from Reserve to   *)
(* its end, so between its look for the key and its commit nobody commits another    *)
(* order of that account.                                                            *)

Placed == Matching \cup {"swallowed"}

Keyed(row, body) == row.account = body.account /\ row.key = body.key

\* The answer is an order that was asked for in these words.
Answers(reply, body) ==
    /\ reply \in OrderIds /\ Exists(reply) /\ orders[reply].account = body.account
    /\ body.key # None => orders[reply].key = body.key

KeyFine(t) ==
    /\ tx[t].pc \in {"insert"} \cup Placed =>
          tx[t].body \in Submits /\ cashBy[tx[t].body.account] = t
    /\ tx[t].pc \in Placed =>
          /\ orders[t] = None /\ ordersW[t] # None /\ Keyed(ordersW[t], tx[t].body)
          /\ ByKey(tx[t].body.account, tx[t].body.key) = {}
    /\ tx[t].pc = "done" /\ tx[t].body \in Submits => Answers(tx[t].reply, tx[t].body)

\* An order that is not committed is in its own request's hands.
InHand(o) ==
    ~Exists(o) /\ ordersW[o] # None => o \in Requests /\ orderBy[o] = o /\ tx[o].pc \in Placed

UniqueKeys ==
    \A o, p \in OrderIds :
        /\ Exists(o) /\ Exists(p)
        /\ orders[o].account = orders[p].account
        /\ orders[o].key = orders[p].key /\ orders[o].key # None
        => o = p

KInv ==
    /\ FInv
    /\ UniqueKeys
    /\ \A o \in OrderIds : InHand(o)
    /\ \A t \in Requests : KeyFine(t)

\* What a step of t leaves to the others: their locks, and the orders not yet committed.
Spares(t) ==
    /\ \A a \in Accounts : cashBy[a] # None /\ cashBy[a] # t => cashBy'[a] = cashBy[a]
    /\ \A o \in OrderIds \ {t} : ~Exists(o) =>
          /\ ~Exists(o)' /\ ordersW'[o] = ordersW[o]
          /\ ordersW[o] # None => orderBy'[o] = orderBy[o]

\* Its own order, if it commits it, is the one it has inserted.
Places(t) ==
    ~Exists(t) /\ Exists(t)' => tx[t].pc \in Placed /\ Keyed(orders'[t], tx[t].body)

LEMMA KeyFrame ==
  ASSUME KInv, FInv', GoesOn, NEW t, Spares(t),
         \A u \in Requests \ {t} : tx'[u] = tx[u],
         t \in Requests => Places(t) /\ InHand(t)' /\ KeyFine(t)',
         t \notin Requests => t \notin OrderIds
  PROVE  KInv'
<1>1. \A o \in OrderIds : Exists(o) => /\ Exists(o)' /\ orders'[o].account = orders[o].account
                                       /\ orders'[o].key = orders[o].key
  BY DEF GoesOn, Continues, Exists
<1>2. \A o \in OrderIds \ {t} : Exists(o)' => Exists(o)
  BY DEF Spares
<1>4. UniqueKeys'
  <2> SUFFICES ASSUME NEW o \in OrderIds, NEW p \in OrderIds, Exists(o)', Exists(p)',
                      orders'[o].account = orders'[p].account, orders'[o].key = orders'[p].key,
                      orders'[o].key # None
               PROVE  o = p
    BY DEF UniqueKeys
  <2>1. CASE Exists(o) /\ Exists(p)
    BY <2>1, <1>1 DEF KInv, UniqueKeys
  <2>2. ASSUME NEW q \in OrderIds, Exists(q), orders'[q].account = orders'[t].account,
               orders'[q].key = orders'[t].key, orders'[q].key # None, ~Exists(t), Exists(t)',
               t \in Requests
        PROVE  FALSE
    <3>1. /\ orders[q].account = tx[t].body.account /\ orders[q].key = tx[t].body.key
          /\ tx[t].pc \in Placed
      BY <2>2, <1>1 DEF Places, Keyed
    <3>2. q \in ByKey(tx[t].body.account, tx[t].body.key)
      BY <2>2, <3>1, <1>1 DEF ByKey
    <3> QED BY <2>2, <3>1, <3>2 DEF KInv, KeyFine
  <2>3. \A q \in OrderIds : Exists(q)' /\ ~Exists(q) => q = t /\ t \in Requests
    BY <1>2
  <2> QED BY <2>1, <2>2, <2>3
<1>5. ASSUME NEW o \in OrderIds PROVE InHand(o)'
  <2>1. CASE o = t
    BY <2>1
  <2>2. CASE o # t
    BY <2>2, <1>1 DEF KInv, InHand, Spares
  <2> QED BY <2>1, <2>2
<1>6. ASSUME NEW u \in Requests PROVE KeyFine(u)'
  <2>1. CASE u = t
    BY <2>1
  <2>2. CASE u # t
    <3>1. u \in OrderIds /\ tx'[u] = tx[u] /\ KeyFine(u)
      BY <2>2 DEF KInv, OrderIds
    <3>2. tx[u].pc \in {"insert"} \cup Placed =>
             tx[u].body \in Submits /\ tx[u].body.account \in Accounts
             /\ cashBy'[tx[u].body.account] = u /\ cashBy[tx[u].body.account] = u
      BY <2>2, <3>1, BodyAssumption, SeedAssumption DEF KeyFine, Spares, Lockers
    <3>3. tx[u].pc \in Placed =>
             orders'[u] = None /\ ordersW'[u] # None /\ Keyed(ordersW'[u], tx[u].body)
      BY <2>2, <3>1 DEF KeyFine, Spares, Exists
    <3>4. tx[u].pc \in Placed => ByKey(tx[u].body.account, tx[u].body.key)' = {}
      <4> SUFFICES ASSUME tx[u].pc \in Placed,
                          NEW o \in ByKey(tx[u].body.account, tx[u].body.key)'
                   PROVE  FALSE
        OBVIOUS
      <4>1. /\ o \in OrderIds /\ Exists(o)' /\ tx[u].body.key # None
            /\ orders'[o].account = tx[u].body.account /\ orders'[o].key = tx[u].body.key
        BY <3>1 DEF ByKey
      <4>2. ~Exists(o)
        BY <4>1, <3>1, <1>1 DEF KeyFine, ByKey
      <4>3. o = t /\ t \in Requests /\ Places(t)
        BY <4>1, <4>2, <1>2
      <4>4. KeyFine(t) /\ tx[t].pc \in Placed /\ tx[t].body.account = tx[u].body.account
        BY <4>1, <4>2, <4>3 DEF Places, Keyed, KInv
      <4> QED BY <2>2, <3>2, <4>4 DEF KeyFine
    <3>5. tx[u].pc = "done" /\ tx[u].body \in Submits => Answers(tx[u].reply, tx[u].body)'
      BY <3>1, <1>1 DEF KeyFine, Answers
    <3> QED BY <3>1, <3>2, <3>3, <3>4, <3>5 DEF KeyFine
  <2> QED BY <2>1, <2>2
<1> QED BY <1>4, <1>5, <1>6 DEF KInv

\* A step that places, ends and answers nothing.
LEMMA WithinKey ==
  ASSUME KInv, FInv', GoesOn, NEW t \in Requests, \A u \in Requests \ {t} : tx'[u] = tx[u],
         orders' = orders,
         \A o \in OrderIds : \/ ordersW'[o] = ordersW[o] \/ Exists(o)
                             \/ /\ o = t /\ ordersW[o] # None /\ ordersW'[o] # None
                                /\ Keyed(ordersW'[o], ordersW[o]),
         \A o \in OrderIds : orderBy'[o] = orderBy[o] \/ Exists(o),
         \A a \in Accounts : \/ cashBy'[a] = cashBy[a]
                             \/ cashBy[a] \in {None, t} /\ cashBy'[a] = t,
         tx'[t].pc \in Placed <=> tx[t].pc \in Placed,
         tx'[t].pc = "insert" => tx[t].pc = "insert",
         tx'[t].pc \in {"insert"} \cup Placed => tx'[t].body = tx[t].body,
         tx'[t].pc # "done"
  PROVE  KInv'
<1>0. t \in OrderIds /\ KeyFine(t) /\ InHand(t) /\ \A o \in OrderIds : Exists(o)' <=> Exists(o)
  BY DEF KInv, OrderIds, Exists
<1>1. Spares(t) /\ Places(t)
  BY DEF Spares, Places, Exists
<1>2. InHand(t)'
  BY <1>0 DEF InHand, Exists
<1>3. KeyFine(t)'
  <2>1. tx'[t].pc \in {"insert"} \cup Placed =>
           /\ tx[t].pc \in {"insert"} \cup Placed /\ tx'[t].body = tx[t].body
           /\ tx[t].body \in Submits /\ cashBy[tx[t].body.account] = t
           /\ tx[t].body.account \in Accounts
    BY <1>0, BodyAssumption DEF KeyFine
  <2>2. tx'[t].pc \in {"insert"} \cup Placed =>
           tx'[t].body \in Submits /\ cashBy'[tx'[t].body.account] = t
    BY <2>1
  <2>3. tx'[t].pc \in Placed =>
           /\ orders'[t] = None /\ ordersW'[t] # None /\ Keyed(ordersW'[t], tx'[t].body)
    BY <1>0, <2>1 DEF KeyFine, Keyed, Exists
  <2>4. tx'[t].pc \in Placed => ByKey(tx[t].body.account, tx[t].body.key)' = {}
    BY <1>0, <2>1 DEF KeyFine, ByKey, Exists
  <2> QED BY <2>2, <2>3, <2>4 DEF KeyFine
<1> QED BY <1>1, <1>2, <1>3, KeyFrame

\* An answer without a commit.
LEMMA AnswerKey ==
  ASSUME KInv, FInv', GoesOn, NEW t \in Requests, NEW pc \in Ended, NEW reply,
         Answer(t, pc, reply), tx[t].pc \notin Placed,
         pc = "done" /\ tx[t].body \in Submits => Answers(reply, tx[t].body)
  PROVE  KInv'
<1>1. /\ tx'[t].pc = pc /\ tx'[t].body = tx[t].body /\ tx'[t].reply = reply
      /\ \A u \in Requests \ {t} : tx'[u] = tx[u]
      /\ UNCHANGED <<orders, ordersW, orderBy, cashBy>>
  BY DEF Answer, EndedTx, IdleTx, KInv, FInv, IInv, TypeOK, KeepRows, accountRows, orderRows
<1>2. Spares(t) /\ Places(t)
  BY <1>1 DEF Spares, Places, Exists
<1>3. InHand(t)'
  BY <1>1 DEF KInv, InHand, Exists, OrderIds
<1>4. pc \notin {"insert"} \cup Placed
  BY DEF Ended, Placed, Matching, Legs
<1>5. KeyFine(t)'
  BY <1>1, <1>4 DEF KeyFine, Answers, Exists
<1> QED BY <1>1, <1>2, <1>3, <1>5, KeyFrame

\* A rollback forgets the order that was placed, and frees the account.
LEMMA RollbackKey ==
  ASSUME KInv, FInv', GoesOn, NEW t \in Requests, NEW pc \in Ended, NEW reply,
         RollbackRows(t), tx' = [tx EXCEPT ![t] = EndedTx(t, pc, reply)],
         pc = "done" /\ tx[t].body \in Submits => Answers(reply, tx[t].body)
  PROVE  KInv'
<1>1. /\ tx'[t].pc = pc /\ tx'[t].body = tx[t].body /\ tx'[t].reply = reply
      /\ \A u \in Requests \ {t} : tx'[u] = tx[u]
  BY DEF EndedTx, IdleTx, KInv, FInv, IInv, TypeOK
<1>2. Spares(t) /\ Places(t)
  BY DEF Spares, Places, Exists, RollbackRows, KInv, InHand
<1>3. InHand(t)'
  BY DEF KInv, InHand, Exists, OrderIds, RollbackRows
<1>4. pc \notin {"insert"} \cup Placed
  BY DEF Ended, Placed, Matching, Legs
<1>5. KeyFine(t)'
  BY <1>1, <1>4 DEF KeyFine, Answers, Exists, RollbackRows
<1> QED BY <1>1, <1>2, <1>3, <1>5, KeyFrame

\* A commit makes the order that was placed one that exists.
LEMMA CommitKey ==
  ASSUME KInv, FInv', GoesOn, NEW t \in Requests, NEW pc \in Ended, NEW reply,
         CommitRows(t), tx' = [tx EXCEPT ![t] = EndedTx(t, pc, reply)],
         \A o \in OrderIds : orderBy[o] # t => orders'[o] = orders[o] /\ ordersW'[o] = ordersW[o],
         \A o \in OrderIds : orderBy[o] = t => /\ orders'[o] = ordersW'[o]
                                               /\ o # t => ordersW'[o] = ordersW[o],
         ordersW[t] = None => ordersW'[t] = None,
         tx[t].pc \in Placed => Keyed(ordersW'[t], ordersW[t]),
         pc = "done" /\ tx[t].body \in Submits => reply = t /\ tx[t].pc \in Matching /\ ordersW'[t] # None
  PROVE  KInv'
<1>0. t \in OrderIds /\ InHand(t) /\ KeyFine(t) /\ TxFine(t)
  BY DEF KInv, FInv, IInv, OrderIds
<1>1. /\ tx'[t].pc = pc /\ tx'[t].body = tx[t].body /\ tx'[t].reply = reply
      /\ \A u \in Requests \ {t} : tx'[u] = tx[u]
  BY DEF EndedTx, IdleTx, KInv, FInv, IInv, TypeOK
<1>2. Spares(t)
  <2>1. ASSUME NEW o \in OrderIds \ {t}, ~Exists(o)
        PROVE  /\ ~Exists(o)' /\ ordersW'[o] = ordersW[o]
               /\ ordersW[o] # None => orderBy'[o] = orderBy[o]
    BY <2>1 DEF KInv, InHand, Exists, CommitRows
  <2> QED BY <2>1 DEF Spares, CommitRows
<1>3. Places(t)
  BY <1>0 DEF Places, Exists, InHand, KeyFine, Keyed
<1>4. InHand(t)'
  BY <1>0 DEF InHand, Exists
<1>5. pc \notin {"insert"} \cup Placed
  BY DEF Ended, Placed, Matching, Legs
<1>6. KeyFine(t)'
  BY <1>0, <1>1, <1>5 DEF KeyFine, Answers, Exists, Keyed, TxFine, Placed
<1> QED BY <1>1, <1>2, <1>3, <1>4, <1>6, KeyFrame

LEMMA LocalOf ==
  ASSUME KInv, NEW t \in Requests, NEW r, tx' = [tx EXCEPT ![t] = r]
  PROVE  tx'[t] = r /\ \A u \in Requests \ {t} : tx'[u] = tx[u]
  BY DEF KInv, FInv, IInv, TypeOK

\* A step of a request that has placed no order, and writes no row.
LEMMA LocalKey ==
  ASSUME KInv, FInv', GoesOn, NEW t \in Requests, \A u \in Requests \ {t} : tx'[u] = tx[u],
         KeepRows, tx[t].pc \notin Placed, tx'[t].pc \notin Placed \cup {"insert", "done"}
  PROVE  KInv'
<1>1. UNCHANGED <<orders, ordersW, orderBy, cashBy>>
  BY DEF KeepRows, accountRows, orderRows
<1> QED BY <1>1, WithinKey

\* The statements before the order is placed.
LEMMA EarlyKey ==
  ASSUME KInv, FInv', GoesOn, NEW t \in Requests,
         \/ \E b \in Submits : Arrive(t, b)
         \/ \E b \in Cancels : ArriveCancel(t, b)
  PROVE  KInv'
<1>1. tx[t].pc = "idle" /\ KeepRows
  BY ZenonT(40) DEF Arrive, ArriveCancel
<1>2. ASSUME NEW r, tx' = [tx EXCEPT ![t] = r], r.pc \in {"refused", "price", "cancel"}
      PROVE  KInv'
  <2>1. tx[t].pc \notin Placed /\ r.pc \notin Placed \cup {"insert", "done"}
    BY <1>1, <1>2 DEF Placed, Matching, Legs
  <2>2. tx'[t].pc = r.pc /\ \A u \in Requests \ {t} : tx'[u] = tx[u]
    BY <1>2, LocalOf
  <2> QED BY <1>1, <2>1, <2>2, LocalKey
<1>3. ASSUME NEW b \in Submits, Arrive(t, b) PROVE KInv'
  <2> DEFINE refused == [IdleTx EXCEPT !.pc = "refused", !.body = b]
             price == [IdleTx EXCEPT !.pc = "price", !.body = b, !.at = clock + 1,
                                     !.cashSeen = cash[b.account]]
  <2>1. refused.pc = "refused" /\ price.pc = "price"
    BY DEF IdleTx
  <2>2. tx' = [tx EXCEPT ![t] = refused] \/ tx' = [tx EXCEPT ![t] = price]
    BY <1>3 DEF Arrive
  <2> HIDE DEF refused, price
  <2> QED BY <1>2, <2>1, <2>2
<1>4. ASSUME NEW b \in Cancels, ArriveCancel(t, b) PROVE KInv'
  <2> DEFINE r == [IdleTx EXCEPT !.pc = "cancel", !.body = b]
  <2>1. r.pc = "cancel" /\ tx' = [tx EXCEPT ![t] = r]
    BY <1>4 DEF ArriveCancel, IdleTx
  <2> HIDE DEF r
  <2> QED BY <1>2, <2>1
<1> QED BY SMTT(30), <1>3, <1>4

\* The key is looked for among the committed orders.
LEMMA PriceKey ==
  ASSUME KInv, FInv', GoesOn, NEW t \in Requests, Price(t)
  PROVE  KInv'
<1> DEFINE b == tx[t].body
           book == IF b.kind = "market" THEN Hydrated(b.side) ELSE {}
           held == IF b.side = "sell" THEN Held(b.account) ELSE 0
           mine == {o \in LiveOrders(b.account) : orders[o].side = "sell"}
           sells == {e \in Entry : b.side = "sell" /\ e.id \in mine
                                   /\ e.remaining = Left(e.id)}
<1>0. tx[t].pc = "price" /\ tx[t].pc \notin Placed
  BY DEF Price, Placed, Matching, Legs
<1>1. CASE \E o \in ByKey(b.account, b.key) : Answer(t, "done", o)
  <2>1. PICK o \in ByKey(b.account, b.key) : Answer(t, "done", o)
    BY <1>1
  <2>2. Answers(o, b)
    BY DEF ByKey, Answers
  <2> QED BY <1>0, <2>1, <2>2, AnswerKey DEF Ended
<1>2. CASE Answer(t, "refused", None)
  BY SMTT(30), <1>0, <1>2, AnswerKey DEF Ended
<1>3. CASE /\ tx' = [tx EXCEPT ![t].pc = "reserve", ![t].snap = book, ![t].heldSeen = held,
                               ![t].sellsSeen = sells]
           /\ KeepRows
  <2> DEFINE r == [tx[t] EXCEPT !.pc = "reserve", !.snap = book, !.heldSeen = held,
                                !.sellsSeen = sells]
  <2>1. tx'[t].pc = "reserve" /\ \A u \in Requests \ {t} : tx'[u] = tx[u]
    <3>1. r.pc = "reserve" /\ tx' = [tx EXCEPT ![t] = r]
      BY ZenonT(40), <1>3 DEF KInv, FInv, IInv, TypeOK, TxType
    <3> HIDE DEF r
    <3> QED BY <3>1, LocalOf
  <2>2. tx'[t].pc \notin Placed \cup {"insert", "done"}
    BY <2>1 DEF Placed, Matching, Legs
  <2> QED BY ZenonT(40), <1>0, <1>3, <2>1, <2>2, LocalKey
<1> QED BY <1>1, <1>2, <1>3 DEF Price

\* The account is locked for the rest of the request.
LEMMA ReserveKey ==
  ASSUME KInv, FInv', GoesOn, NEW t \in Requests, Reserve(t)
  PROVE  KInv'
<1> DEFINE a == tx[t].body.account
<1>0. tx[t].pc = "reserve" /\ tx[t].pc \notin Placed /\ TxFine(t) /\ t \in OrderIds
  BY DEF Reserve, Placed, Matching, Legs, KInv, FInv, IInv, OrderIds
<1>1. CASE Answer(t, "refused", None)
  BY <1>0, <1>1, AnswerKey DEF Ended
<1>2. CASE /\ cashBy[a] = None /\ cashBy' = [cashBy EXCEPT ![a] = t]
           /\ tx' = [tx EXCEPT ![t].pc = "insert"] /\ UNCHANGED orderRows
  <2>1. tx'[t].pc = "insert" /\ tx'[t].body = tx[t].body /\ \A u \in Requests \ {t} : tx'[u] = tx[u]
    BY <1>2 DEF KInv, FInv, IInv, TypeOK, TxType
  <2>2. tx[t].body \in Submits /\ a \in Accounts
    BY <1>0, BodyAssumption DEF TxFine, Submitting
  <2>3. cashBy'[a] = t
    BY <1>2, <2>2 DEF KInv, FInv, IInv, TypeOK
  <2>4. Spares(t)
    <3>1. \A c \in Accounts : cashBy[c] # None => cashBy'[c] = cashBy[c]
      BY <1>2, <2>2 DEF KInv, FInv, IInv, TypeOK
    <3> QED BY <1>2, <3>1 DEF Spares, Exists, orderRows
  <2>5. Places(t) /\ InHand(t)'
    BY <1>0, <1>2 DEF Places, Exists, orderRows, KInv, InHand
  <2>6. KeyFine(t)'
    BY <2>1, <2>2, <2>3 DEF KeyFine, Placed, Matching, Legs
  <2> QED BY <2>1, <2>4, <2>5, <2>6, KeyFrame
<1> QED BY <1>1, <1>2 DEF Reserve

\* The unique index looks for the key once more when the order is placed.
LEMMA InsertKey ==
  ASSUME KInv, FInv', GoesOn, NEW t \in Requests, Insert(t)
  PROVE  KInv'
<1> DEFINE b == tx[t].body
<1>0. tx[t].pc = "insert" /\ KeyFine(t) /\ TxFine(t) /\ t \in OrderIds
  BY DEF Insert, KInv, FInv, IInv, OrderIds
<1>1. CASE \E o \in ByKey(b.account, b.key) :
              RollbackRows(t) /\ tx' = [tx EXCEPT ![t] = EndedTx(t, "done", o)]
  <2>1. PICK o \in ByKey(b.account, b.key) :
              RollbackRows(t) /\ tx' = [tx EXCEPT ![t] = EndedTx(t, "done", o)]
    BY <1>1
  <2>2. Answers(o, b)
    BY DEF ByKey, Answers
  <2> QED BY <2>1, <2>2, RollbackKey DEF Ended
<1>2. ASSUME NEW row, row # None, Keyed(row, b), ByKey(b.account, b.key) = {},
             ordersW' = [ordersW EXCEPT ![t] = row], orderBy' = [orderBy EXCEPT ![t] = t],
             tx'[t].pc = "match", tx'[t].body = b, \A u \in Requests \ {t} : tx'[u] = tx[u],
             UNCHANGED <<accountRows, orders>>
      PROVE  KInv'
  <2>1. orders[t] = None
    BY <1>0 DEF TxFine, Unplaced
  <2>2. ordersW'[t] = row /\ orderBy'[t] = t
        /\ \A o \in OrderIds \ {t} : ordersW'[o] = ordersW[o] /\ orderBy'[o] = orderBy[o]
    BY <1>0, <1>2 DEF KInv, FInv, IInv, TypeOK
  <2>3. Spares(t) /\ Places(t)
    BY <1>2, <2>1, <2>2 DEF Spares, Places, Exists, accountRows
  <2>4. InHand(t)'
    BY <1>2, <2>2 DEF InHand, Placed, Matching
  <2>5. ByKey(b.account, b.key)' = {}
    BY <1>2 DEF ByKey, Exists
  <2>6. b \in Submits /\ cashBy'[b.account] = t
    BY <1>0, <1>2 DEF KeyFine, accountRows
  <2>7. KeyFine(t)'
    BY <1>2, <2>1, <2>2, <2>5, <2>6 DEF KeyFine, Placed
  <2> QED BY <1>2, <2>3, <2>4, <2>7, KeyFrame
<1>3. CASE ByKey(b.account, b.key) = {} /\ ~(\E o \in ByKey(b.account, b.key) : RollbackRows(t))
  <2>1. tx' = [tx EXCEPT ![t].pc = "match", ![t].left = b.qty,
                         ![t].snap = IF b.kind = "limit" THEN Hydrated(b.side) ELSE @]
        /\ orderBy' = [orderBy EXCEPT ![t] = t] /\ UNCHANGED <<accountRows, orders>>
    BY SMTT(30), <1>3 DEF Insert
  <2>2. tx'[t].pc = "match" /\ tx'[t].body = b /\ \A u \in Requests \ {t} : tx'[u] = tx[u]
    BY ZenonT(40), <2>1 DEF KInv, FInv, IInv, TypeOK, TxType
  <2>3. PICK price :
           ordersW' = [ordersW EXCEPT ![t] =
              [ account |-> b.account, side |-> b.side, kind |-> b.kind, price |-> price,
                qty |-> b.qty, filled |-> 0, status |-> "OPEN", key |-> b.key, gtd |-> b.gtd,
                at |-> tx[t].at ]]
    BY <1>3 DEF Insert
  <2> DEFINE row == [ account |-> b.account, side |-> b.side, kind |-> b.kind, price |-> price,
                      qty |-> b.qty, filled |-> 0, status |-> "OPEN", key |-> b.key,
                      gtd |-> b.gtd, at |-> tx[t].at ]
  <2>4. Keyed(row, b)
    BY DEF Keyed
  <2>5. row = ordersW'[t]
    BY <1>0, <2>3 DEF KInv, FInv, IInv, TypeOK
  <2>6. row # None
    <3>1. tx'[t].pc \in Matching /\ TxFine(t)'
      BY <2>2 DEF Matching, FInv, IInv
    <3> QED BY <2>5, <3>1 DEF TxFine
  <2> HIDE DEF row
  <2>7. ordersW' = [ordersW EXCEPT ![t] = row]
    BY <2>3 DEF row
  <2> QED BY <1>2, <1>3, <2>1, <2>2, <2>4, <2>6, <2>7
<1> QED BY <1>1, <1>3 DEF Insert

-------------------------------------------------------------------------------------
(* The fills, and the ends of a request.                                           *)

\* A step that writes no row, of a request that has placed its order.
LEMMA PlacedKey ==
  ASSUME KInv, FInv', GoesOn, NEW t \in Requests, NEW r, tx' = [tx EXCEPT ![t] = r],
         orders' = orders, ordersW' = ordersW, cashBy' = cashBy,
         \A o \in OrderIds : orderBy'[o] = orderBy[o] \/ Exists(o),
         tx[t].pc \in Placed, r.pc \in Placed, r.body = tx[t].body
  PROVE  KInv'
<1>1. tx'[t] = r /\ \A u \in Requests \ {t} : tx'[u] = tx[u]
  BY LocalOf
<1>2. r.pc # "insert" /\ r.pc # "done"
  BY DEF Placed, Matching, Legs
<1> QED BY <1>1, <1>2, WithinKey

LEMMA LockOrdersKey ==
  ASSUME KInv, FInv', GoesOn, NEW t \in Requests, LockOrders(t)
  PROVE  KInv'
<1>1. PICK e \in NextUp(t) :
        /\ tx[t].pc = "match"
        /\ orderBy' = [orderBy EXCEPT ![e.id] = t]
        /\ \/ tx' = [tx EXCEPT ![t].left = @ - Want(t, e), ![t].snap = @ \ {e}]
           \/ tx' = [tx EXCEPT ![t].pc = "buyer", ![t].maker = e.id,
                               ![t].want = Want(t, e), ![t].applied = Applied(t, e),
                               ![t].snap = @ \ {e}]
        /\ UNCHANGED <<accountRows, orders, ordersW>>
  BY DEF LockOrders
<1>2. tx[t] \in TxType /\ TxFine(t)
  BY DEF KInv, FInv, IInv, TypeOK
<1>3. e.id \in OrderIds /\ Exists(e.id)
  BY <1>1, <1>2 DEF NextUp, TxFine, TxType, Entry, Exists
<1>4. \A o \in OrderIds : orderBy'[o] = orderBy[o] \/ Exists(o)
  BY <1>1, <1>3 DEF KInv, FInv, IInv, TypeOK
<1> DEFINE none == [tx[t] EXCEPT !.left = @ - Want(t, e), !.snap = @ \ {e}]
           some == [tx[t] EXCEPT !.pc = "buyer", !.maker = e.id, !.want = Want(t, e),
                                 !.applied = Applied(t, e), !.snap = @ \ {e}]
<1>5. /\ none.pc = "match" /\ none.body = tx[t].body
      /\ some.pc = "buyer" /\ some.body = tx[t].body
  BY <1>1, <1>2 DEF TxType
<1>6. tx' = [tx EXCEPT ![t] = none] \/ tx' = [tx EXCEPT ![t] = some]
  BY <1>1
<1> HIDE DEF none, some
<1>7. tx[t].pc \in Placed /\ none.pc \in Placed /\ some.pc \in Placed
  BY <1>1, <1>5 DEF Placed, Matching, Legs
<1> QED BY SMTT(30), <1>1, <1>4, <1>5, <1>6, <1>7, PlacedKey DEF accountRows

\* Losing a request takes its order with it.
LEMMA AbortKey ==
  ASSUME KInv, FInv', GoesOn, NEW t \in Requests, Abort(t)
  PROVE  KInv'
  BY RollbackKey DEF Abort, Ended

LEMMA PositionKey ==
  ASSUME KInv, FInv', GoesOn, NEW t \in Requests, NEW leg \in {"buyer", "seller"},
         ReadPosition(t, leg) \/ CreatePosition(t, leg)
  PROVE  KInv'
<1>1. tx[t] \in TxType /\ tx[t].pc \in Placed
  BY DEF KInv, FInv, IInv, TypeOK, ReadPosition, CreatePosition, Placed, Matching, Legs
<1>2. ASSUME NEW pc \in Legs, NEW seen, tx' = [tx EXCEPT ![t].pc = pc, ![t].posSeen = seen]
                                        \/ tx' = [tx EXCEPT ![t].pc = pc],
             UNCHANGED <<accountRows, orderRows>>
      PROVE  KInv'
  <2> DEFINE r == [tx[t] EXCEPT !.pc = pc, !.posSeen = seen]
             q == [tx[t] EXCEPT !.pc = pc]
  <2>1. /\ r.pc = pc /\ r.body = tx[t].body /\ q.pc = pc /\ q.body = tx[t].body
        /\ tx' = [tx EXCEPT ![t] = r] \/ tx' = [tx EXCEPT ![t] = q]
    BY <1>1, <1>2 DEF TxType
  <2> HIDE DEF r, q
  <2>2. pc \in Placed
    BY DEF Placed, Matching
  <2> QED BY <1>1, <1>2, <2>1, <2>2, PlacedKey DEF accountRows, orderRows
<1>3. CASE Abort(t)
  BY <1>3, AbortKey
<1>4. ASSUME ~Abort(t)
      PROVE  \E pc \in Legs, seen \in Int \cup {None} :
                /\ \/ tx' = [tx EXCEPT ![t].pc = pc, ![t].posSeen = seen]
                   \/ tx' = [tx EXCEPT ![t].pc = pc]
                /\ UNCHANGED <<accountRows, orderRows>>
  <2>1. CASE ReadPosition(t, leg)
    <3>1. tx[t].pc \in Legs
      BY <2>1 DEF ReadPosition, Legs
    <3>2. MyPos(t, LegAccount(t, leg)) \in Int \cup {None}
      BY <3>1, LegFacts DEF MyPos, KInv, FInv, IInv, TypeOK
    <3>3. {"buyerRow", "sellerRow", "buyerPost", "sellerPost"} \subseteq Legs
      BY DEF Legs
    <3> QED BY <2>1, <3>2, <3>3 DEF ReadPosition, KeepRows
  <2>2. CASE CreatePosition(t, leg)
    <3>1. "buyerPost" \in Legs /\ "sellerPost" \in Legs
      BY DEF Legs
    <3> QED BY SMTT(30), <1>4, <2>2, <3>1 DEF CreatePosition
  <2> QED BY <2>1, <2>2
<1> QED BY <1>2, <1>3, <1>4

LEMMA PostKey ==
  ASSUME KInv, FInv', GoesOn, NEW t \in Requests, NEW leg \in {"buyer", "seller"}, Post(t, leg)
  PROVE  KInv'
<1> DEFINE a == LegAccount(t, leg)
           id == IF leg = "buyer" THEN BuyId(t) ELSE SellId(t)
           row == Advanced(ordersW[id], tx[t].applied)
<1>1. tx[t].pc \in Legs /\ tx[t].pc \in Placed
  BY DEF Post, Legs, Placed, Matching
<1>2. /\ tx[t] \in TxType /\ TxFine(t) /\ a \in Accounts
      /\ id \in OrderIds /\ ordersW[id] \in Order
  BY <1>1, LegFacts DEF KInv, FInv
<1>3. CASE Abort(t)
  BY <1>3, AbortKey
<1>4. CASE Swallow(t)
  <2> DEFINE r == [tx[t] EXCEPT !.pc = "swallowed", !.made = @ \cup {TheFill(t)}]
  <2>1. r.pc = "swallowed" /\ r.body = tx[t].body /\ tx' = [tx EXCEPT ![t] = r]
    BY <1>2, <1>4 DEF Swallow, TxType
  <2> HIDE DEF r
  <2> QED BY <1>1, <1>4, <2>1, PlacedKey DEF Swallow, KeepRows, accountRows, orderRows, Placed
<1>5. CASE /\ cashBy[a] \in {None, t} /\ cashBy' = [cashBy EXCEPT ![a] = t]
           /\ ordersW' = [ordersW EXCEPT ![id] = row] /\ UNCHANGED <<orders, orderBy>>
           /\ \/ tx' = [tx EXCEPT ![t].pc = "seller"]
              \/ tx' = [tx EXCEPT ![t].pc = "match", ![t].left = @ - tx[t].want,
                                  ![t].made = @ \cup {TheFill(t)}, ![t].maker = None,
                                  ![t].want = 0, ![t].applied = 0, ![t].posSeen = 0]
  <2>1. Exists(id) \/ id = t
    BY <1>1, <1>2 DEF BuyId, SellId, TxFine, Exists
  <2>2. row # None /\ Keyed(row, ordersW[id])
    <3>1. RowFine(ordersW[id]) /\ tx[t].applied \in 1..MaxQty
      BY <1>1, <1>2, SeedAssumption DEF KInv, FInv, IInv, RowsFine, TxFine
    <3> HIDE DEF id
    <3>2. row \in Order /\ row # None
      BY <1>2, <3>1, AdvancedFine, SeedAssumption
    <3>3. row.account = ordersW[id].account /\ row.key = ordersW[id].key
      BY <1>2 DEF Advanced, Order
    <3> QED BY <3>2, <3>3 DEF Keyed
  <2> HIDE DEF a, id, row
  <2>3. \A o \in OrderIds :
           \/ ordersW'[o] = ordersW[o] \/ Exists(o)
           \/ /\ o = t /\ ordersW[o] # None /\ ordersW'[o] # None
              /\ Keyed(ordersW'[o], ordersW[o])
    BY <1>2, <1>5, <2>1, <2>2, SeedAssumption DEF KInv, FInv, IInv, TypeOK
  <2>4. \A c \in Accounts : \/ cashBy'[c] = cashBy[c]
                            \/ cashBy[c] \in {None, t} /\ cashBy'[c] = t
    BY <1>2, <1>5 DEF KInv, FInv, IInv, TypeOK
  <2> DEFINE next == [tx[t] EXCEPT !.pc = "seller"]
             done == [tx[t] EXCEPT !.pc = "match", !.left = @ - tx[t].want,
                                   !.made = @ \cup {TheFill(t)}, !.maker = None,
                                   !.want = 0, !.applied = 0, !.posSeen = 0]
  <2>5. /\ next.pc = "seller" /\ next.body = tx[t].body
        /\ done.pc = "match" /\ done.body = tx[t].body
    BY <1>2 DEF TxType
  <2>6. tx' = [tx EXCEPT ![t] = next] \/ tx' = [tx EXCEPT ![t] = done]
    BY ZenonT(40), <1>5
  <2> HIDE DEF next, done
  <2>7. /\ tx'[t].pc \in {"seller", "match"} /\ tx'[t].body = tx[t].body
        /\ \A u \in Requests \ {t} : tx'[u] = tx[u]
    BY <2>5, <2>6, LocalOf
  <2>8. tx'[t].pc \in Placed
    BY <2>7 DEF Placed, Matching, Legs
  <2> QED BY <1>1, <1>5, <2>3, <2>4, <2>7, <2>8, WithinKey
<1> QED BY <1>3, <1>4, <1>5 DEF Post

LEMMA CommitsKey ==
  ASSUME KInv, FInv', GoesOn, NEW t \in Requests, Commit(t) \/ CommitSwallowed(t)
  PROVE  KInv'
<1>0. t \in OrderIds /\ TxFine(t) /\ KeyFine(t) /\ ordersW[t] \in Order \cup {None}
  BY DEF KInv, FInv, IInv, TypeOK, OrderIds
<1>1. CASE Commit(t)
  <2> DEFINE closed == [ordersW[t] EXCEPT !.status = "CANCELLED"]
  <2>1. tx[t].pc \in Matching /\ orderBy[t] = t /\ ordersW[t] \in Order /\ ordersW[t] # None
    BY <1>0, <1>1 DEF Commit, Matching, TxFine
  <2>2. closed \in Order /\ Keyed(closed, ordersW[t])
    BY <2>1 DEF Order, Statuses, Keyed
  <2>3. \A o \in OrderIds : orderBy[o] = t =>
           /\ orders'[o] = ordersW'[o]
           /\ \/ ordersW'[o] = ordersW[o]
              \/ o = t /\ ordersW'[o] = closed
    BY <1>1 DEF Commit
  <2>4. \A o \in OrderIds : orderBy[o] # t => orders'[o] = orders[o] /\ ordersW'[o] = ordersW[o]
    BY <1>1 DEF Commit
  <2> HIDE DEF closed
  <2>5. Keyed(ordersW'[t], ordersW[t]) /\ ordersW'[t] # None
    BY <1>0, <2>1, <2>2, <2>3, SeedAssumption DEF Keyed
  <2>6. CommitRows(t) /\ tx' = [tx EXCEPT ![t] = EndedTx(t, "done", t)]
    BY <1>1 DEF Commit
  <2> QED BY <2>1, <2>3, <2>4, <2>5, <2>6, CommitKey DEF Ended
<1>2. CASE CommitSwallowed(t)
  <2>1. /\ CommitRows(t) /\ ordersW' = ordersW
        /\ tx' = [tx EXCEPT ![t] = EndedTx(t, "refused", None)]
        /\ orders' = [o \in OrderIds |-> IF orderBy[o] = t THEN ordersW[o] ELSE orders[o]]
    BY <1>2 DEF CommitSwallowed
  <2> QED BY <2>1, CommitKey DEF Ended, Keyed
<1> QED BY <1>1, <1>2

\* A cancellation places nothing.
LEMMA CancelKey ==
  ASSUME KInv, FInv', GoesOn, NEW t \in Requests, CancelOrder(t) \/ CommitCancel(t)
  PROVE  KInv'
<1> DEFINE o == tx[t].body.cancel
<1>0. tx[t] \in TxType /\ TxFine(t) /\ tx[t].pc \in Cancelling /\ tx[t].pc \notin Placed
  BY DEF KInv, FInv, IInv, TypeOK, CancelOrder, CommitCancel, Cancelling, Placed, Matching, Legs
<1>1. tx[t].body \notin Submits /\ Exists(o) /\ o \in OrderIds
  BY <1>0, KeyAssumption, BodyAssumption DEF TxFine, Exists, Cancels
<1>2. CASE Answer(t, "refused", None) \/ Answer(t, "done", o)
  BY <1>0, <1>1, <1>2, AnswerKey DEF Ended
<1>3. CASE /\ ordersW' = [ordersW EXCEPT ![o].status = "CANCELLED"]
           /\ orderBy' = [orderBy EXCEPT ![o] = t] /\ tx' = [tx EXCEPT ![t].pc = "cancelled"]
           /\ UNCHANGED <<accountRows, orders>>
  <2> HIDE DEF o
  <2>1. \A p \in OrderIds : \/ ordersW'[p] = ordersW[p] /\ orderBy'[p] = orderBy[p]
                            \/ Exists(p)
    BY <1>1, <1>3 DEF KInv, FInv, IInv, TypeOK
  <2> DEFINE r == [tx[t] EXCEPT !.pc = "cancelled"]
  <2>2. r.pc = "cancelled" /\ tx' = [tx EXCEPT ![t] = r]
    BY <1>0, <1>3 DEF TxType
  <2> HIDE DEF r
  <2>3. /\ tx'[t].pc \notin Placed \cup {"insert", "done"}
        /\ \A u \in Requests \ {t} : tx'[u] = tx[u]
    BY <2>2, LocalOf DEF Placed, Matching, Legs
  <2> QED BY <1>0, <1>3, <2>1, <2>3, WithinKey DEF accountRows
<1>4. CASE CommitCancel(t)
  <2>1. /\ CommitRows(t) /\ ordersW' = ordersW
        /\ tx' = [tx EXCEPT ![t] = EndedTx(t, "done", o)]
        /\ orders' = [p \in OrderIds |-> IF orderBy[p] = t THEN ordersW[p] ELSE orders[p]]
    BY <1>4 DEF CommitCancel
  <2> HIDE DEF o
  <2> QED BY <1>0, <1>1, <2>1, CommitKey DEF Ended
<1> QED BY <1>2, <1>3, <1>4 DEF CancelOrder

\* The worker and the world place no order and answer nobody.
LEMMA OutsideKey ==
  ASSUME KInv, FInv', GoesOn,
         SweepExpired \/ CommitSweep \/ TogglePause \/ TimePasses \/ UNCHANGED vars
  PROVE  KInv'
<1>0. tx' = tx
  BY DEF SweepExpired, CommitSweep, TogglePause, TimePasses, vars
<1>1. Spares(None)
  <2>1. CASE SweepExpired
    <3>1. PICK batch \in SUBSET {o \in Lapsed : orderBy[o] = None} :
            /\ ordersW' = [o \in OrderIds |->
                             IF o \in batch THEN [ordersW[o] EXCEPT !.status = "CANCELLED"]
                             ELSE ordersW[o]]
            /\ orderBy' = [o \in OrderIds |-> IF o \in batch THEN Sweeper ELSE orderBy[o]]
      BY <2>1 DEF SweepExpired
    <3>2. \A o \in batch : Exists(o)
      BY DEF Lapsed
    <3> QED BY <2>1, <3>1, <3>2 DEF SweepExpired, Spares, Exists, accountRows
  <2>2. CASE CommitSweep
    <3>1. \A a \in Accounts : cashBy'[a] = cashBy[a]
      BY <2>2, SeedAssumption DEF CommitSweep, CommitRows, KInv, FInv, IInv, TypeOK
    <3>2. ASSUME NEW o \in OrderIds, ~Exists(o)
          PROVE  /\ ~Exists(o)' /\ ordersW'[o] = ordersW[o]
                 /\ ordersW[o] # None => orderBy'[o] = orderBy[o]
      BY <2>2, <3>2, SeedAssumption DEF CommitSweep, CommitRows, KInv, InHand, Exists, Lockers
    <3> QED BY <3>1, <3>2 DEF Spares
  <2>3. CASE TogglePause \/ TimePasses \/ UNCHANGED vars
    BY <2>3 DEF TogglePause, TimePasses, KeepRows, vars, accountRows, orderRows, Spares, Exists
  <2> QED BY <2>1, <2>2, <2>3
<1>2. None \notin Requests /\ None \notin OrderIds
  BY SeedAssumption DEF Lockers
<1> QED BY <1>0, <1>1, <1>2, KeyFrame

-------------------------------------------------------------------------------------
(* All steps.                                                                      *)

LEMMA NextKey == KInv /\ [Next]_vars => KInv'
<1> SUFFICES ASSUME KInv, [Next]_vars PROVE KInv'
  OBVIOUS
<1>0. FInv' /\ GoesOn
  BY NextFInv, NextGoesOn DEF KInv
<1>1. ASSUME NEW t \in Requests, \/ \E b \in Submits : Arrive(t, b)
                                 \/ \E b \in Cancels : ArriveCancel(t, b)
      PROVE  KInv'
  BY <1>0, <1>1, EarlyKey
<1>2. ASSUME NEW t \in Requests, Step(t) PROVE KInv'
  <2>1. CASE Price(t) \/ Reserve(t) \/ Insert(t) \/ LockOrders(t)
    BY <1>0, <2>1, PriceKey, ReserveKey, InsertKey, LockOrdersKey
  <2>2. ASSUME NEW leg \in {"buyer", "seller"},
               ReadPosition(t, leg) \/ CreatePosition(t, leg) \/ Post(t, leg)
        PROVE  KInv'
    BY <1>0, <2>2, PositionKey, PostKey
  <2>3. CASE Commit(t) \/ CommitSwallowed(t) \/ CancelOrder(t) \/ CommitCancel(t)
    BY <1>0, <2>3, CommitsKey, CancelKey
  <2>4. CASE DeadlockVictim(t)
    BY <1>0, <2>4, AbortKey DEF DeadlockVictim
  <2> QED BY <1>2, <2>1, <2>2, <2>3, <2>4 DEF Step
<1>3. ASSUME NEW t \in Requests, Crash(t) PROVE KInv'
  BY <1>0, <1>3, AbortKey DEF Crash
<1> QED BY <1>0, <1>1, <1>2, <1>3, OutsideKey DEF Next, Quiet

LEMMA InitKey == Init => KInv
<1> SUFFICES ASSUME Init PROVE KInv
  OBVIOUS
<1>1. FInv
  BY InitFInv
<1>2. \A o \in OrderIds : /\ Exists(o) => o \in DOMAIN SeedOrders /\ orders[o] = SeedOrders[o]
                          /\ ordersW[o] = orders[o]
  BY DEF Init, Exists
<1>3. UniqueKeys
  BY <1>2, KeyAssumption DEF UniqueKeys
<1>4. \A o \in OrderIds : InHand(o)
  BY <1>2 DEF InHand, Exists
<1>5. \A t \in Requests : KeyFine(t)
  BY DEF Init, IdleTx, KeyFine, Placed, Matching, Legs
<1> QED BY <1>1, <1>3, <1>4, <1>5 DEF KInv

\* Two answers to submissions of one account under one key name the same order, in
\* whatever order the retries look for the key, insert, fail and commit.
THEOREM OneOrderPerKey == Spec => []KeyAnsweredOnce
<1>1. Init => KInv
  BY InitKey
<1>2. KInv /\ [Next]_vars => KInv'
  BY NextKey
<1>3. KInv => KeyAnsweredOnce
  BY DEF KInv, KeyAnsweredOnce, KeyFine, Answers, UniqueKeys
<1> QED BY <1>1, <1>2, <1>3, PTL DEF Spec


===================================================================================

------------------------------- MODULE PaperTrading -------------------------------
(***********************************************************************************)
(* Paper trading of the JWT users: the buy and close routes (api/v1/orders.py),    *)
(* the FIFO position (services/paper_position_service.py) and the paper part of    *)
(* the settlement (_settle_paper_orders in services/settlement_service.py).        *)
(*                                                                                 *)
(* One market and one outcome of it: a position is a user's orders for one outcome *)
(* and nothing is shared between two of them but the user row.  Every session is a *)
(* transaction under READ COMMITTED: what it writes is seen by others when it      *)
(* commits, and the rows it locked are free again when it ends.                    *)
(*                                                                                 *)
(* A session that holds a user row is the only one to insert orders of the user,   *)
(* so the order of the rows (created_at) is the order of their commits.            *)
(***********************************************************************************)
EXTENDS Integers, Sequences, SequencesExt

CONSTANTS
    Users,
    Requests,      \* sessions of the buy and the close route
    Calls,         \* what they may ask for: [user, action, shares, price, key]
    Settlers,      \* sessions that settle the market
    Verdicts,      \* the outcomes they may settle it with
    SeedOrders,    \* the orders each user has at the start
    SeedBalance,
    Unit,          \* what a winning share pays
    MaxCrashes,    \* bound on sessions lost to a crash
    None

Sessions == Requests \cup Settlers

Order == [action : {"BUY", "SELL"}, shares : Nat, price : Nat,
          key : {c.key : c \in Calls} \cup {None}, settled : BOOLEAN]

\* The shares that the orders of rows with these numbers buy, less what they sell.
SharesOf(rows, I) ==
    SumFunction([i \in I |-> IF rows[i].action = "BUY" THEN rows[i].shares
                             ELSE 0 - rows[i].shares])

\* Nothing is sold before it is bought.
Covered(rows) == \A k \in 0..Len(rows) : SharesOf(rows, 1..k) >= 0

ASSUME PaperAssumption ==
    /\ Requests \cap Settlers = {} /\ None \notin Sessions
    /\ Calls \subseteq [user : Users, action : {"BUY", "SELL"}, shares : Nat, price : Nat,
                        key : {c.key : c \in Calls}]
    /\ Verdicts \subseteq {"YES", "NO", "VOID"} /\ None \notin {"YES", "NO", "VOID"}
    /\ SeedOrders \in [Users -> Seq(Order)] /\ SeedBalance \in [Users -> Nat]
    /\ \A u \in Users : \A i \in 1..Len(SeedOrders[u]) :
          SeedOrders[u][i].key = None /\ ~SeedOrders[u][i].settled
    /\ \A u \in Users : Covered(SeedOrders[u])
    /\ Unit \in Nat /\ MaxCrashes \in Nat

VARIABLES
    status, marketBy,    \* the market row: its status, and who has it locked
    resolution,          \* the MarketResolution row
    orders,              \* paper_orders: the committed rows of each user
    balance, balanceBy,  \* users.paper_balance, and who has the user row locked
    paid,                \* what settlements credited: [by, user, amount, rows]
    crashes,
    req, settler         \* the sessions

vars == <<status, marketBy, resolution, orders, balance, balanceBy, paid, crashes,
          req, settler>>

IdleReq == [pc |-> "idle", call |-> None, want |-> {}, holds |-> {}]

IdleSettler == [pc |-> "idle", verdict |-> None, rows |-> None, todo |-> {},
                holds |-> {}, due |-> {}]

Init ==
    /\ status = "OPEN" /\ marketBy = None /\ resolution = None
    /\ orders = SeedOrders
    /\ balance = SeedBalance /\ balanceBy = [u \in Users |-> None]
    /\ paid = {} /\ crashes = 0
    /\ req = [r \in Requests |-> IdleReq]
    /\ settler = [s \in Settlers |-> IdleSettler]

-------------------------------------------------------------------------------------
(* fifo_open_position.  The lots are kept share by share: the price each share that *)
(* is still held was bought at, the oldest first.                                   *)

\* Mutant: a sale takes the newest shares.
ConsumeNewest(lots, order) ==
    IF order.settled THEN lots
    ELSE IF order.action = "BUY" THEN lots \o [k \in 1..order.shares |-> order.price]
    ELSE SubSeq(lots, 1, Len(lots) - order.shares)

Consume(lots, order) ==
    IF order.settled THEN lots
    ELSE IF order.action = "BUY" THEN lots \o [k \in 1..order.shares |-> order.price]
    ELSE SubSeq(lots, order.shares + 1, Len(lots))

Lots(rows) == FoldLeft(Consume, <<>>, rows)

NetShares(rows) == Len(Lots(rows))

OpenCostBasis(rows) == SumFunction(Lots(rows))

Unsettled(rows) == {i \in 1..Len(rows) : ~rows[i].settled}

-------------------------------------------------------------------------------------
(* Locks and the ends of a transaction.                                             *)

\* The index of a row is its place among the rows of the user.
Holds(s, u, i) ==
    IF s \in Settlers THEN <<u, i>> \in settler[s].holds
    ELSE i \in req[s].holds /\ req[s].call.user = u

\* Mutant: closes lock with FOR SHARE.
RowLockedShared(u, i, by) ==
    \E s \in Sessions \ {by} : Holds(s, u, i) /\ (s \in Settlers \/ by \in Settlers)

RowLocked(u, i, by) == \E s \in Sessions \ {by} : Holds(s, u, i)

Free(s) == [u \in Users |-> IF balanceBy[u] = s THEN None ELSE balanceBy[u]]

\* Mutant: a refused close keeps its rows locked.
EndedHolding(r, pc) == [req[r] EXCEPT !.pc = pc, !.want = {}]

Ended(r, pc) == [IdleReq EXCEPT !.pc = pc, !.call = req[r].call]

\* What a request adds to the balance of its user.
Amount(call) ==
    IF call.action = "BUY" THEN 0 - call.shares * call.price ELSE call.shares * call.price

\* Mutant: the debit outlives the transaction.
AbandonKeeping(r, pc) ==
    /\ req' = [req EXCEPT ![r] = Ended(r, pc)]
    /\ balance' = [u \in Users |-> IF balanceBy[u] = r THEN balance[u] + Amount(req[r].call)
                                   ELSE balance[u]]
    /\ balanceBy' = Free(r)
    /\ UNCHANGED <<status, marketBy, resolution, orders, paid, settler>>

Abandon(r, pc) ==
    /\ req' = [req EXCEPT ![r] = Ended(r, pc)]
    /\ balanceBy' = Free(r)
    /\ UNCHANGED <<status, marketBy, resolution, orders, balance, paid, settler>>

AbandonSettlement(s) ==
    /\ settler' = [settler EXCEPT ![s] = [IdleSettler EXCEPT !.pc = "refused"]]
    /\ balanceBy' = Free(s)
    /\ marketBy' = IF marketBy = s THEN None ELSE marketBy
    /\ UNCHANGED <<status, resolution, orders, balance, paid, req>>

-------------------------------------------------------------------------------------
(* place_paper_order and close_paper_position                                       *)

Refuse(r) == req' = [req EXCEPT ![r].pc = "refused"]

\* The market and its resolution are read once.  Only a buy looks at the status.
Begin(r, call) ==
    /\ req[r].pc = "idle"
    /\ req' = [req EXCEPT ![r].call = call,
                          ![r].pc = IF \/ resolution # None
                                       \/ call.action = "BUY" /\ status # "OPEN"
                                    THEN "refused" ELSE "lookup"]
    /\ UNCHANGED <<status, marketBy, resolution, orders, balance, balanceBy, paid,
                   crashes, settler>>

\* Mutant: a key is only looked for among the open orders.
KeyTakenByOpen(u, key) ==
    key # None /\ \E i \in 1..Len(orders[u]) : /\ orders[u][i].key = key
                                             /\ ~orders[u][i].settled

KeyTaken(u, key) == key # None /\ \E i \in 1..Len(orders[u]) : orders[u][i].key = key

\* A key that was used is answered with the order it was used for.
Lookup(r) ==
    LET call == req[r].call IN
    /\ req[r].pc = "lookup"
    /\ req' = [req EXCEPT ![r].pc = IF KeyTaken(call.user, call.key) THEN "replayed"
                                    ELSE IF call.action = "BUY" THEN "debit" ELSE "select"]
    /\ UNCHANGED <<status, marketBy, resolution, orders, balance, balanceBy, paid,
                   crashes, settler>>

\* Mutant: the UPDATE has no guard on the balance.
CoversAnything(call) == TRUE

\* The WHERE clause of the debit, on the row as it is when the lock is granted.
Covers(call) == balance[call.user] >= call.shares * call.price

Debit(r) ==
    LET u == req[r].call.user IN
    /\ req[r].pc = "debit" /\ balanceBy[u] = None
    /\ IF Covers(req[r].call)
       THEN /\ balanceBy' = [balanceBy EXCEPT ![u] = r]
            /\ req' = [req EXCEPT ![r].pc = "insert"]
       ELSE Refuse(r) /\ UNCHANGED balanceBy
    /\ UNCHANGED <<status, marketBy, resolution, orders, balance, paid, crashes, settler>>

\* The rows SELECT ... FOR UPDATE finds.
Wanted(rows) == Unsettled(rows)

SelectForUpdate(r) ==
    /\ req[r].pc = "select"
    /\ req' = [req EXCEPT ![r].pc = "lock", ![r].want = Wanted(orders[req[r].call.user])]
    /\ UNCHANGED <<status, marketBy, resolution, orders, balance, balanceBy, paid,
                   crashes, settler>>

\* It waits for each of them and drops one that was settled meanwhile.
LockRow(r, i) ==
    LET u == req[r].call.user IN
    /\ req[r].pc = "lock" /\ i \in req[r].want /\ ~RowLocked(u, i, r)
    /\ req' = [req EXCEPT ![r].want = @ \ {i},
                          ![r].holds = IF orders[u][i].settled THEN @ ELSE @ \cup {i}]
    /\ UNCHANGED <<status, marketBy, resolution, orders, balance, balanceBy, paid,
                   crashes, settler>>

\* The position is read again under the locks.
ReadPosition(r) ==
    LET call == req[r].call IN
    /\ req[r].pc = "lock" /\ req[r].want = {}
    /\ req' = [req EXCEPT ![r] = IF call.shares > NetShares(orders[call.user])
                                 THEN Ended(r, "refused") ELSE [@ EXCEPT !.pc = "credit"]]
    /\ UNCHANGED <<status, marketBy, resolution, orders, balance, balanceBy, paid,
                   crashes, settler>>

Credit(r) ==
    LET u == req[r].call.user IN
    /\ req[r].pc = "credit" /\ balanceBy[u] = None
    /\ balanceBy' = [balanceBy EXCEPT ![u] = r]
    /\ req' = [req EXCEPT ![r].pc = "insert"]
    /\ UNCHANGED <<status, marketBy, resolution, orders, balance, paid, crashes, settler>>

\* A used key fails the unique constraint: everything is rolled back, and the order of
\* the request that won is answered.
Insert(r) ==
    /\ req[r].pc = "insert"
    /\ IF KeyTaken(req[r].call.user, req[r].call.key)
       THEN Abandon(r, "replayed")
       ELSE /\ req' = [req EXCEPT ![r].pc = "commit"]
            /\ UNCHANGED <<status, marketBy, resolution, orders, balance, balanceBy, paid,
                           settler>>
    /\ UNCHANGED crashes

NewOrder(call) == [action |-> call.action, shares |-> call.shares, price |-> call.price,
                   key |-> call.key, settled |-> FALSE]

Commit(r) ==
    LET call == req[r].call IN
    /\ req[r].pc = "commit"
    /\ orders' = [orders EXCEPT ![call.user] = Append(@, NewOrder(call))]
    /\ balance' = [balance EXCEPT ![call.user] = @ + Amount(call)]
    /\ balanceBy' = Free(r)
    /\ req' = [req EXCEPT ![r] = Ended(r, "done")]
    /\ UNCHANGED <<status, marketBy, resolution, paid, crashes, settler>>

Crash(r) ==
    /\ crashes < MaxCrashes /\ req[r].pc \notin {"idle", "done", "refused", "replayed"}
    /\ crashes' = crashes + 1
    /\ Abandon(r, "refused")

-------------------------------------------------------------------------------------
(* settle_market, as far as the paper orders go.  Module Settlement has the rest.   *)

SettleBegin(s, verdict) ==
    /\ settler[s].pc = "idle"
    /\ settler' = [settler EXCEPT ![s].verdict = verdict,
                                  ![s].pc = IF status = "RESOLVED" THEN "refused" ELSE "claim"]
    /\ UNCHANGED <<status, marketBy, resolution, orders, balance, balanceBy, paid,
                   crashes, req>>

\* Mutant: the status is written when the transaction ends, not before.
MarketFreeAlways == TRUE

MarketFree == marketBy = None

\* The UPDATE of the market row waits for it, and does not look at its status again.
ClaimMarket(s) ==
    /\ settler[s].pc = "claim" /\ MarketFree
    /\ marketBy' = s
    /\ settler' = [settler EXCEPT ![s].pc = "rows"]
    /\ UNCHANGED <<status, resolution, orders, balance, balanceBy, paid, crashes, req>>

\* What the unsettled orders of a user are worth.
Worth(rows, verdict) ==
    CASE verdict = "VOID" -> OpenCostBasis(rows)
      [] verdict = "YES"  -> NetShares(rows) * Unit
      [] verdict = "NO"   -> 0

Due(s, u) == Worth(settler[s].rows[u], settler[s].verdict)

\* The unsettled orders are read, with no lock on any of them, and what is due is summed.
ReadOrders(s) ==
    /\ settler[s].pc = "rows"
    /\ settler' = [settler EXCEPT
          ![s].pc = "flag", ![s].rows = orders,
          ![s].todo = UNION {{u} \X Unsettled(orders[u]) : u \in Users},
          ![s].due = {u \in Users : Worth(orders[u], settler[s].verdict) > 0}]
    /\ UNCHANGED <<status, marketBy, resolution, orders, balance, balanceBy, paid,
                   crashes, req>>

\* UPDATE ... SET settled = true, by primary key only.
FlagRow(s, u, i) ==
    /\ settler[s].pc = "flag" /\ <<u, i>> \in settler[s].todo /\ ~RowLocked(u, i, s)
    /\ settler' = [settler EXCEPT ![s].todo = @ \ {<<u, i>>}, ![s].holds = @ \cup {<<u, i>>}]
    /\ UNCHANGED <<status, marketBy, resolution, orders, balance, balanceBy, paid,
                   crashes, req>>

CreditUser(s, u) ==
    /\ settler[s].pc = "flag" /\ settler[s].todo = {}
    /\ u \in settler[s].due /\ balanceBy[u] = None
    /\ balanceBy' = [balanceBy EXCEPT ![u] = s]
    /\ settler' = [settler EXCEPT ![s].due = @ \ {u}]
    /\ UNCHANGED <<status, marketBy, resolution, orders, balance, paid, crashes, req>>

\* The audit row is written unless there is one; then get_db commits.
CommitSettlement(s) ==
    /\ settler[s].pc = "flag" /\ settler[s].todo = {} /\ settler[s].due = {}
    /\ status' = "RESOLVED" /\ marketBy' = None
    /\ resolution' = IF resolution = None THEN settler[s].verdict ELSE resolution
    /\ orders' = [u \in Users |-> [i \in 1..Len(orders[u]) |->
                    [orders[u][i] EXCEPT !.settled = @ \/ <<u, i>> \in settler[s].holds]]]
    /\ balance' = [u \in Users |-> IF balanceBy[u] = s THEN balance[u] + Due(s, u)
                                   ELSE balance[u]]
    /\ balanceBy' = Free(s)
    /\ paid' = paid \cup {[by |-> s, user |-> u, amount |-> Due(s, u),
                           rows |-> Unsettled(settler[s].rows[u])] :
                          u \in {v \in Users : balanceBy[v] = s}}
    /\ settler' = [settler EXCEPT ![s] = [IdleSettler EXCEPT !.pc = "done"]]
    /\ UNCHANGED <<crashes, req>>

CrashSettlement(s) ==
    /\ crashes < MaxCrashes /\ settler[s].pc \notin {"idle", "done", "refused"}
    /\ crashes' = crashes + 1
    /\ AbandonSettlement(s)

-------------------------------------------------------------------------------------
(* Deadlock: closes lock the rows of a position in the order of their scans, a      *)
(* settlement in the order of their keys, and each may wait for a row another has.  *)

\* Who has the rows a session still wants, once all of them are locked.
Blockers(s) ==
    LET wanted == IF s \in Settlers
                  THEN IF settler[s].pc = "flag" THEN settler[s].todo ELSE {}
                  ELSE IF req[s].pc = "lock" THEN {req[s].call.user} \X req[s].want ELSE {}
    IN  IF \A row \in wanted : RowLocked(row[1], row[2], s)
        THEN {t \in Sessions \ {s} : \E row \in wanted : Holds(t, row[1], row[2])}
        ELSE {}

OnWaitCycle(s) ==
    \E cycle \in SUBSET Sessions :
        /\ s \in cycle
        /\ \A u \in cycle : Blockers(u) \cap cycle # {}
        /\ \A u \in cycle : \E v \in cycle : u \in Blockers(v)

\* PostgreSQL's deadlock detector aborts a transaction of the cycle.
DeadlockVictim(s) ==
    /\ Blockers(s) # {} /\ OnWaitCycle(s)
    /\ IF s \in Settlers THEN AbandonSettlement(s) ELSE Abandon(s, "refused")
    /\ UNCHANGED crashes

-------------------------------------------------------------------------------------

Step(r) ==
    \/ Lookup(r) \/ Debit(r) \/ SelectForUpdate(r) \/ ReadPosition(r) \/ Credit(r)
    \/ \E i \in req[r].want : LockRow(r, i)
    \/ Insert(r) \/ Commit(r)
    \/ DeadlockVictim(r)

SettleStep(s) ==
    \/ ClaimMarket(s) \/ ReadOrders(s)
    \/ \E row \in settler[s].todo : FlagRow(s, row[1], row[2])
    \/ (\E u \in Users : CreditUser(s, u)) \/ CommitSettlement(s)
    \/ DeadlockVictim(s)

Resting ==
    /\ \A r \in Requests : req[r].pc \in {"idle", "done", "refused", "replayed"}
    /\ \A s \in Settlers : settler[s].pc \in {"idle", "done", "refused"}

Next ==
    \/ \E r \in Requests : (\E call \in Calls : Begin(r, call)) \/ Step(r) \/ Crash(r)
    \/ \E s \in Settlers : \/ \E verdict \in Verdicts : SettleBegin(s, verdict)
                           \/ SettleStep(s) \/ CrashSettlement(s)
    \/ Resting /\ UNCHANGED vars

Spec == Init /\ [][Next]_vars

\* A statement that can proceed is executed; nobody has to begin anything.
PaperFairness ==
    /\ \A r \in Requests : WF_vars(Step(r))
    /\ \A s \in Settlers : WF_vars(SettleStep(s))

FairSpec == Spec /\ PaperFairness

=====================================================================================

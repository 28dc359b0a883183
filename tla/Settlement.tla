-------------------------------- MODULE Settlement --------------------------------
(***********************************************************************************)
(* Market settlement (services/settlement_service.py) with its callers, over the   *)
(* database, next to the two other writers of the rows it reads: the fills of      *)
(* order_book_service.py and the status changes of market_service.py.              *)
(*                                                                                 *)
(* One market.  The settlement is one transaction of several statements under READ *)
(* COMMITTED; the row versions x, xW and xBy are those of module Clob.  YES shares *)
(* only: the NO leg of a position is a copy on columns of its own.  Every account  *)
(* has a position row.                                                             *)
(***********************************************************************************)
EXTENDS Integers, FiniteSets

CONSTANTS
    Accounts,
    Settlers,      \* sessions that settle the market
    Calls,         \* what they may be called with: [by, outcome]
    Trades,        \* fills under way: a function from sessions to [buyer, seller, qty]
    Clerks,        \* sessions of admins who pause, unpause or cancel the market
    SeedStatus,    \* the market's status at the start
    SeedShares,    \* the YES shares of each account at the start
    SeedCash,
    Price,         \* every share was and is traded at this price
    Unit,          \* what a winning share pays
    MaxCrashes,    \* bound on sessions lost to a crash
    None

Traders  == DOMAIN Trades
Sessions == Settlers \cup Traders
Callers  == {"admin", "worker", "direct"}
Outcomes == {"YES", "NO", "VOID"}

Market   == [status : {"OPEN", "LOCKED", "CANCELLED", "RESOLVED"},
             winner : {"YES", "NO", None}]
Position == [shares : Int, settled : BOOLEAN]
Entry    == [account : Accounts, amount : Int, by : Settlers]

ASSUME SettlementAssumption ==
    /\ Settlers \cap Traders = {} /\ None \notin Sessions
    /\ None \notin Accounts /\ None \notin Outcomes /\ None \notin Calls
    /\ Calls \subseteq [by : Callers, outcome : Outcomes]
    /\ Trades \in [Traders -> [buyer : Accounts, seller : Accounts, qty : Nat]]
    /\ SeedStatus \in {"OPEN", "LOCKED", "CANCELLED"}
    /\ SeedShares \in [Accounts -> Int] /\ SeedCash \in [Accounts -> Nat]
    /\ Price \in Nat /\ Unit \in Nat /\ MaxCrashes \in Nat

VARIABLES
    mkt, mktW, mktBy,      \* the market row: its status and winning_outcome
    pos, posW, posBy,      \* position rows
    cash, cashW, cashBy,   \* accounts.cash_balance
    entries,               \* SETTLEMENT rows of the ledger
    resolution, resBy,     \* the MarketResolution row and who is inserting it
    crashes,
    tx,                    \* the settling sessions
    trade,                 \* the fills
    clerk                  \* the admins

marketRow    == <<mkt, mktW, mktBy>>
positionRows == <<pos, posW, posBy>>
accountRows  == <<cash, cashW, cashBy>>
auditRow     == <<resolution, resBy>>
vars == <<marketRow, positionRows, accountRows, auditRow, entries, crashes,
          tx, trade, clerk>>

IdleTx == [ pc |-> "idle", call |-> None, seen |-> None, rows |-> None, paid |-> {},
            todo |-> {}, account |-> None, made |-> {} ]

EndedTx(s, pc) == [IdleTx EXCEPT !.pc = pc, !.call = tx[s].call]

IdleTrade == [pc |-> "idle", shares |-> 0]
IdleClerk == [pc |-> "idle", to |-> None]

Init ==
    /\ mkt = [status |-> SeedStatus, winner |-> None] /\ mktW = mkt /\ mktBy = None
    /\ pos = [a \in Accounts |-> [shares |-> SeedShares[a], settled |-> FALSE]]
    /\ posW = pos /\ posBy = [a \in Accounts |-> None]
    /\ cash = SeedCash /\ cashW = SeedCash /\ cashBy = [a \in Accounts |-> None]
    /\ entries = {} /\ resolution = None /\ resBy = None /\ crashes = 0
    /\ tx = [s \in Settlers |-> IdleTx]
    /\ trade = [t \in Traders |-> IdleTrade]
    /\ clerk = [c \in Clerks |-> IdleClerk]

-------------------------------------------------------------------------------------
(* What a share is worth once the market is decided.                               *)

\* Mutant: a void market refunds nothing.
WorthVoidLost(outcome) == IF outcome = "YES" THEN Unit ELSE 0

Worth(outcome) ==
    IF outcome = "YES" THEN Unit ELSE IF outcome = "VOID" THEN Price ELSE 0

\* Mutant: the outcome goes into the market row as it is.
VerdictVerbatim(outcome) == outcome

\* markets.winning_outcome names a side or nothing.
Verdict(outcome) == IF outcome = "VOID" THEN None ELSE outcome

\* _leg_payout of a long position, _leg_liability (as a negative amount) of a short one.
Payoff(shares, outcome) == shares * Worth(outcome)

-------------------------------------------------------------------------------------
(* Ending a transaction.                                                           *)

CommitRows(s) ==
    /\ pos' = [a \in Accounts |-> IF posBy[a] = s THEN posW[a] ELSE pos[a]]
    /\ cash' = [a \in Accounts |-> IF cashBy[a] = s THEN cashW[a] ELSE cash[a]]
    /\ posBy' = [a \in Accounts |-> IF posBy[a] = s THEN None ELSE posBy[a]]
    /\ cashBy' = [a \in Accounts |-> IF cashBy[a] = s THEN None ELSE cashBy[a]]
    /\ UNCHANGED <<posW, cashW>>

\* Mutant: the balances are kept.
RollbackRowsButCash(s) ==
    /\ posW' = [a \in Accounts |-> IF posBy[a] = s THEN pos[a] ELSE posW[a]]
    /\ posBy' = [a \in Accounts |-> IF posBy[a] = s THEN None ELSE posBy[a]]
    /\ cash' = [a \in Accounts |-> IF cashBy[a] = s THEN cashW[a] ELSE cash[a]]
    /\ cashBy' = [a \in Accounts |-> IF cashBy[a] = s THEN None ELSE cashBy[a]]
    /\ UNCHANGED <<pos, cashW>>

RollbackRows(s) ==
    /\ posW' = [a \in Accounts |-> IF posBy[a] = s THEN pos[a] ELSE posW[a]]
    /\ cashW' = [a \in Accounts |-> IF cashBy[a] = s THEN cash[a] ELSE cashW[a]]
    /\ posBy' = [a \in Accounts |-> IF posBy[a] = s THEN None ELSE posBy[a]]
    /\ cashBy' = [a \in Accounts |-> IF cashBy[a] = s THEN None ELSE cashBy[a]]
    /\ UNCHANGED <<pos, cash>>

\* Mutant: a lost session keeps the market row locked.
ReleaseMarketNever(s) == UNCHANGED <<mktW, mktBy, resBy>>

ReleaseMarket(s) ==
    /\ mktW' = IF mktBy = s THEN mkt ELSE mktW
    /\ mktBy' = IF mktBy = s THEN None ELSE mktBy
    /\ resBy' = IF resBy = s THEN None ELSE resBy

Abort(s) ==
    /\ RollbackRows(s) /\ ReleaseMarket(s)
    /\ tx' = [tx EXCEPT ![s] = EndedTx(s, "refused")]
    /\ UNCHANGED <<mkt, resolution, entries, trade, clerk>>

-------------------------------------------------------------------------------------
(* settle_market                                                                   *)

\* The caller reads the market and decides on what it reads: the admin route, the
\* service and the tournament resolver turn a resolved market away, the catalog worker
\* picks up locked ones only, and settle_market itself takes any.
Begin(s, call) ==
    /\ tx[s].pc = "idle"
    /\ call.by = "worker" => mkt.status = "LOCKED"
    /\ IF call.by = "admin" /\ mkt.status = "RESOLVED"
       THEN tx' = [tx EXCEPT ![s].pc = "refused", ![s].call = call]
       ELSE tx' = [tx EXCEPT ![s].pc = IF mkt.status = "RESOLVED" THEN "rows" ELSE "market",
                             ![s].call = call, ![s].seen = mkt]
    /\ UNCHANGED <<marketRow, positionRows, accountRows, auditRow, entries, crashes,
                   trade, clerk>>

(***********************************************************************************)
(* The market's new status goes out as an UPDATE before the next SELECT.  It waits *)
(* for the row but does not look again at the status it found earlier, and writes  *)
(* winning_outcome only if it differs from what was found.                         *)
(***********************************************************************************)
ClaimMarket(s) ==
    LET verdict == Verdict(tx[s].call.outcome) IN
    /\ tx[s].pc = "market" /\ mktBy = None
    /\ mktBy' = s
    /\ mktW' = [status |-> "RESOLVED",
                winner |-> IF verdict # tx[s].seen.winner THEN verdict ELSE mkt.winner]
    /\ tx' = [tx EXCEPT ![s].pc = "rows"]
    /\ UNCHANGED <<mkt, positionRows, accountRows, auditRow, entries, crashes, trade, clerk>>

ReadPositions(s) ==
    /\ tx[s].pc = "rows"
    /\ tx' = [tx EXCEPT ![s].pc = "paid", ![s].rows = pos, ![s].todo = Accounts]
    /\ UNCHANGED <<marketRow, positionRows, accountRows, auditRow, entries, crashes,
                   trade, clerk>>

\* settled_account_ids
ReadEntries(s) ==
    /\ tx[s].pc = "paid"
    /\ tx' = [tx EXCEPT ![s].pc = "positions", ![s].paid = {e.account : e \in entries}]
    /\ UNCHANGED <<marketRow, positionRows, accountRows, auditRow, entries, crashes,
                   trade, clerk>>

\* A position already paid or empty is only marked settled; the UPDATE of the flag goes
\* out unless the row was read with it.
Skippable(s, a) ==
    a \in tx[s].paid \/ tx[s].rows[a].settled \/ tx[s].rows[a].shares = 0

Skip(s, a) ==
    /\ tx[s].pc = "positions" /\ a \in tx[s].todo /\ Skippable(s, a)
    /\ IF tx[s].rows[a].settled
       THEN UNCHANGED positionRows
       ELSE /\ posBy[a] = None
            /\ posBy' = [posBy EXCEPT ![a] = s]
            /\ posW' = [posW EXCEPT ![a].settled = TRUE]
            /\ UNCHANGED pos
    /\ tx' = [tx EXCEPT ![s].todo = @ \ {a}]
    /\ UNCHANGED <<marketRow, accountRows, auditRow, entries, crashes, trade, clerk>>

\* Mutant: the claim trusts the row as it was read.
ClaimableSeen(s, a) == ~tx[s].rows[a].settled

\* The WHERE clause of the claim, on the row as it is when the lock is granted.
Claimable(s, a) == ~posW[a].settled

(***********************************************************************************)
(* The compare-and-set on the settled flag.  What is paid next is computed from    *)
(* the shares read before it.                                                      *)
(***********************************************************************************)
Claim(s, a) ==
    /\ tx[s].pc = "positions" /\ a \in tx[s].todo /\ ~Skippable(s, a)
    /\ posBy[a] = None
    /\ IF Claimable(s, a)
       THEN /\ posBy' = [posBy EXCEPT ![a] = s]
            /\ posW' = [posW EXCEPT ![a] = [shares |-> 0, settled |-> TRUE]]
            /\ tx' = [tx EXCEPT ![s].pc = "pay", ![s].account = a, ![s].todo = @ \ {a}]
       ELSE /\ tx' = [tx EXCEPT ![s].todo = @ \ {a}]
            /\ UNCHANGED <<posW, posBy>>
    /\ UNCHANGED <<marketRow, pos, accountRows, auditRow, entries, crashes, trade, clerk>>

Due(s) == Payoff(tx[s].rows[tx[s].account].shares, tx[s].call.outcome)

(***********************************************************************************)
(* Credit the payout or debit the liability.  A debit the balance cannot cover     *)
(* raises: the request rolls back, but the catalog worker logs it and commits what *)
(* its session holds at the end of its pass.                                       *)
(***********************************************************************************)
Pay(s) ==
    LET a == tx[s].account IN
    /\ tx[s].pc = "pay"
    /\ \/ /\ Due(s) = 0
          /\ tx' = [tx EXCEPT ![s].pc = "positions", ![s].account = None]
          /\ UNCHANGED <<marketRow, positionRows, accountRows, auditRow, entries, trade, clerk>>
       \/ /\ Due(s) # 0 /\ cashBy[a] \in {None, s}
          /\ cashW[a] + Due(s) >= 0
          /\ cashBy' = [cashBy EXCEPT ![a] = s]
          /\ cashW' = [cashW EXCEPT ![a] = cashW[a] + Due(s)]
          /\ tx' = [tx EXCEPT ![s].pc = "positions", ![s].account = None,
                              ![s].made = @ \cup {[account |-> a, amount |-> Due(s), by |-> s]}]
          /\ UNCHANGED <<marketRow, positionRows, cash, auditRow, entries, trade, clerk>>
       \/ /\ Due(s) # 0 /\ cashBy[a] \in {None, s}
          /\ cashW[a] + Due(s) < 0
          /\ IF tx[s].call.by = "worker"
             THEN /\ tx' = [tx EXCEPT ![s].pc = "commit", ![s].account = None]
                  /\ UNCHANGED <<marketRow, positionRows, accountRows, auditRow, entries,
                                 trade, clerk>>
             ELSE Abort(s)
    /\ UNCHANGED crashes

ReadResolution(s) ==
    /\ tx[s].pc = "positions" /\ tx[s].todo = {}
    /\ tx' = [tx EXCEPT ![s].pc = IF resolution = None THEN "audit" ELSE "commit"]
    /\ UNCHANGED <<marketRow, positionRows, accountRows, auditRow, entries, crashes,
                   trade, clerk>>

\* The slug is unique: the insert waits for another one and fails if that committed.
InsertResolution(s) ==
    /\ tx[s].pc = "audit" /\ resBy = None
    /\ IF resolution # None
       THEN Abort(s)
       ELSE /\ resBy' = s
            /\ tx' = [tx EXCEPT ![s].pc = "commit"]
            /\ UNCHANGED <<marketRow, positionRows, accountRows, resolution, entries,
                           trade, clerk>>
    /\ UNCHANGED crashes

Commit(s) ==
    /\ tx[s].pc = "commit"
    /\ CommitRows(s)
    /\ mkt' = IF mktBy = s THEN mktW ELSE mkt
    /\ mktBy' = IF mktBy = s THEN None ELSE mktBy
    /\ resolution' = IF resBy = s THEN tx[s].call.outcome ELSE resolution
    /\ resBy' = IF resBy = s THEN None ELSE resBy
    /\ entries' = entries \cup tx[s].made
    /\ tx' = [tx EXCEPT ![s] = EndedTx(s, "done")]
    /\ UNCHANGED <<mktW, crashes, trade, clerk>>

Crash(s) ==
    /\ crashes < MaxCrashes /\ tx[s].pc \notin {"idle", "done", "refused"}
    /\ crashes' = crashes + 1
    /\ Abort(s)

-------------------------------------------------------------------------------------
(* Fills: the market is checked when the request arrives; each leg reads the shares *)
(* of its account, posts the cash and then writes the shares it computed.  The      *)
(* account is locked from the first of these writes, the position from the second.  *)

LegAccount(t, leg) == IF leg = "buyer" THEN Trades[t].buyer ELSE Trades[t].seller

StartTrade(t) ==
    /\ trade[t].pc = "idle" /\ mkt.status = "OPEN"
    /\ trade' = [trade EXCEPT ![t].pc = "buyer"]
    /\ UNCHANGED <<marketRow, positionRows, accountRows, auditRow, entries, crashes, tx, clerk>>

ReadShares(t, leg) ==
    LET a == LegAccount(t, leg) IN
    /\ trade[t].pc = leg
    /\ trade' = [trade EXCEPT
                   ![t].pc = IF leg = "buyer" THEN "buyerPost" ELSE "sellerPost",
                   ![t].shares = (IF posBy[a] = t THEN posW[a] ELSE pos[a]).shares]
    /\ UNCHANGED <<marketRow, positionRows, accountRows, auditRow, entries, crashes, tx, clerk>>

AbortTrade(t) ==
    /\ RollbackRows(t)
    /\ trade' = [trade EXCEPT ![t] = [IdleTrade EXCEPT !.pc = "refused"]]
    /\ UNCHANGED <<marketRow, auditRow, entries, tx, clerk>>

\* What the leg adds to the shares of its account.
LegQty(t, leg) == IF leg = "buyer" THEN Trades[t].qty ELSE 0 - Trades[t].qty

\* ledger.debit or credit: one guarded UPDATE of the account.
PostCash(t, leg) ==
    LET a      == LegAccount(t, leg)
        amount == 0 - LegQty(t, leg) * Price
    IN
    /\ trade[t].pc = IF leg = "buyer" THEN "buyerPost" ELSE "sellerPost"
    /\ cashBy[a] \in {None, t}
    /\ IF cashW[a] + amount < 0
       THEN AbortTrade(t)
       ELSE /\ cashBy' = [cashBy EXCEPT ![a] = t]
            /\ cashW' = [cashW EXCEPT ![a] = cashW[a] + amount]
            /\ trade' = [trade EXCEPT
                           ![t].pc = IF leg = "buyer" THEN "buyerWrite" ELSE "sellerWrite"]
            /\ UNCHANGED <<marketRow, positionRows, cash, auditRow, entries, tx, clerk>>
    /\ UNCHANGED crashes

\* The flush: an UPDATE to the number of shares, which waits for the position's row.
WriteShares(t, leg) ==
    LET a == LegAccount(t, leg) IN
    /\ trade[t].pc = IF leg = "buyer" THEN "buyerWrite" ELSE "sellerWrite"
    /\ posBy[a] \in {None, t}
    /\ posBy' = [posBy EXCEPT ![a] = t]
    /\ posW' = [posW EXCEPT ![a].shares = trade[t].shares + LegQty(t, leg)]
    /\ trade' = [trade EXCEPT ![t].pc = IF leg = "buyer" THEN "seller" ELSE "commit",
                              ![t].shares = 0]
    /\ UNCHANGED <<marketRow, pos, accountRows, auditRow, entries, crashes, tx, clerk>>

CommitTrade(t) ==
    /\ trade[t].pc = "commit"
    /\ CommitRows(t)
    /\ trade' = [trade EXCEPT ![t] = [IdleTrade EXCEPT !.pc = "done"]]
    /\ UNCHANGED <<marketRow, auditRow, entries, crashes, tx, clerk>>

-------------------------------------------------------------------------------------
(* market_service: pause, unpause, cancel.  The status is read and judged, then     *)
(* written; the UPDATE waits for the row and is committed with the request.         *)

\* Where each operation leads from the status it accepts.
Changes(status) ==
    CASE status = "OPEN"   -> {"LOCKED", "CANCELLED"}
      [] status = "LOCKED" -> {"OPEN", "CANCELLED"}
      [] OTHER -> {}

ClerkReads(c) ==
    /\ clerk[c].pc = "idle"
    /\ \E to \in Changes(mkt.status) :
          clerk' = [clerk EXCEPT ![c] = [pc |-> "write", to |-> to]]
    /\ UNCHANGED <<marketRow, positionRows, accountRows, auditRow, entries, crashes, tx, trade>>

ClerkWrites(c) ==
    /\ clerk[c].pc = "write" /\ mktBy = None
    /\ mkt' = [mkt EXCEPT !.status = clerk[c].to] /\ mktW' = mkt'
    /\ clerk' = [clerk EXCEPT ![c] = [pc |-> "done", to |-> None]]
    /\ UNCHANGED <<mktBy, positionRows, accountRows, auditRow, entries, crashes, tx, trade>>

-------------------------------------------------------------------------------------
(* Waiting.                                                                         *)

NeedsLock(s, a) == ~tx[s].rows[a].settled

\* Who may hold the lock the next statement of a session needs.  The positions come in
\* no particular order, so a session waits once every one that is left is locked.
Blockers(s) ==
    ( IF s \in Settlers
      THEN CASE tx[s].pc = "market"    -> {mktBy}
             [] tx[s].pc = "positions" ->
                   IF \A a \in tx[s].todo : NeedsLock(s, a) /\ posBy[a] # None
                   THEN {posBy[a] : a \in tx[s].todo} ELSE {}
             [] tx[s].pc = "pay"       -> IF Due(s) = 0 THEN {} ELSE {cashBy[tx[s].account]}
             [] tx[s].pc = "audit"     -> {resBy}
             [] OTHER -> {}
      ELSE CASE trade[s].pc = "buyerPost"   -> {cashBy[Trades[s].buyer]}
             [] trade[s].pc = "buyerWrite"  -> {posBy[Trades[s].buyer]}
             [] trade[s].pc = "sellerPost"  -> {cashBy[Trades[s].seller]}
             [] trade[s].pc = "sellerWrite" -> {posBy[Trades[s].seller]}
             [] OTHER -> {} ) \ {None, s}

OnWaitCycle(s) ==
    \E cycle \in SUBSET Sessions :
        /\ s \in cycle
        /\ \A u \in cycle : Blockers(u) \cap cycle # {}
        /\ \A u \in cycle : \E v \in cycle : u \in Blockers(v)

\* PostgreSQL's deadlock detector aborts a transaction of the cycle.
DeadlockVictim(s) ==
    /\ OnWaitCycle(s)
    /\ IF s \in Settlers THEN Abort(s) ELSE AbortTrade(s)
    /\ UNCHANGED crashes

-------------------------------------------------------------------------------------

Step(s) ==
    \/ ClaimMarket(s) \/ ReadPositions(s) \/ ReadEntries(s)
    \/ \E a \in Accounts : Skip(s, a) \/ Claim(s, a)
    \/ Pay(s) \/ ReadResolution(s) \/ InsertResolution(s) \/ Commit(s)
    \/ DeadlockVictim(s)

StepTrade(t) ==
    \/ \E leg \in {"buyer", "seller"} :
          ReadShares(t, leg) \/ PostCash(t, leg) \/ WriteShares(t, leg)
    \/ CommitTrade(t)
    \/ DeadlockVictim(t)

Resting ==
    /\ \A s \in Settlers : tx[s].pc \in {"idle", "done", "refused"}
    /\ \A t \in Traders : trade[t].pc \in {"idle", "done", "refused"}
    /\ \A c \in Clerks : clerk[c].pc \in {"idle", "done"}

Next ==
    \/ \E s \in Settlers : (\E call \in Calls : Begin(s, call)) \/ Step(s) \/ Crash(s)
    \/ \E t \in Traders : StartTrade(t) \/ StepTrade(t)
    \/ \E c \in Clerks : ClerkReads(c) \/ ClerkWrites(c)
    \/ Resting /\ UNCHANGED vars

Spec == Init /\ [][Next]_vars

\* A statement that can proceed is executed; nobody has to begin anything.
Fairness ==
    /\ \A s \in Settlers : WF_vars(Step(s))
    /\ \A t \in Traders : WF_vars(StepTrade(t))

FairSpec == Spec /\ Fairness

=====================================================================================

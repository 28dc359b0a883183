--------------------------- MODULE SettlementProperties ---------------------------
(***********************************************************************************)
(* What the settlement guarantees, and what it does not.                           *)
(***********************************************************************************)
EXTENDS Settlement, FiniteSetsExt

-------------------------------------------------------------------------------------
(* Guarantees.                                                                     *)

TxType ==
    [ pc : {"idle", "market", "rows", "paid", "positions", "pay", "audit", "commit",
            "done", "refused"},
      call : Calls \cup {None}, seen : Market \cup {None},
      rows : [Accounts -> Position] \cup {None}, paid : SUBSET Accounts,
      todo : SUBSET Accounts, account : Accounts \cup {None}, made : SUBSET Entry ]

\* Every row, lock and session local stays within its type.
TypeOK ==
    /\ mkt \in Market /\ mktW \in Market /\ mktBy \in Settlers \cup {None}
    /\ pos \in [Accounts -> Position] /\ posW \in [Accounts -> Position]
    /\ posBy \in [Accounts -> Sessions \cup {None}]
    /\ cash \in [Accounts -> Int] /\ cashW \in [Accounts -> Int]
    /\ cashBy \in [Accounts -> Sessions \cup {None}]
    /\ entries \in SUBSET Entry
    /\ resolution \in Outcomes \cup {None} /\ resBy \in Settlers \cup {None}
    /\ crashes \in 0..MaxCrashes
    /\ tx \in [Settlers -> TxType]
    /\ trade \in [Traders -> [pc : {"idle", "buyer", "buyerPost", "buyerWrite", "seller",
                                    "sellerPost", "sellerWrite", "commit", "done",
                                    "refused"}, shares : Int]]
    /\ clerk \in [Clerks -> [pc : {"write"}, to : {"OPEN", "LOCKED", "CANCELLED"}]
                             \cup [pc : {"idle", "done"}, to : {None}]]

\* No account is paid or charged twice for a market, whatever settlements race, fail,
\* crash or are called again, even when the market was reopened in between: the claim on
\* the position is what decides.
PaidOnce == \A e, f \in entries : e.account = f.account => e = f

\* The ledger explains the balances: the SETTLEMENT rows and the committed fills are all
\* that ever moved the cash of an account.
Spent(a, side) ==
    MapThenSumSet(LAMBDA t : Trades[t].qty * Price,
                  {t \in Traders : trade[t].pc = "done" /\ LegAccount(t, side) = a})

EntriesExplainCash ==
    \A a \in Accounts :
        cash[a] = SeedCash[a]
                    + MapThenSumSet(LAMBDA e : e.amount, {e \in entries : e.account = a})
                    + Spent(a, "seller") - Spent(a, "buyer")

\* As long as only admins settle, and no fill is under way, racing settlements implement
\* the atomic one: in one stroke and under one verdict, every account or none, and
\* nobody is left overdrawn.
AtOnce == INSTANCE AtomicSettlement
            WITH verdict <- resolution, shares <- [a \in Accounts |-> pos[a].shares]

AdminsAlone ==
    /\ \A s \in Settlers : tx[s].call = None \/ tx[s].call.by = "admin"
    /\ \A t \in Traders : trade[t].pc = "idle"

SettlesAtOnce == [][AdminsAlone' => AtOnce!Next]_<<resolution, pos, cash>>

\* Every settlement and every fill that starts comes to an end, although they lock the
\* same positions and accounts in different orders.
EverySessionEnds ==
    /\ \A s \in Settlers :
          tx[s].pc \notin {"idle", "done", "refused"} ~> tx[s].pc \in {"done", "refused"}
    /\ \A t \in Traders :
          trade[t].pc \notin {"idle", "done", "refused"} ~> trade[t].pc \in {"done", "refused"}

-------------------------------------------------------------------------------------
(* Expectations of the documentation that the code does not meet.                   *)

\* A resolved market has its audit row and no unsettled position: one session does all.
ResolvedMeansSettled ==
    mkt.status = "RESOLVED" => /\ resolution # None
                               /\ \A a \in Accounts : pos[a].settled

=====================================================================================

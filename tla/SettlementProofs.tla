------------------------------ MODULE SettlementProofs ------------------------------
(***********************************************************************************)
(* Settlement pays every account at most once, for any settlers, callers, fills    *)
(* and admins: an inductive invariant over the claims on the position rows.  The   *)
(* second part adds the money: the balances are explained by the SETTLEMENT rows   *)
(* and the committed fills.  The third shows that administrators who race settle   *)
(* the market in one stroke.                                                       *)
(***********************************************************************************)
EXTENDS SettlementProperties, DataLemmas

Working == {"market", "rows", "paid", "positions", "pay", "audit", "commit"}
Paying  == {"positions", "pay", "audit", "commit"}

\* s holds the row of a and has turned it from unsettled to settled, uncommitted.
Claimed(s, a) == posBy[a] = s /\ ~pos[a].settled /\ posW[a].settled

\* A row nobody holds has one version, and no version undoes a settlement.
RowsFine ==
    \A a \in Accounts : /\ posBy[a] = None => posW[a] = pos[a]
                        /\ pos[a].settled => posW[a].settled

\* Only settled accounts have been paid, once each.
EntriesFine == PaidOnce /\ \A e \in entries : pos[e.account].settled

\* What a settlement has posted it has claimed before, and what it still has to handle
\* it has not posted.
TxFine(s) ==
    /\ tx[s].pc \in Working => tx[s].call \in Calls
    /\ tx[s].pc = "market" => tx[s].seen \in Market
    /\ tx[s].pc \in {"paid", "positions", "pay"} => tx[s].rows \in [Accounts -> Position]
    /\ resBy = s => tx[s].pc = "commit"
    /\ tx[s].pc \notin Paying => tx[s].made = {}
    /\ \A e \in tx[s].made : /\ Claimed(s, e.account)
                             /\ e.account \notin tx[s].todo /\ e.account # tx[s].account
    /\ \A e, f \in tx[s].made : e.account = f.account => e = f
    /\ tx[s].pc = "pay" => /\ tx[s].account \in Accounts \ tx[s].todo
                           /\ Claimed(s, tx[s].account)

IInv == TypeOK /\ RowsFine /\ EntriesFine /\ \A s \in Settlers : TxFine(s)

RowType ==
    /\ mkt \in Market /\ mktW \in Market /\ mktBy \in Settlers \cup {None}
    /\ pos \in [Accounts -> Position] /\ posW \in [Accounts -> Position]
    /\ posBy \in [Accounts -> Sessions \cup {None}]
    /\ cash \in [Accounts -> Int] /\ cashW \in [Accounts -> Int]
    /\ cashBy \in [Accounts -> Sessions \cup {None}]
    /\ entries \in SUBSET Entry
    /\ resolution \in Outcomes \cup {None} /\ resBy \in Settlers \cup {None}
    /\ crashes \in 0..MaxCrashes

OthersType ==
    /\ trade \in [Traders -> [pc : {"idle", "buyer", "buyerPost", "buyerWrite", "seller",
                                    "sellerPost", "sellerWrite", "commit", "done",
                                    "refused"}, shares : Int]]
    /\ clerk \in [Clerks -> [pc : {"write"}, to : {"OPEN", "LOCKED", "CANCELLED"}]
                             \cup [pc : {"idle", "done"}, to : {None}]]

-------------------------------------------------------------------------------------
(* Shared by the actions.                                                          *)

\* A settlement that has not begun has locals of the right type.
LEMMA IdleType == IdleTx \in TxType
  BY DEF IdleTx, TxType

\* The invariant holds at the start: nothing is settled and nobody runs.
LEMMA InitInv == Init => IInv
<1> SUFFICES ASSUME Init PROVE IInv
  OBVIOUS
<1>1. RowType
  <2>1. pos \in [Accounts -> Position]
    BY SettlementAssumption DEF Init, Position
  <2>2. mkt \in Market
    BY SettlementAssumption DEF Init, Market
  <2> QED
    BY <2>1, <2>2, SettlementAssumption DEF Init, RowType
<1>2. OthersType /\ tx \in [Settlers -> TxType]
  BY IdleType DEF Init, OthersType, IdleTrade, IdleClerk
<1>3. RowsFine /\ EntriesFine
  BY DEF Init, RowsFine, EntriesFine, PaidOnce
<1>4. \A s \in Settlers : TxFine(s)
  BY SettlementAssumption DEF Init, TxFine, IdleTx, Working, Paying, Sessions
<1> QED
  BY <1>1, <1>2, <1>3, <1>4 DEF IInv, TypeOK, RowType, OthersType

\* What a step of session x leaves alone: the rows other settlements have claimed, and
\* whose turn it is to write the audit row.
ClaimsKept(x) ==
    \A u \in Settlers \ {x} :
        /\ resBy' = u => resBy = u
        /\ \A a \in Accounts : Claimed(u, a) => Claimed(u, a)'

\* What one settlement relies on survives the steps of everyone else.
LEMMA OthersFine ==
  ASSUME IInv, NEW x, ClaimsKept(x), NEW u \in Settlers \ {x}, tx'[u] = tx[u]
  PROVE  TxFine(u)'
<1>1. TxFine(u) /\ tx[u] \in TxType
  BY DEF IInv, TypeOK
<1>2. \A e \in tx[u].made : e.account \in Accounts
  BY <1>1 DEF TxType, Entry
<1> QED
  BY <1>1, <1>2 DEF TxFine, ClaimsKept

\* A step of settlement s preserves the invariant if it does so for the rows and for s.
LEMMA Assemble ==
  ASSUME IInv, NEW s \in Settlers, NEW r \in TxType, tx' = [tx EXCEPT ![s] = r],
         RowType', OthersType', RowsFine', EntriesFine', ClaimsKept(s), TxFine(s)'
  PROVE  IInv'
<1>1. tx \in [Settlers -> TxType]
  BY DEF IInv, TypeOK
<1>2. tx' \in [Settlers -> TxType]
  BY <1>1
<1>3. ASSUME NEW u \in Settlers PROVE TxFine(u)'
  <2>1. CASE u = s
    BY <2>1
  <2>2. CASE u # s
    BY <1>1, <2>2, OthersFine
  <2> QED
    BY <2>1, <2>2
<1> QED
  BY <1>2, <1>3 DEF IInv, TypeOK, RowType, OthersType

\* The same for a step of anyone else, who touches no settlement.
LEMMA AssembleOutside ==
  ASSUME IInv, NEW x, x \notin Settlers, UNCHANGED tx,
         RowType', OthersType', RowsFine', EntriesFine', ClaimsKept(x)
  PROVE  IInv'
<1>1. \A u \in Settlers : TxFine(u)'
  BY OthersFine
<1> QED
  BY <1>1 DEF IInv, TypeOK, RowType, OthersType

\* A step that leaves the positions and the ledger alone keeps what is said of them.
LEMMA SameClaims ==
  ASSUME IInv, NEW x, UNCHANGED <<positionRows, entries>>,
         \A u \in Settlers \ {x} : resBy' = u => resBy = u
  PROVE  RowsFine' /\ EntriesFine' /\ ClaimsKept(x)
<1>1. pos' = pos /\ posW' = posW /\ posBy' = posBy /\ entries' = entries
  BY DEF positionRows
<1>2. RowsFine'
  BY <1>1 DEF IInv, RowsFine
<1>3. EntriesFine'
  BY <1>1 DEF IInv, EntriesFine, PaidOnce
<1>4. ClaimsKept(x)
  BY <1>1 DEF ClaimsKept, Claimed
<1> QED
  BY <1>2, <1>3, <1>4

\* A step that leaves the fills and the admins alone keeps their types.
LEMMA SameOthers == ASSUME IInv, UNCHANGED <<trade, clerk>> PROVE OthersType'
  BY DEF IInv, TypeOK, OthersType

\* A settlement that has ended relies on nothing.
LEMMA EndedFine ==
  ASSUME IInv, NEW s \in Settlers, NEW pc \in {"done", "refused"},
         tx' = [tx EXCEPT ![s] = EndedTx(s, pc)], resBy' # s
  PROVE  EndedTx(s, pc) \in TxType /\ TxFine(s)'
<1>1. EndedTx(s, pc) \in TxType
  BY IdleType DEF IInv, TypeOK, EndedTx, IdleTx, TxType
<1>2. tx'[s].pc = pc /\ tx'[s].made = {}
  BY DEF IInv, TypeOK, EndedTx, IdleTx
<1>3. TxFine(s)'
  BY <1>2 DEF TxFine, Working, Paying
<1> QED
  BY <1>1, <1>3

\* Rolling back restores the committed positions.
LEMMA RollbackFine ==
  ASSUME IInv, NEW x \in Sessions, RollbackRows(x)
  PROVE  /\ pos' \in [Accounts -> Position] /\ posW' \in [Accounts -> Position]
         /\ posBy' \in [Accounts -> Sessions \cup {None}]
         /\ cash' \in [Accounts -> Int] /\ cashW' \in [Accounts -> Int]
         /\ cashBy' \in [Accounts -> Sessions \cup {None}]
         /\ RowsFine'
         /\ \A u \in Settlers \ {x}, a \in Accounts : Claimed(u, a) => Claimed(u, a)'
<1> USE DEF IInv, TypeOK
<1>1. /\ pos' \in [Accounts -> Position] /\ posW' \in [Accounts -> Position]
      /\ posBy' \in [Accounts -> Sessions \cup {None}]
      /\ cash' \in [Accounts -> Int] /\ cashW' \in [Accounts -> Int]
      /\ cashBy' \in [Accounts -> Sessions \cup {None}]
  BY DEF RollbackRows
<1>2. RowsFine'
  BY DEF RollbackRows, RowsFine
<1>3. \A u \in Settlers \ {x}, a \in Accounts : Claimed(u, a) => Claimed(u, a)'
  BY DEF RollbackRows, Claimed
<1> QED
  BY <1>1, <1>2, <1>3

\* Losing a settlement, for whatever reason, preserves the invariant.
LEMMA AbortInv ==
  ASSUME IInv, NEW s \in Settlers, Abort(s), crashes' \in 0..MaxCrashes
  PROVE  IInv'
<1>1. s \in Sessions /\ s # None
  BY SettlementAssumption DEF Sessions
<1>2. resBy' # s /\ \A u \in Settlers \ {s} : resBy' = u => resBy = u
  BY <1>1, SettlementAssumption DEF Abort, ReleaseMarket, Sessions
<1>3. EndedTx(s, "refused") \in TxType /\ TxFine(s)'
  BY <1>2, EndedFine DEF Abort
<1>4. RowType'
  <2>1. /\ mkt' \in Market /\ mktW' \in Market /\ mktBy' \in Settlers \cup {None}
        /\ resolution' \in Outcomes \cup {None} /\ resBy' \in Settlers \cup {None}
        /\ entries' \in SUBSET Entry
    BY DEF IInv, TypeOK, Abort, ReleaseMarket
  <2> QED
    BY <1>1, <2>1, RollbackFine DEF Abort, RowType
<1>5. RowsFine' /\ ClaimsKept(s)
  BY <1>1, <1>2, RollbackFine DEF Abort, ClaimsKept
<1>6. EntriesFine'
  BY DEF Abort, RollbackRows, IInv, EntriesFine, PaidOnce
<1>7. OthersType'
  BY SameOthers DEF Abort
<1>8. tx' = [tx EXCEPT ![s] = EndedTx(s, "refused")]
  BY DEF Abort
<1> QED
  BY <1>3, <1>4, <1>5, <1>6, <1>7, <1>8, Assemble

\* A step of s on its own locals.
LEMMA LocalInv ==
  ASSUME IInv, NEW s \in Settlers, NEW r \in TxType, tx' = [tx EXCEPT ![s] = r],
         UNCHANGED <<marketRow, positionRows, accountRows, auditRow, entries, crashes,
                     trade, clerk>>,
         TxFine(s)'
  PROVE  IInv'
<1>1. RowType'
  BY DEF IInv, TypeOK, RowType, marketRow, positionRows, accountRows, auditRow
<1>2. resBy' = resBy
  BY DEF auditRow
<1>3. RowsFine' /\ EntriesFine' /\ ClaimsKept(s)
  BY <1>2, SameClaims
<1> QED
  BY <1>1, <1>3, SameOthers, Assemble


-------------------------------------------------------------------------------------
(* One lemma per action of a settlement.                                           *)

\* The callers of settle_market preserve the invariant.
LEMMA BeginInv ==
  ASSUME IInv, NEW s \in Settlers, NEW call \in Calls, Begin(s, call)
  PROVE  IInv'
<1> DEFINE refused == [tx[s] EXCEPT !.pc = "refused", !.call = call]
           r == [tx[s] EXCEPT !.pc = IF mkt.status = "RESOLVED" THEN "rows" ELSE "market",
                              !.call = call, !.seen = mkt]
<1>1. tx[s] \in TxType /\ TxFine(s) /\ tx[s].pc = "idle" /\ mkt \in Market /\ resBy' = resBy
  BY DEF IInv, TypeOK, Begin, auditRow
<1>2. refused \in TxType /\ r \in TxType
  BY <1>1 DEF TxType
<1>3. tx' = [tx EXCEPT ![s] = refused] \/ tx' = [tx EXCEPT ![s] = r]
  BY DEF Begin
<1>4. /\ tx'[s].pc \in {"refused", "rows", "market"} /\ tx'[s].call = call
      /\ tx'[s].pc # "refused" => tx'[s].seen = mkt
      /\ tx'[s].made = {}
  <2>1. tx[s].made = {}
    BY <1>1 DEF TxFine, Paying
  <2>2. tx'[s] = refused \/ tx'[s] = r
    BY <1>3 DEF IInv, TypeOK
  <2>3. CASE tx'[s] = refused
    BY <1>1, <2>1, <2>3 DEF TxType
  <2>4. CASE tx'[s] = r
    BY <1>1, <2>1, <2>4 DEF TxType
  <2> QED
    BY <2>2, <2>3, <2>4
<1>5. TxFine(s)'
  <2>1. mkt' = mkt /\ resBy' # s
    BY <1>1 DEF Begin, marketRow, TxFine
  <2> QED
    BY <1>1, <1>4, <2>1 DEF TxFine, Working, Paying
<1> QED
  BY <1>2, <1>3, <1>5, LocalInv DEF Begin

\* Writing the market's status and outcome preserves the invariant.
LEMMA ClaimMarketInv ==
  ASSUME IInv, NEW s \in Settlers, ClaimMarket(s)
  PROVE  IInv'
<1> DEFINE r == [tx[s] EXCEPT !.pc = "rows"]
<1>1. tx[s] \in TxType /\ TxFine(s) /\ tx[s].pc = "market" /\ resBy' = resBy
  BY DEF IInv, TypeOK, ClaimMarket, auditRow
<1>2. r \in TxType
  BY <1>1 DEF TxType
<1>3. tx' = [tx EXCEPT ![s] = r]
  BY DEF ClaimMarket
<1>4. TxFine(s)'
  BY <1>1, <1>3 DEF IInv, TypeOK, TxType, TxFine, Working, Paying, ClaimMarket,
                    Claimed, positionRows
<1>5. mktW' \in Market
  <2>1. tx[s].call.outcome \in Outcomes
    BY <1>1, SettlementAssumption DEF TxFine, Working
  <2>2. Verdict(tx[s].call.outcome) \in {"YES", "NO", None}
    BY <2>1 DEF Verdict, Outcomes
  <2> QED
    BY <2>2 DEF ClaimMarket, Market, IInv, TypeOK
<1>6. RowType'
  BY <1>5 DEF IInv, TypeOK, RowType, ClaimMarket, positionRows, accountRows, auditRow
<1>7. RowsFine' /\ EntriesFine' /\ ClaimsKept(s)
  BY <1>1, SameClaims DEF ClaimMarket
<1> QED
  BY <1>2, <1>3, <1>4, <1>6, <1>7, SameOthers, Assemble DEF ClaimMarket

\* Reading the positions preserves the invariant.
LEMMA ReadPositionsInv ==
  ASSUME IInv, NEW s \in Settlers, ReadPositions(s)
  PROVE  IInv'
<1> DEFINE r == [tx[s] EXCEPT !.pc = "paid", !.rows = pos, !.todo = Accounts]
<1>1. tx[s] \in TxType /\ TxFine(s) /\ tx[s].pc = "rows" /\ resBy' = resBy
  BY DEF IInv, TypeOK, ReadPositions, auditRow
<1>2. r \in TxType
  BY <1>1 DEF IInv, TypeOK, TxType
<1>3. tx' = [tx EXCEPT ![s] = r]
  BY DEF ReadPositions
<1>4. TxFine(s)'
  BY <1>1, <1>3 DEF IInv, TypeOK, TxType, TxFine, Working, Paying
<1> QED
  BY <1>2, <1>3, <1>4, LocalInv DEF ReadPositions

\* Reading the accounts that were paid before preserves the invariant.
LEMMA ReadEntriesInv ==
  ASSUME IInv, NEW s \in Settlers, ReadEntries(s)
  PROVE  IInv'
<1> DEFINE r == [tx[s] EXCEPT !.pc = "positions", !.paid = {e.account : e \in entries}]
<1>1. tx[s] \in TxType /\ TxFine(s) /\ tx[s].pc = "paid" /\ resBy' = resBy
  BY SMTT(30) DEF IInv, TypeOK, ReadEntries, auditRow
<1>2. r \in TxType
  <2>1. {e.account : e \in entries} \subseteq Accounts
    BY DEF IInv, TypeOK, Entry
  <2> QED
    BY <1>1, <2>1 DEF TxType
<1>3. tx' = [tx EXCEPT ![s] = r]
  BY DEF ReadEntries
<1>4. TxFine(s)'
  BY <1>1, <1>3 DEF IInv, TypeOK, TxType, TxFine, Working, Paying
<1> QED
  BY <1>2, <1>3, <1>4, LocalInv DEF ReadEntries

\* Marking a position settled without paying preserves the invariant.
LEMMA SkipInv ==
  ASSUME IInv, NEW s \in Settlers, NEW a \in Accounts, Skip(s, a)
  PROVE  IInv'
<1> DEFINE r == [tx[s] EXCEPT !.todo = @ \ {a}]
<1>1. tx[s] \in TxType /\ TxFine(s) /\ tx[s].pc = "positions" /\ resBy' = resBy /\ a \in tx[s].todo
  BY DEF IInv, TypeOK, Skip, auditRow
<1>2. r \in TxType
  BY <1>1 DEF TxType
<1>3. tx' = [tx EXCEPT ![s] = r]
  BY DEF Skip
<1>4. /\ tx'[s].pc = tx[s].pc /\ tx'[s].call = tx[s].call /\ tx'[s].rows = tx[s].rows
      /\ tx'[s].made = tx[s].made /\ tx'[s].account = tx[s].account
      /\ tx'[s].todo = tx[s].todo \ {a}
  BY <1>1, <1>3 DEF IInv, TypeOK, TxType
<1>5. CASE UNCHANGED positionRows
  <2>1. TxFine(s)'
    BY <1>1, <1>4, <1>5 DEF TxFine, Working, Paying, Claimed, positionRows
  <2> QED
    BY <1>2, <1>3, <1>5, <2>1, LocalInv DEF Skip
<1>6. CASE /\ posBy[a] = None /\ posBy' = [posBy EXCEPT ![a] = s]
           /\ posW' = [posW EXCEPT ![a].settled = TRUE] /\ UNCHANGED pos
  <2>1. s \in Sessions /\ s # None /\ \A u \in Settlers : posBy[a] # u
    BY <1>6, SettlementAssumption DEF Sessions
  <2>2. /\ posW' \in [Accounts -> Position] /\ posBy' \in [Accounts -> Sessions \cup {None}]
        /\ posW'[a].settled
        /\ \A b \in Accounts \ {a} : posW'[b] = posW[b] /\ posBy'[b] = posBy[b]
    <3> DEFINE row == [posW[a] EXCEPT !.settled = TRUE]
    <3>1. posW' = [posW EXCEPT ![a] = row]
      BY <1>6
    <3>2. posW[a] \in Position
      BY DEF IInv, TypeOK
    <3>3. row \in Position /\ row.settled
      BY <3>2 DEF Position
    <3> HIDE DEF row
    <3>4. posBy' = [posBy EXCEPT ![a] = s]
      BY <1>6
    <3>5. /\ posW' \in [Accounts -> Position] /\ posW'[a] = row
          /\ \A b \in Accounts \ {a} : posW'[b] = posW[b]
      BY <3>1, <3>3 DEF IInv, TypeOK
    <3>6. /\ posBy' \in [Accounts -> Sessions \cup {None}]
          /\ \A b \in Accounts \ {a} : posBy'[b] = posBy[b]
      BY <2>1, <3>4 DEF IInv, TypeOK
    <3>7. posW'[a].settled
      BY <3>3, <3>5, Zenon
    <3> QED
      BY <3>5, <3>6, <3>7
  <2>3. RowType'
    BY <1>6, <2>2 DEF IInv, TypeOK, RowType, Skip, marketRow, accountRows, auditRow
  <2>4. RowsFine'
    BY <1>6, <2>1, <2>2 DEF IInv, TypeOK, RowsFine
  <2>5. EntriesFine'
    BY <1>6 DEF IInv, EntriesFine, PaidOnce, Skip
  <2>6. \A u \in Settlers, b \in Accounts : Claimed(u, b) => Claimed(u, b)'
    BY <1>6, <2>1, <2>2 DEF Claimed
  <2>7. TxFine(s)'
    <3>1. \A e \in tx[s].made : e.account \in Accounts
      BY <1>1 DEF TxType, Entry
    <3> QED
      BY <1>1, <1>4, <2>6, <3>1 DEF TxFine, Working, Paying
  <2>8. ClaimsKept(s)
    BY <1>1, <2>6 DEF ClaimsKept
  <2> QED
    BY <1>2, <1>3, <2>3, <2>4, <2>5, <2>7, <2>8, SameOthers, Assemble DEF Skip
<1> QED
  BY <1>5, <1>6 DEF Skip

\* The claim succeeds only on a row that is not settled, and then the row is s's alone.
LEMMA ClaimInv ==
  ASSUME IInv, NEW s \in Settlers, NEW a \in Accounts, Claim(s, a)
  PROVE  IInv'
<1> DEFINE won == [tx[s] EXCEPT !.pc = "pay", !.account = a, !.todo = @ \ {a}]
           lost == [tx[s] EXCEPT !.todo = @ \ {a}]
<1>1. tx[s] \in TxType /\ TxFine(s) /\ tx[s].pc = "positions" /\ resBy' = resBy /\ a \in tx[s].todo
  BY DEF IInv, TypeOK, Claim, auditRow
<1>2. \A e \in tx[s].made : e.account \in Accounts \ {a}
  BY <1>1 DEF TxType, Entry, TxFine
<1>3. CASE ~Claimable(s, a)
  <2>1. tx' = [tx EXCEPT ![s] = lost] /\ UNCHANGED positionRows
    BY <1>3 DEF Claim, positionRows
  <2>2. lost \in TxType
    BY <1>1 DEF TxType
  <2>3. TxFine(s)'
    <3>1. /\ tx'[s].pc = tx[s].pc /\ tx'[s].call = tx[s].call /\ tx'[s].rows = tx[s].rows
          /\ tx'[s].made = tx[s].made /\ tx'[s].account = tx[s].account
          /\ tx'[s].todo = tx[s].todo \ {a}
      BY <1>1, <2>1 DEF IInv, TypeOK, TxType
    <3> QED
      BY <1>1, <2>1, <3>1 DEF TxFine, Working, Paying, Claimed, positionRows
  <2> QED
    BY <2>1, <2>2, <2>3, LocalInv DEF Claim
<1>4. CASE Claimable(s, a)
  <2>1. /\ tx' = [tx EXCEPT ![s] = won] /\ posBy[a] = None /\ pos' = pos
        /\ posBy' = [posBy EXCEPT ![a] = s]
        /\ posW' = [posW EXCEPT ![a] = [shares |-> 0, settled |-> TRUE]]
    BY <1>4 DEF Claim
  <2>2. won \in TxType
    BY <1>1 DEF TxType
  <2>3. s \in Sessions /\ s # None /\ \A u \in Settlers : posBy[a] # u
    BY <2>1, SettlementAssumption DEF Sessions
  <2>4. /\ posW' \in [Accounts -> Position] /\ posBy' \in [Accounts -> Sessions \cup {None}]
        /\ posW'[a].settled /\ posBy'[a] = s
        /\ \A b \in Accounts \ {a} : posW'[b] = posW[b] /\ posBy'[b] = posBy[b]
    BY <2>1, <2>3 DEF IInv, TypeOK, Position
  <2>5. ~pos[a].settled
    BY <1>4, <2>1 DEF Claimable, IInv, RowsFine
  <2>6. RowType'
    BY <2>1, <2>4 DEF IInv, TypeOK, RowType, Claim, marketRow, accountRows, auditRow
  <2>7. RowsFine'
    BY <2>1, <2>3, <2>4 DEF IInv, TypeOK, RowsFine
  <2>8. EntriesFine'
    BY <2>1 DEF IInv, EntriesFine, PaidOnce, Claim
  <2>9. \A u \in Settlers, b \in Accounts : Claimed(u, b) => Claimed(u, b)'
    BY <2>1, <2>3, <2>4 DEF Claimed
  <2>10. TxFine(s)'
    <3>1. /\ tx'[s].pc = "pay" /\ tx'[s].call = tx[s].call /\ tx'[s].rows = tx[s].rows
          /\ tx'[s].made = tx[s].made /\ tx'[s].account = a
          /\ tx'[s].todo = tx[s].todo \ {a}
      BY <1>1, <2>1 DEF IInv, TypeOK, TxType
    <3>2. Claimed(s, a)'
      BY <2>1, <2>4, <2>5 DEF Claimed
    <3> QED
      BY <1>1, <1>2, <2>9, <3>1, <3>2 DEF TxFine, Working, Paying
  <2>11. ClaimsKept(s)
    BY <1>1, <2>9 DEF ClaimsKept
  <2> QED
    BY <2>1, <2>2, <2>6, <2>7, <2>8, <2>10, <2>11, SameOthers, Assemble DEF Claim
<1> QED
  BY <1>3, <1>4


\* A credit or debit preserves the invariant: its account was claimed just before.
LEMMA PayInv ==
  ASSUME IInv, NEW s \in Settlers, Pay(s)
  PROVE  IInv'
<1> DEFINE a == tx[s].account
           entry == [account |-> a, amount |-> Due(s), by |-> s]
           none == [tx[s] EXCEPT !.pc = "positions", !.account = None]
           paid == [tx[s] EXCEPT !.pc = "positions", !.account = None, !.made = @ \cup {entry}]
           over == [tx[s] EXCEPT !.pc = "commit", !.account = None]
<1>1. /\ tx[s] \in TxType /\ TxFine(s) /\ tx[s].pc = "pay" /\ resBy # s
      /\ a \in Accounts \ tx[s].todo /\ Claimed(s, a) /\ tx[s].call \in Calls
      /\ tx[s].rows \in [Accounts -> Position]
  BY DEF IInv, TypeOK, Pay, TxFine, Working
<1>2. entry \in Entry /\ Due(s) \in Int
  <2>1. tx[s].rows[a].shares \in Int
    BY <1>1 DEF Position
  <2>2. Worth(tx[s].call.outcome) \in Int
    BY SettlementAssumption DEF Worth
  <2>3. Due(s) \in Int
    BY <2>1, <2>2 DEF Due, Payoff
  <2> QED
    BY <1>1, <2>3 DEF Entry
<1>3. none \in TxType /\ paid \in TxType /\ over \in TxType
  <2> HIDE DEF entry
  <2> QED
    BY <1>1, <1>2 DEF TxType
<1>4. None \notin Accounts /\ \A e \in tx[s].made : e.account \in Accounts
  BY <1>1, SettlementAssumption DEF TxType, Entry
<1>5. CASE /\ tx' = [tx EXCEPT ![s].pc = "positions", ![s].account = None]
           /\ UNCHANGED <<marketRow, positionRows, accountRows, auditRow, entries, trade, clerk>>
  <2>1. tx' = [tx EXCEPT ![s] = none]
    BY <1>5
  <2>2. /\ tx'[s].pc = "positions" /\ tx'[s].account = None /\ tx'[s].call = tx[s].call
        /\ tx'[s].rows = tx[s].rows /\ tx'[s].made = tx[s].made /\ tx'[s].todo = tx[s].todo
    BY <1>1, <2>1 DEF IInv, TypeOK, TxType
  <2>3. pos' = pos /\ posW' = posW /\ posBy' = posBy /\ resBy' = resBy
    BY <1>5 DEF positionRows, auditRow
  <2>4. \A e \in tx'[s].made : /\ Claimed(s, e.account)' /\ e.account \in Accounts
                               /\ e.account \notin tx'[s].todo
    BY <1>1, <1>4, <2>2, <2>3 DEF TxFine, Claimed
  <2>5. \A e, f \in tx'[s].made : e.account = f.account => e = f
    BY <1>1, <2>2 DEF TxFine
  <2>6. TxFine(s)'
    BY <1>1, <1>4, <2>2, <2>3, <2>4, <2>5 DEF TxFine, Working, Paying
  <2> QED
    BY <1>3, <1>5, <2>1, <2>6, LocalInv DEF Pay
<1>6. CASE /\ tx' = [tx EXCEPT ![s].pc = "commit", ![s].account = None]
           /\ UNCHANGED <<marketRow, positionRows, accountRows, auditRow, entries, trade, clerk>>
  <2>1. tx' = [tx EXCEPT ![s] = over]
    BY <1>6
  <2>2. /\ tx'[s].pc = "commit" /\ tx'[s].account = None /\ tx'[s].call = tx[s].call
        /\ tx'[s].rows = tx[s].rows /\ tx'[s].made = tx[s].made /\ tx'[s].todo = tx[s].todo
    BY <1>1, <2>1 DEF IInv, TypeOK, TxType
  <2>3. pos' = pos /\ posW' = posW /\ posBy' = posBy /\ resBy' = resBy
    BY <1>6 DEF positionRows, auditRow
  <2>4. \A e \in tx'[s].made : /\ Claimed(s, e.account)' /\ e.account \in Accounts
                               /\ e.account \notin tx'[s].todo
    BY <1>1, <1>4, <2>2, <2>3 DEF TxFine, Claimed
  <2>5. \A e, f \in tx'[s].made : e.account = f.account => e = f
    BY <1>1, <2>2 DEF TxFine
  <2>6. TxFine(s)'
    BY <1>1, <1>4, <2>2, <2>3, <2>4, <2>5 DEF TxFine, Working, Paying
  <2> QED
    BY <1>3, <1>6, <2>1, <2>6, LocalInv DEF Pay
<1>7. CASE Abort(s)
  BY <1>7, AbortInv DEF Pay, IInv, TypeOK
<1>8. CASE /\ cashBy' = [cashBy EXCEPT ![a] = s]
           /\ cashW' = [cashW EXCEPT ![a] = cashW[a] + Due(s)]
           /\ tx' = [tx EXCEPT ![s].pc = "positions", ![s].account = None,
                               ![s].made = @ \cup {entry}]
           /\ UNCHANGED <<marketRow, positionRows, cash, auditRow, entries, trade, clerk>>
  <2> HIDE DEF entry
  <2>1. tx' = [tx EXCEPT ![s] = paid]
    BY <1>8
  <2>2. /\ tx'[s].pc = "positions" /\ tx'[s].account = None /\ tx'[s].call = tx[s].call
        /\ tx'[s].rows = tx[s].rows /\ tx'[s].made = tx[s].made \cup {entry}
        /\ tx'[s].todo = tx[s].todo
    BY <1>1, <2>1 DEF IInv, TypeOK, TxType
  <2>3. entry.account = a
    BY DEF entry
  <2>4. pos' = pos /\ posW' = posW /\ posBy' = posBy /\ resBy' = resBy
    BY <1>8 DEF positionRows, auditRow
  <2>5. \A e \in tx'[s].made : /\ Claimed(s, e.account)' /\ e.account \in Accounts
                               /\ e.account \notin tx'[s].todo
    BY <1>1, <1>4, <2>2, <2>3, <2>4 DEF TxFine, Claimed
  <2>6. \A e, f \in tx'[s].made : e.account = f.account => e = f
    BY <1>1, <2>2, <2>3 DEF TxFine
  <2>7. TxFine(s)'
    BY <1>1, <1>4, <2>2, <2>4, <2>5, <2>6 DEF TxFine, Working, Paying
  <2>8. RowType'
    <3>1. s \in Sessions
      BY DEF Sessions
    <3>2. cashW' \in [Accounts -> Int] /\ cashBy' \in [Accounts -> Sessions \cup {None}]
      BY <1>1, <1>2, <1>8, <3>1 DEF IInv, TypeOK
    <3> QED
      BY <1>8, <3>2 DEF IInv, TypeOK, RowType, Pay, marketRow, positionRows, auditRow
  <2>9. RowsFine' /\ EntriesFine' /\ ClaimsKept(s)
    BY <1>8, <2>4, SameClaims
  <2> QED
    BY <1>3, <1>8, <2>1, <2>7, <2>8, <2>9, SameOthers, Assemble
<1> QED
  BY <1>5, <1>6, <1>7, <1>8 DEF Pay

\* Looking for the audit row preserves the invariant.
LEMMA ReadResolutionInv ==
  ASSUME IInv, NEW s \in Settlers, ReadResolution(s)
  PROVE  IInv'
<1> DEFINE r == [tx[s] EXCEPT !.pc = IF resolution = None THEN "audit" ELSE "commit"]
<1>1. tx[s] \in TxType /\ TxFine(s) /\ tx[s].pc = "positions" /\ resBy' = resBy
  BY DEF IInv, TypeOK, ReadResolution, auditRow
<1>2. r \in TxType
  BY <1>1 DEF TxType
<1>3. tx' = [tx EXCEPT ![s] = r]
  BY DEF ReadResolution
<1>4. /\ tx'[s].pc \in {"audit", "commit"} /\ tx'[s].account = tx[s].account
      /\ tx'[s].call = tx[s].call /\ tx'[s].made = tx[s].made /\ tx'[s].todo = tx[s].todo
  BY <1>1, <1>3 DEF IInv, TypeOK, TxType
<1>5. TxFine(s)'
  BY <1>1, <1>4 DEF TxFine, Working, Paying, Claimed, ReadResolution, positionRows
<1> QED
  BY <1>2, <1>3, <1>5, LocalInv DEF ReadResolution

\* Inserting the audit row, or failing to, preserves the invariant.
LEMMA InsertResolutionInv ==
  ASSUME IInv, NEW s \in Settlers, InsertResolution(s)
  PROVE  IInv'
<1> DEFINE r == [tx[s] EXCEPT !.pc = "commit"]
<1>1. CASE resolution # None
  BY <1>1, AbortInv DEF InsertResolution, IInv, TypeOK
<1>2. CASE resolution = None
  <2>1. tx[s] \in TxType /\ TxFine(s) /\ tx[s].pc = "audit"
    BY DEF IInv, TypeOK, InsertResolution
  <2>2. r \in TxType /\ tx' = [tx EXCEPT ![s] = r] /\ resBy' = s
    BY <1>2, <2>1 DEF TxType, InsertResolution
  <2>3. /\ tx'[s].pc = "commit" /\ tx'[s].account = tx[s].account
        /\ tx'[s].call = tx[s].call /\ tx'[s].made = tx[s].made /\ tx'[s].todo = tx[s].todo
    BY <2>1, <2>2 DEF IInv, TypeOK, TxType
  <2>4. TxFine(s)'
    BY <1>2, <2>1, <2>3 DEF TxFine, Working, Paying, Claimed, InsertResolution, positionRows
  <2>5. RowType'
    BY <1>2, <2>2 DEF IInv, TypeOK, RowType, InsertResolution, marketRow, positionRows, accountRows
  <2>6. RowsFine' /\ EntriesFine' /\ ClaimsKept(s)
    BY <1>2, <2>2, SameClaims DEF InsertResolution
  <2> QED
    BY <1>2, <2>2, <2>4, <2>5, <2>6, SameOthers, Assemble DEF InsertResolution
<1> QED
  BY <1>1, <1>2

\* Committing makes the rows of x the rows everyone sees.
LEMMA CommitFine ==
  ASSUME IInv, NEW x \in Sessions, CommitRows(x)
  PROVE  /\ pos' \in [Accounts -> Position] /\ posW' \in [Accounts -> Position]
         /\ posBy' \in [Accounts -> Sessions \cup {None}]
         /\ cash' \in [Accounts -> Int] /\ cashW' \in [Accounts -> Int]
         /\ cashBy' \in [Accounts -> Sessions \cup {None}]
         /\ RowsFine'
         /\ \A u \in Settlers \ {x}, a \in Accounts : Claimed(u, a) => Claimed(u, a)'
         /\ \A a \in Accounts : pos[a].settled => pos'[a].settled
<1> USE DEF IInv, TypeOK
<1>1. /\ pos' \in [Accounts -> Position] /\ posW' \in [Accounts -> Position]
      /\ posBy' \in [Accounts -> Sessions \cup {None}]
      /\ cash' \in [Accounts -> Int] /\ cashW' \in [Accounts -> Int]
      /\ cashBy' \in [Accounts -> Sessions \cup {None}]
  BY DEF CommitRows
<1>2. RowsFine'
  BY DEF CommitRows, RowsFine
<1>3. \A u \in Settlers \ {x}, a \in Accounts : Claimed(u, a) => Claimed(u, a)'
  BY DEF CommitRows, Claimed
<1>4. \A a \in Accounts : pos[a].settled => pos'[a].settled
  BY DEF CommitRows, RowsFine
<1> QED
  BY <1>1, <1>2, <1>3, <1>4

\* What s posts is new to the ledger: nobody could settle the accounts it has claimed.
LEMMA CommitInv ==
  ASSUME IInv, NEW s \in Settlers, Commit(s)
  PROVE  IInv'
<1>1. /\ tx[s] \in TxType /\ TxFine(s) /\ tx[s].pc = "commit" /\ tx[s].call \in Calls
      /\ s \in Sessions /\ s # None
  BY SettlementAssumption DEF IInv, TypeOK, Commit, TxFine, Working, Sessions
<1>2. resBy' # s /\ \A u \in Settlers \ {s} : resBy' = u => resBy = u
  BY <1>1, SettlementAssumption DEF Commit, Sessions
<1>3. EndedTx(s, "done") \in TxType /\ TxFine(s)'
  BY <1>2, EndedFine DEF Commit
<1>4. RowType'
  <2>1. mkt' \in Market /\ mktW' \in Market /\ mktBy' \in Settlers \cup {None}
    BY DEF IInv, TypeOK, Commit
  <2>2. resolution' \in Outcomes \cup {None} /\ resBy' \in Settlers \cup {None}
    <3>1. tx[s].call.outcome \in Outcomes
      BY <1>1, SettlementAssumption
    <3> QED
      BY <3>1 DEF IInv, TypeOK, Commit
  <2>3. entries' \in SUBSET Entry /\ crashes' \in 0..MaxCrashes
    BY <1>1 DEF IInv, TypeOK, Commit, TxType
  <2> QED
    BY <1>1, <2>1, <2>2, <2>3, CommitFine DEF Commit, RowType
<1>5. RowsFine' /\ ClaimsKept(s) /\ \A a \in Accounts : pos[a].settled => pos'[a].settled
  BY <1>1, <1>2, CommitFine DEF Commit, ClaimsKept
<1>6. EntriesFine'
  <2>1. \A e \in entries : e.account \in Accounts /\ pos[e.account].settled
    BY DEF IInv, TypeOK, EntriesFine, Entry
  <2>2. \A e \in tx[s].made : e.account \in Accounts /\ Claimed(s, e.account)
    BY <1>1 DEF TxType, Entry, TxFine
  <2>3. \A e \in tx[s].made : ~pos[e.account].settled
    BY <2>2 DEF Claimed
  <2>4. \A e \in tx[s].made : pos'[e.account].settled
    BY <2>2 DEF Claimed, Commit, CommitRows
  <2>5. entries' = entries \cup tx[s].made
    BY DEF Commit
  <2>6. \A e \in entries' : pos'[e.account].settled
    BY <1>5, <2>1, <2>4, <2>5
  <2>7. \A e \in entries, f \in tx[s].made : e.account # f.account
    BY <2>1, <2>3
  <2>8. PaidOnce'
    BY <1>1, <2>5, <2>7 DEF PaidOnce, IInv, EntriesFine, TxFine
  <2> QED
    BY <2>6, <2>8 DEF EntriesFine
<1>7. tx' = [tx EXCEPT ![s] = EndedTx(s, "done")] /\ OthersType'
  BY SameOthers DEF Commit
<1> QED
  BY <1>3, <1>4, <1>5, <1>6, <1>7, Assemble


-------------------------------------------------------------------------------------
(* Fills and admins.                                                               *)

\* A fill is no settlement.
LEMMA TraderOutside ==
  ASSUME NEW t \in Traders
  PROVE  t \in Sessions /\ t \notin Settlers /\ t # None
  BY SettlementAssumption DEF Sessions

TradeType == [pc : {"idle", "buyer", "buyerPost", "buyerWrite", "seller", "sellerPost",
                    "sellerWrite", "commit", "done", "refused"}, shares : Int]

\* The steps of a fill keep the type of its locals.
LEMMA TradeMoves ==
  ASSUME NEW u \in TradeType, NEW n \in Int,
         NEW pc \in {"buyerWrite", "sellerWrite", "seller", "commit"}
  PROVE  /\ [u EXCEPT !.pc = pc, !.shares = n] \in TradeType
         /\ [u EXCEPT !.pc = pc] \in TradeType
  BY DEF TradeType

\* A step of a fill keeps the types of the fills and the admins.
LEMMA TradeStep ==
  ASSUME IInv, NEW t \in Traders, NEW r \in TradeType,
         trade' = [trade EXCEPT ![t] = r], UNCHANGED clerk
  PROVE  OthersType'
  BY DEF IInv, TypeOK, OthersType, TradeType

\* A step of a fill on its own locals preserves the invariant.
LEMMA TradeLocalInv ==
  ASSUME IInv, NEW t \in Traders, NEW r \in TradeType, trade' = [trade EXCEPT ![t] = r],
         UNCHANGED <<marketRow, positionRows, accountRows, auditRow, entries, crashes,
                     tx, clerk>>
  PROVE  IInv'
<1>1. RowType'
  BY DEF IInv, TypeOK, RowType, marketRow, positionRows, accountRows, auditRow
<1>2. RowsFine' /\ EntriesFine' /\ ClaimsKept(t)
  BY SameClaims DEF auditRow
<1> QED
  BY <1>1, <1>2, TraderOutside, TradeStep, AssembleOutside

\* A fill that starts preserves the invariant.
LEMMA StartTradeInv ==
  ASSUME IInv, NEW t \in Traders, StartTrade(t)
  PROVE  IInv'
<1> DEFINE r == [trade[t] EXCEPT !.pc = "buyer"]
<1>1. r \in TradeType /\ trade' = [trade EXCEPT ![t] = r]
  BY DEF IInv, TypeOK, TradeType, StartTrade
<1> QED
  BY <1>1, TradeLocalInv DEF StartTrade

\* A fill that reads the shares of an account preserves the invariant.
LEMMA ReadSharesInv ==
  ASSUME IInv, NEW t \in Traders, NEW leg \in {"buyer", "seller"}, ReadShares(t, leg)
  PROVE  IInv'
<1> DEFINE a == LegAccount(t, leg)
           seen == (IF posBy[a] = t THEN posW[a] ELSE pos[a]).shares
           r == [trade[t] EXCEPT !.pc = IF leg = "buyer" THEN "buyerPost" ELSE "sellerPost",
                                 !.shares = seen]
<1>1. seen \in Int
  <2>1. a \in Accounts
    BY SettlementAssumption DEF LegAccount
  <2> QED
    BY <2>1 DEF IInv, TypeOK, Position
<1>2. trade' = [trade EXCEPT ![t] = r]
  BY DEF ReadShares
<1>3. r \in TradeType
  <2>1. trade[t] \in TradeType
    BY DEF IInv, TypeOK, TradeType
  <2> HIDE DEF seen
  <2> QED
    BY <1>1, <2>1 DEF TradeType
<1> QED
  BY <1>2, <1>3, TradeLocalInv DEF ReadShares

\* A fill that is lost preserves the invariant.
LEMMA AbortTradeInv ==
  ASSUME IInv, NEW t \in Traders, AbortTrade(t), UNCHANGED crashes
  PROVE  IInv'
<1> DEFINE r == [IdleTrade EXCEPT !.pc = "refused"]
<1>1. r \in TradeType /\ trade' = [trade EXCEPT ![t] = r]
  BY DEF IdleTrade, TradeType, AbortTrade
<1>2. RowType' /\ RowsFine' /\ ClaimsKept(t)
  BY TraderOutside, RollbackFine
     DEF AbortTrade, IInv, TypeOK, RowType, ClaimsKept, marketRow, auditRow
<1>3. EntriesFine'
  BY DEF AbortTrade, RollbackRows, IInv, EntriesFine, PaidOnce
<1> QED
  BY <1>1, <1>2, <1>3, TraderOutside, TradeStep, AssembleOutside DEF AbortTrade

\* What a leg adds to the shares of its account is a number.
LEMMA LegType ==
  ASSUME NEW t \in Traders, NEW leg \in {"buyer", "seller"}
  PROVE  LegAccount(t, leg) \in Accounts /\ LegQty(t, leg) \in Int
  BY SettlementAssumption DEF LegAccount, LegQty

\* Posting the cash of a leg takes no position.
LEMMA PostCashInv ==
  ASSUME IInv, NEW t \in Traders, NEW leg \in {"buyer", "seller"}, PostCash(t, leg)
  PROVE  IInv'
<1> DEFINE a == LegAccount(t, leg)
           amount == 0 - LegQty(t, leg) * Price
           next == IF leg = "buyer" THEN "buyerWrite" ELSE "sellerWrite"
           r == [trade[t] EXCEPT !.pc = next]
<1>1. CASE AbortTrade(t)
  BY <1>1, AbortTradeInv DEF PostCash
<1>2. CASE ~(cashW[a] + amount < 0)
  <2>1. /\ cashBy' = [cashBy EXCEPT ![a] = t]
        /\ cashW' = [cashW EXCEPT ![a] = cashW[a] + amount]
        /\ trade' = [trade EXCEPT ![t] = r]
        /\ UNCHANGED <<marketRow, positionRows, cash, auditRow, entries, tx, clerk, crashes>>
    BY <1>2 DEF PostCash
  <2>2. r \in TradeType
    <3>1. trade[t] \in TradeType /\ next \in {"buyerWrite", "sellerWrite"} /\ 0 \in Int
      BY DEF IInv, TypeOK, TradeType
    <3> HIDE DEF next
    <3> QED
      BY <3>1, TradeMoves, Zenon
  <2>3. amount \in Int
    <3>1. LegQty(t, leg) \in Int /\ Price \in Int
      BY LegType, SettlementAssumption
    <3> QED
      BY <3>1
  <2> HIDE DEF r, amount
  <2>4. cashW' \in [Accounts -> Int] /\ cashBy' \in [Accounts -> Sessions \cup {None}]
    BY <2>1, <2>3, LegType, TraderOutside DEF IInv, TypeOK
  <2>5. RowType'
    BY <2>1, <2>4 DEF IInv, TypeOK, RowType, marketRow, positionRows, auditRow
  <2>6. RowsFine' /\ EntriesFine' /\ ClaimsKept(t)
    BY <2>1, SameClaims DEF auditRow
  <2>7. OthersType'
    BY <2>1, <2>2, TradeStep
  <2> QED
    BY <2>1, <2>5, <2>6, <2>7, TraderOutside, AssembleOutside
<1> QED
  BY <1>1, <1>2 DEF PostCash

\* A fill writes shares only: it neither takes a claimed row nor touches the flag.
LEMMA WriteSharesInv ==
  ASSUME IInv, NEW t \in Traders, NEW leg \in {"buyer", "seller"}, WriteShares(t, leg)
  PROVE  IInv'
<1> DEFINE a == LegAccount(t, leg)
           held == trade[t].shares + LegQty(t, leg)
           row == [posW[a] EXCEPT !.shares = held]
           next == IF leg = "buyer" THEN "seller" ELSE "commit"
           r == [trade[t] EXCEPT !.pc = next, !.shares = 0]
<1>1. a \in Accounts /\ held \in Int
  <2>1. trade[t].shares \in Int
    BY DEF IInv, TypeOK
  <2> QED
    BY <2>1, LegType
<1>2. /\ posBy' = [posBy EXCEPT ![a] = t] /\ posBy[a] \in {None, t}
      /\ posW' = [posW EXCEPT ![a] = row]
      /\ trade' = [trade EXCEPT ![t] = r]
      /\ UNCHANGED <<marketRow, pos, accountRows, auditRow, entries, tx, clerk, crashes>>
  BY DEF WriteShares
<1>3. row \in Position /\ row.settled = posW[a].settled
  <2>1. posW[a] \in Position
    BY <1>1 DEF IInv, TypeOK
  <2> HIDE DEF held
  <2> QED
    BY <1>1, <2>1 DEF Position
<1>4. r \in TradeType
  <2>1. trade[t] \in TradeType /\ next \in {"seller", "commit"} /\ 0 \in Int
    BY DEF IInv, TypeOK, TradeType
  <2> HIDE DEF next
  <2> QED
    BY <2>1, TradeMoves, Zenon
<1> HIDE DEF row, r, held
<1>5. /\ posW' \in [Accounts -> Position] /\ posW'[a] = row
      /\ \A b \in Accounts \ {a} : posW'[b] = posW[b]
  BY <1>1, <1>2, <1>3 DEF IInv, TypeOK
<1>6. /\ posBy' \in [Accounts -> Sessions \cup {None}] /\ posBy'[a] = t
      /\ \A b \in Accounts \ {a} : posBy'[b] = posBy[b]
  BY <1>1, <1>2, TraderOutside DEF IInv, TypeOK
<1>7. RowType'
  BY <1>2, <1>5, <1>6 DEF IInv, TypeOK, RowType, marketRow, accountRows, auditRow
<1>8. RowsFine'
  <2>1. ASSUME NEW b \in Accounts
        PROVE  /\ posBy'[b] = None => posW'[b] = pos'[b]
               /\ pos'[b].settled => posW'[b].settled
    <3>1. CASE b = a
      BY <3>1, <1>1, <1>2, <1>3, <1>5, <1>6, TraderOutside DEF IInv, RowsFine
    <3>2. CASE b # a
      BY <3>2, <1>2, <1>5, <1>6 DEF IInv, RowsFine
    <3> QED
      BY <3>1, <3>2
  <2> QED
    BY <2>1 DEF RowsFine
<1>9. EntriesFine'
  BY <1>2 DEF IInv, EntriesFine, PaidOnce
<1>10. ClaimsKept(t)
  <2>1. \A u \in Settlers : posBy[a] # u
    BY <1>2, TraderOutside, SettlementAssumption DEF Sessions
  <2> QED
    BY <1>2, <1>5, <1>6, <2>1 DEF ClaimsKept, Claimed, auditRow
<1>11. OthersType'
  BY <1>2, <1>4, TradeStep
<1> QED
  BY <1>2, <1>7, <1>8, <1>9, <1>10, <1>11, TraderOutside, AssembleOutside

\* Committing a fill preserves the invariant.
LEMMA CommitTradeInv ==
  ASSUME IInv, NEW t \in Traders, CommitTrade(t)
  PROVE  IInv'
<1> DEFINE r == [IdleTrade EXCEPT !.pc = "done"]
<1>1. r \in TradeType /\ trade' = [trade EXCEPT ![t] = r]
  BY DEF IdleTrade, TradeType, CommitTrade
<1>2. RowType' /\ RowsFine' /\ ClaimsKept(t)
  BY TraderOutside, CommitFine
     DEF CommitTrade, IInv, TypeOK, RowType, ClaimsKept, marketRow, auditRow
<1>3. EntriesFine'
  <2>1. \A e \in entries : e.account \in Accounts
    BY DEF IInv, TypeOK, Entry
  <2>2. \A a \in Accounts : pos[a].settled => pos'[a].settled
    BY TraderOutside, CommitFine DEF CommitTrade
  <2> QED
    BY <2>1, <2>2 DEF CommitTrade, IInv, EntriesFine, PaidOnce
<1> QED
  BY <1>1, <1>2, <1>3, TraderOutside, TradeStep, AssembleOutside DEF CommitTrade

\* Pausing, unpausing or cancelling the market preserves the invariant.
LEMMA ClerkInv ==
  ASSUME IInv, NEW c \in Clerks, ClerkReads(c) \/ ClerkWrites(c)
  PROVE  IInv'
<1> DEFINE ClerkType == [pc : {"write"}, to : {"OPEN", "LOCKED", "CANCELLED"}]
                           \cup [pc : {"idle", "done"}, to : {None}]
<1>1. clerk \in [Clerks -> ClerkType] /\ mkt \in Market
  BY DEF IInv, TypeOK
<1>2. clerk' \in [Clerks -> ClerkType]
  <2>1. CASE ClerkReads(c)
    <3>1. PICK to \in Changes(mkt.status) : clerk' = [clerk EXCEPT ![c] = [pc |-> "write", to |-> to]]
      BY <2>1 DEF ClerkReads
    <3>2. to \in {"OPEN", "LOCKED", "CANCELLED"}
      BY <3>1 DEF Changes
    <3>3. [pc |-> "write", to |-> to] \in ClerkType
      BY <3>2
    <3> QED
      BY <1>1, <3>1, <3>3
  <2>2. CASE ClerkWrites(c)
    <3>1. [pc |-> "done", to |-> None] \in ClerkType
      OBVIOUS
    <3> QED
      BY <1>1, <2>2, <3>1 DEF ClerkWrites
  <2> QED
    BY <2>1, <2>2
<1>3. mkt' \in Market /\ mktW' \in Market /\ mktBy' \in Settlers \cup {None}
  <2>1. CASE ClerkReads(c)
    BY <2>1 DEF ClerkReads, marketRow, IInv, TypeOK
  <2>2. CASE ClerkWrites(c)
    <3>1. clerk[c].pc = "write" /\ clerk[c].to \in {"OPEN", "LOCKED", "CANCELLED"}
      BY <1>1, <2>2 DEF ClerkWrites
    <3>2. [mkt EXCEPT !.status = clerk[c].to] \in Market
      BY <1>1, <3>1 DEF Market
    <3> QED
      BY <2>2, <3>2 DEF ClerkWrites, IInv, TypeOK
  <2> QED
    BY <2>1, <2>2
<1>4. UNCHANGED <<positionRows, accountRows, auditRow, entries, crashes, tx, trade>>
  BY DEF ClerkReads, ClerkWrites
<1>5. RowType'
  BY <1>3, <1>4 DEF IInv, TypeOK, RowType, positionRows, accountRows, auditRow
<1>6. OthersType'
  BY <1>2, <1>4 DEF IInv, TypeOK, OthersType
<1>7. RowsFine' /\ EntriesFine' /\ \A u \in Settlers : TxFine(u)'
  <2>1. pos' = pos /\ posW' = posW /\ posBy' = posBy /\ resBy' = resBy /\ tx' = tx
    BY <1>4 DEF positionRows, auditRow
  <2>2. RowsFine' /\ EntriesFine'
    BY <1>4, SameClaims DEF auditRow
  <2>3. \A u \in Settlers : TxFine(u)'
    BY <2>1 DEF IInv, TxFine, Claimed
  <2> QED
    BY <2>2, <2>3
<1> QED
  BY <1>4, <1>5, <1>6, <1>7 DEF IInv, TypeOK, RowType, OthersType


\* A crash of a settlement preserves the invariant.
LEMMA LostInv ==
  ASSUME IInv, NEW s \in Settlers, Crash(s)
  PROVE  IInv'
<1>1. crashes' \in 0..MaxCrashes
  BY SettlementAssumption DEF Crash, IInv, TypeOK
<1> QED
  BY <1>1, AbortInv DEF Crash

\* Aborting a deadlock victim preserves the invariant.
LEMMA VictimInv ==
  ASSUME IInv, NEW x \in Sessions, DeadlockVictim(x)
  PROVE  IInv'
<1>1. crashes' \in 0..MaxCrashes /\ UNCHANGED crashes
  BY DEF DeadlockVictim, IInv, TypeOK
<1>2. CASE x \in Settlers
  BY <1>1, <1>2, AbortInv DEF DeadlockVictim
<1>3. CASE x \notin Settlers
  <2>1. x \in Traders
    BY <1>3 DEF Sessions
  <2> QED
    BY <1>1, <1>3, <2>1, AbortTradeInv DEF DeadlockVictim
<1> QED
  BY <1>2, <1>3

\* Every statement of a settlement preserves the invariant.
LEMMA StepInv ==
  ASSUME IInv, NEW s \in Settlers, Step(s)
  PROVE  IInv'
<1>1. s \in Sessions
  BY DEF Sessions
<1> QED
  BY <1>1, ClaimMarketInv, ReadPositionsInv, ReadEntriesInv, SkipInv, ClaimInv, PayInv,
     ReadResolutionInv, InsertResolutionInv, CommitInv, VictimInv DEF Step

\* Every statement of a fill preserves the invariant.
LEMMA StepTradeInv ==
  ASSUME IInv, NEW t \in Traders, StepTrade(t)
  PROVE  IInv'
  BY TraderOutside, ReadSharesInv, PostCashInv, WriteSharesInv, CommitTradeInv, VictimInv
     DEF StepTrade

\* Doing nothing preserves the invariant.
LEMMA StutterInv ==
  ASSUME IInv, UNCHANGED vars
  PROVE  IInv'
<1>1. /\ UNCHANGED <<mkt, mktW, mktBy, pos, posW, posBy, cash, cashW, cashBy>>
      /\ UNCHANGED <<resolution, resBy, entries, crashes, tx, trade, clerk>>
  BY DEF vars, marketRow, positionRows, accountRows, auditRow
<1>2. TypeOK'
  BY <1>1 DEF IInv, TypeOK
<1>3. RowsFine' /\ EntriesFine'
  BY <1>1 DEF IInv, RowsFine, EntriesFine, PaidOnce
<1>4. \A s \in Settlers : TxFine(s)'
  BY <1>1 DEF IInv, TxFine, Claimed
<1> QED
  BY <1>2, <1>3, <1>4 DEF IInv

\* Every step preserves the invariant.
LEMMA NextInv ==
  ASSUME IInv, [Next]_vars
  PROVE  IInv'
<1>1. CASE \E s \in Settlers : (\E call \in Calls : Begin(s, call)) \/ Step(s) \/ Crash(s)
  BY <1>1, BeginInv, StepInv, LostInv
<1>2. CASE \E t \in Traders : StartTrade(t) \/ StepTrade(t)
  BY <1>2, StartTradeInv, StepTradeInv
<1>3. CASE \E c \in Clerks : ClerkReads(c) \/ ClerkWrites(c)
  BY <1>3, ClerkInv
<1>4. CASE UNCHANGED vars
  BY <1>4, StutterInv
<1> QED
  BY <1>1, <1>2, <1>3, <1>4 DEF Next

-------------------------------------------------------------------------------------
(* The theorems.                                                                   *)

\* The invariant holds in every state the settlement can reach.
THEOREM Invariance == Spec => []IInv
<1>1. Init => IInv
  BY InitInv
<1>2. IInv /\ [Next]_vars => IInv'
  BY NextInv
<1> QED
  BY <1>1, <1>2, PTL DEF Spec

\* Rows, locks and what each settlement, fill and admin request keeps in its session keep
\* their types.
THEOREM Typed == Spec => []TypeOK
<1>1. IInv => TypeOK
  BY DEF IInv
<1> QED
  BY <1>1, Invariance, PTL

\* settle_market credits or debits an account once for a market, whoever calls it, how
\* often and with what outcome, and whatever fills and status changes happen meanwhile.
THEOREM NobodyPaidTwice == Spec => []PaidOnce
<1>1. IInv => PaidOnce
  BY DEF IInv, EntriesFine
<1> QED
  BY <1>1, Invariance, PTL

-------------------------------------------------------------------------------------
(* The ledger and the balances.                                                     *)

\* Where a fill has posted to the buyer's account, and to the seller's.
Bought == {"buyerWrite", "seller", "sellerPost", "sellerWrite", "commit"}
Sold   == {"sellerWrite", "commit"}

Notional(t) == Trades[t].qty * Price

Of(a) == {e \in entries : e.account = a}
Amounts(E) == MapThenSumSet(LAMBDA e : e.amount, E)

DoneFor(a, leg) == {t \in Traders : trade[t].pc = "done" /\ LegAccount(t, leg) = a}
Volumes(T) == MapThenSumSet(LAMBDA t : Trades[t].qty * Price, T)

\* What a fill has posted to an account and not committed.
Posted(t, a) ==
    (IF trade[t].pc \in Sold /\ Trades[t].seller = a THEN Notional(t) ELSE 0)
      - (IF trade[t].pc \in Bought /\ Trades[t].buyer = a THEN Notional(t) ELSE 0)

\* The uncommitted balance of a row that x holds is the committed one and what x posted.
DraftOf(x, a) ==
    /\ x \in Settlers => \E e \in tx[x].made : e.account = a /\ cashW[a] = cash[a] + e.amount
    /\ x \in Traders => cashW[a] = cash[a] + Posted(x, a)

\* x holds the row of every account it has posted to.
HoldsOf(x) ==
    /\ x \in Settlers => \A e \in tx[x].made : cashBy[e.account] = x
    /\ x \in Traders => /\ trade[x].pc \in Bought => cashBy[Trades[x].buyer] = x
                        /\ trade[x].pc \in Sold => cashBy[Trades[x].seller] = x

DraftsFine ==
    /\ \A a \in Accounts : /\ cashBy[a] = None => cashW[a] = cash[a]
                           /\ \A x \in Sessions : cashBy[a] = x => DraftOf(x, a)
    /\ \A x \in Sessions : HoldsOf(x)

Explained ==
    \A a \in Accounts :
        cash[a] = SeedCash[a] + Amounts(Of(a)) + Volumes(DoneFor(a, "seller"))
                    - Volumes(DoneFor(a, "buyer"))

LedgerInv ==
    Explained /\ DraftsFine /\ IsFiniteSet({t \in Traders : trade[t].pc = "done"})

\* The sum of no amounts and of one.
LEMMA AmountsOf ==
  ASSUME NEW E, \A e \in E : e.amount \in Int
  PROVE  /\ E = {} => Amounts(E) = 0
         /\ \A e : E = {e} => Amounts(E) = e.amount
<1> DEFINE w == [e \in E |-> e.amount]
           Iter(h) == h = [s \in SUBSET E |-> IF s = {} THEN 0
                                              ELSE Pick(s).amount + h[s \ {Pick(s)}]]
<1>1. \A s \in SUBSET E : s # {} => w[Pick(s)] = Pick(s).amount
  BY Picked
<1>2. ASSUME NEW h PROVE Iter(h) <=> Summing(h, E, w)
  BY <1>1 DEF Summing
<1>3. Amounts(E) = (CHOOSE h : Iter(h))[E]
  BY DEF Amounts, MapThenSumSet, MapThenFoldSet, Pick
<1>4. w \in [E -> Int] /\ DOMAIN w = E
  OBVIOUS
<1>5. (CHOOSE h : Iter(h)) = (CHOOSE h : Summing(h, E, w))
  <2> HIDE DEF Iter
  <2> QED BY <1>2
<1> HIDE DEF Iter
<1>6. Amounts(E) = Total(w)
  <2> HIDE DEF w
  <2> QED BY <1>3, <1>4, <1>5 DEF Total
<1>7. CASE E = {}
  <2>1. IsFiniteSet(E) /\ \A e : E # {e}
    BY <1>7, FS_EmptySet
  <2> HIDE DEF w
  <2> QED BY <1>4, <1>6, <1>7, <2>1, TotalType
<1>8. ASSUME NEW e, E = {e} PROVE Amounts(E) = e.amount
  <2> DEFINE v == [y \in E \ {e} |-> 0]
  <2>1. IsFiniteSet(E) /\ e \in E /\ w[e] = e.amount /\ e.amount \in Int
    BY <1>8, FS_Singleton
  <2>2. v \in [E \ {e} -> Int] /\ IsFiniteSet(E \ {e}) /\ E \ {e} = {}
    BY <1>8, FS_EmptySet
  <2>3. \A y \in E \ {e} : v[y] = w[y]
    BY <2>2
  <2> HIDE DEF w, v
  <2>4. Total(v) = 0
    BY <2>2, TotalType
  <2>5. Total(w) = w[e] + Total(v)
    BY <1>4, <2>1, <2>2, <2>3, TotalTakes
  <2> QED BY <1>6, <2>1, <2>4, <2>5
<1> QED BY <1>7, <1>8

LEMMA Restated == Explained => EntriesExplainCash
  BY DEF Explained, EntriesExplainCash, Amounts, Of, Volumes, DoneFor, Spent

LEMMA NotionalType == \A t \in Traders : Notional(t) \in Int
  BY SettlementAssumption DEF Notional

\* The sum of the volumes of a finite set of fills.
LEMMA VolumesOf ==
  ASSUME NEW T \in SUBSET Traders, IsFiniteSet(T)
  PROVE  /\ Volumes(T) \in Int
         /\ T = {} => Volumes(T) = 0
         /\ \A t \in T : Volumes(T) = Notional(t) + Volumes(T \ {t})
<1> DEFINE w(R) == [t \in R |-> Notional(t)]
<1>1. ASSUME NEW R \in SUBSET T
      PROVE  Volumes(R) = Total(w(R)) /\ w(R) \in [R -> Int] /\ IsFiniteSet(R)
  <2> DEFINE v == w(R)
             Iter(h) == h = [s \in SUBSET R |-> IF s = {} THEN 0
                              ELSE Trades[Pick(s)].qty * Price + h[s \ {Pick(s)}]]
  <2>1. \A s \in SUBSET R : s # {} => v[Pick(s)] = Trades[Pick(s)].qty * Price
    BY Picked DEF Notional
  <2>2. ASSUME NEW h PROVE Iter(h) <=> Summing(h, R, v)
    <3> HIDE DEF v
    <3> QED BY <2>1 DEF Summing
  <2>3. Volumes(R) = (CHOOSE h : Iter(h))[R]
    BY DEF Volumes, MapThenSumSet, MapThenFoldSet, Pick
  <2>4. (CHOOSE h : Iter(h)) = (CHOOSE h : Summing(h, R, v))
    <3> HIDE DEF Iter, v
    <3> QED BY <2>2
  <2>5. DOMAIN v = R
    OBVIOUS
  <2>6. Volumes(R) = Total(v)
    <3> HIDE DEF Iter, v
    <3> QED BY <2>3, <2>4, <2>5 DEF Total
  <2>7. v \in [R -> Int] /\ IsFiniteSet(R)
    BY NotionalType, FS_Subset
  <2> QED BY <2>6, <2>7
<1>2. Volumes(T) \in Int /\ (T = {} => Volumes(T) = 0)
  <2> HIDE DEF w
  <2> QED BY <1>1, TotalType
<1>3. ASSUME NEW t \in T PROVE Volumes(T) = Notional(t) + Volumes(T \ {t})
  <2>1. w(T)[t] = Notional(t) /\ \A y \in T \ {t} : w(T \ {t})[y] = w(T)[y]
    OBVIOUS
  <2>2. T \in SUBSET T /\ T \ {t} \in SUBSET T
    OBVIOUS
  <2>3. /\ Volumes(T) = Total(w(T)) /\ w(T) \in [T -> Int]
        /\ Volumes(T \ {t}) = Total(w(T \ {t})) /\ w(T \ {t}) \in [T \ {t} -> Int]
    BY <1>1, <2>2, Zenon
  <2> HIDE DEF w
  <2>4. Total(w(T)) = w(T)[t] + Total(w(T \ {t}))
    BY <2>1, <2>3, TotalTakes
  <2> QED BY <2>1, <2>3, <2>4
<1> QED BY <1>2, <1>3

\* A row nobody else holds is x's to write.
LEMMA DraftsKept ==
  ASSUME IInv, LedgerInv, NEW x \in Sessions,
         \A u \in Settlers \ {x} : tx'[u].made = tx[u].made,
         \A t \in Traders \ {x} : trade'[t].pc = trade[t].pc,
         \A a \in Accounts :
            \/ /\ cashBy[a] # x /\ cashBy'[a] = cashBy[a]
               /\ cash'[a] = cash[a] /\ cashW'[a] = cashW[a]
            \/ cashBy[a] \in {None, x} /\ cashBy'[a] = None /\ cashW'[a] = cash'[a]
            \/ cashBy[a] \in {None, x} /\ cashBy'[a] = x /\ DraftOf(x, a)',
         HoldsOf(x)'
  PROVE  DraftsFine'
<1>1. x # None /\ None \notin Sessions
  BY SettlementAssumption
<1>2. ASSUME NEW a \in Accounts PROVE cashBy'[a] = None => cashW'[a] = cash'[a]
  BY <1>1 DEF LedgerInv, DraftsFine
<1>3. ASSUME NEW a \in Accounts, NEW y \in Sessions, cashBy'[a] = y PROVE DraftOf(y, a)'
  <2>1. CASE y = x
    <3>1. cashBy'[a] = x /\ x # None
      BY <1>1, <1>3, <2>1
    <3> QED BY <2>1, <3>1
  <2>2. CASE y # x
    <3>1. /\ cashBy[a] = y /\ cash'[a] = cash[a] /\ cashW'[a] = cashW[a]
      BY <1>1, <1>3, <2>2
    <3>2. DraftOf(y, a)
      BY <3>1 DEF LedgerInv, DraftsFine
    <3>3. y \in Settlers => tx'[y].made = tx[y].made
      BY <2>2
    <3>4. y \in Traders => Posted(y, a)' = Posted(y, a)
      BY <2>2 DEF Posted
    <3> QED BY <3>1, <3>2, <3>3, <3>4 DEF DraftOf
  <2> QED BY <2>1, <2>2
<1>4. ASSUME NEW y \in Sessions PROVE HoldsOf(y)'
  <2>1. CASE y = x
    BY <2>1
  <2>2. CASE y # x
    <3>1. HoldsOf(y)
      BY DEF LedgerInv, DraftsFine
    <3>2. \A a \in Accounts : cashBy[a] = y => cashBy'[a] = y
      BY <1>1, <2>2
    <3>3. y \in Settlers => /\ tx'[y].made = tx[y].made
                            /\ \A e \in tx[y].made : e.account \in Accounts
      BY <2>2 DEF IInv, TypeOK, TxType, Entry
    <3>4. y \in Traders => /\ trade'[y].pc = trade[y].pc
                           /\ Trades[y].buyer \in Accounts /\ Trades[y].seller \in Accounts
      BY <2>2, SettlementAssumption
    <3> QED BY <3>1, <3>2, <3>3, <3>4 DEF HoldsOf
  <2> QED BY <2>1, <2>2
<1> QED BY <1>2, <1>3, <1>4 DEF DraftsFine

\* What is committed is explained as long as neither side of the equation changes.
LEMMA SameLedger ==
  ASSUME LedgerInv, UNCHANGED <<cash, entries>>,
         \A t \in Traders : (trade'[t].pc = "done") <=> (trade[t].pc = "done")
  PROVE  Explained' /\ IsFiniteSet({t \in Traders : trade'[t].pc = "done"})
<1>1. \A a, leg : DoneFor(a, leg)' = DoneFor(a, leg)
  BY DEF DoneFor
<1>2. \A a : Of(a)' = Of(a)
  BY DEF Of
<1>3. Explained'
  BY <1>1, <1>2 DEF Explained, LedgerInv
<1>4. {t \in Traders : trade'[t].pc = "done"} = {t \in Traders : trade[t].pc = "done"}
  OBVIOUS
<1> QED BY <1>3, <1>4 DEF LedgerInv

\* A step that posts and commits nothing.
LEMMA QuietLedger ==
  ASSUME IInv, LedgerInv, UNCHANGED <<accountRows, entries>>,
         \A s \in Settlers : tx'[s].made = tx[s].made,
         \A t \in Traders : /\ (trade'[t].pc = "done") <=> (trade[t].pc = "done")
                            /\ (trade'[t].pc \in Bought) <=> (trade[t].pc \in Bought)
                            /\ (trade'[t].pc \in Sold) <=> (trade[t].pc \in Sold)
  PROVE  LedgerInv'
<1>1. cash' = cash /\ cashW' = cashW /\ cashBy' = cashBy /\ entries' = entries
  BY DEF accountRows
<1>2. Explained' /\ IsFiniteSet({t \in Traders : trade'[t].pc = "done"})
  BY <1>1, SameLedger
<1>3. \A t \in Traders, a \in Accounts : Posted(t, a)' = Posted(t, a)
  BY DEF Posted
<1>4. ASSUME NEW x \in Sessions, NEW a \in Accounts, DraftOf(x, a) PROVE DraftOf(x, a)'
  BY <1>1, <1>3, <1>4 DEF DraftOf
<1>5. ASSUME NEW x \in Sessions, HoldsOf(x) PROVE HoldsOf(x)'
  BY <1>1, <1>5 DEF HoldsOf
<1>6. DraftsFine'
  BY <1>1, <1>4, <1>5 DEF LedgerInv, DraftsFine
<1> QED BY <1>2, <1>6 DEF LedgerInv

\* Rolling back forgets what x has posted.
LEMMA RollbackDrafts ==
  ASSUME IInv, LedgerInv, NEW x \in Sessions, RollbackRows(x),
         \A u \in Settlers \ {x} : tx'[u].made = tx[u].made,
         \A t \in Traders \ {x} : trade'[t].pc = trade[t].pc,
         x \in Settlers => tx'[x].made = {},
         x \in Traders => trade'[x].pc = "refused"
  PROVE  DraftsFine'
<1>1. \A a \in Accounts :
         \/ /\ cashBy[a] # x /\ cashBy'[a] = cashBy[a]
            /\ cash'[a] = cash[a] /\ cashW'[a] = cashW[a]
         \/ cashBy[a] \in {None, x} /\ cashBy'[a] = None /\ cashW'[a] = cash'[a]
  BY DEF RollbackRows, IInv, TypeOK
<1>2. HoldsOf(x)'
  BY DEF HoldsOf, Bought, Sold
<1> QED BY <1>1, <1>2, DraftsKept

\* Losing a settlement keeps the ledger right.
LEMMA AbortLedger ==
  ASSUME IInv, LedgerInv, NEW s \in Settlers, Abort(s)
  PROVE  LedgerInv'
<1>1. s \in Sessions /\ s \notin Traders
  BY SettlementAssumption DEF Sessions
<1>2. RollbackRows(s) /\ trade' = trade /\ entries' = entries /\ cash' = cash
  BY DEF Abort, RollbackRows
<1>3. tx'[s].made = {} /\ \A u \in Settlers \ {s} : tx'[u].made = tx[u].made
  BY DEF Abort, EndedTx, IdleTx, IInv, TypeOK
<1>4. DraftsFine'
  BY <1>1, <1>2, <1>3, RollbackDrafts
<1>5. Explained' /\ IsFiniteSet({t \in Traders : trade'[t].pc = "done"})
  BY <1>2, SameLedger
<1> QED BY <1>4, <1>5 DEF LedgerInv

\* Losing a fill keeps the ledger right.
LEMMA AbortTradeLedger ==
  ASSUME IInv, LedgerInv, NEW t \in Traders, AbortTrade(t), trade[t].pc # "done"
  PROVE  LedgerInv'
<1>1. t \in Sessions /\ t \notin Settlers
  BY TraderOutside
<1>2. RollbackRows(t) /\ tx' = tx /\ entries' = entries /\ cash' = cash
  BY DEF AbortTrade, RollbackRows
<1>3. trade'[t].pc = "refused" /\ \A u \in Traders \ {t} : trade'[u] = trade[u]
  BY DEF AbortTrade, IdleTrade, IInv, TypeOK
<1>4. DraftsFine'
  BY <1>1, <1>2, <1>3, RollbackDrafts
<1>5. \A u \in Traders : (trade'[u].pc = "done") <=> (trade[u].pc = "done")
  BY <1>3
<1>6. Explained' /\ IsFiniteSet({u \in Traders : trade'[u].pc = "done"})
  BY <1>2, <1>5, SameLedger
<1> QED BY <1>4, <1>6 DEF LedgerInv

\* A payment is a draft on a row that s holds and has not posted to before.
LEMMA PayLedger ==
  ASSUME IInv, LedgerInv, NEW s \in Settlers, Pay(s)
  PROVE  LedgerInv'
<1>0. PICK a, due : a = tx[s].account /\ due = Due(s)
  OBVIOUS
<1> DEFINE entry == [account |-> a, amount |-> due, by |-> s]
<1>1. CASE UNCHANGED <<accountRows, entries, trade>> /\ tx'[s].made = tx[s].made
           /\ \A u \in Settlers \ {s} : tx'[u] = tx[u]
  BY <1>1, QuietLedger
<1>2. CASE Abort(s)
  BY <1>2, AbortLedger
<1>3. CASE /\ cashBy[a] \in {None, s} /\ cashBy' = [cashBy EXCEPT ![a] = s]
           /\ cashW' = [cashW EXCEPT ![a] = cashW[a] + due]
           /\ tx' = [tx EXCEPT ![s].pc = "positions", ![s].account = None,
                               ![s].made = @ \cup {entry}]
           /\ UNCHANGED <<cash, entries, trade>>
  <2>1. a \in Accounts /\ \A e \in tx[s].made : e.account # a
    BY <1>0 DEF Pay, IInv, TxFine
  <2>2. s \in Sessions /\ s \notin Traders /\ s # None
    BY SettlementAssumption DEF Sessions
  <2>3. cashBy[a] = None /\ cashW[a] = cash[a]
    <3>1. cashBy[a] # s
      BY <2>1, <2>2 DEF LedgerInv, DraftsFine, DraftOf
    <3> QED BY <1>3, <2>1, <3>1 DEF LedgerInv, DraftsFine
  <2> HIDE DEF entry
  <2>4. tx'[s].made = tx[s].made \cup {entry} /\ \A u \in Settlers \ {s} : tx'[u] = tx[u]
    BY <1>3 DEF IInv, TypeOK, TxType
  <2>5. /\ cashBy'[a] = s /\ cashW'[a] = cash'[a] + due
        /\ \A b \in Accounts \ {a} : cashBy'[b] = cashBy[b] /\ cashW'[b] = cashW[b]
    BY <1>3, <2>1, <2>3 DEF IInv, TypeOK
  <2>6. entry.account = a /\ entry.amount = due
    BY DEF entry
  <2>7. DraftOf(s, a)'
    BY <2>2, <2>4, <2>5, <2>6 DEF DraftOf
  <2>8. ASSUME NEW b \in Accounts, b # a, cashBy[b] = s PROVE DraftOf(s, b)'
    <3>1. DraftOf(s, b)
      BY <2>2, <2>8 DEF LedgerInv, DraftsFine
    <3> QED BY <1>3, <2>2, <2>4, <2>5, <2>8, <3>1 DEF DraftOf
  <2>9. HoldsOf(s)'
    <3>1. HoldsOf(s) /\ \A e \in tx[s].made : e.account \in Accounts
      BY <2>2 DEF LedgerInv, DraftsFine, IInv, TypeOK, TxType, Entry
    <3> QED BY <2>1, <2>2, <2>4, <2>5, <2>6, <3>1 DEF HoldsOf
  <2>10. \A b \in Accounts :
            \/ /\ cashBy[b] # s /\ cashBy'[b] = cashBy[b]
               /\ cash'[b] = cash[b] /\ cashW'[b] = cashW[b]
            \/ cashBy[b] \in {None, s} /\ cashBy'[b] = s /\ DraftOf(s, b)'
    BY <1>3, <2>3, <2>5, <2>7, <2>8
  <2>11. DraftsFine'
    BY <1>3, <2>2, <2>4, <2>9, <2>10, DraftsKept
  <2>12. Explained' /\ IsFiniteSet({t \in Traders : trade'[t].pc = "done"})
    BY <1>3, SameLedger
  <2> QED BY <2>11, <2>12 DEF LedgerInv
<1>4. ASSUME NEW r, r.made = tx[s].made, tx' = [tx EXCEPT ![s] = r]
      PROVE  tx'[s].made = tx[s].made /\ \A u \in Settlers \ {s} : tx'[u] = tx[u]
  BY <1>4 DEF IInv, TypeOK
<1>5. tx[s] \in TxType
  BY DEF IInv, TypeOK
<1>6. /\ [tx[s] EXCEPT !.pc = "positions", !.account = None].made = tx[s].made
      /\ [tx[s] EXCEPT !.pc = "commit", !.account = None].made = tx[s].made
  BY <1>5 DEF TxType
<1>7. CASE tx' = [tx EXCEPT ![s].pc = "positions", ![s].account = None]
           /\ UNCHANGED <<accountRows, entries, trade>>
  BY <1>1, <1>4, <1>6, <1>7
<1>8. CASE tx' = [tx EXCEPT ![s].pc = "commit", ![s].account = None]
           /\ UNCHANGED <<accountRows, entries, trade>>
  BY <1>1, <1>4, <1>6, <1>8
<1> HIDE DEF entry
<1> QED BY <1>0, <1>2, <1>3, <1>7, <1>8 DEF Pay, entry

\* Committing makes the drafts of x the balances everyone sees.
LEMMA CommitDrafts ==
  ASSUME IInv, LedgerInv, NEW x \in Sessions, CommitRows(x),
         \A u \in Settlers \ {x} : tx'[u].made = tx[u].made,
         \A t \in Traders \ {x} : trade'[t].pc = trade[t].pc,
         x \in Settlers => tx'[x].made = {},
         x \in Traders => trade'[x].pc = "done"
  PROVE  DraftsFine'
<1>1. \A a \in Accounts :
         \/ /\ cashBy[a] # x /\ cashBy'[a] = cashBy[a]
            /\ cash'[a] = cash[a] /\ cashW'[a] = cashW[a]
         \/ cashBy[a] \in {None, x} /\ cashBy'[a] = None /\ cashW'[a] = cash'[a]
  BY DEF CommitRows, IInv, TypeOK
<1>2. HoldsOf(x)'
  BY DEF HoldsOf, Bought, Sold
<1> QED BY <1>1, <1>2, DraftsKept

\* A settlement that commits adds to the ledger what it adds to the balances.
LEMMA CommitLedger ==
  ASSUME IInv, LedgerInv, NEW s \in Settlers, Commit(s)
  PROVE  LedgerInv'
<1>1. s \in Sessions /\ s \notin Traders /\ s # None
  BY SettlementAssumption DEF Sessions
<1>2. CommitRows(s) /\ trade' = trade /\ entries' = entries \cup tx[s].made
  BY DEF Commit
<1>3. tx'[s].made = {} /\ \A u \in Settlers \ {s} : tx'[u].made = tx[u].made
  BY DEF Commit, EndedTx, IdleTx, IInv, TypeOK
<1>4. DraftsFine'
  BY <1>1, <1>2, <1>3, CommitDrafts
<1>5. \A a, leg : DoneFor(a, leg)' = DoneFor(a, leg)
  BY <1>2 DEF DoneFor
<1>6. /\ \A e \in tx[s].made : /\ e.account \in Accounts /\ e.amount \in Int
                               /\ ~pos[e.account].settled /\ cashBy[e.account] = s
      /\ \A e, f \in tx[s].made : e.account = f.account => e = f
  <2>1. tx[s] \in TxType /\ TxFine(s) /\ HoldsOf(s)
    BY <1>1 DEF IInv, TypeOK, LedgerInv, DraftsFine
  <2> QED BY <2>1 DEF TxType, Entry, TxFine, Claimed, HoldsOf
<1>7. ASSUME NEW a \in Accounts
      PROVE  cash'[a] = SeedCash[a] + Amounts(Of(a))' + Volumes(DoneFor(a, "seller"))
                          - Volumes(DoneFor(a, "buyer"))
  <2>1. /\ cash[a] = SeedCash[a] + Amounts(Of(a)) + Volumes(DoneFor(a, "seller"))
                       - Volumes(DoneFor(a, "buyer"))
        /\ cash[a] \in Int /\ SeedCash[a] \in Int
    BY SettlementAssumption DEF LedgerInv, Explained, IInv, TypeOK
  <2>2. \A leg : Volumes(DoneFor(a, leg)) \in Int
    <3>1. ASSUME NEW leg PROVE DoneFor(a, leg) \in SUBSET Traders /\ IsFiniteSet(DoneFor(a, leg))
      <4>1. DoneFor(a, leg) \subseteq {t \in Traders : trade[t].pc = "done"}
        BY DEF DoneFor
      <4>2. IsFiniteSet({t \in Traders : trade[t].pc = "done"})
        BY DEF LedgerInv
      <4> QED BY <4>1, <4>2, FS_Subset DEF DoneFor
    <3> QED BY <3>1, VolumesOf
  <2>3. \A e \in Of(a) : e.amount \in Int
    BY DEF Of, IInv, TypeOK, Entry
  <2>4. CASE \E e \in tx[s].made : e.account = a
    <3>1. PICK e \in tx[s].made : e.account = a
      BY <2>4
    <3>2. Of(a) = {}
      BY <1>6, <3>1 DEF Of, IInv, EntriesFine
    <3>3. Of(a)' = {e}
      BY <1>2, <1>6, <3>1, <3>2 DEF Of
    <3>4. Amounts(Of(a)) = 0 /\ Amounts({e}) = e.amount /\ e.amount \in Int
      BY <1>6, <2>3, <3>2, AmountsOf
    <3>5. cashBy[a] = s /\ DraftOf(s, a)
      BY <1>1, <1>6, <3>1 DEF LedgerInv, DraftsFine
    <3>6. cashW[a] = cash[a] + e.amount
      BY <1>6, <3>1, <3>5 DEF DraftOf
    <3>7. cash'[a] = cashW[a]
      BY <1>2, <3>5 DEF CommitRows
    <3> QED BY <2>1, <2>2, <3>3, <3>4, <3>6, <3>7
  <2>5. CASE \A e \in tx[s].made : e.account # a
    <3>1. Of(a)' = Of(a)
      BY <1>2, <2>5 DEF Of
    <3>2. cashBy[a] # s
      BY <1>1, <2>5 DEF LedgerInv, DraftsFine, DraftOf
    <3>3. cash'[a] = cash[a]
      BY <1>2, <3>2 DEF CommitRows
    <3> QED BY <2>1, <3>1, <3>3
  <2> QED BY <2>4, <2>5
<1>8. Explained'
  BY <1>5, <1>7 DEF Explained
<1>9. IsFiniteSet({t \in Traders : trade'[t].pc = "done"})
  BY <1>2 DEF LedgerInv
<1> QED BY <1>4, <1>8, <1>9 DEF LedgerInv

\* One leg of a fill is a draft on a row the fill holds.
LEMMA PostCashLedger ==
  ASSUME IInv, LedgerInv, NEW t \in Traders, NEW leg \in {"buyer", "seller"}, PostCash(t, leg)
  PROVE  LedgerInv'
<1> DEFINE a == LegAccount(t, leg)
           amount == 0 - LegQty(t, leg) * Price
           next == IF leg = "buyer" THEN "buyerWrite" ELSE "sellerWrite"
<1>1. /\ t \in Sessions /\ t \notin Settlers /\ t # None /\ a \in Accounts
      /\ Trades[t].buyer \in Accounts /\ Trades[t].seller \in Accounts
  BY TraderOutside, SettlementAssumption DEF LegAccount
<1>2. trade[t].pc = IF leg = "buyer" THEN "buyerPost" ELSE "sellerPost"
  BY DEF PostCash
<1>3. CASE AbortTrade(t)
  BY <1>2, <1>3, AbortTradeLedger
<1>4. CASE ~(cashW[a] + amount < 0)
  <2>1. /\ cashBy[a] \in {None, t} /\ cashBy' = [cashBy EXCEPT ![a] = t]
        /\ cashW' = [cashW EXCEPT ![a] = cashW[a] + amount]
        /\ trade' = [trade EXCEPT ![t].pc = next]
        /\ UNCHANGED <<cash, entries, tx>>
    BY <1>4 DEF PostCash
  <2>2. trade'[t].pc = next /\ \A u \in Traders \ {t} : trade'[u] = trade[u]
    BY <2>1 DEF IInv, TypeOK
  <2>3. amount = IF leg = "buyer" THEN 0 - Notional(t) ELSE Notional(t)
    <3>1. Trades[t].qty \in Int /\ Price \in Int
      BY SettlementAssumption
    <3>2. CASE leg = "buyer"
      BY <3>2 DEF Notional, LegQty
    <3>3. CASE leg # "buyer"
      <4>1. amount = 0 - (0 - Trades[t].qty) * Price
        BY <3>3 DEF LegQty
      <4>2. 0 - (0 - Trades[t].qty) * Price = Trades[t].qty * Price
        BY <3>1
      <4> QED BY <3>3, <4>1, <4>2 DEF Notional
    <3> QED BY <3>2, <3>3
  <2> HIDE DEF amount
  <2>4. /\ cashBy'[a] = t /\ cashW'[a] = cashW[a] + amount /\ cash' = cash
        /\ \A b \in Accounts \ {a} : cashBy'[b] = cashBy[b] /\ cashW'[b] = cashW[b]
    BY <1>1, <2>1 DEF IInv, TypeOK
  <2>5. HoldsOf(t)'
    <3>1. HoldsOf(t)
      BY <1>1 DEF LedgerInv, DraftsFine
    <3> QED BY <1>1, <1>2, <2>2, <2>4, <3>1 DEF HoldsOf, Bought, Sold, LegAccount
  <2>6. ASSUME NEW b \in Accounts, cashBy'[b] = t
        PROVE  cashBy[b] \in {None, t} /\ DraftOf(t, b)'
    <3>1. cashBy[b] \in {None, t}
      BY <2>1, <2>4, <2>6
    <3>2. cashW[b] = cash[b] + Posted(t, b)
      <4>1. CASE cashBy[b] = t
        BY <1>1, <4>1 DEF LedgerInv, DraftsFine, DraftOf
      <4>2. CASE cashBy[b] = None
        <5>1. b = a
          BY <1>1, <2>4, <2>6, <4>2
        <5>2. cashW[b] = cash[b] /\ cash[b] \in Int
          BY <4>2 DEF LedgerInv, DraftsFine, IInv, TypeOK
        <5>3. HoldsOf(t)
          BY <1>1 DEF LedgerInv, DraftsFine
        <5>4. Posted(t, b) = 0
          BY <1>1, <1>2, <4>2, <5>3 DEF Posted, HoldsOf, Bought, Sold
        <5> QED BY <5>2, <5>4
      <4> QED BY <3>1, <4>1, <4>2
    <3>3. Posted(t, b)' = IF b = a THEN Posted(t, b) + amount ELSE Posted(t, b)
      BY <1>2, <2>2, <2>3, NotionalType DEF Posted, Bought, Sold, LegAccount
    <3>4. Posted(t, b) \in Int /\ cash[b] \in Int /\ amount \in Int
      BY <2>3, NotionalType DEF Posted, IInv, TypeOK
    <3>5. cashW'[b] = cash'[b] + Posted(t, b)'
      BY <2>4, <3>2, <3>3, <3>4
    <3> QED BY <1>1, <3>1, <3>5 DEF DraftOf
  <2>7. \A b \in Accounts :
            \/ /\ cashBy[b] # t /\ cashBy'[b] = cashBy[b]
               /\ cash'[b] = cash[b] /\ cashW'[b] = cashW[b]
            \/ cashBy[b] \in {None, t} /\ cashBy'[b] = t /\ DraftOf(t, b)'
    BY <2>4, <2>6
  <2>8. DraftsFine'
    BY <1>1, <2>1, <2>2, <2>5, <2>7, DraftsKept
  <2>9. \A u \in Traders : (trade'[u].pc = "done") <=> (trade[u].pc = "done")
    BY <1>2, <2>2
  <2>10. Explained' /\ IsFiniteSet({u \in Traders : trade'[u].pc = "done"})
    BY <2>1, <2>9, SameLedger
  <2> QED BY <2>8, <2>10 DEF LedgerInv
<1> QED BY <1>3, <1>4 DEF PostCash

\* Writing the shares moves no money.
LEMMA WriteSharesLedger ==
  ASSUME IInv, LedgerInv, NEW t \in Traders, NEW leg \in {"buyer", "seller"},
         WriteShares(t, leg)
  PROVE  LedgerInv'
<1>1. /\ trade[t].pc = IF leg = "buyer" THEN "buyerWrite" ELSE "sellerWrite"
      /\ trade'[t].pc = IF leg = "buyer" THEN "seller" ELSE "commit"
      /\ \A u \in Traders \ {t} : trade'[u] = trade[u]
  BY DEF WriteShares, IInv, TypeOK
<1>2. /\ (trade'[t].pc = "done") <=> (trade[t].pc = "done")
      /\ (trade'[t].pc \in Bought) <=> (trade[t].pc \in Bought)
      /\ (trade'[t].pc \in Sold) <=> (trade[t].pc \in Sold)
  <2>1. CASE leg = "buyer"
    BY <1>1, <2>1 DEF Bought, Sold
  <2>2. CASE leg = "seller"
    BY <1>1, <2>2 DEF Bought, Sold
  <2> QED BY <2>1, <2>2
<1>3. ASSUME NEW u \in Traders
      PROVE  /\ (trade'[u].pc = "done") <=> (trade[u].pc = "done")
             /\ (trade'[u].pc \in Bought) <=> (trade[u].pc \in Bought)
             /\ (trade'[u].pc \in Sold) <=> (trade[u].pc \in Sold)
  <2>1. CASE u = t
    BY <1>2, <2>1
  <2>2. CASE u # t
    <3>1. trade'[u] = trade[u]
      BY <1>1, <2>2
    <3> QED BY <3>1
  <2> QED BY <2>1, <2>2
<1>4. UNCHANGED <<accountRows, entries>> /\ \A s \in Settlers : tx'[s].made = tx[s].made
  BY DEF WriteShares
<1> QED BY <1>3, <1>4, QuietLedger

\* A fill that commits joins the committed fills as its drafts join the balances.
LEMMA CommitTradeLedger ==
  ASSUME IInv, LedgerInv, NEW t \in Traders, CommitTrade(t)
  PROVE  LedgerInv'
<1> DEFINE Done == {u \in Traders : trade[u].pc = "done"}
<1>1. t \in Sessions /\ t \notin Settlers /\ t # None /\ trade[t].pc = "commit"
  BY TraderOutside DEF CommitTrade
<1>2. CommitRows(t) /\ tx' = tx /\ entries' = entries
  BY DEF CommitTrade
<1>3. trade'[t].pc = "done" /\ \A u \in Traders \ {t} : trade'[u] = trade[u]
  BY DEF CommitTrade, IdleTrade, IInv, TypeOK
<1>4. DraftsFine'
  BY <1>1, <1>2, <1>3, CommitDrafts
<1>5. {u \in Traders : trade'[u].pc = "done"} = Done \cup {t}
  BY <1>3
<1>6. IsFiniteSet({u \in Traders : trade'[u].pc = "done"})
  BY <1>5, FS_AddElement DEF LedgerInv
<1>7. ASSUME NEW a, NEW leg
      PROVE  /\ DoneFor(a, leg)' = IF LegAccount(t, leg) = a
                                   THEN DoneFor(a, leg) \cup {t} ELSE DoneFor(a, leg)
             /\ t \notin DoneFor(a, leg)
             /\ DoneFor(a, leg) \in SUBSET Traders /\ IsFiniteSet(DoneFor(a, leg))
             /\ DoneFor(a, leg)' \in SUBSET Traders /\ IsFiniteSet(DoneFor(a, leg)')
  <2>1. DoneFor(a, leg) \subseteq Done /\ DoneFor(a, leg)' \subseteq Done \cup {t}
    BY <1>3 DEF DoneFor
  <2>2. IsFiniteSet(DoneFor(a, leg)) /\ IsFiniteSet(DoneFor(a, leg)')
    BY <1>5, <1>6, <2>1, FS_Subset DEF LedgerInv
  <2> QED BY <1>1, <1>3, <2>2 DEF DoneFor
<1>8. ASSUME NEW a, NEW leg
      PROVE  /\ Volumes(DoneFor(a, leg)') =
                  IF LegAccount(t, leg) = a THEN Notional(t) + Volumes(DoneFor(a, leg))
                  ELSE Volumes(DoneFor(a, leg))
             /\ Volumes(DoneFor(a, leg)) \in Int
  <2>1. Volumes(DoneFor(a, leg)) \in Int
    BY <1>7, VolumesOf
  <2>2. CASE LegAccount(t, leg) = a
    <3>1. t \in DoneFor(a, leg)' /\ DoneFor(a, leg)' \ {t} = DoneFor(a, leg)
      BY <1>7, <2>2
    <3>2. Volumes(DoneFor(a, leg)') = Notional(t) + Volumes(DoneFor(a, leg)' \ {t})
      BY <1>7, <3>1, VolumesOf
    <3> QED BY <2>1, <2>2, <3>1, <3>2
  <2>3. CASE LegAccount(t, leg) # a
    BY <1>7, <2>1, <2>3
  <2> QED BY <2>2, <2>3
<1>9. ASSUME NEW a \in Accounts
      PROVE  cash'[a] = SeedCash[a] + Amounts(Of(a)) + Volumes(DoneFor(a, "seller")')
                          - Volumes(DoneFor(a, "buyer")')
  <2>1. /\ cash[a] = SeedCash[a] + Amounts(Of(a)) + Volumes(DoneFor(a, "seller"))
                       - Volumes(DoneFor(a, "buyer"))
        /\ cash[a] \in Int /\ SeedCash[a] \in Int /\ Notional(t) \in Int
    BY SettlementAssumption, NotionalType DEF LedgerInv, Explained, IInv, TypeOK
  <2>2. cash'[a] = cash[a] + Posted(t, a)
    <3>1. CASE cashBy[a] = t
      BY <1>1, <1>2, <3>1 DEF CommitRows, LedgerInv, DraftsFine, DraftOf
    <3>2. CASE cashBy[a] # t
      <4>1. HoldsOf(t)
        BY <1>1 DEF LedgerInv, DraftsFine
      <4>2. Posted(t, a) = 0
        BY <1>1, <3>2, <4>1 DEF Posted, HoldsOf, Bought, Sold
      <4> QED BY <1>2, <2>1, <3>2, <4>2 DEF CommitRows
    <3> QED BY <3>1, <3>2
  <2>3. Posted(t, a) = (IF LegAccount(t, "seller") = a THEN Notional(t) ELSE 0)
                         - (IF LegAccount(t, "buyer") = a THEN Notional(t) ELSE 0)
    BY <1>1 DEF Posted, Bought, Sold, LegAccount
  <2>4. Amounts(Of(a)) \in Int
    <3>1. \A e \in Of(a) : e.amount \in Int
      BY DEF Of, IInv, TypeOK, Entry
    <3>2. CASE Of(a) = {}
      BY <3>1, <3>2, AmountsOf
    <3>3. CASE \E e : e \in Of(a)
      <4>1. PICK e \in Of(a) : TRUE
        BY <3>3
      <4>2. Of(a) = {e}
        BY <4>1 DEF Of, IInv, EntriesFine, PaidOnce
      <4> QED BY <3>1, <4>1, <4>2, AmountsOf
    <3> QED BY <3>2, <3>3
  <2>5. /\ Volumes(DoneFor(a, "seller")) \in Int /\ Volumes(DoneFor(a, "buyer")) \in Int
        /\ Volumes(DoneFor(a, "seller")') =
             IF LegAccount(t, "seller") = a THEN Notional(t) + Volumes(DoneFor(a, "seller"))
             ELSE Volumes(DoneFor(a, "seller"))
        /\ Volumes(DoneFor(a, "buyer")') =
             IF LegAccount(t, "buyer") = a THEN Notional(t) + Volumes(DoneFor(a, "buyer"))
             ELSE Volumes(DoneFor(a, "buyer"))
    BY <1>8
  <2> QED BY <2>1, <2>2, <2>3, <2>4, <2>5
<1>10. \A a : Of(a)' = Of(a)
  BY <1>2 DEF Of
<1>11. Explained'
  BY <1>9, <1>10 DEF Explained
<1> QED BY <1>4, <1>6, <1>11 DEF LedgerInv

\* The statements of a settlement that move no money.
LEMMA LocalLedger ==
  ASSUME IInv, LedgerInv, NEW s \in Settlers, NEW r, r.made = tx[s].made,
         tx' = [tx EXCEPT ![s] = r], UNCHANGED <<accountRows, entries, trade>>
  PROVE  LedgerInv'
<1>1. \A u \in Settlers : tx'[u].made = tx[u].made
  BY DEF IInv, TypeOK
<1> QED BY <1>1, QuietLedger

LEMMA SettlerLedger ==
  ASSUME IInv, LedgerInv, NEW s \in Settlers,
         (\E call \in Calls : Begin(s, call)) \/ Step(s) \/ Crash(s)
  PROVE  LedgerInv'
<1>0. tx[s] \in TxType
  BY DEF IInv, TypeOK
<1>1. ASSUME NEW call \in Calls, Begin(s, call) PROVE LedgerInv'
  <2> DEFINE refused == [tx[s] EXCEPT !.pc = "refused", !.call = call]
             r == [tx[s] EXCEPT !.pc = IF mkt.status = "RESOLVED" THEN "rows" ELSE "market",
                                !.call = call, !.seen = mkt]
  <2>1. refused.made = tx[s].made /\ r.made = tx[s].made
    BY <1>0 DEF TxType
  <2>2. tx' = [tx EXCEPT ![s] = refused] \/ tx' = [tx EXCEPT ![s] = r]
    BY <1>1 DEF Begin
  <2>3. UNCHANGED <<accountRows, entries, trade>>
    BY <1>1 DEF Begin
  <2> HIDE DEF refused, r
  <2> QED BY <2>1, <2>2, <2>3, LocalLedger
<1>2. CASE ClaimMarket(s)
  <2>1. [tx[s] EXCEPT !.pc = "rows"].made = tx[s].made
    BY <1>0 DEF TxType
  <2> QED BY <1>2, <2>1, LocalLedger DEF ClaimMarket
<1>3. CASE ReadPositions(s)
  <2> DEFINE r == [tx[s] EXCEPT !.pc = "paid", !.rows = pos, !.todo = Accounts]
  <2>1. r.made = tx[s].made
    BY <1>0 DEF TxType
  <2>2. tx' = [tx EXCEPT ![s] = r] /\ UNCHANGED <<accountRows, entries, trade>>
    BY <1>3 DEF ReadPositions
  <2> HIDE DEF r
  <2> QED BY <2>1, <2>2, LocalLedger
<1>4. CASE ReadEntries(s)
  <2>1. [tx[s] EXCEPT !.pc = "positions", !.paid = {e.account : e \in entries}].made
          = tx[s].made
    BY <1>0 DEF TxType
  <2> QED BY ZenonT(40), <1>4, <2>1, LocalLedger DEF ReadEntries
<1>5. ASSUME NEW a \in Accounts, Skip(s, a) \/ Claim(s, a) PROVE LedgerInv'
  <2> DEFINE skipped == [tx[s] EXCEPT !.todo = @ \ {a}]
             claimed == [tx[s] EXCEPT !.pc = "pay", !.account = a, !.todo = @ \ {a}]
  <2>1. skipped.made = tx[s].made /\ claimed.made = tx[s].made
    BY <1>0 DEF TxType
  <2>2. UNCHANGED <<accountRows, entries, trade>>
    BY <1>5 DEF Skip, Claim
  <2>3. tx' = [tx EXCEPT ![s] = skipped] \/ tx' = [tx EXCEPT ![s] = claimed]
    BY <1>5 DEF Skip, Claim
  <2> HIDE DEF skipped, claimed
  <2> QED BY <2>1, <2>2, <2>3, LocalLedger
<1>6. CASE Pay(s)
  BY <1>6, PayLedger
<1>7. CASE ReadResolution(s)
  <2>1. [tx[s] EXCEPT !.pc = IF resolution = None THEN "audit" ELSE "commit"].made = tx[s].made
    BY <1>0 DEF TxType
  <2> QED BY <1>7, <2>1, LocalLedger DEF ReadResolution
<1>8. CASE InsertResolution(s)
  <2>1. [tx[s] EXCEPT !.pc = "commit"].made = tx[s].made
    BY <1>0 DEF TxType
  <2>2. CASE resolution # None
    BY <1>8, <2>2, AbortLedger DEF InsertResolution
  <2>3. CASE resolution = None
    BY <1>8, <2>1, <2>3, LocalLedger DEF InsertResolution
  <2> QED BY <2>2, <2>3
<1>9. CASE Commit(s)
  BY <1>9, CommitLedger
<1>10. CASE DeadlockVictim(s) \/ Crash(s)
  BY <1>10, AbortLedger DEF DeadlockVictim, Crash
<1> QED
  BY <1>1, <1>2, <1>3, <1>4, <1>5, <1>6, <1>7, <1>8, <1>9, <1>10 DEF Step

\* The statements of a fill.
LEMMA TraderLedger ==
  ASSUME IInv, LedgerInv, NEW t \in Traders, StartTrade(t) \/ StepTrade(t)
  PROVE  LedgerInv'
<1>1. CASE StartTrade(t)
  <2>1. trade[t].pc = "idle" /\ trade'[t].pc = "buyer" /\ tx' = tx
        /\ \A u \in Traders \ {t} : trade'[u] = trade[u]
    BY <1>1 DEF StartTrade, IInv, TypeOK
  <2> QED BY <1>1, <2>1, QuietLedger DEF StartTrade, Bought, Sold
<1>2. ASSUME NEW leg \in {"buyer", "seller"}, ReadShares(t, leg) PROVE LedgerInv'
  <2>1. /\ trade[t].pc = leg /\ tx' = tx
        /\ trade'[t].pc = IF leg = "buyer" THEN "buyerPost" ELSE "sellerPost"
        /\ \A u \in Traders \ {t} : trade'[u] = trade[u]
    BY <1>2 DEF ReadShares, IInv, TypeOK
  <2>2. ASSUME NEW u \in Traders
        PROVE  /\ (trade'[u].pc = "done") <=> (trade[u].pc = "done")
               /\ (trade'[u].pc \in Bought) <=> (trade[u].pc \in Bought)
               /\ (trade'[u].pc \in Sold) <=> (trade[u].pc \in Sold)
    <3>1. CASE u = t
      <4>1. CASE leg = "buyer"
        BY <2>1, <3>1, <4>1 DEF Bought, Sold
      <4>2. CASE leg = "seller"
        BY <2>1, <3>1, <4>2 DEF Bought, Sold
      <4> QED BY <4>1, <4>2
    <3>2. CASE u # t
      <4>1. trade'[u] = trade[u]
        BY <2>1, <3>2
      <4> QED BY <4>1
    <3> QED BY <3>1, <3>2
  <2>3. UNCHANGED <<accountRows, entries>> /\ \A s \in Settlers : tx'[s].made = tx[s].made
    BY <1>2, <2>1 DEF ReadShares
  <2> QED BY <2>2, <2>3, QuietLedger
<1>3. CASE DeadlockVictim(t)
  <2>1. AbortTrade(t)
    BY <1>3, TraderOutside DEF DeadlockVictim
  <2>2. trade[t].pc # "done"
    <3>1. PICK cycle \in SUBSET Sessions :
             t \in cycle /\ \A u \in cycle : Blockers(u) \cap cycle # {}
      BY <1>3 DEF DeadlockVictim, OnWaitCycle
    <3>2. Blockers(t) # {}
      BY <3>1
    <3> QED BY <3>2, TraderOutside DEF Blockers
  <2> QED BY <2>1, <2>2, AbortTradeLedger
<1> QED
  BY <1>1, <1>2, <1>3, PostCashLedger, WriteSharesLedger, CommitTradeLedger DEF StepTrade

\* The equation holds at the start.
LEMMA InitLedger == Init => LedgerInv
<1> SUFFICES ASSUME Init PROVE LedgerInv
  OBVIOUS
<1>1. \A a, leg : DoneFor(a, leg) = {}
  BY DEF Init, IdleTrade, DoneFor
<1>2. \A a : Of(a) = {}
  BY DEF Init, Of
<1>3. Volumes({}) = 0 /\ Amounts({}) = 0
  BY VolumesOf, AmountsOf, FS_EmptySet
<1>4. Explained
  <2>1. cash = SeedCash /\ \A a \in Accounts : SeedCash[a] \in Int
    BY SettlementAssumption DEF Init
  <2> QED BY <1>1, <1>2, <1>3, <2>1 DEF Explained
<1>5. {t \in Traders : trade[t].pc = "done"} = {}
  BY DEF Init, IdleTrade
<1>6. DraftsFine
  BY SettlementAssumption DEF Init, DraftsFine, HoldsOf, IdleTx, IdleTrade, Bought, Sold
<1> QED BY <1>4, <1>5, <1>6, FS_EmptySet DEF LedgerInv

\* The equation between the balances, the ledger and the fills holds in every state.
THEOREM LedgerInvariance == Spec => []LedgerInv
<1>1. IInv /\ LedgerInv /\ [Next]_vars => LedgerInv'
  <2> SUFFICES ASSUME IInv, LedgerInv, [Next]_vars PROVE LedgerInv'
    OBVIOUS
  <2>1. CASE \E s \in Settlers : (\E call \in Calls : Begin(s, call)) \/ Step(s) \/ Crash(s)
    BY <2>1, SettlerLedger
  <2>2. CASE \E t \in Traders : StartTrade(t) \/ StepTrade(t)
    BY <2>2, TraderLedger
  <2>3. CASE \E c \in Clerks : ClerkReads(c) \/ ClerkWrites(c)
    BY <2>3, QuietLedger DEF ClerkReads, ClerkWrites
  <2>4. CASE UNCHANGED vars
    BY <2>4, QuietLedger DEF vars
  <2> QED BY <2>1, <2>2, <2>3, <2>4 DEF Next
<1> QED BY <1>1, InitLedger, Invariance, PTL DEF Spec

\* Every balance is what the account had plus its SETTLEMENT rows plus its committed fills:
\* no posting of settle_market or of _record_fill is lost, doubled or left behind by a
\* rollback.
THEOREM BalancesExplained == Spec => []EntriesExplainCash
<1>1. LedgerInv => EntriesExplainCash
  BY Restated DEF LedgerInv
<1> QED BY <1>1, LedgerInvariance, PTL

-------------------------------------------------------------------------------------
(* The atomic settlement.  While administrators are alone, the market row is theirs *)
(* one after the other, from the UPDATE of settle_market to the end of the session: *)
(* whoever has it finds the rows as the last one left them, works through the       *)
(* accounts, and no row is locked by anyone else.                                   *)

Settling == {"rows", "paid", "positions", "pay", "audit", "commit"}
Emptied  == [shares |-> 0, settled |-> TRUE]

\* One session at a time has the market, and every lock on a row is its own.
HolderFine == \A s \in Settlers : (tx[s].pc \in Settling) <=> (mktBy = s)
LocksFine ==
    \A a \in Accounts :
        /\ posBy[a] \in {None, mktBy} /\ cashBy[a] \in {None, mktBy}
        /\ cash[a] >= 0 /\ (cashBy[a] = None => cashW[a] = cash[a])

\* Nothing is settled before there is a verdict, and everything afterwards.
StageFine ==
    IF resolution = None THEN entries = {} /\ \A a \in Accounts : ~pos[a].settled
    ELSE \A a \in Accounts : pos[a] = Emptied

\* An account that is not yet reached, one that is claimed, and one that is paid.
Untouched(a) == posBy[a] = None /\ cashBy[a] = None
Closed(a)    == posBy[a] = mktBy /\ posW[a] = Emptied
Handled(s, a) ==
    /\ Closed(a) /\ cashW[a] >= 0
    /\ cashW[a] = cash[a] + Payoff(pos[a].shares, tx[s].call.outcome)

\* The accounts a settlement has done are handled, the others untouched.
Progress(s) ==
    /\ tx[s].paid = {}
    /\ \A a \in Accounts :
          IF a \in tx[s].todo THEN Untouched(a)
          ELSE IF tx[s].pc = "pay" /\ tx[s].account = a THEN Closed(a) /\ cashBy[a] = None
          ELSE Handled(s, a)

\* Only the first settlement has anything to do; the verdict is its own.
PassFine(s) ==
    /\ tx[s].pc # "rows" => tx[s].rows = pos
    /\ tx[s].pc = "paid" => tx[s].todo = Accounts
    /\ tx[s].pc \in Paying /\ resolution = None => Progress(s)
    /\ tx[s].pc \notin Paying \/ resolution # None => \A a \in Accounts : Untouched(a)
    /\ tx[s].pc \in {"audit", "commit"} => tx[s].todo = {}
    /\ tx[s].pc \in {"pay", "audit"} => resolution = None
    /\ tx[s].pc = "commit" => ((resBy = s) <=> (resolution = None))

AloneInv ==
    /\ HolderFine /\ LocksFine /\ StageFine
    /\ \A s \in Settlers : tx[s].pc \in Settling => PassFine(s)

Fresh == \A s \in Settlers : tx[s].pc = "idle" => tx[s].call = None

AInv == Fresh /\ (AdminsAlone => AloneInv)

\* At most one session has the market.
LEMMA NobodyElse ==
  ASSUME IInv, AloneInv, NEW s \in Settlers, tx[s].pc \in Settling,
         NEW u \in Settlers, tx[u].pc \in Settling
  PROVE  u = s
  BY DEF AloneInv, HolderFine

\* The session that has the market goes on with it.
LEMMA HolderGoesOn ==
  ASSUME IInv, AloneInv, NEW s \in Settlers, tx[s].pc \in Settling,
         NEW r, tx' = [tx EXCEPT ![s] = r], r.pc \in Settling,
         mktBy' = mktBy, LocksFine', StageFine', PassFine(s)'
  PROVE  AloneInv'
<1>1. tx'[s] = r /\ \A u \in Settlers \ {s} : tx'[u] = tx[u]
  BY DEF IInv, TypeOK
<1>2. HolderFine'
  BY <1>1 DEF AloneInv, HolderFine
<1>3. \A u \in Settlers : tx'[u].pc \in Settling => u = s
  BY <1>1, NobodyElse
<1> QED BY <1>2, <1>3 DEF AloneInv

\* A session that does not have the market works on its own locals.
LEMMA OutsideGoesOn ==
  ASSUME IInv, AloneInv, NEW s \in Settlers, tx[s].pc \notin Settling,
         NEW r, tx' = [tx EXCEPT ![s] = r], r.pc \notin Settling,
         UNCHANGED <<mktBy, pos, posW, posBy, cash, cashW, cashBy, entries, resolution, resBy>>
  PROVE  AloneInv'
<1>1. tx'[s] = r /\ \A u \in Settlers \ {s} : tx'[u] = tx[u]
  BY DEF IInv, TypeOK
<1>2. HolderFine'
  BY <1>1 DEF AloneInv, HolderFine
<1>3. LocksFine'
  BY DEF AloneInv, LocksFine
<1>4. StageFine'
  BY DEF AloneInv, StageFine
<1>5. ASSUME NEW u \in Settlers, tx'[u].pc \in Settling PROVE PassFine(u)'
  <2>1. tx'[u] = tx[u] /\ PassFine(u)
    BY <1>1, <1>5 DEF AloneInv
  <2>2. Progress(u) => Progress(u)'
    BY <2>1 DEF Progress, Untouched, Closed, Handled
  <2> QED BY <2>1, <2>2 DEF PassFine, Untouched
<1> QED BY <1>2, <1>3, <1>4, <1>5 DEF AloneInv

\* Nobody has the market when the session that had it has ended.
LEMMA HolderEnds ==
  ASSUME IInv, AloneInv, NEW s \in Settlers, tx[s].pc \in Settling,
         NEW r, tx' = [tx EXCEPT ![s] = r], r.pc \notin Settling,
         mktBy' = None, LocksFine', StageFine'
  PROVE  AloneInv'
<1>1. tx'[s] = r /\ \A u \in Settlers \ {s} : tx'[u] = tx[u]
  BY DEF IInv, TypeOK
<1>2. \A u \in Settlers : tx'[u].pc \notin Settling
  BY <1>1, NobodyElse
<1>3. HolderFine'
  BY <1>2, SettlementAssumption DEF HolderFine, Sessions
<1> QED BY <1>2, <1>3 DEF AloneInv

\* The session that has the market holds every lock on rows that is held.
LEMMA Holder ==
  ASSUME IInv, AloneInv, NEW s \in Settlers
  PROVE  /\ s # None /\ s \in Sessions /\ tx[s] \in TxType /\ TxFine(s)
         /\ tx[s].pc \in Settling => mktBy = s /\ PassFine(s)
         /\ tx[s].pc \notin Settling =>
               mktBy # s /\ \A a \in Accounts : posBy[a] # s /\ cashBy[a] # s
<1>1. s # None /\ s \in Sessions /\ tx[s] \in TxType /\ TxFine(s)
  BY SettlementAssumption DEF Sessions, IInv, TypeOK
<1> QED BY <1>1 DEF AloneInv, HolderFine, LocksFine

\* A settlement that is lost or refused leaves every account as it was.
LEMMA AbortAlone ==
  ASSUME IInv, AloneInv, NEW s \in Settlers, Abort(s)
  PROVE  AloneInv'
<1>1. /\ RollbackRows(s) /\ ReleaseMarket(s)
      /\ tx' = [tx EXCEPT ![s] = EndedTx(s, "refused")]
      /\ UNCHANGED <<resolution, entries>>
  BY DEF Abort
<1>2. EndedTx(s, "refused").pc \notin Settling
  BY DEF EndedTx, IdleTx, Settling
<1>3. CASE tx[s].pc \in Settling
  <2>1. mktBy = s /\ s # None /\ mktBy' = None
    BY <1>1, <1>3, Holder DEF ReleaseMarket
  <2>2. LocksFine'
    BY <1>1, <2>1 DEF AloneInv, LocksFine, RollbackRows
  <2>3. StageFine'
    BY <1>1 DEF AloneInv, StageFine, RollbackRows
  <2> QED BY <1>1, <1>2, <1>3, <2>1, <2>2, <2>3, HolderEnds
<1>4. CASE tx[s].pc \notin Settling
  <2>1. mktBy # s /\ resBy # s /\ \A a \in Accounts : posBy[a] # s /\ cashBy[a] # s
    BY <1>4, Holder DEF TxFine, Settling
  <2>2. UNCHANGED <<mktBy, resBy, pos, cash>>
    BY <1>1, <2>1 DEF ReleaseMarket, RollbackRows
  <2>3. UNCHANGED <<posW, posBy, cashW, cashBy>>
    BY <1>1, <2>1 DEF RollbackRows, IInv, TypeOK
  <2> QED BY <1>1, <1>2, <1>4, <2>2, <2>3, OutsideGoesOn
<1> QED BY <1>3, <1>4

\* The first look at the status touches nothing.
LEMMA BeginAlone ==
  ASSUME IInv, AloneInv, NEW s \in Settlers, NEW call, Begin(s, call), call.by = "admin"
  PROVE  AloneInv'
<1> DEFINE refused == [tx[s] EXCEPT !.pc = "refused", !.call = call]
           waiting == [tx[s] EXCEPT !.pc = "market", !.call = call, !.seen = mkt]
<1>1. tx[s] \in TxType /\ tx[s].pc = "idle"
  BY Holder DEF Begin
<1>2. refused.pc \notin Settling /\ waiting.pc \notin Settling
  BY <1>1 DEF TxType, Settling
<1>3. tx' = [tx EXCEPT ![s] = refused] \/ tx' = [tx EXCEPT ![s] = waiting]
  BY DEF Begin
<1>4. UNCHANGED <<mktBy, pos, posW, posBy, cash, cashW, cashBy, entries, resolution, resBy>>
  BY DEF Begin, marketRow, positionRows, accountRows, auditRow
<1> HIDE DEF refused, waiting
<1> QED BY <1>1, <1>2, <1>3, <1>4, OutsideGoesOn DEF Settling

\* Who gets the market finds every other row free.
LEMMA ClaimMarketAlone ==
  ASSUME IInv, AloneInv, NEW s \in Settlers, ClaimMarket(s)
  PROVE  AloneInv'
<1>1. /\ tx[s].pc = "market" /\ mktBy = None /\ mktBy' = s
      /\ tx' = [tx EXCEPT ![s] = [tx[s] EXCEPT !.pc = "rows"]]
      /\ UNCHANGED <<pos, posW, posBy, cash, cashW, cashBy, entries, resolution, resBy>>
  BY DEF ClaimMarket, positionRows, accountRows, auditRow
<1>2. tx'[s].pc = "rows" /\ \A u \in Settlers \ {s} : tx'[u] = tx[u]
  BY <1>1 DEF IInv, TypeOK, TxType
<1>3. \A u \in Settlers : tx[u].pc \notin Settling
  BY <1>1, Holder
<1>4. HolderFine'
  BY <1>1, <1>2, <1>3 DEF HolderFine, Settling
<1>5. LocksFine'
  BY <1>1 DEF AloneInv, LocksFine
<1>6. StageFine'
  BY <1>1 DEF AloneInv, StageFine
<1>7. PassFine(s)'
  <2>1. \A a \in Accounts : Untouched(a)'
    BY <1>1 DEF AloneInv, LocksFine, Untouched
  <2> QED BY <1>2, <2>1 DEF PassFine, Paying
<1> QED BY <1>2, <1>3, <1>4, <1>5, <1>6, <1>7 DEF AloneInv

\* A step of the session that has the market on its own locals.
LEMMA HolderLocal ==
  ASSUME IInv, AloneInv, NEW s \in Settlers, tx[s].pc \in Settling,
         NEW r, tx' = [tx EXCEPT ![s] = r], r.pc \in Settling,
         UNCHANGED <<mktBy, pos, posW, posBy, cash, cashW, cashBy, entries, resolution>>,
         PassFine(s)'
  PROVE  AloneInv'
<1>1. LocksFine'
  BY DEF AloneInv, LocksFine
<1>2. StageFine'
  BY DEF AloneInv, StageFine
<1> QED BY <1>1, <1>2, HolderGoesOn

\* The rows are read as they stay until the session ends.
LEMMA ReadPositionsAlone ==
  ASSUME IInv, AloneInv, NEW s \in Settlers, ReadPositions(s)
  PROVE  AloneInv'
<1> DEFINE r == [tx[s] EXCEPT !.pc = "paid", !.rows = pos, !.todo = Accounts]
<1>1. /\ tx[s].pc = "rows" /\ tx' = [tx EXCEPT ![s] = r]
      /\ UNCHANGED <<mktBy, pos, posW, posBy, cash, cashW, cashBy, entries, resolution>>
  BY DEF ReadPositions, marketRow, positionRows, accountRows, auditRow
<1>2. tx[s] \in TxType /\ PassFine(s)
  BY <1>1, Holder DEF Settling
<1>3. r.pc = "paid" /\ r.rows = pos /\ r.todo = Accounts
  BY <1>2 DEF TxType
<1>4. tx'[s] = r
  BY <1>1 DEF IInv, TypeOK
<1> HIDE DEF r
<1>5. PassFine(s)'
  BY <1>1, <1>2, <1>3, <1>4 DEF PassFine, Paying, Untouched
<1> QED BY <1>1, <1>3, <1>5, HolderLocal DEF Settling

\* Nobody has been paid before the first verdict.
LEMMA ReadEntriesAlone ==
  ASSUME IInv, AloneInv, NEW s \in Settlers, ReadEntries(s)
  PROVE  AloneInv'
<1> DEFINE r == [tx[s] EXCEPT !.pc = "positions", !.paid = {e.account : e \in entries}]
<1>1. /\ tx[s].pc = "paid" /\ tx' = [tx EXCEPT ![s] = r]
      /\ UNCHANGED <<mktBy, pos, posW, posBy, cash, cashW, cashBy, entries, resolution>>
  BY DEF ReadEntries, marketRow, positionRows, accountRows, auditRow
<1>2. tx[s] \in TxType /\ PassFine(s)
  BY <1>1, Holder DEF Settling
<1>3. /\ r.pc = "positions" /\ r.rows = tx[s].rows /\ r.todo = tx[s].todo
      /\ resolution = None => r.paid = {}
  BY <1>2 DEF TxType, AloneInv, StageFine
<1>4. tx'[s] = r
  BY <1>1 DEF IInv, TypeOK
<1> HIDE DEF r
<1>5. tx[s].rows = pos /\ tx[s].todo = Accounts /\ \A a \in Accounts : Untouched(a)
  BY <1>1, <1>2 DEF PassFine, Paying
<1>6. \A a \in Accounts : Untouched(a)'
  BY <1>1, <1>5 DEF Untouched
<1>7. resolution = None => Progress(s)'
  BY <1>3, <1>4, <1>5, <1>6 DEF Progress
<1>8. PassFine(s)'
  BY <1>1, <1>3, <1>4, <1>5, <1>6, <1>7 DEF PassFine, Paying
<1> QED BY <1>1, <1>3, <1>8, HolderLocal DEF Settling

\* An account that is empty is closed as it is; the payoff of nothing is nothing.
LEMMA SkipAlone ==
  ASSUME IInv, AloneInv, NEW s \in Settlers, NEW a \in Accounts, Skip(s, a)
  PROVE  AloneInv'
<1> DEFINE r == [tx[s] EXCEPT !.todo = @ \ {a}]
<1>1. /\ tx[s].pc = "positions" /\ a \in tx[s].todo /\ Skippable(s, a)
      /\ tx' = [tx EXCEPT ![s] = r]
      /\ UNCHANGED <<mktBy, cash, cashW, cashBy, entries, resolution>>
  BY DEF Skip, marketRow, accountRows, auditRow
<1>2. tx[s] \in TxType /\ PassFine(s) /\ mktBy = s /\ TxFine(s)
  BY <1>1, Holder DEF Settling
<1>3. /\ r.pc = "positions" /\ r.rows = tx[s].rows /\ r.todo = tx[s].todo \ {a}
      /\ r.paid = tx[s].paid /\ r.call = tx[s].call
  BY <1>1, <1>2 DEF TxType
<1>4. tx'[s] = r
  BY <1>1 DEF IInv, TypeOK
<1> HIDE DEF r
<1>5. tx[s].rows = pos /\ pos[a] \in Position
  BY <1>1, <1>2 DEF PassFine, IInv, TypeOK
<1>6. CASE resolution # None
  <2>1. pos[a] = Emptied
    BY <1>6 DEF AloneInv, StageFine
  <2>2. UNCHANGED <<pos, posW, posBy>>
    BY <1>5, <2>1 DEF Skip, positionRows, Emptied
  <2>3. PassFine(s)'
    BY <1>1, <1>2, <1>3, <1>4, <1>6, <2>2 DEF PassFine, Paying, Untouched
  <2> QED BY <1>1, <1>3, <2>2, <2>3, HolderLocal DEF Settling
<1>7. CASE resolution = None
  <2>1. Progress(s) /\ ~pos[a].settled /\ tx[s].paid = {}
    BY <1>1, <1>2, <1>7 DEF PassFine, Paying, AloneInv, StageFine, Progress
  <2>2. pos[a].shares = 0
    BY <1>1, <1>5, <2>1 DEF Skippable
  <2>3. /\ posBy[a] = None /\ posBy' = [posBy EXCEPT ![a] = s]
        /\ posW' = [posW EXCEPT ![a].settled = TRUE] /\ pos' = pos
    BY <1>5, <2>1 DEF Skip
  <2>4. posW[a] = pos[a]
    BY <2>3 DEF IInv, RowsFine
  <2>5. posW'[a] = Emptied
    BY <1>5, <2>2, <2>3, <2>4 DEF Emptied, Position, IInv, TypeOK
  <2>6. /\ posBy'[a] = s
        /\ \A b \in Accounts \ {a} : posBy'[b] = posBy[b] /\ posW'[b] = posW[b]
    BY <2>3 DEF IInv, TypeOK
  <2>7. LocksFine'
    BY <1>1, <1>2, <2>6 DEF AloneInv, LocksFine
  <2>8. StageFine'
    BY <1>1, <2>3 DEF AloneInv, StageFine
  <2>9. Handled(s, a)'
    <3>1. cashBy[a] = None /\ cashW[a] = cash[a] /\ cash[a] >= 0 /\ cash[a] \in Int
      BY <1>1, <2>1 DEF Progress, Untouched, AloneInv, LocksFine, IInv, TypeOK
    <3>2. Payoff(pos'[a].shares, tx'[s].call.outcome) = 0
      BY <2>2, <2>3, SettlementAssumption DEF Payoff, Worth
    <3> QED BY <1>1, <1>2, <2>5, <2>6, <3>1, <3>2 DEF Handled, Closed
  <2>10. ASSUME NEW b \in Accounts \ {a}
         PROVE  (Untouched(b) => Untouched(b)') /\ (Handled(s, b) => Handled(s, b)')
    BY <1>1, <1>3, <1>4, <2>3, <2>6 DEF Untouched, Handled, Closed
  <2>11. Progress(s)'
    BY <1>1, <1>3, <1>4, <2>1, <2>9, <2>10 DEF Progress
  <2>12. PassFine(s)'
    BY <1>1, <1>2, <1>3, <1>4, <1>7, <2>3, <2>11 DEF PassFine, Paying
  <2> QED BY <1>1, <1>3, <2>7, <2>8, <2>12, HolderGoesOn DEF Settling
<1> QED BY <1>6, <1>7

\* A claim finds the row as it was read, since nobody else has the market.
LEMMA ClaimAlone ==
  ASSUME IInv, AloneInv, NEW s \in Settlers, NEW a \in Accounts, Claim(s, a)
  PROVE  AloneInv'
<1> DEFINE r == [tx[s] EXCEPT !.pc = "pay", !.account = a, !.todo = @ \ {a}]
<1>1. /\ tx[s].pc = "positions" /\ a \in tx[s].todo /\ ~Skippable(s, a)
      /\ UNCHANGED <<mktBy, pos, cash, cashW, cashBy, entries, resolution>>
  BY DEF Claim, marketRow, accountRows, auditRow
<1>2. tx[s] \in TxType /\ PassFine(s) /\ mktBy = s
  BY <1>1, Holder DEF Settling
<1>3. tx[s].rows = pos
  BY <1>1, <1>2 DEF PassFine
<1>4. resolution = None /\ Progress(s)
  BY <1>1, <1>2, <1>3 DEF AloneInv, StageFine, Emptied, Skippable, PassFine, Paying
<1>5. Untouched(a) /\ posW[a] = pos[a] /\ ~posW[a].settled
  BY <1>1, <1>4 DEF Progress, Untouched, IInv, RowsFine, AloneInv, StageFine
<1>6. /\ posBy' = [posBy EXCEPT ![a] = s] /\ posW' = [posW EXCEPT ![a] = Emptied]
      /\ tx' = [tx EXCEPT ![s] = r]
  BY <1>5 DEF Claim, Claimable, Emptied
<1>7. /\ r.pc = "pay" /\ r.account = a /\ r.rows = tx[s].rows /\ r.todo = tx[s].todo \ {a}
      /\ r.paid = tx[s].paid /\ r.call = tx[s].call
  BY <1>2 DEF TxType
<1>8. tx'[s] = r
  BY <1>6 DEF IInv, TypeOK
<1> HIDE DEF r
<1>9. /\ posBy'[a] = s /\ posW'[a] = Emptied
      /\ \A b \in Accounts \ {a} : posBy'[b] = posBy[b] /\ posW'[b] = posW[b]
  BY <1>6 DEF IInv, TypeOK
<1>10. LocksFine'
  BY <1>1, <1>2, <1>9 DEF AloneInv, LocksFine
<1>11. StageFine'
  BY <1>1 DEF AloneInv, StageFine
<1>12. Closed(a)' /\ cashBy'[a] = None
  BY <1>1, <1>2, <1>5, <1>9 DEF Closed, Untouched
<1>13. ASSUME NEW b \in Accounts \ {a}
       PROVE  (Untouched(b) => Untouched(b)') /\ (Handled(s, b) => Handled(s, b)')
  BY <1>1, <1>7, <1>8, <1>9 DEF Untouched, Handled, Closed
<1>14. Progress(s)'
  BY <1>1, <1>4, <1>7, <1>8, <1>12, <1>13 DEF Progress
<1>15. PassFine(s)'
  BY <1>1, <1>2, <1>4, <1>7, <1>8, <1>14 DEF PassFine, Paying
<1> QED BY <1>1, <1>6, <1>7, <1>10, <1>11, <1>15, HolderGoesOn DEF Settling

\* A payment leaves the account with its payoff, or aborts the settlement.
LEMMA PayAlone ==
  ASSUME IInv, AloneInv, NEW s \in Settlers, Pay(s), tx[s].call.by = "admin"
  PROVE  AloneInv'
<1>0. tx[s].pc = "pay" /\ tx[s] \in TxType /\ PassFine(s) /\ mktBy = s /\ TxFine(s) /\ s # None
  BY Holder DEF Settling, Pay
<1> PICK a \in Accounts : a = tx[s].account
  BY <1>0 DEF TxFine
<1> DEFINE nothing == [tx[s] EXCEPT !.pc = "positions", !.account = None]
           posted == [tx[s] EXCEPT !.pc = "positions", !.account = None,
                        !.made = @ \cup {[account |-> a, amount |-> Due(s), by |-> s]}]
<1>1. tx[s].pc = "pay" /\ tx[s] \in TxType /\ mktBy = s /\ s # None
  BY <1>0
<1>2. /\ resolution = None /\ Progress(s) /\ tx[s].rows = pos
      /\ a \notin tx[s].todo
  BY <1>0 DEF PassFine, Paying, TxFine
<1>3. /\ Closed(a) /\ cashBy[a] = None /\ cashW[a] = cash[a] /\ cash[a] \in Int /\ cash[a] >= 0
      /\ Due(s) = Payoff(pos[a].shares, tx[s].call.outcome)
  BY <1>1, <1>2 DEF Progress, AloneInv, LocksFine, IInv, TypeOK, Due
<1>4. Due(s) \in Int
  <2>1. pos[a].shares \in Int
    BY <1>2 DEF IInv, TypeOK, Position
  <2>2. Worth(tx[s].call.outcome) \in Int
    BY SettlementAssumption DEF Worth
  <2> QED BY <1>3, <2>1, <2>2 DEF Payoff
<1>5. ASSUME NEW r, tx' = [tx EXCEPT ![s] = r], r.pc = "positions", r.rows = tx[s].rows,
             r.todo = tx[s].todo, r.paid = tx[s].paid, r.call = tx[s].call,
             UNCHANGED <<mktBy, pos, posW, posBy, cash, entries, resolution>>,
             cashBy'[a] \in {None, s}, cashBy'[a] = None => cashW'[a] = cash[a],
             cashW'[a] = cash[a] + Due(s), cashW'[a] >= 0,
             \A b \in Accounts \ {a} : cashBy'[b] = cashBy[b] /\ cashW'[b] = cashW[b]
      PROVE  AloneInv'
  <2>1. tx'[s] = r
    BY <1>5 DEF IInv, TypeOK
  <2>2. LocksFine'
    BY <1>1, <1>2, <1>3, <1>5 DEF AloneInv, LocksFine
  <2>3. StageFine'
    BY <1>5 DEF AloneInv, StageFine
  <2>4. Handled(s, a)'
    BY <1>3, <1>5, <2>1 DEF Handled, Closed
  <2>5. ASSUME NEW b \in Accounts \ {a}
        PROVE  (Untouched(b) => Untouched(b)') /\ (Handled(s, b) => Handled(s, b)')
    BY <1>5, <2>1 DEF Untouched, Handled, Closed
  <2>6. Progress(s)'
    BY <1>1, <1>2, <1>5, <2>1, <2>4, <2>5 DEF Progress
  <2>7. PassFine(s)'
    BY <1>1, <1>2, <1>5, <2>1, <2>6 DEF PassFine, Paying
  <2> QED BY <1>1, <1>5, <2>2, <2>3, <2>7, HolderGoesOn DEF Settling
<1>6. /\ nothing.pc = "positions" /\ nothing.rows = tx[s].rows /\ nothing.todo = tx[s].todo
      /\ nothing.paid = tx[s].paid /\ nothing.call = tx[s].call
      /\ posted.pc = "positions" /\ posted.rows = tx[s].rows /\ posted.todo = tx[s].todo
      /\ posted.paid = tx[s].paid /\ posted.call = tx[s].call
  BY <1>1 DEF TxType
<1>7. CASE Due(s) = 0 /\ tx' = [tx EXCEPT ![s] = nothing]
             /\ UNCHANGED <<marketRow, positionRows, accountRows, auditRow, entries>>
  <2> HIDE DEF nothing
  <2>1. /\ UNCHANGED <<mktBy, pos, posW, posBy, cash, cashW, cashBy, entries, resolution>>
    BY <1>7 DEF marketRow, positionRows, accountRows, auditRow
  <2>2. cashBy'[a] = None /\ cashW'[a] = cash[a] + Due(s) /\ cashW'[a] = cash[a] /\ cashW'[a] >= 0
    BY <1>3, <1>7, <2>1
  <2>3. \A b \in Accounts \ {a} : cashBy'[b] = cashBy[b] /\ cashW'[b] = cashW[b]
    BY <2>1
  <2> QED BY <1>5, <1>6, <1>7, <2>1, <2>2, <2>3
<1>8. CASE /\ cashW[a] + Due(s) >= 0 /\ tx' = [tx EXCEPT ![s] = posted]
           /\ cashBy' = [cashBy EXCEPT ![a] = s]
           /\ cashW' = [cashW EXCEPT ![a] = cashW[a] + Due(s)]
           /\ UNCHANGED <<marketRow, positionRows, cash, auditRow, entries>>
  <2> HIDE DEF posted
  <2>1. UNCHANGED <<mktBy, pos, posW, posBy, cash, entries, resolution>>
    BY <1>8 DEF marketRow, positionRows, auditRow
  <2>2. /\ cashBy'[a] = s /\ cashW'[a] = cash[a] + Due(s)
        /\ \A b \in Accounts \ {a} : cashBy'[b] = cashBy[b] /\ cashW'[b] = cashW[b]
    BY <1>2, <1>3, <1>8 DEF IInv, TypeOK
  <2>3. cashBy'[a] \in {None, s} /\ cashBy'[a] # None /\ cashW'[a] >= 0
    BY <1>1, <1>3, <1>8, <2>2
  <2>4. \A b \in Accounts \ {a} : cashBy'[b] = cashBy[b] /\ cashW'[b] = cashW[b]
    BY <2>2
  <2> QED BY <1>5, <1>6, <1>8, <2>1, <2>2, <2>3, <2>4
<1>9. CASE Abort(s)
  BY <1>9, AbortAlone
<1> QED BY <1>7, <1>8, <1>9 DEF Pay

\* A verdict is missing exactly for the first settlement.
LEMMA ReadResolutionAlone ==
  ASSUME IInv, AloneInv, NEW s \in Settlers, ReadResolution(s)
  PROVE  AloneInv'
<1> DEFINE r == [tx[s] EXCEPT !.pc = IF resolution = None THEN "audit" ELSE "commit"]
<1>1. /\ tx[s].pc = "positions" /\ tx[s].todo = {} /\ tx' = [tx EXCEPT ![s] = r]
      /\ UNCHANGED <<mktBy, pos, posW, posBy, cash, cashW, cashBy, entries, resolution, resBy>>
  BY DEF ReadResolution, marketRow, positionRows, accountRows, auditRow
<1>2. tx[s] \in TxType /\ PassFine(s) /\ resBy # s
  BY <1>1, Holder DEF Settling, TxFine
<1>3. /\ r.pc = IF resolution = None THEN "audit" ELSE "commit"
      /\ r.rows = tx[s].rows /\ r.todo = {} /\ r.paid = tx[s].paid /\ r.call = tx[s].call
  BY <1>1, <1>2 DEF TxType
<1>4. tx'[s] = r
  BY <1>1 DEF IInv, TypeOK
<1> HIDE DEF r
<1>5. \A b \in Accounts :
          (Untouched(b) => Untouched(b)') /\ (Handled(s, b) => Handled(s, b)')
  BY <1>1, <1>3, <1>4 DEF Untouched, Handled, Closed
<1>6. Progress(s) => Progress(s)'
  BY <1>1, <1>3, <1>4, <1>5 DEF Progress
<1>7. PassFine(s)'
  BY <1>1, <1>2, <1>3, <1>4, <1>5, <1>6 DEF PassFine, Paying
<1> QED BY <1>1, <1>3, <1>7, HolderLocal DEF Settling

\* The audit row is free for whoever has the market.
LEMMA InsertResolutionAlone ==
  ASSUME IInv, AloneInv, NEW s \in Settlers, InsertResolution(s)
  PROVE  AloneInv'
<1> DEFINE r == [tx[s] EXCEPT !.pc = "commit"]
<1>1. tx[s].pc = "audit" /\ tx[s] \in TxType /\ PassFine(s)
  BY Holder DEF Settling, InsertResolution
<1>2. resolution = None /\ tx[s].todo = {} /\ Progress(s) /\ tx[s].rows = pos
  BY <1>1 DEF PassFine, Paying
<1>3. /\ resBy' = s /\ tx' = [tx EXCEPT ![s] = r]
      /\ UNCHANGED <<mktBy, pos, posW, posBy, cash, cashW, cashBy, entries, resolution>>
  BY <1>2 DEF InsertResolution, marketRow, positionRows, accountRows
<1>4. /\ r.pc = "commit" /\ r.rows = tx[s].rows /\ r.todo = tx[s].todo
      /\ r.paid = tx[s].paid /\ r.call = tx[s].call
  BY <1>1 DEF TxType
<1>5. tx'[s] = r
  BY <1>3 DEF IInv, TypeOK
<1> HIDE DEF r
<1>6. \A b \in Accounts : Handled(s, b) => Handled(s, b)'
  BY <1>3, <1>4, <1>5 DEF Handled, Closed
<1>7. Progress(s)'
  BY <1>1, <1>2, <1>3, <1>4, <1>5, <1>6 DEF Progress
<1>8. PassFine(s)'
  BY <1>2, <1>3, <1>4, <1>5, <1>7 DEF PassFine, Paying
<1> QED BY <1>1, <1>3, <1>4, <1>8, HolderLocal DEF Settling

\* What an account is left with when the session that has the market commits.
LEMMA CommitPays ==
  ASSUME IInv, AloneInv, NEW s \in Settlers, Commit(s)
  PROVE  /\ resolution = None =>
              /\ resolution' = tx[s].call.outcome /\ resolution' \in Outcomes
              /\ \A a \in Accounts :
                    /\ pos'[a] = Emptied /\ cash'[a] >= 0
                    /\ cash'[a] = cash[a] + Payoff(pos[a].shares, tx[s].call.outcome)
         /\ resolution # None => UNCHANGED <<resolution, pos, cash>>
         /\ AloneInv'
<1>1. tx[s].pc = "commit" /\ PassFine(s) /\ mktBy = s /\ s # None /\ TxFine(s)
  BY Holder DEF Settling, Commit
<1>2. /\ CommitRows(s) /\ mktBy' = None /\ tx' = [tx EXCEPT ![s] = EndedTx(s, "done")]
      /\ resolution' = IF resBy = s THEN tx[s].call.outcome ELSE resolution
      /\ entries' = entries \cup tx[s].made
  BY <1>1 DEF Commit
<1>3. EndedTx(s, "done").pc \notin Settling
  BY DEF EndedTx, IdleTx, Settling
<1>4. \A a \in Accounts : posBy'[a] = None /\ cashBy'[a] = None
  BY <1>1, <1>2 DEF CommitRows, AloneInv, LocksFine
<1>5. CASE resolution = None
  <2>1. resolution' = tx[s].call.outcome /\ resolution' \in Outcomes
    BY <1>1, <1>2, <1>5, SettlementAssumption DEF PassFine, TxFine, Working
  <2>2. ASSUME NEW a \in Accounts
        PROVE  /\ pos'[a] = Emptied /\ cash'[a] >= 0 /\ cash'[a] = cashW'[a]
               /\ cash'[a] = cash[a] + Payoff(pos[a].shares, tx[s].call.outcome)
    <3>1. Handled(s, a)
      BY <1>1, <1>5 DEF PassFine, Progress, Paying
    <3>2. posBy[a] = s /\ posW[a] = Emptied
      BY <1>1, <3>1 DEF Handled, Closed
    <3>3. pos'[a] = Emptied
      BY <1>2, <3>2 DEF CommitRows
    <3>4. cash'[a] = cashW[a] /\ cashW' = cashW
      BY <1>1, <1>2 DEF CommitRows, AloneInv, LocksFine
    <3> QED BY <3>1, <3>3, <3>4 DEF Handled
  <2>3. LocksFine'
    BY <1>4, <2>2 DEF LocksFine
  <2>4. StageFine'
    BY <2>1, <2>2, SettlementAssumption DEF StageFine
  <2>5. AloneInv'
    BY <1>1, <1>2, <1>3, <2>3, <2>4, HolderEnds DEF Settling
  <2> QED BY <1>5, <2>1, <2>2, <2>5
<1>6. CASE resolution # None
  <2>1. \A a \in Accounts : Untouched(a)
    BY <1>1, <1>6 DEF PassFine
  <2>2. resolution' = resolution
    BY <1>1, <1>2, <1>6 DEF PassFine
  <2>3. pos' = pos /\ cash' = cash /\ cashW' = cashW
    BY <1>1, <1>2, <2>1 DEF CommitRows, Untouched, IInv, TypeOK
  <2>4. LocksFine'
    BY <1>4, <2>1, <2>3 DEF LocksFine, Untouched, AloneInv
  <2>5. StageFine'
    BY <1>6, <2>2, <2>3 DEF StageFine, AloneInv
  <2>6. AloneInv'
    BY <1>1, <1>2, <1>3, <2>4, <2>5, HolderEnds DEF Settling
  <2> QED BY <1>6, <2>2, <2>3, <2>6
<1> QED BY <1>5, <1>6

\* A settlement keeps its call, and is never idle again.
LEMMA CallsKept ==
  ASSUME IInv, NEW s \in Settlers, Step(s) \/ Crash(s)
  PROVE  /\ tx'[s].call = tx[s].call /\ tx'[s].pc # "idle"
         /\ \A u \in Settlers \ {s} : tx'[u] = tx[u]
         /\ trade' = trade
<1>1. tx \in [Settlers -> TxType] /\ tx[s] \in TxType
  BY DEF IInv, TypeOK
<1>2. CASE Abort(s)
  BY <1>1, <1>2 DEF Abort, EndedTx, IdleTx
<1>3. CASE ClaimMarket(s) \/ ReadPositions(s) \/ ReadEntries(s) \/ ReadResolution(s)
  BY <1>1, <1>3 DEF ClaimMarket, ReadPositions, ReadEntries, ReadResolution, TxType
<1>4. ASSUME NEW a \in Accounts, Skip(s, a) \/ Claim(s, a)
      PROVE  /\ tx'[s].call = tx[s].call /\ tx'[s].pc # "idle"
             /\ \A u \in Settlers \ {s} : tx'[u] = tx[u]
             /\ trade' = trade
  <2>1. CASE Skip(s, a)
    BY <1>1, <2>1 DEF Skip, TxType
  <2>2. CASE Claim(s, a)
    <3>1. tx[s].pc = "positions" /\ trade' = trade
      BY <2>2 DEF Claim
    <3>2. \/ tx' = [tx EXCEPT ![s].pc = "pay", ![s].account = a, ![s].todo = @ \ {a}]
          \/ tx' = [tx EXCEPT ![s].todo = @ \ {a}]
      BY <2>2 DEF Claim
    <3> QED BY <1>1, <3>1, <3>2 DEF TxType
  <2> QED BY <1>4, <2>1, <2>2
<1>5. CASE Pay(s)
  <2>1. CASE Abort(s)
    BY <1>2, <2>1
  <2>2. CASE ~Abort(s)
    <3> DEFINE nothing == [tx[s] EXCEPT !.pc = "positions", !.account = None]
               stuck == [tx[s] EXCEPT !.pc = "commit", !.account = None]
               posted == [tx[s] EXCEPT !.pc = "positions", !.account = None, !.made =
                   @ \cup {[account |-> tx[s].account, amount |-> Due(s), by |-> s]}]
    <3>1. trade' = trade
      BY <1>5, <2>2 DEF Pay
    <3>2. \/ tx' = [tx EXCEPT ![s] = nothing]
          \/ tx' = [tx EXCEPT ![s] = stuck]
          \/ tx' = [tx EXCEPT ![s] = posted]
      BY <1>5, <2>2 DEF Pay
    <3>3. /\ nothing.call = tx[s].call /\ nothing.pc # "idle"
          /\ stuck.call = tx[s].call /\ stuck.pc # "idle"
          /\ posted.call = tx[s].call /\ posted.pc # "idle"
      BY <1>1 DEF TxType
    <3> HIDE DEF nothing, stuck, posted
    <3> QED BY <1>1, <3>1, <3>2, <3>3
  <2> QED BY <2>1, <2>2
<1>6. CASE InsertResolution(s)
  <2>1. CASE resolution # None
    BY <1>2, <1>6, <2>1 DEF InsertResolution
  <2>2. CASE resolution = None
    BY <1>1, <1>6, <2>2 DEF InsertResolution, TxType
  <2> QED BY <2>1, <2>2
<1>7. CASE Commit(s)
  BY <1>1, <1>7 DEF Commit, EndedTx, IdleTx
<1> QED
  BY <1>2, <1>3, <1>4, <1>5, <1>6, <1>7 DEF Step, DeadlockVictim, Crash

\* A fill that has begun stays begun.
LEMMA NoTradeBegins ==
  ASSUME IInv, NEW t \in Traders, StartTrade(t) \/ StepTrade(t)
  PROVE  \E u \in Traders : trade'[u].pc # "idle"
<1>1. t \notin Settlers
  BY TraderOutside
<1>2. CASE StartTrade(t)
  BY <1>2 DEF StartTrade, IInv, TypeOK
<1>3. ASSUME NEW leg \in {"buyer", "seller"}, ReadShares(t, leg)
      PROVE  trade'[t].pc # "idle"
  BY <1>3 DEF ReadShares, IInv, TypeOK
<1>4. CASE AbortTrade(t)
  BY <1>4 DEF AbortTrade, IdleTrade, IInv, TypeOK
<1>5. ASSUME NEW leg \in {"buyer", "seller"}, PostCash(t, leg)
      PROVE  trade'[t].pc # "idle"
  <2>1. CASE AbortTrade(t)
    BY <2>1 DEF AbortTrade, IdleTrade, IInv, TypeOK
  <2>2. CASE ~AbortTrade(t)
    <3>1. trade' = [trade EXCEPT ![t].pc = IF leg = "buyer" THEN "buyerWrite" ELSE "sellerWrite"]
      BY <1>5, <2>2 DEF PostCash
    <3> QED BY <3>1 DEF IInv, TypeOK
  <2> QED BY <2>1, <2>2
<1>7. ASSUME NEW leg \in {"buyer", "seller"}, WriteShares(t, leg)
      PROVE  trade'[t].pc # "idle"
  <2>1. trade' = [trade EXCEPT ![t].pc = IF leg = "buyer" THEN "seller" ELSE "commit",
                               ![t].shares = 0]
    BY <1>7 DEF WriteShares
  <2> QED BY <2>1 DEF IInv, TypeOK
<1>6. CASE CommitTrade(t)
  BY <1>6 DEF CommitTrade, IdleTrade, IInv, TypeOK
<1> QED
  BY <1>1, <1>2, <1>3, <1>4, <1>5, <1>6, <1>7 DEF StepTrade, DeadlockVictim

\* Whoever is alone after a step was so before: no call and no fill is taken back.
LEMMA AloneBefore ==
  ASSUME IInv, Fresh, [Next]_vars, AdminsAlone'
  PROVE  AdminsAlone /\ ~\E t \in Traders : StartTrade(t) \/ StepTrade(t)
<1>1. ~\E t \in Traders : StartTrade(t) \/ StepTrade(t)
  BY NoTradeBegins DEF AdminsAlone
<1>2. ASSUME NEW s \in Settlers, NEW call \in Calls, Begin(s, call) PROVE AdminsAlone
  <2>1. tx[s].call = None /\ trade' = trade
    BY <1>2 DEF Begin, Fresh
  <2>2. \A u \in Settlers \ {s} : tx'[u] = tx[u]
    BY <1>2 DEF Begin, IInv, TypeOK
  <2> QED BY <2>1, <2>2 DEF AdminsAlone
<1>3. ASSUME NEW s \in Settlers, Step(s) \/ Crash(s) PROVE AdminsAlone
  <2>1. trade' = trade /\ \A u \in Settlers : tx'[u].call = tx[u].call
    BY <1>3, CallsKept
  <2> QED BY <2>1 DEF AdminsAlone
<1>4. CASE UNCHANGED <<tx, trade>>
  <2>1. tx' = tx /\ trade' = trade
    BY <1>4
  <2> QED BY <1>1, <2>1 DEF AdminsAlone
<1> QED
  BY <1>1, <1>2, <1>3, <1>4 DEF Next, ClerkReads, ClerkWrites, vars

-------------------------------------------------------------------------------------

\* A step of administrators who are alone keeps the account of their progress, and shows
\* nothing but the atomic settlement.
LEMMA StepAlone ==
  ASSUME IInv, AloneInv, [Next]_vars, AdminsAlone, AdminsAlone',
         ~\E t \in Traders : StartTrade(t) \/ StepTrade(t)
  PROVE  AloneInv' /\ (AtOnce!Next \/ UNCHANGED <<resolution, pos, cash>>)
<1>1. ASSUME NEW s \in Settlers, NEW call \in Calls, Begin(s, call)
      PROVE  AloneInv' /\ UNCHANGED <<resolution, pos, cash>>
  <2>1. tx'[s].call = call
    BY <1>1, Holder DEF Begin, IInv, TypeOK, TxType
  <2>2. call.by = "admin"
    BY <2>1, SettlementAssumption DEF AdminsAlone
  <2> QED BY <1>1, <2>2, BeginAlone DEF Begin, positionRows, accountRows, auditRow
<1>2. ASSUME NEW s \in Settlers, Step(s) \/ Crash(s)
      PROVE  AloneInv' /\ (AtOnce!Next \/ UNCHANGED <<resolution, pos, cash>>)
  <2>1. CASE Abort(s)
    BY <2>1, AbortAlone DEF Abort, RollbackRows
  <2>2. CASE ClaimMarket(s)
    BY <2>2, ClaimMarketAlone DEF ClaimMarket, positionRows, accountRows, auditRow
  <2>3. CASE ReadPositions(s)
    BY <2>3, ReadPositionsAlone DEF ReadPositions, positionRows, accountRows, auditRow
  <2>4. CASE ReadEntries(s)
    BY <2>4, ReadEntriesAlone DEF ReadEntries, positionRows, accountRows, auditRow
  <2>5. ASSUME NEW a \in Accounts, Skip(s, a)
        PROVE  AloneInv' /\ UNCHANGED <<resolution, pos, cash>>
    BY <2>5, SkipAlone DEF Skip, positionRows, accountRows, auditRow
  <2>6. ASSUME NEW a \in Accounts, Claim(s, a)
        PROVE  AloneInv' /\ UNCHANGED <<resolution, pos, cash>>
    BY <2>6, ClaimAlone DEF Claim, accountRows, auditRow
  <2>7. CASE Pay(s)
    <3>1. tx[s].call.by = "admin"
      <4>1. tx[s].call \in Calls
        BY <2>7, Holder DEF Pay, TxFine, Working
      <4> QED BY <4>1, SettlementAssumption DEF AdminsAlone
    <3>2. UNCHANGED <<resolution, pos, cash>> \/ Abort(s)
      BY <2>7 DEF Pay, positionRows, accountRows, auditRow
    <3> QED BY <2>1, <2>7, <3>1, <3>2, PayAlone
  <2>8. CASE ReadResolution(s)
    BY <2>8, ReadResolutionAlone DEF ReadResolution, positionRows, accountRows, auditRow
  <2>9. CASE InsertResolution(s)
    <3>1. UNCHANGED <<resolution, pos, cash>>
      BY <2>9 DEF InsertResolution, positionRows, accountRows, Abort, RollbackRows
    <3> QED BY <2>9, <3>1, InsertResolutionAlone
  <2>10. CASE Commit(s)
    <3>1. CASE resolution # None
      BY <2>10, <3>1, CommitPays
    <3>2. CASE resolution = None
      <4>1. AloneInv' /\ resolution' \in Outcomes /\ resolution' = tx[s].call.outcome
        BY <2>10, <3>2, CommitPays
      <4>2. PICK verdict \in Outcomes : verdict = resolution'
        BY <4>1
      <4>3. \A a \in Accounts :
                /\ pos'[a] = Emptied /\ cash'[a] >= 0
                /\ cash'[a] = cash[a] + Payoff(pos[a].shares, resolution')
        BY <2>10, <3>2, <4>1, CommitPays
      <4>4. \A a \in Accounts : cash'[a] = cash[a] + pos[a].shares * Worth(verdict)
        BY <4>2, <4>3 DEF Payoff, Worth
      <4>5. AtOnce!Value(verdict) = Worth(verdict)
        BY <4>2 DEF AtOnce!Value, Worth, Outcomes
      <4>6. cash' = [a \in Accounts |-> cash[a] + pos[a].shares * AtOnce!Value(verdict)]
        <5>1. cash' = [a \in Accounts |-> cash'[a]]
          BY <2>10 DEF Commit, CommitRows
        <5> QED BY <4>4, <4>5, <5>1
      <4>7. [a \in Accounts |-> pos[a].shares]' = [a \in Accounts |-> 0]
        BY <4>3 DEF Emptied
      <4>8. AtOnce!Settle(verdict)
        <5>1. cash' = [a \in Accounts |->
                          cash[a] + [b \in Accounts |-> pos[b].shares][a] * AtOnce!Value(verdict)]
          BY <4>6
        <5> QED BY <3>2, <4>2, <4>3, <4>7, <5>1 DEF AtOnce!Settle
      <4> QED BY <4>1, <4>2, <4>8 DEF AtOnce!Next, Outcomes
    <3> QED BY <3>1, <3>2
  <2> QED
    BY <1>2, <2>1, <2>2, <2>3, <2>4, <2>5, <2>6, <2>7, <2>8, <2>9, <2>10
       DEF Step, DeadlockVictim, Crash
<1>3. ASSUME UNCHANGED <<tx, mktBy, positionRows, accountRows, auditRow, entries>>
      PROVE  AloneInv' /\ UNCHANGED <<resolution, pos, cash>>
  <2>1. /\ tx' = tx /\ mktBy' = mktBy /\ entries' = entries
        /\ UNCHANGED <<pos, posW, posBy, cash, cashW, cashBy, resolution, resBy>>
    BY <1>3 DEF positionRows, accountRows, auditRow
  <2>2. HolderFine' /\ LocksFine' /\ StageFine'
    BY <2>1 DEF AloneInv, HolderFine, LocksFine, StageFine
  <2>3. ASSUME NEW s \in Settlers, tx'[s].pc \in Settling PROVE PassFine(s)'
    <3>1. PassFine(s)
      BY <2>1, <2>3 DEF AloneInv
    <3>2. Progress(s) => Progress(s)'
      BY <2>1 DEF Progress, Untouched, Closed, Handled
    <3> QED BY <2>1, <3>1, <3>2 DEF PassFine, Untouched
  <2> QED BY <2>1, <2>2, <2>3 DEF AloneInv
<1>4. ASSUME NEW c \in Clerks, ClerkReads(c) \/ ClerkWrites(c)
      PROVE  AloneInv' /\ UNCHANGED <<resolution, pos, cash>>
  BY <1>3, <1>4 DEF ClerkReads, ClerkWrites, marketRow
<1>5. CASE UNCHANGED vars
  BY <1>3, <1>5 DEF vars, marketRow
<1> QED
  BY SMTT(30), <1>1, <1>2, <1>4, <1>5 DEF Next

\* Nobody has begun before the first call, and the progress of administrators who are
\* alone is as described.
THEOREM AloneInvariance == Spec => []AInv
<1>1. Init => AInv
  <2> SUFFICES ASSUME Init PROVE AInv
    OBVIOUS
  <2>1. \A s \in Settlers : tx[s].pc = "idle" /\ tx[s].call = None
    BY DEF Init, IdleTx
  <2>2. HolderFine
    BY <2>1, SettlementAssumption DEF Init, HolderFine, Settling, Sessions
  <2>3. LocksFine /\ StageFine
    BY SettlementAssumption DEF Init, LocksFine, StageFine
  <2> QED BY <2>1, <2>2, <2>3 DEF AInv, Fresh, AloneInv, Settling
<1>2. IInv /\ AInv /\ [Next]_vars => AInv'
  <2> SUFFICES ASSUME IInv, AInv, [Next]_vars PROVE AInv'
    OBVIOUS
  <2>1. AdminsAlone' => AloneInv'
    BY AloneBefore, StepAlone DEF AInv
  <2>2. Fresh'
    <3>1. ASSUME NEW s \in Settlers, NEW call \in Calls, Begin(s, call) PROVE Fresh'
      <4>1. tx'[s].pc # "idle" /\ \A u \in Settlers \ {s} : tx'[u] = tx[u]
        BY <3>1, Holder DEF Begin, IInv, TypeOK, TxType
      <4> QED BY <4>1 DEF AInv, Fresh
    <3>2. ASSUME NEW s \in Settlers, Step(s) \/ Crash(s) PROVE Fresh'
      BY <3>2, CallsKept DEF AInv, Fresh
    <3>3. CASE tx' = tx
      BY <3>3 DEF AInv, Fresh
    <3>4. ASSUME NEW t \in Traders, StartTrade(t) \/ StepTrade(t) PROVE tx' = tx
      BY <3>4, TraderOutside DEF StartTrade, StepTrade, ReadShares, PostCash, WriteShares,
                                 AbortTrade, CommitTrade, DeadlockVictim
    <3> QED BY <3>1, <3>2, <3>3, <3>4 DEF Next, ClerkReads, ClerkWrites, vars
  <2> QED BY <2>1, <2>2 DEF AInv
<1> QED BY <1>1, <1>2, Invariance, PTL DEF Spec

\* Racing settlements of administrators are one indivisible settlement, whatever the
\* accounts, shares and balances: the market row, locked from the UPDATE of settle_market
\* to its commit, keeps them apart, and an error takes everything back.
THEOREM SettledInOneStroke == Spec => SettlesAtOnce
<1>1. IInv /\ AInv /\ [Next]_vars => [AdminsAlone' => AtOnce!Next]_<<resolution, pos, cash>>
  BY AloneBefore, StepAlone DEF AInv
<1> QED BY <1>1, Invariance, AloneInvariance, PTL DEF Spec, SettlesAtOnce

=====================================================================================

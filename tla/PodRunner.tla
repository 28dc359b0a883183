--------------------------------- MODULE PodRunner ---------------------------------
(***********************************************************************************)
(* Passes of the pod runner (pods/runner.py) for one pod over the markets it       *)
(* trades.  A pass is one transaction, committed at its end.  For each market it   *)
(* writes a trade row, which is a hold unless an order is placed, and a failure in *)
(* one market is swallowed and leaves in the transaction what was done so far.     *)
(*                                                                                 *)
(* The key of an entry is the number of entries already recorded for the pod in    *)
(* the market.  Every process runs a loop of passes, so passes may overlap: what   *)
(* keeps them apart is the key, its unique index and the lock on the pod's account.*)
(* How an order is matched is in Clob; here it is placed or not, filled or not.    *)
(***********************************************************************************)
EXTENDS Integers, Sequences, FiniteSets

CONSTANTS
    Traded,        \* the OPEN markets, in the order a pass visits them
    PodPasses,     \* passes that may be under way together
    MaxRows,       \* bound on the trade rows of each market
    NoPass

TradedMarkets == {Traded[i] : i \in DOMAIN Traded}

ASSUME PodAssumption ==
    /\ Traded \in Seq(TradedMarkets)
    /\ MaxRows \in [TradedMarkets -> Nat] /\ NoPass \notin PodPasses

VARIABLES
    podOrders,     \* the committed orders of the pod: [market, entry], a key each
    held,          \* per market, the committed trade rows that are holds
    entered,       \* per market, the orders that the committed entries name
    accountOf,     \* the pass that has the pod's account row locked
    podPass        \* the passes

podVars == <<podOrders, held, entered, accountOf, podPass>>

NoRows == [m \in TradedMarkets |-> 0]
NoEntries == [m \in TradedMarkets |-> <<>>]

\* `mine`, `holds` and `entries` are what the transaction has written.
NotPassing == [at |-> "idle", next |-> 1, entry |-> 0, mine |-> {},
               holds |-> NoRows, entries |-> NoEntries]

PodInit ==
    /\ podOrders = {} /\ held = NoRows /\ entered = NoEntries
    /\ accountOf = NoPass
    /\ podPass = [p \in PodPasses |-> NotPassing]

-------------------------------------------------------------------------------------
Here(p) == Traded[podPass[p].next]

AccountFree(p) == accountOf \in {NoPass, p}

AccountLeft(p) == IF accountOf = p THEN NoPass ELSE accountOf

Rows(p, m) == held[m] + Len(entered[m]) + podPass[p].holds[m] + Len(podPass[p].entries[m])

\* Mutant: the count takes every row of the pod in the market, holds included.
EntryCountOfRows(p, m) == Rows(p, m)

\* _entry_count, as the transaction sees it.
EntryCount(p, m) == Len(entered[m]) + Len(podPass[p].entries[m])

Key(p) == [market |-> Here(p), entry |-> podPass[p].entry]

StartPass(p) ==
    /\ podPass[p].at = "idle"
    /\ podPass' = [podPass EXCEPT ![p].at = "market"]
    /\ UNCHANGED <<podOrders, held, entered, accountOf>>

AtMarket(p) == podPass[p].at = "market" /\ podPass[p].next <= Len(Traded)

\* A market past its close or without history leaves no row.
PassOver(p) ==
    /\ AtMarket(p)
    /\ podPass' = [podPass EXCEPT ![p].next = @ + 1]
    /\ UNCHANGED <<podOrders, held, entered, accountOf>>

\* record_score writes a hold; a decision that is no entry, or that sizing, the exposure
\* cap or the risk rules reject, leaves it at that.
HoldMarket(p) ==
    /\ AtMarket(p) /\ Rows(p, Here(p)) < MaxRows[Here(p)]
    /\ podPass' = [podPass EXCEPT ![p] =
                      [podPass[p] EXCEPT !.holds[Here(p)] = @ + 1, !.next = @ + 1]]
    /\ UNCHANGED <<podOrders, held, entered, accountOf>>

\* The decision is an entry.
DecideEntry(p) ==
    /\ AtMarket(p) /\ Rows(p, Here(p)) < MaxRows[Here(p)]
    /\ podPass' = [podPass EXCEPT ![p] =
                      [podPass[p] EXCEPT !.at = "keyed", !.holds[Here(p)] = @ + 1,
                                         !.entry = EntryCount(p, Here(p))]]
    /\ UNCHANGED <<podOrders, held, entered, accountOf>>

\* submit_order looks its key up.
LookUpKey(p) ==
    /\ podPass[p].at = "keyed"
    /\ \/ /\ Key(p) \in podOrders \cup podPass[p].mine
          /\ podPass' = [podPass EXCEPT ![p].at = "placed"]
       \/ /\ Key(p) \notin podOrders \cup podPass[p].mine
          /\ podPass' = [podPass EXCEPT ![p].at = "unplaced"]
    /\ UNCHANGED <<podOrders, held, entered, accountOf>>

\* The reservation locks the account, until the pass ends.
ReserveFunds(p) ==
    /\ podPass[p].at = "unplaced" /\ AccountFree(p)
    /\ accountOf' = p
    /\ podPass' = [podPass EXCEPT ![p].at = "reserved"]
    /\ UNCHANGED <<podOrders, held, entered>>

\* A key that another pass committed since the lookup rolls the whole transaction back;
\* what the pass has loaded is expired with it, and each market left fails on that.
InsertOrder(p) ==
    /\ podPass[p].at = "reserved"
    /\ IF Key(p) \in podOrders
       THEN /\ podPass' = [podPass EXCEPT ![p] = [NotPassing EXCEPT !.at = "emptied"]]
            /\ accountOf' = AccountLeft(p)
       ELSE /\ podPass' = [podPass EXCEPT ![p] =
                              [podPass[p] EXCEPT !.at = "placed",
                                                 !.mine = @ \cup {Key(p)}]]
            /\ UNCHANGED accountOf
    /\ UNCHANGED <<podOrders, held, entered>>

\* The fee of what is filled is debited, from the locked account, and the hold becomes an
\* entry that names the order.
EnterTrade(p) ==
    /\ podPass[p].at = "placed"
    /\ accountOf' \in {accountOf} \cup (IF AccountFree(p) THEN {p} ELSE {})
    /\ podPass' = [podPass EXCEPT ![p] =
                      [podPass[p] EXCEPT !.at = "market", !.next = @ + 1,
                                         !.holds[Here(p)] = @ - 1,
                                         !.entries[Here(p)] = Append(@, podPass[p].entry)]]
    /\ UNCHANGED <<podOrders, held, entered>>

\* A closed market, a refused reservation, an exception of a fill or a refused fee: the
\* row stays a hold, the order stays placed if it was.
SwallowFailure(p) ==
    /\ podPass[p].at \in {"unplaced", "reserved", "placed"}
    /\ podPass[p].at = "placed" => AccountFree(p)
    /\ podPass' = [podPass EXCEPT ![p] =
                      [podPass[p] EXCEPT !.at = "market", !.next = @ + 1]]
    /\ UNCHANGED <<podOrders, held, entered, accountOf>>

CommitPodPass(p) ==
    /\ \/ podPass[p].at = "market" /\ podPass[p].next > Len(Traded)
       \/ podPass[p].at = "emptied"
    /\ podOrders' = podOrders \cup podPass[p].mine
    /\ held' = [m \in TradedMarkets |-> held[m] + podPass[p].holds[m]]
    /\ entered' = [m \in TradedMarkets |-> entered[m] \o podPass[p].entries[m]]
    /\ accountOf' = AccountLeft(p)
    /\ podPass' = [podPass EXCEPT ![p] = NotPassing]

\* An exception outside the loop, an error of the database or a crash.
LosePodPass(p) ==
    /\ podPass[p].at # "idle"
    /\ accountOf' = AccountLeft(p)
    /\ podPass' = [podPass EXCEPT ![p] = NotPassing]
    /\ UNCHANGED <<podOrders, held, entered>>

PodNext ==
    \E p \in PodPasses :
        \/ StartPass(p) \/ PassOver(p) \/ HoldMarket(p) \/ DecideEntry(p) \/ LookUpKey(p)
        \/ ReserveFunds(p) \/ InsertOrder(p) \/ EnterTrade(p) \/ SwallowFailure(p)
        \/ CommitPodPass(p) \/ LosePodPass(p)

PodSpec == PodInit /\ [][PodNext]_podVars

-------------------------------------------------------------------------------------
(* Properties.                                                                     *)

OrderKey == [market : TradedMarkets, entry : Nat]

PassRecord ==
    [at : {"idle", "market", "keyed", "unplaced", "reserved", "placed", "emptied"},
     next : 1..(Len(Traded) + 1), entry : Nat, mine : SUBSET OrderKey,
     holds : [TradedMarkets -> Nat], entries : [TradedMarkets -> Seq(Nat)]]

PodTypeOK ==
    /\ podOrders \subseteq OrderKey
    /\ held \in [TradedMarkets -> Nat]
    /\ entered \in [TradedMarkets -> Seq(Nat)]
    /\ accountOf \in PodPasses \cup {NoPass}
    /\ podPass \in [PodPasses -> PassRecord]

\* "Refills cannot mint a new order": at most one order of a market is beyond the entries
\* recorded there, however many passes failed after placing one, lost a race for a key or
\* counted the entries before another committed; and an entry names a committed order.
OrdersHaveEntries ==
    \A m \in TradedMarkets :
        LET keys == {o.entry : o \in {q \in podOrders : q.market = m}}
        IN  /\ Cardinality(keys) <= Len(entered[m]) + 1
            /\ \A i \in DOMAIN entered[m] : entered[m][i] \in keys

=====================================================================================

------------------------------ MODULE MCPaperTrading ------------------------------
(***********************************************************************************)
(* Small instances of PaperTrading: one user, who holds a share bought at 1 and can *)
(* pay for little more.                                                            *)
(***********************************************************************************)
EXTENDS PaperTradingProperties, TLC

CONSTANTS ann, k1

Buy(price, key)   == [user |-> ann, action |-> "BUY", shares |-> 1, price |-> price, key |-> key]
Close(n, key)     == [user |-> ann, action |-> "SELL", shares |-> n, price |-> 1, key |-> key]

Seed(n, price) == [action |-> "BUY", shares |-> n, price |-> price, key |-> None,
                   settled |-> FALSE]

SeedPosition == [u \in Users |-> <<Seed(1, 1), Seed(1, 2)>>]
SeedCash     == [u \in Users |-> 2]

\* Either of two buys takes all the cash, and two closes of both shares would sell four.
RaceCalls   == {Buy(2, k1), Buy(2, None), Close(2, None)}
CloseOnly   == {Close(1, None)}

=====================================================================================

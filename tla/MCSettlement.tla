------------------------------- MODULE MCSettlement -------------------------------
(***********************************************************************************)
(* Small instances of Settlement: shares are traded at one tick and pay two.       *)
(***********************************************************************************)
EXTENDS SettlementProperties

CONSTANTS A, B, t1

By(caller, outcome) == [by |-> caller, outcome |-> outcome]

NoTrades == [t \in {} |-> None]

\* B is long what A is short.  A can pay for it unless it wins.
Opposed == [a \in Accounts |-> IF a = A THEN -1 ELSE 1]
Tight   == [a \in Accounts |-> 1]

OneWorker == {By("worker", "YES")}
Anyone    == {By("admin", outcome) : outcome \in Outcomes}
                \cup {By("worker", "YES"), By("direct", "VOID")}

\* B buys one more share from A.
OneTrade == [t \in {t1} |-> [buyer |-> B, seller |-> A, qty |-> 1]]

=====================================================================================

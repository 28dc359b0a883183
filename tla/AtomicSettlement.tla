----------------------------- MODULE AtomicSettlement -----------------------------
(***********************************************************************************)
(* What settling a market promises: at one moment, and once, every share pays what *)
(* one verdict makes it worth, or nothing happens at all.                          *)
(***********************************************************************************)
EXTENDS Integers

CONSTANTS Accounts, Price, Unit, None

VARIABLES
    verdict,    \* the recorded outcome, None before the settlement
    shares,     \* the open shares of each account, negative when short
    cash

Value(outcome) == [YES |-> Unit, NO |-> 0, VOID |-> Price][outcome]

Init == verdict = None /\ \A a \in Accounts : cash[a] >= 0

Settle(outcome) ==
    /\ verdict = None /\ verdict' = outcome
    /\ cash' = [a \in Accounts |-> cash[a] + shares[a] * Value(outcome)]
    /\ \A a \in Accounts : cash'[a] >= 0
    /\ shares' = [a \in Accounts |-> 0]

Next == \E outcome \in {"YES", "NO", "VOID"} : Settle(outcome)

Spec == Init /\ [][Next]_<<verdict, shares, cash>>

=====================================================================================

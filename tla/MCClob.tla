---------------------------------- MODULE MCClob ----------------------------------
(***********************************************************************************)
(* Small instances of Clob.  A share pays three ticks, so a price is one or two.   *)
(***********************************************************************************)
EXTENDS ClobProperties

CONSTANTS A, B, C, s1, s2, k1

Limit(a, side, price, qty, key, gtd) ==
    [account |-> a, side |-> side, kind |-> "limit", price |-> price, qty |-> qty,
     key |-> key, gtd |-> gtd]

Market(a, side, qty) == [Limit(a, side, 1, qty, None, FALSE) EXCEPT !.kind = "market"]

Seeded(a, side, price, qty, gtd, at) ==
    [ account |-> a, side |-> side, kind |-> "limit", price |-> price, qty |-> qty,
      filled |-> 0, status |-> "OPEN", key |-> None, gtd |-> gtd, at |-> at ]

Flat == [a \in Accounts |-> None]
Rich == [a \in Accounts |-> 9]

RequestSymmetry == Permutations(Requests)

\* Takers of different accounts race for two resting sells of A, with a cancel and the
\* expiry sweep in between.  B and A choose the same key and may send their order again;
\* A trades with itself.
RaceSeeds == s1 :> Seeded(A, "sell", 1, 2, TRUE, 1) @@ s2 :> Seeded(A, "sell", 2, 2, FALSE, 2)
RaceSubmits == {Limit(B, "buy", 2, 2, k1, FALSE), Limit(A, "buy", 1, 1, k1, FALSE),
                Market(C, "buy", 3)}
RaceCash == [a \in Accounts |-> IF a = A THEN 9 ELSE 4]

\* A holds a bid and B an ask, and each may trade against the other: each request then
\* locks its own account first and the other's next.  Some orders are good till a date.
\* One request belongs to a pod pass.  A has the cash for one of its two
\* buys; the second passes the reservation with the balance its session read before the
\* first was paid, and its debit fails.
CrossSeeds == s1 :> Seeded(A, "buy", 1, 1, TRUE, 1) @@ s2 :> Seeded(B, "sell", 2, 2, FALSE, 2)
CrossSubmits == {Limit(A, "buy", 2, 1, None, FALSE), Limit(B, "sell", 1, 2, None, TRUE)}
CrossCash == [a \in Accounts |-> IF a = A THEN 3 ELSE 9]

-------------------------------------------------------------------------------------
(* The smallest instances that show where the code departs from what is written     *)
(* about it.                                                                        *)

OneSeed == s1 :> Seeded(A, "sell", 1, 2, FALSE, 1)
OneBuy  == {Limit(B, "buy", 1, 1, None, FALSE)}

\* A has a bid in the book and takes C's ask while B sells into A's bid.
BothSidesSeeds == s1 :> Seeded(A, "buy", 1, 1, FALSE, 1) @@ s2 :> Seeded(C, "sell", 2, 1, FALSE, 2)
BothSidesSubmits == {Limit(A, "buy", 2, 1, None, FALSE), Limit(B, "sell", 1, 1, None, FALSE)}
OpenedFlat == [a \in Accounts |-> 0]

\* B can pay for one of its two buys; a pod pass sends one of them.
OneShare == [a \in Accounts |-> IF a = B THEN 1 ELSE 9]

=====================================================================================

----------------------------- MODULE MCSettlementRace -----------------------------
(***********************************************************************************)
(* The sessions of one behaviour, the others staying idle: three settlers, or two  *)
(* next to a fill and a clerk.  Settlers begin in the order of their names, by     *)
(* which alone they differ: a symmetry reduction liveness can be checked under.    *)
(***********************************************************************************)
EXTENDS MCSettlement

CONSTANT c1

VARIABLE crew

MCInit == Init /\ crew \in {{1, 2, 3}, {1, 2, t1, c1}}

MCNext ==
    /\ Next
    /\ \A s \in Settlers \ crew : tx'[s] = tx[s]
    /\ \A t \in Traders \ crew : trade'[t] = trade[t]
    /\ \A c \in Clerks \ crew : clerk'[c] = clerk[c]
    /\ \A s, u \in Settlers : s < u /\ tx'[u].pc # "idle" => tx'[s].pc # "idle"
    /\ UNCHANGED crew

MCSpec == MCInit /\ [][MCNext]_<<vars, crew>> /\ Fairness

=====================================================================================

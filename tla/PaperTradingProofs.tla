---------------------------- MODULE PaperTradingProofs -----------------------------
(***********************************************************************************)
(* Proofs about paper trading, for any users, calls, orders at the start, requests, *)
(* settlements and crashes.                                                        *)
(*                                                                                 *)
(*   - A key makes one order.  A request holds the user row from the debit or      *)
(*     credit to its end, so nobody appends an order of the user between its look  *)
(*     for the key and its commit.                                                 *)
(*   - No order is paid out twice.  A settlement holds the market row from before  *)
(*     it reads the unsettled orders until they are settled.                       *)
(*   - What is held is what was bought last: the lots and the purchases are two    *)
(*     folds along the orders, and each order keeps the one an end of the other.   *)
(*   - A balance is explained by orders and settlements, and is never negative.    *)
(*   - Nothing is sold that was not bought, if a close has a row locked when it    *)
(*     sells: it has the older unsettled rows with it, so of two closes each would *)
(*     have the oldest row of the other.  A settlement leaves the newest orders    *)
(*     open, which is why the lots are no more than what can be sold.              *)
(***********************************************************************************)
EXTENDS MCPaperStreams, DataLemmas

-------------------------------------------------------------------------------------
(* The inductive invariant.                                                        *)

Typed ==
    /\ orders \in [Users -> Seq(Order)]
    /\ marketBy \in Settlers \cup {None}
    /\ balanceBy \in [Users -> Sessions \cup {None}]
    /\ req \in [Requests -> ReqType]
    /\ settler \in [Settlers -> SettlerType]

\* What a request relies on at each statement.
ReqFine(r) ==
    /\ req[r].pc # "idle" => req[r].call \in Calls
    /\ req[r].pc \in {"insert", "commit"} => balanceBy[req[r].call.user] = r
    /\ req[r].pc = "commit" => ~KeyTaken(req[r].call.user, req[r].call.key)

\* The orders a settlement has read as unsettled are so, and are flagged or will be.
RowsRead(s) ==
    /\ settler[s].rows \in [Users -> Seq(Order)]
    /\ \A u \in Users : \A i \in Unsettled(settler[s].rows[u]) :
          /\ i \in 1..Len(orders[u]) /\ ~orders[u][i].settled
          /\ <<u, i>> \in settler[s].todo \cup settler[s].holds

SettlerFine(s) ==
    /\ settler[s].pc \in {"rows", "flag"} => marketBy = s
    /\ settler[s].pc = "flag" => RowsRead(s)

PaidUsers == \A p \in paid : p.user \in Users

IInv ==
    /\ Typed
    /\ \A r \in Requests : ReqFine(r)
    /\ \A s \in Settlers : SettlerFine(s)
    /\ PaidUsers /\ KeyAnsweredOnce /\ SettledOnce

LEMMA CallUsers == \A call \in Calls : call.user \in Users
  BY PaperAssumption

LEMMA SessionsApart ==
  /\ \A r \in Requests, s \in Settlers : r # s
  /\ \A s \in Sessions : s # None
  BY PaperAssumption DEF Sessions

LEMMA InitInv == Init => IInv
<1> SUFFICES ASSUME Init PROVE IInv
  OBVIOUS
<1>1. Typed
  BY PaperAssumption DEF Init, Typed, ReqType, SettlerType, IdleReq, IdleSettler
<1>2. \A r \in Requests : ReqFine(r)
  BY DEF Init, ReqFine, IdleReq
<1>3. \A s \in Settlers : SettlerFine(s)
  BY DEF Init, SettlerFine, IdleSettler
<1>4. KeyAnsweredOnce
  BY PaperAssumption DEF Init, KeyAnsweredOnce
<1> QED BY <1>1, <1>2, <1>3, <1>4 DEF Init, IInv, PaidUsers, SettledOnce

-------------------------------------------------------------------------------------
(* Frames: what a step of one session leaves to the others.                        *)

LEMMA OneRequest ==
  ASSUME IInv, NEW r \in Requests,
         req' \in [Requests -> ReqType], balanceBy' \in [Users -> Sessions \cup {None}],
         \A q \in Requests \ {r} : req'[q] = req[q],
         \A q \in Requests \ {r}, u \in Users : balanceBy[u] = q => balanceBy'[u] = q,
         UNCHANGED <<orders, marketBy, settler, paid>>,
         ReqFine(r)'
  PROVE  IInv'
<1>1. Typed'
  BY DEF IInv, Typed
<1>2. ASSUME NEW q \in Requests PROVE ReqFine(q)'
  <2>1. CASE q # r
    BY <2>1, CallUsers DEF IInv, ReqFine, KeyTaken
  <2> QED BY <2>1
<1>3. ASSUME NEW s \in Settlers PROVE SettlerFine(s)'
  BY DEF IInv, SettlerFine, RowsRead, Unsettled
<1>4. PaidUsers' /\ KeyAnsweredOnce' /\ SettledOnce'
  BY DEF IInv, PaidUsers, KeyAnsweredOnce, SettledOnce
<1> QED BY <1>1, <1>2, <1>3, <1>4 DEF IInv

LEMMA OneSettler ==
  ASSUME IInv, NEW s \in Settlers,
         settler' \in [Settlers -> SettlerType], balanceBy' \in [Users -> Sessions \cup {None}],
         marketBy' \in Settlers \cup {None},
         \A t \in Settlers \ {s} : settler'[t] = settler[t],
         \A t \in Settlers \ {s} : marketBy = t => marketBy' = t,
         \A q \in Requests, u \in Users : balanceBy[u] = q => balanceBy'[u] = q,
         UNCHANGED <<orders, req, paid>>,
         SettlerFine(s)'
  PROVE  IInv'
<1>1. Typed'
  BY DEF IInv, Typed
<1>2. ASSUME NEW q \in Requests PROVE ReqFine(q)'
  BY CallUsers DEF IInv, ReqFine, KeyTaken
<1>3. ASSUME NEW t \in Settlers PROVE SettlerFine(t)'
  <2>1. CASE t # s
    BY <2>1 DEF IInv, SettlerFine, RowsRead, Unsettled
  <2> QED BY <2>1
<1>4. PaidUsers' /\ KeyAnsweredOnce' /\ SettledOnce'
  BY DEF IInv, PaidUsers, KeyAnsweredOnce, SettledOnce
<1> QED BY <1>1, <1>2, <1>3, <1>4 DEF IInv

-------------------------------------------------------------------------------------
(* The statements of a request.                                                    *)

Pcs == {"idle", "lookup", "debit", "select", "lock", "credit", "insert", "commit", "done",
        "refused", "replayed"}

\* A statement that only moves on changes nothing else of its request.
LEMMA MovesOn ==
  ASSUME IInv, NEW r \in Requests, NEW pc \in Pcs, req' = [req EXCEPT ![r].pc = pc]
  PROVE  /\ req' \in [Requests -> ReqType]
         /\ \A q \in Requests \ {r} : req'[q] = req[q]
         /\ req'[r].pc = pc /\ req'[r].call = req[r].call
<1>1. req[r] \in ReqType
  BY DEF IInv, Typed
<1>2. [req[r] EXCEPT !.pc = pc] \in ReqType
  BY <1>1 DEF ReqType, Pcs
<1>3. req' = [req EXCEPT ![r] = [req[r] EXCEPT !.pc = pc]]
  OBVIOUS
<1> QED BY ZenonT(40), <1>1, <1>2, <1>3 DEF IInv, Typed, ReqType

LEMMA BeginInv ==
  ASSUME IInv, NEW r \in Requests, NEW call \in Calls, Begin(r, call)
  PROVE  IInv'
<1>1. req' \in [Requests -> ReqType] /\ \A q \in Requests \ {r} : req'[q] = req[q]
  BY DEF IInv, Typed, ReqType, Begin
<1>2. ReqFine(r)'
  BY DEF IInv, Typed, ReqType, Begin, ReqFine
<1>3. UNCHANGED <<orders, marketBy, settler, paid, balanceBy>>
  BY DEF Begin
<1> QED BY <1>1, <1>2, <1>3, OneRequest DEF IInv, Typed

LEMMA LookupInv ==
  ASSUME IInv, NEW r \in Requests, Lookup(r)
  PROVE  IInv'
<1>0. PICK pc \in {"replayed", "debit", "select"} : req' = [req EXCEPT ![r].pc = pc]
  BY DEF Lookup
<1>1. /\ req' \in [Requests -> ReqType] /\ \A q \in Requests \ {r} : req'[q] = req[q]
      /\ req'[r].pc = pc /\ req'[r].call = req[r].call
  BY <1>0, MovesOn DEF Pcs
<1>2. ReqFine(r)'
  BY <1>1 DEF IInv, Lookup, ReqFine
<1>3. UNCHANGED <<orders, marketBy, settler, paid, balanceBy>>
  BY DEF Lookup
<1> QED BY <1>1, <1>2, <1>3, OneRequest DEF IInv, Typed

\* The user row is taken only when nobody has it.
LEMMA DebitInv ==
  ASSUME IInv, NEW r \in Requests, Debit(r)
  PROVE  IInv'
<1>0. req[r].call \in Calls /\ req[r].call.user \in Users
  BY CallUsers DEF IInv, ReqFine, Debit
<1>p. PICK pc \in {"insert", "refused"} :
         /\ req' = [req EXCEPT ![r].pc = pc]
         /\ pc = "insert" => balanceBy' = [balanceBy EXCEPT ![req[r].call.user] = r]
  BY DEF Debit, Refuse
<1>1. /\ req' \in [Requests -> ReqType] /\ \A q \in Requests \ {r} : req'[q] = req[q]
      /\ req'[r].pc = pc /\ req'[r].call = req[r].call
  BY <1>p, MovesOn DEF Pcs
<1>2. balanceBy' \in [Users -> Sessions \cup {None}]
  BY <1>0 DEF IInv, Typed, Debit, Sessions
<1>3. \A q \in Requests \ {r}, u \in Users : balanceBy[u] = q => balanceBy'[u] = q
  BY <1>0, SessionsApart DEF IInv, Typed, Debit, Sessions
<1>4. ReqFine(r)'
  BY <1>0, <1>p, <1>1 DEF IInv, Typed, ReqFine
<1>5. UNCHANGED <<orders, marketBy, settler, paid>>
  BY DEF Debit
<1> QED BY <1>1, <1>2, <1>3, <1>4, <1>5, OneRequest

LEMMA CreditInv ==
  ASSUME IInv, NEW r \in Requests, Credit(r)
  PROVE  IInv'
<1>0. req[r].call \in Calls /\ req[r].call.user \in Users
  BY CallUsers DEF IInv, ReqFine, Credit
<1>1. /\ req' \in [Requests -> ReqType] /\ \A q \in Requests \ {r} : req'[q] = req[q]
      /\ req'[r].pc = "insert" /\ req'[r].call = req[r].call
  BY MovesOn DEF Credit, Pcs
<1>2. balanceBy' \in [Users -> Sessions \cup {None}]
  BY <1>0 DEF IInv, Typed, Credit, Sessions
<1>3. \A q \in Requests \ {r}, u \in Users : balanceBy[u] = q => balanceBy'[u] = q
  BY <1>0, SessionsApart DEF IInv, Typed, Credit, Sessions
<1>4. ReqFine(r)'
  BY <1>0, <1>1 DEF IInv, Typed, Credit, ReqFine
<1>5. UNCHANGED <<orders, marketBy, settler, paid>>
  BY DEF Credit
<1> QED BY <1>1, <1>2, <1>3, <1>4, <1>5, OneRequest

LEMMA SelectInv ==
  ASSUME IInv, NEW r \in Requests, SelectForUpdate(r)
  PROVE  IInv'
<1>0. req[r].call \in Calls /\ req[r].call.user \in Users
  BY CallUsers DEF IInv, ReqFine, SelectForUpdate
<1>1. Wanted(orders[req[r].call.user]) \in SUBSET Nat
  BY <1>0 DEF IInv, Typed, Wanted, Unsettled
<1>2. req' \in [Requests -> ReqType] /\ \A q \in Requests \ {r} : req'[q] = req[q]
  <2>1. [req[r] EXCEPT !.pc = "lock", !.want = Wanted(orders[req[r].call.user])] \in ReqType
    BY <1>1 DEF IInv, Typed, ReqType
  <2> QED BY <2>1 DEF IInv, Typed, SelectForUpdate
<1>3. ReqFine(r)'
  BY DEF IInv, Typed, ReqType, SelectForUpdate, ReqFine
<1>4. UNCHANGED <<orders, marketBy, settler, paid, balanceBy>>
  BY DEF SelectForUpdate
<1> QED BY <1>2, <1>3, <1>4, OneRequest DEF IInv, Typed

LEMMA LockInv ==
  ASSUME IInv, NEW r \in Requests, NEW i \in req[r].want, LockRow(r, i)
  PROVE  IInv'
<1>1. i \in Nat
  BY DEF IInv, Typed, ReqType
<1>2. req' \in [Requests -> ReqType] /\ \A q \in Requests \ {r} : req'[q] = req[q]
  <2>1. PICK holds \in SUBSET Nat :
           req' = [req EXCEPT ![r].want = @ \ {i}, ![r].holds = holds]
    BY <1>1 DEF IInv, Typed, ReqType, LockRow
  <2>2. [req[r] EXCEPT !.want = @ \ {i}, !.holds = holds] \in ReqType
    BY DEF IInv, Typed, ReqType
  <2> QED BY <2>1, <2>2 DEF IInv, Typed
<1>3. ReqFine(r)'
  BY DEF IInv, Typed, ReqType, LockRow, ReqFine
<1>4. UNCHANGED <<orders, marketBy, settler, paid, balanceBy>>
  BY DEF LockRow
<1> QED BY <1>2, <1>3, <1>4, OneRequest DEF IInv, Typed

LEMMA ReadInv ==
  ASSUME IInv, NEW r \in Requests, ReadPosition(r)
  PROVE  IInv'
<1>1. req' \in [Requests -> ReqType] /\ \A q \in Requests \ {r} : req'[q] = req[q]
  BY ZenonT(40) DEF IInv, Typed, ReqType, ReadPosition, Ended, IdleReq
<1>2. ReqFine(r)'
  BY DEF IInv, Typed, ReqType, ReadPosition, ReqFine, Ended, IdleReq
<1>3. UNCHANGED <<orders, marketBy, settler, paid, balanceBy>>
  BY DEF ReadPosition
<1> QED BY <1>1, <1>2, <1>3, OneRequest DEF IInv, Typed

\* A request that ends frees its own rows only.
LEMMA AbandonInv ==
  ASSUME IInv, NEW r \in Requests, NEW pc \in {"refused", "replayed"}, Abandon(r, pc),
         req[r].pc # "idle"
  PROVE  IInv'
<1>1. req' \in [Requests -> ReqType] /\ \A q \in Requests \ {r} : req'[q] = req[q]
  BY DEF IInv, Typed, ReqType, Abandon, Ended, IdleReq
<1>2. balanceBy' \in [Users -> Sessions \cup {None}]
  BY DEF IInv, Typed, Abandon, Free
<1>3. \A q \in Requests \ {r}, u \in Users : balanceBy[u] = q => balanceBy'[u] = q
  BY DEF IInv, Typed, Abandon, Free
<1>4. ReqFine(r)'
  BY DEF IInv, Typed, ReqType, Abandon, Ended, IdleReq, ReqFine
<1>5. UNCHANGED <<orders, marketBy, settler, paid>>
  BY DEF Abandon
<1> QED BY <1>1, <1>2, <1>3, <1>4, <1>5, OneRequest

\* Under the user row, a key that is free stays free until the commit.
LEMMA InsertInv ==
  ASSUME IInv, NEW r \in Requests, Insert(r)
  PROVE  IInv'
<1>1. CASE KeyTaken(req[r].call.user, req[r].call.key)
  BY <1>1, AbandonInv DEF Insert
<1>2. CASE ~KeyTaken(req[r].call.user, req[r].call.key)
  <2>1. req' \in [Requests -> ReqType] /\ \A q \in Requests \ {r} : req'[q] = req[q]
    BY <1>2, MovesOn DEF Insert, Pcs
  <2>2. ReqFine(r)'
    BY ZenonT(40), <1>2, MovesOn DEF IInv, Insert, Pcs, ReqFine, KeyTaken
  <2>3. UNCHANGED <<orders, marketBy, settler, paid, balanceBy>>
    BY <1>2 DEF Insert
  <2> QED BY <2>1, <2>2, <2>3, OneRequest DEF IInv, Typed
<1> QED BY <1>1, <1>2

\* The order a commit appends is behind every order there was, under a key of its own.
LEMMA Appended ==
  ASSUME IInv, NEW r \in Requests, Commit(r)
  PROVE  LET call == req[r].call IN
         /\ call \in Calls /\ call.user \in Users
         /\ balanceBy[call.user] = r /\ ~KeyTaken(call.user, call.key)
         /\ orders' \in [Users -> Seq(Order)]
         /\ \A v \in Users \ {call.user} : orders'[v] = orders[v]
         /\ Len(orders'[call.user]) = Len(orders[call.user]) + 1
         /\ \A i \in 1..Len(orders[call.user]) : orders'[call.user][i] = orders[call.user][i]
         /\ orders'[call.user][Len(orders[call.user]) + 1].key = call.key
<1> DEFINE call == req[r].call
           u == call.user
<1>1. call \in Calls /\ u \in Users /\ balanceBy[u] = r /\ ~KeyTaken(u, call.key)
  BY CallUsers DEF IInv, ReqFine, Commit
<1>2. NewOrder(call) \in Order
  BY <1>1, PaperAssumption DEF NewOrder, Order
<1>3. orders \in [Users -> Seq(Order)] /\ orders[u] \in Seq(Order)
  BY <1>1 DEF IInv, Typed
<1>4. orders' = [orders EXCEPT ![u] = Append(orders[u], NewOrder(call))]
  BY DEF Commit
<1>5. orders'[u] = Append(orders[u], NewOrder(call))
  BY <1>1, <1>3, <1>4
<1>6. /\ Append(orders[u], NewOrder(call)) \in Seq(Order)
      /\ Len(orders'[u]) = Len(orders[u]) + 1
      /\ \A i \in 1..Len(orders[u]) : orders'[u][i] = orders[u][i]
      /\ orders'[u][Len(orders[u]) + 1] = NewOrder(call)
  <2> DEFINE new == NewOrder(call)
             old == orders[u]
  <2>1. new \in Order /\ old \in Seq(Order)
    BY <1>2, <1>3
  <2> HIDE DEF new, old
  <2>2. /\ Append(old, new) \in Seq(Order)
        /\ Len(Append(old, new)) = Len(old) + 1
        /\ \A i \in 1..Len(old) : Append(old, new)[i] = old[i]
        /\ Append(old, new)[Len(old) + 1] = new
    BY <2>1, AppendProperties
  <2>3. orders'[u] = Append(old, new)
    BY <1>5 DEF old, new
  <2> QED BY ONLY <2>2, <2>3 DEF old, new
<1>7. orders' \in [Users -> Seq(Order)] /\ \A v \in Users \ {u} : orders'[v] = orders[v]
  BY <1>1, <1>3, <1>4, <1>6
<1>8. orders'[u][Len(orders[u]) + 1].key = call.key
  BY <1>6 DEF NewOrder
<1> QED BY ZenonT(40), <1>1, <1>6, <1>7, <1>8

LEMMA CommitInv ==
  ASSUME IInv, NEW r \in Requests, Commit(r)
  PROVE  IInv'
<1> DEFINE call == req[r].call
           u == call.user
           n == Len(orders[u])
<1>a. /\ call \in Calls /\ u \in Users /\ balanceBy[u] = r /\ ~KeyTaken(u, call.key)
      /\ orders' \in [Users -> Seq(Order)]
      /\ \A v \in Users \ {u} : orders'[v] = orders[v]
      /\ Len(orders'[u]) = n + 1
      /\ \A i \in 1..n : orders'[u][i] = orders[u][i]
      /\ orders'[u][n + 1].key = call.key
  BY Appended
<1>n. n \in Nat
  BY SMTT(30), <1>a DEF IInv, Typed
<1>b. \A v \in Users : \A i \in 1..Len(orders[v]) :
         i \in 1..Len(orders'[v]) /\ orders'[v][i] = orders[v][i]
  BY SMTT(30), <1>a, <1>n
<1>c. /\ req' = [req EXCEPT ![r] = Ended(r, "done")]
      /\ balanceBy' = Free(r) /\ UNCHANGED <<marketBy, settler, paid>>
  BY DEF Commit
<1> HIDE DEF call, u, n
<1>1. Typed'
  BY <1>a, <1>c DEF IInv, Typed, Free, Ended, IdleReq, ReqType
<1>2. ASSUME NEW q \in Requests PROVE ReqFine(q)'
  <2>1. CASE q = r
    BY <2>1, <1>a, <1>c DEF IInv, Typed, ReqFine, Ended, IdleReq, call
  <2>2. CASE q # r
    <3>1. req'[q] = req[q]
      BY <2>2, <1>c DEF IInv, Typed
    <3>2. req[q].pc # "idle" => req[q].call \in Calls /\ req[q].call.user \in Users
      BY CallUsers DEF IInv, ReqFine
    <3>3. req[q].pc \in {"insert", "commit"} => /\ req[q].call.user # u
                                                /\ balanceBy'[req[q].call.user] = q
      BY <2>2, <3>2, <1>a, <1>c DEF IInv, Typed, ReqFine, Free
    <3>4. req[q].pc = "commit" => orders'[req[q].call.user] = orders[req[q].call.user]
      BY <3>2, <3>3, <1>a
    <3> QED BY <3>1, <3>2, <3>3, <3>4 DEF IInv, ReqFine, KeyTaken
  <2> QED BY <2>1, <2>2
<1>3. ASSUME NEW s \in Settlers PROVE SettlerFine(s)'
  BY <1>b, <1>c DEF IInv, SettlerFine, RowsRead, Unsettled
<1>4. KeyAnsweredOnce'
  <2> SUFFICES ASSUME NEW v \in Users, NEW i \in 1..Len(orders'[v]), NEW j \in 1..Len(orders'[v]),
                      orders'[v][i].key = orders'[v][j].key, orders'[v][i].key # None
               PROVE  i = j
    BY DEF KeyAnsweredOnce
  <2>1. CASE v # u
    BY <2>1, <1>a DEF IInv, KeyAnsweredOnce
  <2>2. CASE v = u
    <3>1. i \in 1..(n + 1) /\ j \in 1..(n + 1)
      BY <2>2, <1>a
    <3>2. CASE i \in 1..n /\ j \in 1..n
      <4>1. orders[u][i].key = orders[u][j].key /\ orders[u][i].key # None
        BY <3>2, <2>2, <1>a
      <4> QED BY <4>1, <3>2, <1>a DEF IInv, KeyAnsweredOnce, n
    <3>3. \A k \in 1..n : orders'[u][k].key # call.key \/ call.key = None
      BY <1>a DEF KeyTaken, n
    <3>4. CASE i = n + 1 \/ j = n + 1
      <4>1. orders'[u][i].key = call.key /\ orders'[u][j].key = call.key /\ call.key # None
        BY <3>4, <2>2, <1>a
      <4>2. i \notin 1..n /\ j \notin 1..n
        BY <4>1, <3>3
      <4> QED BY <4>2, <3>1, <1>n
    <3> QED BY <3>1, <3>2, <3>4, <1>n
  <2> QED BY <2>1, <2>2
<1>5. SettledOnce'
  BY <1>b, <1>c DEF IInv, PaidUsers, SettledOnce
<1>6. PaidUsers'
  BY <1>c DEF IInv, PaidUsers
<1> QED BY <1>1, <1>2, <1>3, <1>4, <1>5, <1>6 DEF IInv

LEMMA CrashInv ==
  ASSUME IInv, NEW r \in Requests, Crash(r)
  PROVE  IInv'
  BY AbandonInv DEF Crash

LEMMA VictimInv ==
  ASSUME IInv, NEW r \in Requests, DeadlockVictim(r)
  PROVE  IInv'
<1>1. r \notin Settlers
  BY SessionsApart
<1>2. req[r].pc # "idle"
  BY <1>1 DEF DeadlockVictim, Blockers
<1> QED BY <1>1, <1>2, AbandonInv DEF DeadlockVictim

-------------------------------------------------------------------------------------
(* The statements of a settlement.                                                 *)

LEMMA SettlerMoves ==
  ASSUME IInv, NEW s \in Settlers, NEW local \in SettlerType, settler' = [settler EXCEPT ![s] = local]
  PROVE  /\ settler' \in [Settlers -> SettlerType] /\ settler'[s] = local
         /\ \A t \in Settlers \ {s} : settler'[t] = settler[t]
  BY DEF IInv, Typed

LEMMA SettleBeginInv ==
  ASSUME IInv, NEW s \in Settlers, NEW verdict \in Verdicts, SettleBegin(s, verdict)
  PROVE  IInv'
<1>1. settler' \in [Settlers -> SettlerType] /\ \A t \in Settlers \ {s} : settler'[t] = settler[t]
  BY DEF IInv, Typed, SettlerType, SettleBegin
<1>2. SettlerFine(s)'
  BY DEF IInv, Typed, SettlerType, SettleBegin, SettlerFine
<1>3. UNCHANGED <<orders, req, paid, balanceBy, marketBy>>
  BY DEF SettleBegin
<1> QED BY <1>1, <1>2, <1>3, OneSettler DEF IInv, Typed

\* The market row is taken only when nobody has it.
LEMMA ClaimInv ==
  ASSUME IInv, NEW s \in Settlers, ClaimMarket(s)
  PROVE  IInv'
<1> DEFINE local == [settler[s] EXCEPT !.pc = "rows"]
<1>0. local \in SettlerType /\ local.pc = "rows"
  BY ZenonT(40) DEF IInv, Typed, SettlerType
<1>1. /\ settler' \in [Settlers -> SettlerType] /\ settler'[s] = local
      /\ \A t \in Settlers \ {s} : settler'[t] = settler[t]
  BY <1>0, SettlerMoves DEF ClaimMarket
<1>2. SettlerFine(s)'
  BY <1>0, <1>1 DEF ClaimMarket, SettlerFine
<1>3. \A t \in Settlers \ {s} : marketBy = t => marketBy' = t
  BY SessionsApart DEF ClaimMarket, MarketFree, Sessions
<1>4. UNCHANGED <<orders, req, paid, balanceBy>> /\ marketBy' = s
  BY DEF ClaimMarket
<1> QED BY <1>1, <1>2, <1>3, <1>4, OneSettler DEF IInv, Typed

LEMMA ReadOrdersInv ==
  ASSUME IInv, NEW s \in Settlers, ReadOrders(s)
  PROVE  IInv'
<1> DEFINE todo == UNION {{u} \X Unsettled(orders[u]) : u \in Users}
           due == {u \in Users : Worth(orders[u], settler[s].verdict) > 0}
<1>1. todo \in SUBSET (Users \X Nat)
  BY DEF IInv, Typed, Unsettled
<1>2. settler' = [settler EXCEPT ![s] = [settler[s] EXCEPT !.pc = "flag", !.rows = orders,
                                                           !.todo = todo, !.due = due]]
  BY DEF ReadOrders
<1>3. [settler[s] EXCEPT !.pc = "flag", !.rows = orders, !.todo = todo, !.due = due] \in SettlerType
  <2>1. due \in SUBSET Users
    OBVIOUS
  <2> HIDE DEF todo, due
  <2> QED BY ZenonT(40), <1>1, <2>1 DEF IInv, Typed, SettlerType
<1>4. settler' \in [Settlers -> SettlerType] /\ \A t \in Settlers \ {s} : settler'[t] = settler[t]
  BY <1>2, <1>3 DEF IInv, Typed
<1>5. settler'[s].rows = orders /\ settler'[s].todo = todo
  <2> HIDE DEF todo, due
  <2> QED BY <1>2 DEF IInv, Typed, SettlerType
<1>6. UNCHANGED <<orders, req, paid, balanceBy, marketBy>>
  BY DEF ReadOrders
<1>7. SettlerFine(s)'
  <2>1. marketBy' = s
    BY DEF IInv, SettlerFine, ReadOrders
  <2>2. RowsRead(s)'
    <3>1. \A u \in Users : \A i \in Unsettled(orders[u]) : <<u, i>> \in todo
      OBVIOUS
    <3> QED BY <3>1, <1>5, <1>6 DEF IInv, Typed, RowsRead, Unsettled
  <2> QED BY <2>1, <2>2 DEF SettlerFine
<1> QED BY <1>4, <1>6, <1>7, OneSettler DEF IInv, Typed

LEMMA FlagInv ==
  ASSUME IInv, NEW s \in Settlers, NEW row \in settler[s].todo, FlagRow(s, row[1], row[2])
  PROVE  IInv'
<1>1. row \in Users \X Nat /\ <<row[1], row[2]>> = row
  BY DEF IInv, Typed, SettlerType
<1> DEFINE local == [settler[s] EXCEPT !.todo = @ \ {row}, !.holds = @ \cup {row}]
<1>2. settler' = [settler EXCEPT ![s] = local] /\ settler[s].pc = "flag"
  BY <1>1 DEF FlagRow
<1>l. /\ local \in SettlerType /\ local.pc = settler[s].pc /\ local.rows = settler[s].rows
      /\ local.todo = settler[s].todo \ {row} /\ local.holds = settler[s].holds \cup {row}
  BY ZenonT(40), <1>1 DEF IInv, Typed, SettlerType
<1> HIDE DEF local
<1>3. /\ settler' \in [Settlers -> SettlerType] /\ settler'[s] = local
      /\ \A t \in Settlers \ {s} : settler'[t] = settler[t]
  BY <1>l, <1>2, SettlerMoves
<1>4. /\ settler'[s].pc = "flag" /\ settler'[s].rows = settler[s].rows
      /\ settler'[s].todo \cup settler'[s].holds = settler[s].todo \cup settler[s].holds
      /\ settler[s].pc = "flag"
  BY <1>2, <1>3, <1>l
<1>5. UNCHANGED <<orders, req, paid, balanceBy, marketBy>>
  BY DEF FlagRow
<1>6. SettlerFine(s)'
  BY <1>4, <1>5 DEF IInv, SettlerFine, RowsRead, Unsettled
<1> QED BY <1>3, <1>5, <1>6, OneSettler DEF IInv, Typed

LEMMA CreditUserInv ==
  ASSUME IInv, NEW s \in Settlers, NEW u \in Users, CreditUser(s, u)
  PROVE  IInv'
<1> DEFINE local == [settler[s] EXCEPT !.due = @ \ {u}]
<1>1. /\ local \in SettlerType /\ local.pc = settler[s].pc /\ local.rows = settler[s].rows
      /\ local.todo = settler[s].todo /\ local.holds = settler[s].holds
  BY ZenonT(40) DEF IInv, Typed, SettlerType
<1>2. /\ settler' \in [Settlers -> SettlerType] /\ settler'[s] = local
      /\ \A t \in Settlers \ {s} : settler'[t] = settler[t]
  BY <1>1, SettlerMoves DEF CreditUser
<1> HIDE DEF local
<1>3. balanceBy' \in [Users -> Sessions \cup {None}]
  BY DEF IInv, Typed, CreditUser, Sessions
<1>4. \A q \in Requests, v \in Users : balanceBy[v] = q => balanceBy'[v] = q
  BY SessionsApart DEF IInv, Typed, CreditUser, Sessions
<1>5. UNCHANGED <<orders, req, paid, marketBy>>
  BY DEF CreditUser
<1>6. SettlerFine(s)'
  BY <1>1, <1>2, <1>5 DEF IInv, SettlerFine, RowsRead, Unsettled
<1> QED BY <1>2, <1>3, <1>4, <1>5, <1>6, OneSettler DEF IInv, Typed

\* A settlement that does not commit frees its own rows only.
LEMMA AbandonSettlementInv ==
  ASSUME IInv, NEW s \in Settlers, AbandonSettlement(s)
  PROVE  IInv'
<1>1. settler' \in [Settlers -> SettlerType] /\ \A t \in Settlers \ {s} : settler'[t] = settler[t]
  BY DEF IInv, Typed, SettlerType, AbandonSettlement, IdleSettler
<1>2. balanceBy' \in [Users -> Sessions \cup {None}] /\ marketBy' \in Settlers \cup {None}
  BY DEF IInv, Typed, AbandonSettlement, Free
<1>3. /\ \A q \in Requests, v \in Users : balanceBy[v] = q => balanceBy'[v] = q
      /\ \A t \in Settlers \ {s} : marketBy = t => marketBy' = t
  BY SessionsApart DEF AbandonSettlement, Free
<1>4. SettlerFine(s)'
  BY DEF IInv, Typed, AbandonSettlement, IdleSettler, SettlerFine
<1>5. UNCHANGED <<orders, req, paid>>
  BY DEF AbandonSettlement
<1> QED BY <1>1, <1>2, <1>3, <1>4, <1>5, OneSettler

LEMMA CrashSettlementInv ==
  ASSUME IInv, NEW s \in Settlers, CrashSettlement(s)
  PROVE  IInv'
  BY AbandonSettlementInv DEF CrashSettlement

LEMMA SettlerVictimInv ==
  ASSUME IInv, NEW s \in Settlers, DeadlockVictim(s)
  PROVE  IInv'
  BY AbandonSettlementInv DEF DeadlockVictim

\* A commit settles the rows it holds and changes nothing else of any order.
LEMMA Flagged ==
  ASSUME IInv, NEW s \in Settlers, CommitSettlement(s)
  PROVE  /\ orders' \in [Users -> Seq(Order)]
         /\ \A u \in Users : Len(orders'[u]) = Len(orders[u])
         /\ \A u \in Users : \A i \in 1..Len(orders[u]) :
               /\ orders'[u][i].key = orders[u][i].key
               /\ orders'[u][i].settled = (orders[u][i].settled \/ <<u, i>> \in settler[s].holds)
<1> DEFINE Flag(u, i) == [orders[u][i] EXCEPT !.settled = @ \/ <<u, i>> \in settler[s].holds]
<1>1. orders' = [u \in Users |-> [i \in 1..Len(orders[u]) |-> Flag(u, i)]]
  BY DEF CommitSettlement
<1>2. \A u \in Users : Len(orders[u]) \in Nat /\ \A i \in 1..Len(orders[u]) : orders[u][i] \in Order
  BY DEF IInv, Typed
<1>3. \A u \in Users : \A i \in 1..Len(orders[u]) :
         /\ Flag(u, i) \in Order /\ Flag(u, i).key = orders[u][i].key
         /\ Flag(u, i).settled = (orders[u][i].settled \/ <<u, i>> \in settler[s].holds)
  BY ZenonT(40), <1>2 DEF Order
<1> HIDE DEF Flag
<1>4. \A u \in Users : /\ orders'[u] = [i \in 1..Len(orders[u]) |-> Flag(u, i)]
                       /\ orders'[u] \in Seq(Order) /\ Len(orders'[u]) = Len(orders[u])
  <2> TAKE u \in Users
  <2>1. orders'[u] = [i \in 1..Len(orders[u]) |-> Flag(u, i)]
    BY <1>1
  <2>2. /\ [i \in 1..Len(orders[u]) |-> Flag(u, i)] \in Seq(Order)
        /\ Len([i \in 1..Len(orders[u]) |-> Flag(u, i)]) = Len(orders[u])
    <3> DEFINE n == Len(orders[u])
               rows == [i \in 1..n |-> Flag(u, i)]
    <3>1. n \in Nat /\ rows \in [1..n -> Order]
      BY <1>2, <1>3
    <3>2. rows \in Seq(Order)
      <4> HIDE DEF n, rows
      <4> QED BY <3>1
    <3>3. DOMAIN rows = 1..n
      OBVIOUS
    <3>4. Len(rows) = n
      <4> HIDE DEF n, rows
      <4> QED BY <3>1, <3>2, <3>3, LenProperties
    <3> QED BY <3>2, <3>4
  <2> QED BY <2>1, <2>2
<1>5. orders' \in [Users -> Seq(Order)]
  BY <1>1, <1>4
<1>6. \A u \in Users : \A i \in 1..Len(orders[u]) : orders'[u][i] = Flag(u, i)
  BY <1>4
<1> QED BY <1>3, <1>4, <1>5, <1>6

LEMMA CommitSettlementInv ==
  ASSUME IInv, NEW s \in Settlers, CommitSettlement(s)
  PROVE  IInv'
<1> DEFINE Pays(u) == [by |-> s, user |-> u, amount |-> Due(s, u),
                       rows |-> Unsettled(settler[s].rows[u])]
<1>a. /\ orders' \in [Users -> Seq(Order)]
      /\ \A u \in Users : Len(orders'[u]) = Len(orders[u]) /\ Len(orders[u]) \in Nat
      /\ \A u \in Users : \A i \in 1..Len(orders[u]) :
            /\ orders'[u][i].key = orders[u][i].key
            /\ orders'[u][i].settled = (orders[u][i].settled \/ <<u, i>> \in settler[s].holds)
  BY Flagged DEF IInv, Typed
<1>b. /\ settler' = [settler EXCEPT ![s] = [IdleSettler EXCEPT !.pc = "done"]]
      /\ balanceBy' = Free(s) /\ marketBy' = None /\ UNCHANGED req
  BY DEF CommitSettlement
<1>c. paid' = paid \cup {Pays(u) : u \in {v \in Users : balanceBy[v] = s}}
  BY DEF CommitSettlement
<1>d. /\ marketBy = s /\ settler[s].todo = {} /\ RowsRead(s)
  BY DEF IInv, SettlerFine, CommitSettlement
<1>1. Typed'
  BY <1>a, <1>b DEF IInv, Typed, Free, IdleSettler, SettlerType
<1>2. ASSUME NEW q \in Requests PROVE ReqFine(q)'
  <2>1. req[q].pc # "idle" => req[q].call \in Calls /\ req[q].call.user \in Users
    BY CallUsers DEF IInv, ReqFine
  <2>2. req[q].pc \in {"insert", "commit"} => balanceBy'[req[q].call.user] = q
    BY <2>1, <1>b, SessionsApart DEF IInv, ReqFine, Free
  <2>3. \A u \in Users : \A key : KeyTaken(u, key)' <=> KeyTaken(u, key)
    BY <1>a DEF KeyTaken
  <2> QED BY <2>1, <2>2, <2>3, <1>b DEF IInv, ReqFine
<1>3. ASSUME NEW t \in Settlers PROVE SettlerFine(t)'
  <2>1. CASE t = s
    BY <2>1, <1>b DEF IInv, Typed, SettlerFine, IdleSettler
  <2>2. CASE t # s
    BY <2>2, <1>b, <1>d DEF IInv, Typed, SettlerFine
  <2> QED BY <2>1, <2>2
<1>4. KeyAnsweredOnce'
  <2> SUFFICES ASSUME NEW u \in Users, NEW i \in 1..Len(orders'[u]), NEW j \in 1..Len(orders'[u]),
                      orders'[u][i].key = orders'[u][j].key, orders'[u][i].key # None
               PROVE  i = j
    BY DEF KeyAnsweredOnce
  <2>1. i \in 1..Len(orders[u]) /\ j \in 1..Len(orders[u])
    BY <1>a
  <2>2. orders[u][i].key = orders[u][j].key /\ orders[u][i].key # None
    BY <2>1, <1>a
  <2> QED BY <2>1, <2>2 DEF IInv, KeyAnsweredOnce
<1>5. PaidUsers'
  BY <1>c DEF IInv, PaidUsers
<1>6. SettledOnce'
  <2>1. \A u \in Users : \A i \in Pays(u).rows :
           /\ i \in 1..Len(orders[u]) /\ ~orders[u][i].settled /\ orders'[u][i].settled
    BY <1>a, <1>d DEF RowsRead
  <2>2. \A p \in paid : \A i \in p.rows :
           /\ p.user \in Users /\ i \in 1..Len(orders[p.user])
           /\ orders[p.user][i].settled /\ orders'[p.user][i].settled
    BY <1>a DEF IInv, PaidUsers, SettledOnce
  <2>3. \A p \in paid, u \in Users : p.user = u => p.rows \cap Pays(u).rows = {}
    BY <2>1, <2>2
  <2>4. \A u \in Users : Pays(u).user = u
    OBVIOUS
  <2> HIDE DEF Pays
  <2>5. \A p, q \in paid' : p.user = q.user /\ p.rows \cap q.rows # {} => p = q
    BY <1>c, <2>3, <2>4 DEF IInv, SettledOnce
  <2>6. \A p \in paid' : \A i \in p.rows : i \in 1..Len(orders'[p.user]) /\ orders'[p.user][i].settled
    BY <1>a, <1>c, <2>1, <2>2, <2>4
  <2> QED BY <2>5, <2>6 DEF SettledOnce
<1> QED BY <1>1, <1>2, <1>3, <1>4, <1>5, <1>6 DEF IInv

-------------------------------------------------------------------------------------
(* The theorems.                                                                   *)

LEMMA NextInv == IInv /\ [Next]_vars => IInv'
<1> SUFFICES ASSUME IInv, [Next]_vars PROVE IInv'
  OBVIOUS
<1>1. ASSUME NEW r \in Requests, NEW call \in Calls, Begin(r, call) PROVE IInv'
  BY <1>1, BeginInv
<1>2. ASSUME NEW r \in Requests, Step(r) PROVE IInv'
  BY <1>2, LookupInv, DebitInv, SelectInv, ReadInv, CreditInv, LockInv, InsertInv, CommitInv,
     VictimInv DEF Step
<1>3. ASSUME NEW r \in Requests, Crash(r) PROVE IInv'
  BY <1>3, CrashInv
<1>4. ASSUME NEW s \in Settlers, NEW verdict \in Verdicts, SettleBegin(s, verdict) PROVE IInv'
  BY <1>4, SettleBeginInv
<1>5. ASSUME NEW s \in Settlers, SettleStep(s) PROVE IInv'
  BY SMTT(30), <1>5, ClaimInv, ReadOrdersInv, FlagInv, CreditUserInv, CommitSettlementInv,
     SettlerVictimInv DEF SettleStep
<1>6. ASSUME NEW s \in Settlers, CrashSettlement(s) PROVE IInv'
  BY <1>6, CrashSettlementInv
<1>7. CASE UNCHANGED vars
  BY <1>7 DEF vars, IInv, Typed, ReqFine, KeyTaken, SettlerFine, RowsRead, Unsettled, PaidUsers,
              KeyAnsweredOnce, SettledOnce
<1> QED BY <1>1, <1>2, <1>3, <1>4, <1>5, <1>6, <1>7 DEF Next

\* The locks on the user rows and the market row protect what requests and settlements
\* rely on between their statements, in every state of every race.
THEOREM Invariance == Spec => []IInv
  BY InitInv, NextInv, PTL DEF Spec

\* However often and however concurrently a buy or a close is repeated, its key makes one
\* order: the unique constraint and the look under the user row agree.
THEOREM KeyMakesOneOrder == Spec => []KeyAnsweredOnce
<1>1. IInv => KeyAnsweredOnce
  BY DEF IInv
<1> QED BY <1>1, Invariance, PTL

\* No paper order is paid out by two settlements, although one that begins late reads the
\* status of the market before it waits for its row.
THEOREM NoOrderPaidTwice == Spec => []SettledOnce
<1>1. IInv => SettledOnce
  BY DEF IInv
<1> QED BY <1>1, Invariance, PTL

-------------------------------------------------------------------------------------
(* Shares and cash of a user's orders.                                              *)

Signed(o) == IF o.action = "BUY" THEN o.shares ELSE 0 - o.shares

CashOf(o) == IF o.action = "BUY" THEN 0 - o.shares * o.price ELSE o.shares * o.price

LEMMA OrderNumbers ==
  ASSUME NEW o \in Order
  PROVE  /\ Signed(o) \in Int /\ CashOf(o) \in Int /\ o.shares \in Nat /\ o.price \in Nat
         /\ o.action \in {"BUY", "SELL"} /\ o.settled \in BOOLEAN
<1>1. /\ o.shares \in Nat /\ o.price \in Nat /\ o.action \in {"BUY", "SELL"}
      /\ o.settled \in BOOLEAN
  BY DEF Order
<1>2. \A m, n \in Nat : m * n \in Nat
  OBVIOUS
<1>3. o.shares * o.price \in Nat
  BY <1>1, <1>2
<1> HIDE DEF Order
<1> QED BY <1>1, <1>3 DEF Signed, CashOf

LEMMA SharesCount ==
  ASSUME NEW rows \in Seq(Order)
  PROVE  /\ \A k \in 0..Len(rows) : SharesOf(rows, 1..k) \in Int
         /\ SharesOf(rows, 1..0) = 0
         /\ \A k \in 0..Len(rows) - 1 :
               SharesOf(rows, 1..k + 1) = SharesOf(rows, 1..k) + Signed(rows[k + 1])
<1> DEFINE w(I) == [i \in I |-> Signed(rows[i])]
<1>0. Len(rows) \in Nat /\ \A i \in 1..Len(rows) : rows[i] \in Order /\ Signed(rows[i]) \in Int
  BY OrderNumbers
<1>1. \A I : SharesOf(rows, I) = Total(w(I))
  BY SumIsTotal DEF SharesOf, Signed
<1>2. ASSUME NEW k \in 0..Len(rows)
      PROVE  w(1..k) \in [1..k -> Int] /\ IsFiniteSet(1..k) /\ k \in Nat
  BY <1>0, FS_Interval
<1>3. \A k \in 0..Len(rows) : SharesOf(rows, 1..k) \in Int
  <2> HIDE DEF w
  <2> QED BY <1>1, <1>2, TotalType
<1>4. SharesOf(rows, 1..0) = 0
  <2>1. 1..0 = {} /\ 0 \in 0..Len(rows)
    BY <1>0
  <2> HIDE DEF w
  <2> QED BY <1>1, <1>2, <2>1, TotalType
<1>5. ASSUME NEW k \in 0..Len(rows) - 1
      PROVE  SharesOf(rows, 1..k + 1) = SharesOf(rows, 1..k) + Signed(rows[k + 1])
  <2>1. k \in 0..Len(rows) /\ k + 1 \in 0..Len(rows) /\ k + 1 \in 1..k + 1
    BY <1>0
  <2>2. \A i \in 1..k : w(1..k)[i] = w(1..k + 1)[i]
    OBVIOUS
  <2>3. w(1..k + 1)[k + 1] = Signed(rows[k + 1])
    BY <2>1
  <2> HIDE DEF w
  <2>4. Total(w(1..k + 1)) = Total(w(1..k)) + w(1..k + 1)[k + 1]
    BY <1>2, <2>1, <2>2, TotalGrows
  <2> QED BY <1>1, <2>3, <2>4
<1> QED BY <1>3, <1>4, <1>5

\* Only the action and the shares of an order count,
LEMMA SharesSame ==
  ASSUME NEW rows, NEW more, NEW I,
         \A i \in I : more[i].action = rows[i].action /\ more[i].shares = rows[i].shares
  PROVE  SharesOf(more, I) = SharesOf(rows, I)
BY DEF SharesOf

\* and its price.
LEMMA CashSame ==
  ASSUME NEW rows, NEW more, DOMAIN more = DOMAIN rows,
         \A i \in DOMAIN rows : /\ more[i].action = rows[i].action
                                /\ more[i].shares = rows[i].shares
                                /\ more[i].price = rows[i].price
  PROVE  Cash(more) = Cash(rows)
BY DEF Cash

LEMMA CashType ==
  ASSUME NEW rows \in Seq(Order)
  PROVE  Cash(rows) \in Int
<1> DEFINE S == DOMAIN rows
           w == [i \in S |-> CashOf(rows[i])]
<1>1. S = 1..Len(rows) /\ Len(rows) \in Nat /\ \A i \in S : rows[i] \in Order
  OBVIOUS
<1>2. IsFiniteSet(S) /\ w \in [S -> Int]
  BY <1>1, FS_Interval, OrderNumbers
<1>3. Cash(rows) = Total(w)
  BY SumIsTotal DEF Cash, CashOf
<1> HIDE DEF S, w
<1> QED BY <1>2, <1>3, TotalType

LEMMA CashGrows ==
  ASSUME NEW rows \in Seq(Order), NEW o \in Order
  PROVE  Cash(Append(rows, o)) = Cash(rows) + CashOf(o) /\ Cash(rows) \in Int
<1> DEFINE n == Len(rows)
           more == Append(rows, o)
           v == [i \in 1..n |-> CashOf(rows[i])]
           w == [i \in 1..n + 1 |-> CashOf(more[i])]
<1>0. /\ n \in Nat /\ DOMAIN rows = 1..n /\ DOMAIN more = 1..n + 1
      /\ \A i \in 1..n : more[i] = rows[i] /\ rows[i] \in Order
      /\ more[n + 1] = o
  OBVIOUS
<1> HIDE DEF more, n
<1>1. Cash(rows) = Total(v)
  BY <1>0, SumIsTotal DEF Cash, CashOf
<1>2. Cash(more) = Total(w)
  BY <1>0, SumIsTotal DEF Cash, CashOf
<1>3. v \in [1..n -> Int] /\ w \in [1..n + 1 -> Int]
  <2>1. \A i \in 1..n + 1 : i \in 1..n \/ i = n + 1
    BY <1>0
  <2>2. \A i \in 1..n : CashOf(rows[i]) \in Int
    BY <1>0, OrderNumbers
  <2>3. \A i \in 1..n + 1 : CashOf(more[i]) \in Int
    BY <1>0, <2>1, OrderNumbers
  <2> QED BY <2>2, <2>3
<1>4. \A i \in 1..n : v[i] = w[i]
  BY <1>0
<1>5. w[n + 1] = CashOf(o)
  BY <1>0
<1>6. IsFiniteSet(1..n)
  BY <1>0, FS_Interval
<1> HIDE DEF v, w
<1>7. Total(w) = Total(v) + w[n + 1]
  BY <1>0, <1>3, <1>4, TotalGrows
<1>8. Total(v) \in Int
  BY <1>3, <1>6, TotalType
<1> QED BY <1>1, <1>2, <1>5, <1>7, <1>8 DEF more

-------------------------------------------------------------------------------------
(* The lots, order by order.                                                        *)

Prices == Seq(Nat)

\* What one order makes of the lots,
LEMMA ConsumeIs ==
  ASSUME NEW lots \in Prices, NEW o \in Order
  PROVE  /\ Consume(lots, o) \in Prices /\ Len(lots) \in Nat
         /\ o.settled => Consume(lots, o) = lots
         /\ ~o.settled /\ o.action = "BUY" =>
               /\ Len(Consume(lots, o)) = Len(lots) + o.shares
               /\ \A i \in 1..Len(lots) + o.shares :
                     Consume(lots, o)[i] = IF i <= Len(lots) THEN lots[i] ELSE o.price
         /\ ~o.settled /\ o.action # "BUY" =>
               /\ Len(Consume(lots, o)) = IF o.shares <= Len(lots) THEN Len(lots) - o.shares
                                                                   ELSE 0
               /\ \A i \in 1..Len(lots) - o.shares : Consume(lots, o)[i] = lots[o.shares + i]
<1>0. /\ o.shares \in Nat /\ o.price \in Nat /\ o.action \in {"BUY", "SELL"}
      /\ o.settled \in BOOLEAN /\ Len(lots) \in Nat /\ lots \in Seq(Nat)
  BY OrderNumbers DEF Prices
<1> DEFINE new == [k \in 1..o.shares |-> o.price]
           left == SubSeq(lots, o.shares + 1, Len(lots))
<1>1. /\ lots \o new \in Seq(Nat) /\ Len(lots \o new) = Len(lots) + o.shares
      /\ \A i \in 1..Len(lots) + o.shares :
            (lots \o new)[i] = IF i <= Len(lots) THEN lots[i] ELSE o.price
  <2>1. new \in Seq(Nat) /\ Len(new) = o.shares /\ \A i \in 1..o.shares : new[i] = o.price
    BY <1>0
  <2> HIDE DEF new
  <2>2. /\ lots \o new \in Seq(Nat)
        /\ Len(lots \o new) = Len(lots) + Len(new)
        /\ \A i \in 1..Len(lots) + Len(new) :
              (lots \o new)[i] = IF i <= Len(lots) THEN lots[i] ELSE new[i - Len(lots)]
    BY <1>0, <2>1, ConcatProperties
  <2> QED BY <1>0, <2>1, <2>2
<1>2. /\ left \in Seq(Nat)
      /\ Len(left) = IF o.shares <= Len(lots) THEN Len(lots) - o.shares ELSE 0
      /\ \A i \in 1..Len(lots) - o.shares : left[i] = lots[o.shares + i]
  <2> DEFINE m == o.shares + 1
             n == Len(lots)
  <2>1. m \in Int /\ n \in Int /\ \A i \in m..n : lots[i] \in Nat
    BY <1>0
  <2> HIDE DEF m, n
  <2>2. /\ SubSeq(lots, m, n) \in Seq(Nat)
        /\ Len(SubSeq(lots, m, n)) = IF m <= n THEN n - m + 1 ELSE 0
        /\ \A i \in 1..n - m + 1 : SubSeq(lots, m, n)[i] = lots[m + i - 1]
    BY <2>1, SubSeqProperties
  <2> DEFINE q == o.shares
  <2>5. q \in Nat /\ m = q + 1 /\ n = Len(lots) /\ n \in Nat
    BY <1>0 DEF m, n
  <2> HIDE DEF q
  <2>3. n - m + 1 = n - q /\ (m <= n <=> q < n) /\ \A i \in Int : m + i - 1 = q + i
    BY <2>5
  <2>4. left = SubSeq(lots, m, n)
    BY DEF m, n
  <2> HIDE DEF left
  <2>6. /\ Len(left) = IF q <= n THEN n - q ELSE 0
        /\ \A i \in 1..n - q : left[i] = lots[q + i]
    BY <2>2, <2>3, <2>4, <2>5
  <2> QED BY <2>2, <2>4, <2>5, <2>6 DEF q
<1>3. Consume(lots, o) = IF o.settled THEN lots
                         ELSE IF o.action = "BUY" THEN lots \o new ELSE left
  BY DEF Consume
<1> HIDE DEF new, left
<1> QED BY <1>0, <1>1, <1>2, <1>3 DEF Prices

\* and of the purchases.
LEMMA PurchaseIs ==
  ASSUME NEW lots \in Prices, NEW o \in Order
  PROVE  /\ Purchase(lots, o) \in Prices
         /\ ~o.settled /\ o.action = "BUY" => Purchase(lots, o) = Consume(lots, o)
         /\ o.settled \/ o.action # "BUY" => Purchase(lots, o) = lots
<1>1. ~o.settled /\ o.action = "BUY" => Purchase(lots, o) = Consume(lots, o)
  BY DEF Purchase, Consume
<1>2. o.settled \/ o.action # "BUY" => Purchase(lots, o) = lots
  BY DEF Purchase
<1> QED BY <1>1, <1>2, ConsumeIs

LotsBy(rows, r) ==
    /\ r \in [0..Len(rows) -> Prices] /\ r[0] = <<>>
    /\ \A k \in 0..Len(rows) - 1 : r[k + 1] = Consume(r[k], rows[k + 1])

LEMMA LotsRun ==
  ASSUME NEW rows \in Seq(Order)
  PROVE  \E r : LotsBy(rows, r) /\ Lots(rows) = r[Len(rows)]
<1> DEFINE n == Len(rows)
           base == <<>>
           step == [p \in Prices \X (1..n) |-> Consume(p[1], rows[p[2]])]
           next(f, t) == IF t = {} THEN base ELSE Consume(f[t \ {Max(t)}], rows[Max(t)])
           Iter(f) == f = [t \in SUBSET DOMAIN rows |-> next(f, t)]
           h == CHOOSE f : Iter(f)
<1>1. n \in Nat /\ base \in Prices /\ DOMAIN rows = 1..n /\ \A i \in 1..n : rows[i] \in Order
  BY DEF Prices
<1>2. step \in [Prices \X (1..n) -> Prices]
  BY <1>1, ConsumeIs
<1>3. \A lots \in Prices, i \in 1..n : step[<<lots, i>>] = Consume(lots, rows[i])
  OBVIOUS
<1>4. PICK g : TracksWithin(g, n, Prices, base, step)
  <2> HIDE DEF n, base, step
  <2> QED BY <1>1, <1>2, FoldsRun
<1>5. PICK r : RunsTo(r, n, Prices, base, step)
  <2> HIDE DEF n, base, step
  <2> QED BY <1>1, <1>2, FoldsRun
<1>6. Iter(g)
  <2>1. \A t \in SUBSET (1..n) : g[t] = next(g, t)
    <3> HIDE DEF n, base, step
    <3> QED BY <1>3, <1>4 DEF TracksWithin, Tracks
  <2> HIDE DEF next
  <2> QED BY <1>1, <1>4, <2>1 DEF TracksWithin
<1>7. Iter(h)
  <2> HIDE DEF Iter
  <2> QED BY <1>6
<1>8. Tracks(h, n, Prices, base, step)
  <2> HIDE DEF h
  <2>1. \A t \in SUBSET (1..n) : h[t] = next(h, t)
    <3> HIDE DEF next
    <3> QED BY <1>1, <1>7
  <2>2. \A t \in SUBSET (1..n) : t # {} => Max(t) \in 1..n
    <3> HIDE DEF n, base, step, next
    <3> QED BY <1>4 DEF TracksWithin
  <2> HIDE DEF n, base, step
  <2> QED BY <1>3, <2>1, <2>2 DEF Tracks
<1>9. Lots(rows) = h[DOMAIN rows]
  BY DEF Lots, FoldLeft, MapThenFoldSet
<1>10. Lots(rows) = r[n]
  <2> HIDE DEF h, n, base, step
  <2> QED BY <1>1, <1>5, <1>8, <1>9 DEF RunsTo
<1>11. LotsBy(rows, r)
  <2>1. \A k \in 0..n - 1 : k + 1 \in 1..n /\ k \in 0..n
    BY <1>1
  <2> HIDE DEF step
  <2> QED BY <1>3, <1>5, <2>1 DEF RunsTo, LotsBy
<1> QED BY <1>10, <1>11

PurchasesBy(rows, r) ==
    /\ r \in [0..Len(rows) -> Prices] /\ r[0] = <<>>
    /\ \A k \in 0..Len(rows) - 1 : r[k + 1] = Purchase(r[k], rows[k + 1])

LEMMA PurchasesRun ==
  ASSUME NEW rows \in Seq(Order)
  PROVE  \E r : PurchasesBy(rows, r) /\ Purchases(rows) = r[Len(rows)]
<1> DEFINE n == Len(rows)
           base == <<>>
           step == [p \in Prices \X (1..n) |-> Purchase(p[1], rows[p[2]])]
           next(f, t) == IF t = {} THEN base ELSE Purchase(f[t \ {Max(t)}], rows[Max(t)])
           Iter(f) == f = [t \in SUBSET DOMAIN rows |-> next(f, t)]
           h == CHOOSE f : Iter(f)
<1>1. n \in Nat /\ base \in Prices /\ DOMAIN rows = 1..n /\ \A i \in 1..n : rows[i] \in Order
  BY DEF Prices
<1>2. step \in [Prices \X (1..n) -> Prices]
  BY <1>1, PurchaseIs
<1>3. \A lots \in Prices, i \in 1..n : step[<<lots, i>>] = Purchase(lots, rows[i])
  OBVIOUS
<1>4. PICK g : TracksWithin(g, n, Prices, base, step)
  <2> HIDE DEF n, base, step
  <2> QED BY <1>1, <1>2, FoldsRun
<1>5. PICK r : RunsTo(r, n, Prices, base, step)
  <2> HIDE DEF n, base, step
  <2> QED BY <1>1, <1>2, FoldsRun
<1>6. Iter(g)
  <2>1. \A t \in SUBSET (1..n) : g[t] = next(g, t)
    <3> HIDE DEF n, base, step
    <3> QED BY <1>3, <1>4 DEF TracksWithin, Tracks
  <2> HIDE DEF next
  <2> QED BY <1>1, <1>4, <2>1 DEF TracksWithin
<1>7. Iter(h)
  <2> HIDE DEF Iter
  <2> QED BY <1>6
<1>8. Tracks(h, n, Prices, base, step)
  <2> HIDE DEF h
  <2>1. \A t \in SUBSET (1..n) : h[t] = next(h, t)
    <3> HIDE DEF next
    <3> QED BY <1>1, <1>7
  <2>2. \A t \in SUBSET (1..n) : t # {} => Max(t) \in 1..n
    <3> HIDE DEF n, base, step, next
    <3> QED BY <1>4 DEF TracksWithin
  <2> HIDE DEF n, base, step
  <2> QED BY <1>3, <2>1, <2>2 DEF Tracks
<1>9. Purchases(rows) = h[DOMAIN rows]
  BY DEF Purchases, FoldLeft, MapThenFoldSet
<1>10. Purchases(rows) = r[n]
  <2> HIDE DEF h, n, base, step
  <2> QED BY <1>1, <1>5, <1>8, <1>9 DEF RunsTo
<1>11. PurchasesBy(rows, r)
  <2>1. \A k \in 0..n - 1 : k + 1 \in 1..n /\ k \in 0..n
    BY <1>1
  <2> HIDE DEF step
  <2> QED BY <1>3, <1>5, <2>1 DEF RunsTo, PurchasesBy
<1> QED BY <1>10, <1>11

LEMMA LotsType ==
  ASSUME NEW rows \in Seq(Order)
  PROVE  Lots(rows) \in Prices /\ NetShares(rows) \in Nat /\ OpenCostBasis(rows) \in Nat
<1>1. Lots(rows) \in Prices
  <2>1. PICK r : LotsBy(rows, r) /\ Lots(rows) = r[Len(rows)]
    BY LotsRun
  <2> QED BY <2>1 DEF LotsBy
<1> DEFINE lots == Lots(rows)
<1>2. Len(lots) \in Nat /\ lots \in [1..Len(lots) -> Nat] /\ IsFiniteSet(1..Len(lots))
  <2>1. Len(lots) \in Nat /\ lots \in [1..Len(lots) -> Nat]
    BY <1>1 DEF Prices
  <2> QED BY <2>1, FS_Interval
<1>3. Total(lots) \in Nat
  <2> HIDE DEF lots
  <2> QED BY <1>2, TotalNat
<1> QED BY <1>1, <1>2, <1>3, SumIsTotal DEF NetShares, OpenCostBasis

LEMMA WorthType ==
  ASSUME NEW rows \in Seq(Order), NEW verdict \in Verdicts
  PROVE  Worth(rows, verdict) \in Nat
<1>1. verdict \in {"YES", "NO", "VOID"} /\ Unit \in Nat
  BY PaperAssumption
<1>2. NetShares(rows) * Unit \in Nat
  <2>1. \A m, n \in Nat : m * n \in Nat
    OBVIOUS
  <2> QED BY <1>1, <2>1, LotsType
<1> QED BY <1>1, <1>2, LotsType DEF Worth

\* The settled orders are the oldest.
SettledFirst(rows) ==
    \A i, j \in 1..Len(rows) : i < j /\ rows[j].settled => rows[i].settled

\* What can be sold is no more than what was bought and not sold: the lots are those of the
\* orders that are left, and nothing that was sold before them was not bought.
LEMMA NetWithin ==
  ASSUME NEW rows \in Seq(Order), Covered(rows), SettledFirst(rows)
  PROVE  NetShares(rows) <= SharesOf(rows, 1..Len(rows))
<1> DEFINE n == Len(rows)
           D(k) == SharesOf(rows, 1..k)
<1>1. PICK r : LotsBy(rows, r) /\ Lots(rows) = r[n]
  BY LotsRun
<1>2. /\ n \in Nat /\ D(0) = 0 /\ \A k \in 0..n : D(k) \in Int /\ D(k) >= 0
      /\ \A k \in 0..n - 1 : D(k + 1) = D(k) + Signed(rows[k + 1])
  BY SharesCount DEF Covered
<1>3. /\ r[0] = <<>> /\ \A k \in 0..n : r[k] \in Prices
      /\ \A k \in 0..n - 1 : r[k + 1] = Consume(r[k], rows[k + 1])
  BY <1>1 DEF LotsBy
<1> DEFINE K == {k \in 0..n : /\ Len(r[k]) <= D(k)
                              /\ (\A i \in 1..k : rows[i].settled) => Len(r[k]) = 0}
<1> HIDE DEF D, n
<1>4. 0 \in K
  BY <1>2, <1>3
<1>5. ASSUME NEW k \in 0..n - 1, k \in K PROVE k + 1 \in K
  <2> DEFINE o == rows[k + 1]
             a == Len(r[k])
             b == Len(r[k + 1])
             d == D(k)
             e == D(k + 1)
             q == o.shares
  <2>1. k + 1 \in 1..n /\ k \in 0..n /\ k + 1 \in 0..n /\ o \in Order
    BY <1>2 DEF n
  <2>2. /\ q \in Nat /\ o.action \in {"BUY", "SELL"} /\ o.settled \in BOOLEAN
        /\ Signed(o) = IF o.action = "BUY" THEN q ELSE 0 - q
    BY <2>1, OrderNumbers DEF Signed
  <2>3. d \in Int /\ e \in Int /\ e >= 0 /\ e = d + Signed(o) /\ r[k + 1] = Consume(r[k], o)
    BY <1>2, <1>3, <2>1
  <2>4. /\ a \in Nat
        /\ o.settled => b = a
        /\ ~o.settled /\ o.action = "BUY" => b = a + q
        /\ ~o.settled /\ o.action # "BUY" => b = IF q <= a THEN a - q ELSE 0
    <3>1. r[k] \in Prices
      BY <1>3, <2>1
    <3> HIDE DEF o
    <3> QED BY SMTT(30), <2>1, <2>3, <3>1, ConsumeIs
  <2>5. a <= d /\ ((\A i \in 1..k : rows[i].settled) => a = 0)
    BY <1>5
  <2>6. o.settled => \A i \in 1..k : rows[i].settled
    BY SMTT(30), <1>2, <2>1 DEF SettledFirst, n
  <2>7. (\A i \in 1..k + 1 : rows[i].settled) => o.settled /\ \A i \in 1..k : rows[i].settled
    BY <1>2
  <2> HIDE DEF o, a, b, d, e, q
  <2>8. b <= e
    <3>1. CASE o.settled
      BY <2>2, <2>3, <2>4, <2>5, <2>6, <3>1
    <3>2. CASE ~o.settled
      BY <2>2, <2>3, <2>4, <2>5, <3>2
    <3> QED BY <3>1, <3>2
  <2>9. (\A i \in 1..k + 1 : rows[i].settled) => b = 0
    BY <2>4, <2>5, <2>7
  <2> QED BY <2>1, <2>8, <2>9 DEF b, e
<1>6. n \in K
  <2>1. \A k \in 0..n : k \in K
    <3> HIDE DEF K
    <3> QED BY <1>2, <1>4, <1>5, AlongRun
  <2> QED BY <1>2, <2>1
<1> QED BY <1>1, <1>6 DEF NetShares, D, n

\* a is the end of b.
EndOf(a, b) ==
    Len(a) <= Len(b) /\ \A i \in 1..Len(a) : a[i] = b[Len(b) - Len(a) + i]

LEMMA EndIsSuffix ==
  ASSUME NEW a \in Prices, NEW b \in Prices, EndOf(a, b)
  PROVE  IsSuffix(a, b)
<1> DEFINE m == Len(a)
           n == Len(b)
           p == Reverse(a)
           q == Reverse(b)
<1>1. m \in Nat /\ n \in Nat /\ m <= n /\ \A i \in 1..m : a[i] = b[n - m + i]
  BY DEF Prices, EndOf
<1>2. /\ p \in Seq(Nat) /\ Len(p) = m /\ \A i \in 1..m : p[i] = a[m - i + 1]
      /\ q \in Seq(Nat) /\ Len(q) = n /\ \A i \in 1..n : q[i] = b[n - i + 1]
  <2>1. \A i \in 1..m : m - i + 1 \in 1..m /\ a[m - i + 1] \in Nat
    BY SMTT(30), <1>1 DEF Prices
  <2>2. \A i \in 1..n : n - i + 1 \in 1..n /\ b[n - i + 1] \in Nat
    BY <1>1 DEF Prices
  <2>3. p = [i \in 1..m |-> a[m - i + 1]] /\ q = [i \in 1..n |-> b[n - i + 1]]
    BY DEF Reverse
  <2> HIDE DEF p, q, m, n
  <2> QED BY <1>1, <2>1, <2>2, <2>3
<1>3. \A i \in 1..m : p[i] = q[i]
  <2>1. ASSUME NEW i \in 1..m PROVE p[i] = q[i]
    <3>1. m - i + 1 \in 1..m /\ n - m + (m - i + 1) = n - i + 1 /\ i \in 1..n
      BY <1>1
    <3> HIDE DEF p, q, m, n
    <3>2. a[m - i + 1] = b[n - m + (m - i + 1)]
      BY <1>1, <3>1
    <3> QED BY <1>2, <3>1, <3>2
  <2> QED BY <2>1
<1> HIDE DEF p, q, m, n
<1>4. SubSeq(p, 1, m) = SubSeq(q, 1, m)
  BY <1>1, <1>2, <1>3
<1> QED BY <1>1, <1>2, <1>4 DEF IsSuffix, IsPrefix, p, q, m, n

\* An order keeps the end an end.
LEMMA EndStays ==
  ASSUME NEW a \in Prices, NEW b \in Prices, NEW o \in Order, EndOf(a, b)
  PROVE  EndOf(Consume(a, o), Purchase(b, o))
<1> DEFINE x == Consume(a, o)
           y == Purchase(b, o)
           m == Len(a)
           n == Len(b)
           s == o.shares
           p == o.price
<1>0. /\ s \in Nat /\ m \in Nat /\ n \in Nat /\ m <= n
      /\ \A i \in 1..m : a[i] = b[n - m + i]
      /\ o.settled \in BOOLEAN
  BY OrderNumbers DEF Prices, EndOf
<1>1. CASE o.settled
  <2>1. x = a /\ y = b
    BY <1>1, ConsumeIs, PurchaseIs
  <2> QED BY <2>1
<1>2. CASE ~o.settled /\ o.action = "BUY"
  <2>1. /\ Len(x) = m + s /\ Len(y) = n + s
        /\ \A i \in 1..m + s : x[i] = IF i <= m THEN a[i] ELSE p
        /\ \A i \in 1..n + s : y[i] = IF i <= n THEN b[i] ELSE p
    <3>1. y = Consume(b, o)
      BY <1>2, PurchaseIs
    <3> QED BY SMTT(30), <1>2, <3>1, ConsumeIs
  <2> HIDE DEF x, y, m, n, s, p
  <2>2. ASSUME NEW i \in 1..m + s PROVE x[i] = y[(n + s) - (m + s) + i]
    <3>1. (n + s) - (m + s) + i = n - m + i /\ n - m + i \in 1..n + s /\ (i <= m <=> n - m + i <= n)
      BY <1>0
    <3>2. CASE i <= m
      <4>1. i \in 1..m
        BY <1>0, <3>2
      <4> QED BY <1>0, <2>1, <3>1, <3>2, <4>1
    <3>3. CASE ~(i <= m)
      BY <2>1, <3>1, <3>3
    <3> QED BY <3>2, <3>3
  <2> QED BY <1>0, <2>1, <2>2 DEF EndOf, x, y
<1>3. CASE ~o.settled /\ o.action # "BUY"
  <2>1. /\ Len(x) = IF s <= m THEN m - s ELSE 0
        /\ \A i \in 1..m - s : x[i] = a[s + i]
        /\ y = b
    BY <1>3, ConsumeIs, PurchaseIs
  <2> HIDE DEF x, y, m, s
  <2>2. Len(x) \in Nat /\ Len(x) <= n
    BY <1>0, <2>1
  <2>3. ASSUME NEW i \in 1..Len(x) PROVE x[i] = b[n - Len(x) + i]
    <3>1. Len(x) = m - s /\ i \in 1..m - s /\ s + i \in 1..m
      BY <1>0, <2>1
    <3>2. n - m + (s + i) = n - Len(x) + i
      BY <1>0, <3>1
    <3> QED BY <1>0, <2>1, <3>1, <3>2
  <2> QED BY <2>1, <2>2, <2>3 DEF EndOf, x, y, n
<1> QED BY <1>0, <1>1, <1>2, <1>3

LEMMA LotsAreNewest ==
  ASSUME NEW rows \in Seq(Order)
  PROVE  IsSuffix(Lots(rows), Purchases(rows))
<1> DEFINE n == Len(rows)
<1>1. PICK r : LotsBy(rows, r) /\ Lots(rows) = r[n]
  BY LotsRun
<1>2. PICK q : PurchasesBy(rows, q) /\ Purchases(rows) = q[n]
  BY PurchasesRun
<1>3. /\ n \in Nat /\ r[0] = <<>> /\ q[0] = <<>>
      /\ \A k \in 0..n : r[k] \in Prices /\ q[k] \in Prices
      /\ \A k \in 0..n - 1 : /\ r[k + 1] = Consume(r[k], rows[k + 1])
                             /\ q[k + 1] = Purchase(q[k], rows[k + 1])
                             /\ rows[k + 1] \in Order /\ k \in 0..n
  BY <1>1, <1>2 DEF LotsBy, PurchasesBy
<1> DEFINE K == {k \in 0..n : EndOf(r[k], q[k])}
<1> HIDE DEF n
<1>4. 0 \in K
  BY <1>3 DEF EndOf
<1>5. \A k \in 0..n - 1 : k \in K => k + 1 \in K
  BY SMTT(30), <1>3, EndStays
<1>6. n \in K
  <2>1. \A k \in 0..n : k \in K
    <3> HIDE DEF K
    <3> QED BY <1>3, <1>4, <1>5, AlongRun
  <2> QED BY <1>3, <2>1
<1> QED BY <1>1, <1>2, <1>3, <1>6, EndIsSuffix DEF n

\* Whatever was bought, sold and settled, what is held is what was bought last: the cost of
\* the open position is that of its own shares.
THEOREM NewestSharesHeld == Spec => []HoldsNewestShares
<1>1. IInv => HoldsNewestShares
  BY LotsAreNewest DEF IInv, Typed, HoldsNewestShares
<1> QED BY <1>1, Invariance, PTL

-------------------------------------------------------------------------------------
(* Cash.                                                                            *)

\* A request that sells has come by the rows; one that buys can pay when it commits.
Solvent(r) ==
    /\ req[r].pc \in {"select", "lock", "credit"} => req[r].call.action = "SELL"
    /\ req[r].pc \in {"insert", "commit"} /\ req[r].call.action = "BUY" => Covers(req[r].call)

Resolving(s) == settler[s].pc \in {"claim", "rows", "flag"} => settler[s].verdict \in Verdicts

PaidTo(u) == {p \in paid : p.user = u}

\* What is paid is paid by settlements that are over, and is finite for each user.
PaidFine ==
    /\ \A p \in paid : /\ p.amount \in Nat /\ p.by \in Settlers
                       /\ settler[p.by].pc = "done"
    /\ \A u \in Users : IsFiniteSet(PaidTo(u))

Cashes ==
    /\ status \in {"OPEN", "RESOLVED"} /\ resolution \in Verdicts \cup {None}
    /\ crashes \in 0..MaxCrashes /\ balance \in [Users -> Nat]
    /\ \A r \in Requests : Solvent(r)
    /\ \A s \in Settlers : Resolving(s)
    /\ PaidFine /\ OrdersExplainBalance

LEMMA PayoutsAre == \A u : Payouts(u) = Total([p \in PaidTo(u) |-> p.amount])
  BY SumIsTotal DEF Payouts, PaidTo

LEMMA CashesInit == Init => Cashes
<1> SUFFICES ASSUME Init PROVE Cashes
  OBVIOUS
<1>1. /\ status \in {"OPEN", "RESOLVED"} /\ resolution \in Verdicts \cup {None}
      /\ crashes \in 0..MaxCrashes /\ balance \in [Users -> Nat]
      /\ \A r \in Requests : Solvent(r)
      /\ \A s \in Settlers : Resolving(s)
  BY PaperAssumption DEF Init, Solvent, Resolving, IdleReq, IdleSettler
<1>2. \A u \in Users : PaidTo(u) = {} /\ IsFiniteSet(PaidTo(u))
  BY FS_EmptySet DEF Init, PaidTo
<1>3. PaidFine
  BY <1>2 DEF Init, PaidFine
<1>4. OrdersExplainBalance
  <2>1. ASSUME NEW u \in Users
        PROVE  balance[u] = SeedBalance[u] - Cash(SeedOrders[u]) + Cash(orders[u]) + Payouts(u)
    <3>1. Payouts(u) = 0
      BY <1>2, PayoutsAre, TotalType
    <3>2. orders[u] = SeedOrders[u] /\ balance[u] = SeedBalance[u] /\ SeedBalance[u] \in Nat
          /\ SeedOrders[u] \in Seq(Order)
      BY PaperAssumption DEF Init
    <3>3. Cash(SeedOrders[u]) \in Int
      BY <3>2, CashType
    <3> QED BY <3>1, <3>2, <3>3
  <2> QED BY <2>1 DEF OrdersExplainBalance
<1> QED BY <1>1, <1>3, <1>4 DEF Cashes

\* A step that moves no money.
LEMMA NoMoney ==
  ASSUME Cashes, UNCHANGED <<orders, balance, paid, resolution, status>>,
         crashes' \in 0..MaxCrashes,
         \A s \in Settlers : settler[s].pc = "done" => settler'[s].pc = "done",
         \A s \in Settlers : Resolving(s)', \A r \in Requests : Solvent(r)'
  PROVE  Cashes'
<1>1. PaidFine'
  BY DEF Cashes, PaidFine, PaidTo
<1>2. OrdersExplainBalance'
  BY DEF Cashes, OrdersExplainBalance, Payouts
<1> QED BY <1>1, <1>2 DEF Cashes

\* Of a request,
LEMMA RequestCash ==
  ASSUME IInv, Cashes, NEW r \in Requests,
         \A q \in Requests \ {r} : req'[q] = req[q],
         UNCHANGED <<orders, balance, paid, resolution, status, settler>>,
         crashes' \in 0..MaxCrashes, Solvent(r)'
  PROVE  Cashes'
<1>1. \A q \in Requests : Solvent(q)'
  <2>1. ASSUME NEW q \in Requests \ {r} PROVE Solvent(q)'
    BY DEF Cashes, Solvent, Covers
  <2> QED BY <2>1
<1>2. \A s \in Settlers : Resolving(s)'
  BY DEF Cashes, Resolving
<1> QED BY <1>1, <1>2, NoMoney

\* and of a settlement.
LEMMA SettlerCash ==
  ASSUME IInv, Cashes, NEW s \in Settlers, settler[s].pc # "done",
         \A t \in Settlers \ {s} : settler'[t] = settler[t],
         UNCHANGED <<orders, balance, paid, resolution, status, req>>,
         crashes' \in 0..MaxCrashes, Resolving(s)'
  PROVE  Cashes'
<1>1. \A q \in Requests : Solvent(q)'
  BY DEF Cashes, Solvent, Covers
<1>2. \A t \in Settlers : Resolving(t)'
  BY DEF Cashes, Resolving
<1> QED BY <1>1, <1>2, NoMoney

\* The balance changes by what the new order costs or brings, and it covers the cost: other
\* requests that counted on it are of other users.
LEMMA CommitCash ==
  ASSUME IInv, Cashes, NEW r \in Requests, Commit(r)
  PROVE  Cashes'
<1> DEFINE call == req[r].call
           u == call.user
           o == NewOrder(call)
<1>1. /\ call \in Calls /\ u \in Users /\ balanceBy[u] = r
      /\ orders[u] \in Seq(Order) /\ o \in Order
  BY ZenonT(40), CallUsers, PaperAssumption DEF IInv, Typed, ReqFine, Commit, NewOrder, Order
<1>2. /\ call.shares \in Nat /\ call.price \in Nat /\ call.action \in {"BUY", "SELL"}
      /\ call.shares * call.price \in Nat
  <2>1. call.shares \in Nat /\ call.price \in Nat /\ call.action \in {"BUY", "SELL"}
    BY <1>1, PaperAssumption
  <2>2. \A m, n \in Nat : m * n \in Nat
    OBVIOUS
  <2> QED BY <2>1, <2>2
<1>3. CashOf(o) = Amount(call) /\ Amount(call) \in Int
  <2>1. o.action = call.action /\ o.shares = call.shares /\ o.price = call.price
    BY DEF NewOrder
  <2> HIDE DEF o, call
  <2> QED BY <1>2, <2>1 DEF CashOf, Amount
<1>4. balance[u] + Amount(call) \in Nat
  <2>1. call.action = "BUY" => balance[u] >= call.shares * call.price
    BY DEF Cashes, Solvent, Commit, Covers
  <2>2. balance[u] \in Nat
    BY <1>1 DEF Cashes
  <2> HIDE DEF call, u
  <2> QED BY <1>2, <2>1, <2>2 DEF Amount
<1>5. /\ orders' = [orders EXCEPT ![u] = Append(orders[u], o)]
      /\ balance' = [balance EXCEPT ![u] = balance[u] + Amount(call)]
      /\ req' = [req EXCEPT ![r] = Ended(r, "done")]
      /\ UNCHANGED <<status, resolution, paid, crashes, settler>>
  BY DEF Commit
<1> HIDE DEF call, u, o
<1>6. balance' \in [Users -> Nat]
  BY <1>4, <1>5 DEF Cashes
<1>7. \A q \in Requests : Solvent(q)'
  <2>1. ASSUME NEW q \in Requests, q # r PROVE Solvent(q)'
    <3>1. req'[q] = req[q]
      BY <1>5, <2>1
    <3>2. req[q].pc \in {"insert", "commit"} =>
             req[q].call.user \in Users /\ req[q].call.user # u
      BY <1>1, <2>1, CallUsers DEF IInv, ReqFine
    <3>3. req[q].pc \in {"insert", "commit"} => balance'[req[q].call.user] = balance[req[q].call.user]
      BY <3>2, <1>5 DEF Cashes
    <3> QED BY <3>1, <3>3 DEF Cashes, Solvent, Covers
  <2>2. req'[r].pc = "done"
    BY <1>5 DEF IInv, Typed, Ended, IdleReq
  <2>3. Solvent(r)'
    BY <2>2 DEF Solvent
  <2> QED BY <2>1, <2>3
<1>8. PaidFine' /\ \A s \in Settlers : Resolving(s)'
  BY <1>5 DEF Cashes, PaidFine, PaidTo, Resolving
<1>9. OrdersExplainBalance'
  <2>1. ASSUME NEW v \in Users
        PROVE  balance'[v] = SeedBalance[v] - Cash(SeedOrders[v]) + Cash(orders'[v]) + Payouts(v)'
    <3>1. Payouts(v)' = Payouts(v)
      BY <1>5 DEF Payouts
    <3>2. balance[v] = SeedBalance[v] - Cash(SeedOrders[v]) + Cash(orders[v]) + Payouts(v)
      BY DEF Cashes, OrdersExplainBalance
    <3>3. CASE v # u
      <4>1. orders'[v] = orders[v] /\ balance'[v] = balance[v]
        BY <1>5, <3>3 DEF IInv, Typed, Cashes
      <4> QED BY <3>1, <3>2, <4>1
    <3>4. CASE v = u
      <4>1. orders'[u] = Append(orders[u], o) /\ balance'[u] = balance[u] + Amount(call)
        BY <1>1, <1>5 DEF IInv, Typed, Cashes
      <4>2. Cash(orders'[u]) = Cash(orders[u]) + Amount(call) /\ Cash(orders[u]) \in Int
        BY <1>1, <1>3, <4>1, CashGrows
      <4>3. Payouts(u) \in Int
        <5> DEFINE S == PaidTo(u)
                   w == [p \in S |-> p.amount]
        <5>1. IsFiniteSet(S) /\ w \in [S -> Int]
          BY <1>1 DEF Cashes, PaidFine, PaidTo
        <5>2. Payouts(u) = Total(w)
          BY PayoutsAre
        <5> HIDE DEF S, w
        <5> QED BY <5>1, <5>2, TotalType
      <4>4. SeedBalance[u] \in Int /\ Cash(SeedOrders[u]) \in Int
        BY <1>1, PaperAssumption, CashType
      <4> QED BY <1>3, <3>1, <3>2, <3>4, <4>1, <4>2, <4>3, <4>4
    <3> QED BY <3>3, <3>4
  <2> QED BY <2>1 DEF OrdersExplainBalance
<1> QED BY <1>5, <1>6, <1>7, <1>8, <1>9 DEF Cashes

\* A settlement pays each user it has the row of what their orders are worth, and changes
\* no order but for its flag.
LEMMA CommitSettlementCash ==
  ASSUME IInv, Cashes, NEW s \in Settlers, CommitSettlement(s)
  PROVE  Cashes'
<1> DEFINE Pays(u) == [by |-> s, user |-> u, amount |-> Due(s, u),
                       rows |-> Unsettled(settler[s].rows[u])]
           mine == {v \in Users : balanceBy[v] = s}
<1>1. /\ settler[s].pc = "flag" /\ settler[s].verdict \in Verdicts
      /\ settler[s].rows \in [Users -> Seq(Order)]
  BY DEF CommitSettlement, Cashes, Resolving, IInv, SettlerFine, RowsRead
<1>2. /\ balance' = [u \in Users |-> IF balanceBy[u] = s THEN balance[u] + Due(s, u)
                                     ELSE balance[u]]
      /\ paid' = paid \cup {Pays(u) : u \in mine}
      /\ settler' = [settler EXCEPT ![s] = [IdleSettler EXCEPT !.pc = "done"]]
      /\ status' = "RESOLVED" /\ resolution' \in {resolution, settler[s].verdict}
      /\ UNCHANGED <<req, crashes>>
  BY DEF CommitSettlement
<1>3. \A u \in Users : Due(s, u) \in Nat
  BY <1>1, WorthType DEF Due
<1>4. \A u \in Users : Cash(orders'[u]) = Cash(orders[u])
  <2> TAKE u \in Users
  <2> DEFINE Flag(i) == [orders[u][i] EXCEPT !.settled = @ \/ <<u, i>> \in settler[s].holds]
  <2>1. orders[u] \in Seq(Order) /\ DOMAIN orders[u] = 1..Len(orders[u])
        /\ \A i \in 1..Len(orders[u]) : orders[u][i] \in Order
    BY DEF IInv, Typed
  <2>2. orders'[u] = [i \in 1..Len(orders[u]) |-> Flag(i)]
    BY DEF CommitSettlement
  <2>3. \A i \in 1..Len(orders[u]) : /\ Flag(i).action = orders[u][i].action
                                     /\ Flag(i).shares = orders[u][i].shares
                                     /\ Flag(i).price = orders[u][i].price
    BY <2>1 DEF Order
  <2> HIDE DEF Flag
  <2>4. /\ DOMAIN orders'[u] = DOMAIN orders[u]
        /\ \A i \in DOMAIN orders[u] : /\ orders'[u][i].action = orders[u][i].action
                                       /\ orders'[u][i].shares = orders[u][i].shares
                                       /\ orders'[u][i].price = orders[u][i].price
    BY <2>1, <2>2, <2>3
  <2> QED BY <2>4, CashSame
<1>5. balance' \in [Users -> Nat] /\ \A u \in Users : balance'[u] >= balance[u]
  BY <1>2, <1>3 DEF Cashes
<1>6. \A q \in Requests : Solvent(q)'
  <2>1. ASSUME NEW q \in Requests PROVE Solvent(q)'
    <3>1. req'[q] = req[q] /\ Solvent(q)
      BY <1>2 DEF Cashes
    <3>2. req[q].pc \in {"insert", "commit"} =>
             /\ req[q].call.user \in Users /\ req[q].call.shares * req[q].call.price \in Nat
      <4>1. ASSUME req[q].pc \in {"insert", "commit"}
            PROVE  req[q].call.user \in Users /\ req[q].call.shares \in Nat /\ req[q].call.price \in Nat
        BY <4>1, PaperAssumption DEF IInv, ReqFine
      <4>2. \A m, n \in Nat : m * n \in Nat
        OBVIOUS
      <4> QED BY <4>1, <4>2
    <3>3. \A u \in Users : balance[u] \in Nat /\ balance'[u] \in Nat /\ balance'[u] >= balance[u]
      BY <1>5 DEF Cashes
    <3> QED BY <3>1, <3>2, <3>3 DEF Solvent, Covers
  <2> QED BY <2>1
<1>7. \A t \in Settlers : Resolving(t)'
  BY <1>2 DEF IInv, Typed, IdleSettler, Cashes, Resolving
<1>8. \A u \in Users : /\ Pays(u).user = u /\ Pays(u).by = s
                       /\ Pays(u).amount = Due(s, u)
  OBVIOUS
<1> HIDE DEF Pays
<1>9. \A u \in Users : Pays(u) \notin paid
  BY <1>1, <1>8 DEF Cashes, PaidFine
<1>10. ASSUME NEW u \in Users
       PROVE  /\ u \in mine => PaidTo(u)' = PaidTo(u) \cup {Pays(u)}
              /\ u \notin mine => PaidTo(u)' = PaidTo(u)
  BY <1>2, <1>8 DEF PaidTo
<1>11. PaidFine'
  <2>1. settler'[s].pc = "done" /\ \A t \in Settlers : settler[t].pc = "done" => settler'[t].pc = "done"
    BY <1>2 DEF IInv, Typed, IdleSettler
  <2>2. \A p \in paid' : p.amount \in Nat /\ p.by \in Settlers /\ settler'[p.by].pc = "done"
    <3>1. \A p \in paid : p.amount \in Nat /\ p.by \in Settlers /\ settler'[p.by].pc = "done"
      BY <2>1 DEF Cashes, PaidFine
    <3>2. \A u \in mine : Pays(u).amount \in Nat /\ Pays(u).by \in Settlers
                          /\ settler'[Pays(u).by].pc = "done"
      BY <1>3, <1>8, <2>1
    <3> QED BY <1>2, <3>1, <3>2
  <2>3. \A u \in Users : IsFiniteSet(PaidTo(u)')
    <3>1. ASSUME NEW u \in Users PROVE IsFiniteSet(PaidTo(u)')
      <4>1. IsFiniteSet(PaidTo(u))
        BY DEF Cashes, PaidFine
      <4>2. IsFiniteSet(PaidTo(u) \cup {Pays(u)})
        BY <4>1, FS_AddElement
      <4> QED BY <1>10, <4>1, <4>2
    <3> QED BY <3>1
  <2> QED BY <2>2, <2>3 DEF PaidFine
<1>12. OrdersExplainBalance'
  <2>1. ASSUME NEW u \in Users
        PROVE  balance'[u] = SeedBalance[u] - Cash(SeedOrders[u]) + Cash(orders'[u]) + Payouts(u)'
    <3>1. balance[u] = SeedBalance[u] - Cash(SeedOrders[u]) + Cash(orders[u]) + Payouts(u)
      BY DEF Cashes, OrdersExplainBalance
    <3> DEFINE A == PaidTo(u)
               B == PaidTo(u)'
               v == [p \in A |-> p.amount]
               w == [p \in B |-> p.amount]
               x == Pays(u)
    <3>2. Payouts(u) = Total(v)
      BY PayoutsAre
    <3>3. Payouts(u)' = Total(w)
      <4>1. Payouts(u)' = SumFunction(w)
        BY DEF Payouts, PaidTo
      <4> QED BY <4>1, SumIsTotal
    <3>4. /\ IsFiniteSet(A) /\ IsFiniteSet(B) /\ v \in [A -> Int] /\ w \in [B -> Int]
      BY <1>11 DEF Cashes, PaidFine, PaidTo
    <3>5. CASE u \notin mine
      <4>1. A = B /\ balance'[u] = balance[u]
        BY <1>2, <1>10, <3>5
      <4>2. v = w
        BY <4>1
      <4> QED BY <1>4, <3>1, <3>2, <3>3, <4>1, <4>2
    <3>6. CASE u \in mine
      <4>1. B = A \cup {x} /\ x \notin A /\ x.amount = Due(s, u) /\ balance'[u] = balance[u] + Due(s, u)
        BY <1>2, <1>8, <1>9, <1>10, <3>6 DEF PaidTo
      <4> HIDE DEF x
      <4>2. x \in B /\ B \ {x} = A /\ w[x] = Due(s, u) /\ \A p \in A : v[p] = w[p]
        BY <4>1
      <4> HIDE DEF A, B, v, w
      <4>3. Total(w) = w[x] + Total(v)
        BY <3>4, <4>2, TotalTakes
      <4>4. Total(v) \in Int /\ Due(s, u) \in Int
        BY <1>3, <3>4, TotalType
      <4>5. SeedBalance[u] \in Int /\ Cash(SeedOrders[u]) \in Int /\ Cash(orders[u]) \in Int
        BY PaperAssumption, CashType DEF IInv, Typed
      <4> QED BY <1>4, <3>1, <3>2, <3>3, <4>1, <4>2, <4>3, <4>4, <4>5
    <3> QED BY <3>5, <3>6
  <2> QED BY <2>1 DEF OrdersExplainBalance
<1> QED BY <1>1, <1>2, <1>5, <1>6, <1>7, <1>11, <1>12 DEF Cashes

LEMMA StepCash ==
  ASSUME IInv, Cashes, NEW r \in Requests, Step(r)
  PROVE  Cashes'
<1>1. CASE Lookup(r)
  <2>1. Solvent(r)'
    <3>1. req[r].call.action \in {"BUY", "SELL"}
      BY <1>1, PaperAssumption DEF IInv, ReqFine, Lookup
    <3> QED BY <1>1, <3>1 DEF IInv, Typed, ReqType, Lookup, Solvent
  <2> QED BY <1>1, <2>1, RequestCash DEF IInv, Typed, Cashes, Lookup
<1>2. CASE Debit(r)
  <2>1. Solvent(r)' /\ \A q \in Requests \ {r} : req'[q] = req[q]
    BY <1>2 DEF IInv, Typed, ReqType, Debit, Refuse, Solvent, Covers
  <2> QED BY <1>2, <2>1, RequestCash DEF Cashes, Debit
<1>3. CASE SelectForUpdate(r)
  <2>1. Solvent(r)' /\ \A q \in Requests \ {r} : req'[q] = req[q]
    BY <1>3 DEF IInv, Typed, ReqType, SelectForUpdate, Cashes, Solvent
  <2> QED BY <1>3, <2>1, RequestCash DEF Cashes, SelectForUpdate
<1>4. CASE ReadPosition(r)
  <2>1. Solvent(r)' /\ \A q \in Requests \ {r} : req'[q] = req[q]
    BY <1>4 DEF IInv, Typed, ReqType, ReadPosition, Cashes, Solvent, Ended, IdleReq
  <2> QED BY <1>4, <2>1, RequestCash DEF Cashes, ReadPosition
<1>5. CASE Credit(r)
  <2>1. Solvent(r)' /\ \A q \in Requests \ {r} : req'[q] = req[q]
    BY <1>5 DEF IInv, Typed, ReqType, Credit, Cashes, Solvent
  <2> QED BY <1>5, <2>1, RequestCash DEF Cashes, Credit
<1>6. ASSUME NEW i \in req[r].want, LockRow(r, i) PROVE Cashes'
  <2>1. Solvent(r)' /\ \A q \in Requests \ {r} : req'[q] = req[q]
    BY <1>6 DEF IInv, Typed, ReqType, LockRow, Cashes, Solvent
  <2> QED BY <1>6, <2>1, RequestCash DEF Cashes, LockRow
<1>7. ASSUME NEW pc \in {"refused", "replayed"}, Abandon(r, pc), UNCHANGED crashes PROVE Cashes'
  <2>1. Solvent(r)' /\ \A q \in Requests \ {r} : req'[q] = req[q]
    BY <1>7 DEF IInv, Typed, Abandon, Ended, IdleReq, Solvent
  <2> QED BY <1>7, <2>1, RequestCash DEF Cashes, Abandon
<1>8. CASE Insert(r)
  <2>1. CASE KeyTaken(req[r].call.user, req[r].call.key)
    BY <1>7, <1>8, <2>1 DEF Insert
  <2>2. CASE ~KeyTaken(req[r].call.user, req[r].call.key)
    <3>1. Solvent(r)' /\ \A q \in Requests \ {r} : req'[q] = req[q]
      BY ZenonT(40), <1>8, <2>2 DEF IInv, Typed, ReqType, Insert, Cashes, Solvent, Covers
    <3> QED BY <1>8, <2>2, <3>1, RequestCash DEF Cashes, Insert
  <2> QED BY <2>1, <2>2
<1>9. CASE DeadlockVictim(r)
  BY <1>7, <1>9, SessionsApart DEF DeadlockVictim
<1> QED BY <1>1, <1>2, <1>3, <1>4, <1>5, <1>6, <1>8, <1>9, CommitCash DEF Step

LEMMA SettleStepCash ==
  ASSUME IInv, Cashes, NEW s \in Settlers, SettleStep(s)
  PROVE  Cashes'
<1>1. CASE ClaimMarket(s)
  <2>1. /\ Resolving(s)' /\ settler[s].pc # "done"
        /\ \A t \in Settlers \ {s} : settler'[t] = settler[t]
    BY <1>1 DEF IInv, Typed, SettlerType, ClaimMarket, Cashes, Resolving
  <2> QED BY <1>1, <2>1, SettlerCash DEF Cashes, ClaimMarket
<1>2. CASE ReadOrders(s)
  <2> DEFINE todo == UNION {{u} \X Unsettled(orders[u]) : u \in Users}
             due == {u \in Users : Worth(orders[u], settler[s].verdict) > 0}
  <2>1. settler' = [settler EXCEPT ![s].pc = "flag", ![s].rows = orders,
                                   ![s].todo = todo, ![s].due = due]
    BY <1>2 DEF ReadOrders
  <2> HIDE DEF todo, due
  <2>2. /\ Resolving(s)' /\ settler[s].pc # "done"
        /\ \A t \in Settlers \ {s} : settler'[t] = settler[t]
    <3>1. settler[s].pc = "rows"
      BY <1>2 DEF ReadOrders
    <3> QED BY <2>1, <3>1 DEF IInv, Typed, SettlerType, Cashes, Resolving
  <2> QED BY <1>2, <2>2, SettlerCash DEF Cashes, ReadOrders
<1>3. ASSUME NEW row \in settler[s].todo, FlagRow(s, row[1], row[2]) PROVE Cashes'
  <2>1. /\ Resolving(s)' /\ settler[s].pc # "done"
        /\ \A t \in Settlers \ {s} : settler'[t] = settler[t]
    BY <1>3 DEF IInv, Typed, SettlerType, FlagRow, Cashes, Resolving
  <2> QED BY <1>3, <2>1, SettlerCash DEF Cashes, FlagRow
<1>4. ASSUME NEW u \in Users, CreditUser(s, u) PROVE Cashes'
  <2>1. /\ Resolving(s)' /\ settler[s].pc # "done"
        /\ \A t \in Settlers \ {s} : settler'[t] = settler[t]
    BY <1>4 DEF IInv, Typed, SettlerType, CreditUser, Cashes, Resolving
  <2> QED BY <1>4, <2>1, SettlerCash DEF Cashes, CreditUser
<1>5. CASE DeadlockVictim(s)
  <2>1. AbandonSettlement(s) /\ UNCHANGED crashes /\ settler[s].pc = "flag"
    BY <1>5, SessionsApart DEF DeadlockVictim, Blockers
  <2>2. /\ Resolving(s)' /\ settler[s].pc # "done"
        /\ \A t \in Settlers \ {s} : settler'[t] = settler[t]
    BY <2>1 DEF IInv, Typed, AbandonSettlement, IdleSettler, Resolving
  <2> QED BY <2>1, <2>2, SettlerCash DEF Cashes, AbandonSettlement
<1> QED BY <1>1, <1>2, <1>3, <1>4, <1>5, CommitSettlementCash DEF SettleStep

LEMMA CashesNext == IInv /\ Cashes /\ [Next]_vars => Cashes'
<1> SUFFICES ASSUME IInv, Cashes, [Next]_vars PROVE Cashes'
  OBVIOUS
<1>1. ASSUME NEW r \in Requests, NEW call \in Calls, Begin(r, call) PROVE Cashes'
  <2>1. Solvent(r)' /\ \A q \in Requests \ {r} : req'[q] = req[q]
    BY <1>1 DEF IInv, Typed, ReqType, Begin, Solvent
  <2> QED BY <1>1, <2>1, RequestCash DEF Cashes, Begin
<1>2. ASSUME NEW r \in Requests, Crash(r) PROVE Cashes'
  <2>1. Solvent(r)' /\ \A q \in Requests \ {r} : req'[q] = req[q]
    BY <1>2 DEF IInv, Typed, Crash, Abandon, Ended, IdleReq, Solvent
  <2>2. crashes' \in 0..MaxCrashes
    BY <1>2, PaperAssumption DEF Cashes, Crash
  <2> QED BY <1>2, <2>1, <2>2, RequestCash DEF Crash, Abandon
<1>3. ASSUME NEW s \in Settlers, NEW verdict \in Verdicts, SettleBegin(s, verdict) PROVE Cashes'
  <2>1. /\ Resolving(s)' /\ settler[s].pc # "done"
        /\ \A t \in Settlers \ {s} : settler'[t] = settler[t]
    BY <1>3 DEF IInv, Typed, SettlerType, SettleBegin, Resolving
  <2> QED BY <1>3, <2>1, SettlerCash DEF Cashes, SettleBegin
<1>4. ASSUME NEW s \in Settlers, CrashSettlement(s) PROVE Cashes'
  <2>1. /\ Resolving(s)' /\ settler[s].pc # "done"
        /\ \A t \in Settlers \ {s} : settler'[t] = settler[t]
    BY <1>4 DEF IInv, Typed, CrashSettlement, AbandonSettlement, IdleSettler, Resolving
  <2>2. crashes' \in 0..MaxCrashes
    BY <1>4, PaperAssumption DEF Cashes, CrashSettlement
  <2> QED BY <1>4, <2>1, <2>2, SettlerCash DEF CrashSettlement, AbandonSettlement
<1>5. CASE UNCHANGED vars
  <2>1. \A s \in Settlers : Resolving(s)'
    BY <1>5 DEF vars, Cashes, Resolving
  <2>2. \A r \in Requests : Solvent(r)'
    BY <1>5 DEF vars, Cashes, Solvent, Covers
  <2> QED BY <1>5, <2>1, <2>2, NoMoney DEF vars, Cashes
<1> QED BY <1>1, <1>2, <1>3, <1>4, <1>5, StepCash, SettleStepCash DEF Next

\* What a request counts on when it commits, what is paid and what explains each balance,
\* in every state.
THEOREM CashInvariance == Spec => [](IInv /\ Cashes)
<1>1. Init => IInv /\ Cashes
  BY InitInv, CashesInit
<1>2. IInv /\ Cashes /\ [Next]_vars => IInv' /\ Cashes'
  BY NextInv, CashesNext
<1> QED BY <1>1, <1>2, PTL DEF Spec

\* Rows, locks and session locals keep their types, and no balance is ever negative: the
\* guard of the debit holds until the commit, because the row is locked in between.
THEOREM PaperTyped == Spec => []TypeOK
<1>1. IInv /\ Cashes => TypeOK
  BY DEF IInv, Typed, Cashes, TypeOK
<1> QED BY <1>1, CashInvariance, PTL

\* A balance is what orders and settlements that committed made of it: nothing that is
\* lost, refused, replayed or chosen as the victim of a deadlock leaves a trace in it.
THEOREM BalancesOfOrders == Spec => []OrdersExplainBalance
<1>1. IInv /\ Cashes => OrdersExplainBalance
  BY DEF Cashes
<1> QED BY <1>1, CashInvariance, PTL

-------------------------------------------------------------------------------------
(* Row locks, and the shares there are to sell.                                     *)

\* What a close has locked or is about to lock: with each row the older ones that are not
\* settled.
Grip(r) ==
    LET rows == orders[req[r].call.user] IN
    /\ req[r].want # {} => req[r].pc = "lock"
    /\ req[r].holds # {} => req[r].pc \in {"lock", "credit", "insert", "commit"}
    /\ req[r].pc = "debit" => req[r].call.action = "BUY"
    /\ \A i \in req[r].want \cup req[r].holds :
          /\ i \in 1..Len(rows)
          /\ \A j \in 1..Len(rows) : j < i /\ ~rows[j].settled => j \in req[r].want \cup req[r].holds
    /\ \A i \in req[r].holds : ~rows[i].settled

\* What a close is going to sell is there.
Backed(r) ==
    LET rows == orders[req[r].call.user] IN
    req[r].pc \in {"credit", "insert", "commit"} /\ req[r].call.action = "SELL" =>
        req[r].call.shares <= SharesOf(rows, 1..Len(rows))

\* A settlement flags orders it has read, and what they were then settled they are now.
Flagging(s) ==
    /\ settler[s].holds # {} => settler[s].pc = "flag"
    /\ settler[s].pc = "flag" =>
          /\ \A u \in Users : \A i \in 1..Len(settler[s].rows[u]) :
                /\ i \in 1..Len(orders[u])
                /\ settler[s].rows[u][i].settled => orders[u][i].settled
          /\ \A row \in settler[s].todo \cup settler[s].holds :
                row[2] \in 1..Len(settler[s].rows[row[1]])

\* Nobody shares a row.
OneHolder ==
    \A u \in Users, i \in Nat : \A a, b \in Sessions : Holds(a, u, i) /\ Holds(b, u, i) => a = b

OldestSettled == \A u \in Users : SettledFirst(orders[u])

Locked ==
    /\ \A r \in Requests : Grip(r)
    /\ \A s \in Settlers : Flagging(s)
    /\ OneHolder /\ OldestSettled

NothingShort ==
    /\ \A u \in Users : Covered(orders[u])
    /\ \A r \in Requests : Backed(r)

LEMMA AppendedShares ==
  ASSUME NEW rows \in Seq(Order), NEW o \in Order, Covered(rows),
         SharesOf(rows, 1..Len(rows)) + Signed(o) >= 0
  PROVE  LET more == Append(rows, o) IN
         /\ Covered(more)
         /\ SharesOf(more, 1..Len(more)) = SharesOf(rows, 1..Len(rows)) + Signed(o)
<1> DEFINE n == Len(rows)
           more == Append(rows, o)
<1>1. /\ n \in Nat /\ more \in Seq(Order) /\ Len(more) = n + 1
      /\ more[n + 1] = o /\ \A i \in 1..n : more[i] = rows[i]
  OBVIOUS
<1> HIDE DEF n, more
<1>2. \A k \in 0..n : SharesOf(more, 1..k) = SharesOf(rows, 1..k)
  <2>1. ASSUME NEW k \in 0..n PROVE SharesOf(more, 1..k) = SharesOf(rows, 1..k)
    <3>1. \A i \in 1..k : more[i] = rows[i]
      BY <1>1
    <3> QED BY <3>1, SharesSame
  <2> QED BY <2>1
<1>3. SharesOf(more, 1..n + 1) = SharesOf(more, 1..n) + Signed(o)
  <2>1. n \in 0..Len(more) - 1
    BY <1>1
  <2> QED BY <1>1, <2>1, SharesCount
<1>4. SharesOf(more, 1..n + 1) = SharesOf(rows, 1..n) + Signed(o)
  BY <1>1, <1>2, <1>3
<1>5. \A k \in 0..Len(more) : SharesOf(more, 1..k) >= 0
  <2>1. ASSUME NEW k \in 0..Len(more) PROVE SharesOf(more, 1..k) >= 0
    <3>1. k \in 0..n \/ k = n + 1
      BY <1>1
    <3> QED BY <1>2, <1>4, <3>1 DEF Covered, n
  <2> QED BY <2>1
<1> QED BY <1>1, <1>4, <1>5 DEF Covered, n, more

\* A flag changes no share.
LEMMA FlaggedShares ==
  ASSUME NEW rows \in Seq(Order), NEW more \in Seq(Order), Len(more) = Len(rows),
         \A i \in 1..Len(rows) : more[i].action = rows[i].action /\ more[i].shares = rows[i].shares
  PROVE  /\ Covered(rows) => Covered(more)
         /\ SharesOf(more, 1..Len(more)) = SharesOf(rows, 1..Len(rows))
<1>1. ASSUME NEW k \in 0..Len(rows) PROVE SharesOf(more, 1..k) = SharesOf(rows, 1..k)
  <2>1. \A i \in 1..k : more[i].action = rows[i].action /\ more[i].shares = rows[i].shares
    OBVIOUS
  <2> QED BY <2>1, SharesSame
<1>2. Len(rows) \in 0..Len(rows)
  OBVIOUS
<1> QED BY <1>1, <1>2 DEF Covered

LEMMA LockedInit == Init => Locked /\ NothingShort
<1> SUFFICES ASSUME Init PROVE Locked /\ NothingShort
  OBVIOUS
<1>1. \A r \in Requests : Grip(r) /\ Backed(r)
  BY DEF Init, Grip, Backed, IdleReq
<1>2. \A s \in Settlers : Flagging(s)
  BY DEF Init, Flagging, IdleSettler
<1>3. OneHolder
  BY SessionsApart DEF Init, OneHolder, Holds, Sessions, IdleReq, IdleSettler
<1>4. OldestSettled
  BY PaperAssumption DEF Init, OldestSettled, SettledFirst
<1>5. \A u \in Users : Covered(orders[u])
  BY PaperAssumption DEF Init
<1> QED BY <1>1, <1>2, <1>3, <1>4, <1>5 DEF Locked, NothingShort

\* A statement of a request that gives it no row and changes no order.
LEMMA RequestLocks ==
  ASSUME IInv, Locked, NEW r \in Requests,
         \A q \in Requests \ {r} : req'[q] = req[q],
         UNCHANGED <<orders, settler>>,
         req'[r].holds # {} => req'[r].holds = req[r].holds /\ req'[r].call = req[r].call,
         Grip(r)'
  PROVE  Locked'
<1>1. \A q \in Requests : Grip(q)'
  <2>1. ASSUME NEW q \in Requests \ {r} PROVE Grip(q)'
    BY DEF Locked, Grip
  <2> QED BY <2>1
<1>2. (\A s \in Settlers : Flagging(s)') /\ OldestSettled'
  BY DEF Locked, Flagging, OldestSettled
<1>3. \A a \in Sessions, u \in Users, i \in Nat : Holds(a, u, i)' => Holds(a, u, i)
  BY DEF Holds, Sessions
<1>4. OneHolder'
  BY <1>3 DEF Locked, OneHolder
<1> QED BY <1>1, <1>2, <1>4 DEF Locked

LEMMA RequestBacked ==
  ASSUME IInv, NothingShort, NEW r \in Requests,
         \A q \in Requests \ {r} : req'[q] = req[q],
         UNCHANGED orders, Backed(r)'
  PROVE  NothingShort'
<1>1. \A q \in Requests : Backed(q)'
  <2>1. ASSUME NEW q \in Requests \ {r} PROVE Backed(q)'
    BY DEF NothingShort, Backed
  <2> QED BY <2>1
<1> QED BY <1>1 DEF NothingShort

\* A statement of a settlement that gives it no row and changes no order.
LEMMA SettlerLocks ==
  ASSUME IInv, Locked, NothingShort, NEW s \in Settlers,
         \A t \in Settlers \ {s} : settler'[t] = settler[t],
         UNCHANGED <<orders, req>>, settler'[s].holds \subseteq settler[s].holds,
         Flagging(s)'
  PROVE  Locked' /\ NothingShort'
<1>1. (\A q \in Requests : Grip(q)' /\ Backed(q)') /\ OldestSettled'
  BY DEF Locked, NothingShort, Grip, Backed, OldestSettled
<1>2. \A t \in Settlers : Flagging(t)'
  <2>1. ASSUME NEW t \in Settlers \ {s} PROVE Flagging(t)'
    BY DEF Locked, Flagging
  <2> QED BY <2>1
<1>3. \A a \in Sessions, u \in Users, i \in Nat : Holds(a, u, i)' => Holds(a, u, i)
  BY DEF Holds, Sessions
<1>4. OneHolder'
  BY <1>3 DEF Locked, OneHolder
<1> QED BY <1>1, <1>2, <1>4 DEF Locked, NothingShort

\* A request that ends gives up its rows.
LEMMA AbandonLocks ==
  ASSUME IInv, Locked, NothingShort, NEW r \in Requests,
         NEW pc \in {"refused", "replayed"}, Abandon(r, pc)
  PROVE  Locked' /\ NothingShort'
<1>1. /\ \A q \in Requests \ {r} : req'[q] = req[q]
      /\ req'[r].pc = pc /\ req'[r].holds = {} /\ req'[r].want = {}
      /\ UNCHANGED <<orders, settler>>
  BY DEF IInv, Typed, Abandon, Ended, IdleReq
<1>2. Grip(r)' /\ Backed(r)'
  BY <1>1 DEF Grip, Backed
<1> QED BY <1>1, <1>2, RequestLocks, RequestBacked

LEMMA BeginLocks ==
  ASSUME IInv, Locked, NothingShort, NEW r \in Requests, NEW call \in Calls, Begin(r, call)
  PROVE  Locked' /\ NothingShort'
<1>1. /\ \A q \in Requests \ {r} : req'[q] = req[q]
      /\ req'[r].pc \in {"refused", "lookup"}
      /\ req'[r].holds = req[r].holds /\ req'[r].want = req[r].want
      /\ UNCHANGED <<orders, settler>> /\ req[r].pc = "idle"
  BY DEF IInv, Typed, ReqType, Begin
<1>2. req[r].holds = {} /\ req[r].want = {}
  BY <1>1 DEF Locked, Grip
<1>3. Grip(r)' /\ Backed(r)'
  BY <1>1, <1>2 DEF Grip, Backed
<1> QED BY <1>1, <1>2, <1>3, RequestLocks, RequestBacked

\* A statement that only moves on, from where nothing is held or to where it still may be.
LEMMA MoveLocks ==
  ASSUME IInv, Locked, NothingShort, NEW r \in Requests, NEW pc \in Pcs,
         req' = [req EXCEPT ![r].pc = pc], UNCHANGED <<orders, settler>>,
         req[r].want = {}, req[r].holds = {} \/ pc \in {"lock", "credit", "insert", "commit"},
         pc = "debit" => req[r].call.action = "BUY", Backed(r)'
  PROVE  Locked' /\ NothingShort'
<1>1. /\ \A q \in Requests \ {r} : req'[q] = req[q]
      /\ req'[r].pc = pc /\ req'[r].call = req[r].call
      /\ req'[r].holds = req[r].holds /\ req'[r].want = req[r].want
  BY DEF IInv, Typed, ReqType
<1>2. Grip(r)'
  BY <1>1 DEF Locked, Grip
<1> QED BY <1>1, <1>2, RequestLocks, RequestBacked

LEMMA LookupLocks ==
  ASSUME IInv, Locked, NothingShort, NEW r \in Requests, Lookup(r)
  PROVE  Locked' /\ NothingShort'
<1>1. PICK pc \in {"replayed", "debit", "select"} :
         req' = [req EXCEPT ![r].pc = pc] /\ (pc = "debit" => req[r].call.action = "BUY")
  BY DEF Lookup
<1>2. req[r].want = {} /\ req[r].holds = {} /\ UNCHANGED <<orders, settler>>
  BY DEF Locked, Grip, Lookup
<1>3. Backed(r)'
  BY <1>1, MovesOn DEF Backed, Pcs
<1> QED BY <1>1, <1>2, <1>3, MoveLocks DEF Pcs

LEMMA DebitLocks ==
  ASSUME IInv, Locked, NothingShort, NEW r \in Requests, Debit(r)
  PROVE  Locked' /\ NothingShort'
<1>1. PICK pc \in {"insert", "refused"} : req' = [req EXCEPT ![r].pc = pc]
  BY DEF Debit, Refuse
<1>2. /\ req[r].want = {} /\ req[r].holds = {} /\ req[r].call.action = "BUY"
      /\ UNCHANGED <<orders, settler>>
  BY DEF Locked, Grip, Debit
<1>3. Backed(r)'
  BY <1>1, <1>2, MovesOn DEF Backed, Pcs
<1> QED BY <1>1, <1>2, <1>3, MoveLocks DEF Pcs

LEMMA CreditLocks ==
  ASSUME IInv, Locked, NothingShort, NEW r \in Requests, Credit(r)
  PROVE  Locked' /\ NothingShort'
<1>1. /\ req' = [req EXCEPT ![r].pc = "insert"] /\ req[r].pc = "credit" /\ req[r].want = {}
      /\ UNCHANGED <<orders, settler>>
  BY DEF Locked, Grip, Credit
<1>2. Backed(r)'
  BY <1>1, MovesOn DEF NothingShort, Backed, Pcs
<1> QED BY <1>1, <1>2, MoveLocks DEF Pcs

LEMMA InsertLocks ==
  ASSUME IInv, Locked, NothingShort, NEW r \in Requests, Insert(r)
  PROVE  Locked' /\ NothingShort'
<1>1. CASE KeyTaken(req[r].call.user, req[r].call.key)
  BY <1>1, AbandonLocks DEF Insert
<1>2. CASE ~KeyTaken(req[r].call.user, req[r].call.key)
  <2>1. /\ req' = [req EXCEPT ![r].pc = "commit"] /\ req[r].pc = "insert" /\ req[r].want = {}
        /\ UNCHANGED <<orders, settler>>
    BY <1>2 DEF Locked, Grip, Insert
  <2>2. Backed(r)'
    BY <2>1, MovesOn DEF NothingShort, Backed, Pcs
  <2> QED BY <2>1, <2>2, MoveLocks DEF Pcs
<1> QED BY <1>1, <1>2

\* The rows a close waits for are all that are not settled.
LEMMA SelectLocks ==
  ASSUME IInv, Locked, NothingShort, NEW r \in Requests, SelectForUpdate(r)
  PROVE  Locked' /\ NothingShort'
<1>1. /\ \A q \in Requests \ {r} : req'[q] = req[q]
      /\ req'[r].pc = "lock" /\ req'[r].call = req[r].call /\ req'[r].holds = req[r].holds
      /\ req'[r].want = Unsettled(orders[req[r].call.user])
      /\ UNCHANGED <<orders, settler>>
  BY DEF IInv, Typed, ReqType, SelectForUpdate, Wanted
<1>2. req[r].holds = {}
  BY DEF Locked, Grip, SelectForUpdate
<1>3. Grip(r)' /\ Backed(r)'
  BY <1>1, <1>2 DEF Grip, Backed, Unsettled
<1> QED BY <1>1, <1>2, <1>3, RequestLocks, RequestBacked

\* A row that is locked was nobody's, and one that is dropped is settled.
LEMMA LockLocks ==
  ASSUME IInv, Locked, NothingShort, NEW r \in Requests, NEW i \in req[r].want, LockRow(r, i)
  PROVE  Locked' /\ NothingShort'
<1> DEFINE u == req[r].call.user
<1>1. /\ \A q \in Requests \ {r} : req'[q] = req[q]
      /\ req'[r].pc = "lock" /\ req'[r].call = req[r].call
      /\ req'[r].want = req[r].want \ {i}
      /\ req'[r].holds = IF orders[u][i].settled THEN req[r].holds ELSE req[r].holds \cup {i}
      /\ UNCHANGED <<orders, settler>> /\ ~RowLocked(u, i, r)
  BY DEF IInv, Typed, ReqType, LockRow
<1>2. Backed(r)'
  BY SMTT(30), <1>1 DEF Backed
<1>3. Grip(r)'
  BY ZenonT(40), <1>1 DEF Locked, Grip
<1>4. \A q \in Requests : Grip(q)'
  <2>1. ASSUME NEW q \in Requests \ {r} PROVE Grip(q)'
    BY ZenonT(40), <1>1 DEF Locked, Grip
  <2> QED BY <1>3, <2>1
<1>5. (\A s \in Settlers : Flagging(s)') /\ OldestSettled'
  BY <1>1 DEF Locked, Flagging, OldestSettled
<1>6. \A a \in Sessions, v \in Users, j \in Nat : Holds(a, v, j)' =>
         Holds(a, v, j) \/ (a = r /\ v = u /\ j = i)
  BY <1>1, SessionsApart DEF Holds, Sessions
<1>7. \A a \in Sessions : Holds(a, u, i) => a = r
  BY <1>1 DEF RowLocked
<1> HIDE DEF u
<1>8. OneHolder'
  BY <1>6, <1>7 DEF Locked, OneHolder
<1> QED BY <1>1, <1>2, <1>4, <1>5, <1>8, RequestBacked DEF Locked

\* Under the locks, no more is sold than is there.
LEMMA ReadLocks ==
  ASSUME IInv, Locked, NothingShort, NEW r \in Requests, ReadPosition(r)
  PROVE  Locked' /\ NothingShort'
<1> DEFINE call == req[r].call
           rows == orders[call.user]
<1>1. call \in Calls /\ call.user \in Users /\ rows \in Seq(Order) /\ call.shares \in Nat
  BY CallUsers, PaperAssumption DEF IInv, Typed, ReqFine, ReadPosition
<1>2. CASE call.shares > NetShares(rows)
  <2>1. /\ \A q \in Requests \ {r} : req'[q] = req[q]
        /\ req'[r].pc = "refused" /\ req'[r].holds = {} /\ req'[r].want = {}
        /\ UNCHANGED <<orders, settler>>
    BY <1>2 DEF IInv, Typed, ReadPosition, Ended, IdleReq
  <2>2. Grip(r)' /\ Backed(r)'
    BY <2>1 DEF Grip, Backed
  <2> QED BY <2>1, <2>2, RequestLocks, RequestBacked
<1>3. CASE ~(call.shares > NetShares(rows))
  <2>1. /\ req' = [req EXCEPT ![r].pc = "credit"] /\ req[r].want = {}
        /\ UNCHANGED <<orders, settler>>
    BY <1>3 DEF IInv, Typed, ReadPosition
  <2>2. call.shares <= SharesOf(rows, 1..Len(rows))
    <3>1. Covered(rows) /\ SettledFirst(rows)
      BY <1>1 DEF Locked, NothingShort, OldestSettled
    <3>2. NetShares(rows) <= SharesOf(rows, 1..Len(rows))
      BY <1>1, <3>1, NetWithin
    <3>3. NetShares(rows) \in Nat /\ SharesOf(rows, 1..Len(rows)) \in Int
      <4>1. Len(rows) \in 0..Len(rows)
        BY SMTT(30), <1>1
      <4> QED BY <1>1, <4>1, LotsType, SharesCount
    <3> HIDE DEF call, rows
    <3> QED BY <1>1, <1>3, <3>2, <3>3
  <2>3. Backed(r)'
    BY <2>1, <2>2, MovesOn DEF Backed, Pcs
  <2> QED BY <2>1, <2>3, MoveLocks DEF Pcs
<1> QED BY <1>2, <1>3

Selling(r) == req[r].pc \in {"credit", "insert", "commit"} /\ req[r].call.action = "SELL"

LEMMA OlderLocked ==
  ASSUME IInv, Locked, NEW r \in Requests, NEW q \in Requests, req[r].call.user = req[q].call.user,
         req[r].call.user \in Users, NEW i \in req[r].holds, NEW j \in req[q].holds, i <= j,
         req[q].want = {}
  PROVE  r = q
<1> DEFINE u == req[r].call.user
<1>1. /\ i \in 1..Len(orders[u]) /\ ~orders[u][i].settled /\ j \in 1..Len(orders[u])
      /\ i < j => i \in req[q].holds
  BY DEF Locked, Grip
<1>2. Len(orders[u]) \in Nat
  BY DEF IInv, Typed
<1>3. i \in req[q].holds /\ i \in Nat
  BY <1>1, <1>2
<1>4. Holds(r, u, i) /\ Holds(q, u, i) /\ r \in Sessions /\ q \in Sessions
  BY <1>3, SessionsApart DEF Holds, Sessions
<1> QED BY <1>3, <1>4 DEF Locked, OneHolder

\* Two closes of a user that each have a row cannot both be past their reading: each has the
\* oldest row the other has.
LEMMA OneSeller ==
  ASSUME IInv, Locked, ClosesLock, NEW r \in Requests, NEW q \in Requests,
         Selling(r), Selling(q), req[r].call.user = req[q].call.user
  PROVE  r = q
<1>1. PICK i \in req[r].holds : TRUE
  BY DEF Selling, ClosesLock
<1>2. PICK j \in req[q].holds : TRUE
  BY DEF Selling, ClosesLock
<1>3. req[r].want = {} /\ req[q].want = {}
  BY DEF Locked, Grip, Selling
<1>4. req[r].call.user \in Users /\ i \in Nat /\ j \in Nat
  BY CallUsers DEF IInv, Typed, ReqType, ReqFine, Selling
<1>5. i <= j \/ j <= i
  BY <1>4
<1> QED BY <1>3, <1>4, <1>5, OlderLocked

\* A commit appends an order that is not settled to the orders of its user.
LEMMA CommitLocks ==
  ASSUME IInv, Locked, NothingShort, ClosesLock, NEW r \in Requests, Commit(r)
  PROVE  Locked' /\ NothingShort'
<1> DEFINE call == req[r].call
           u == call.user
           o == NewOrder(call)
           n == Len(orders[u])
<1>1. /\ call \in Calls /\ u \in Users /\ orders[u] \in Seq(Order) /\ o \in Order
      /\ n \in Nat /\ call.shares \in Nat /\ call.action \in {"BUY", "SELL"}
  <2>1. call \in Calls /\ u \in Users /\ orders[u] \in Seq(Order)
    BY CallUsers DEF IInv, Typed, ReqFine, Commit
  <2>2. o \in Order
    BY <2>1, PaperAssumption DEF NewOrder, Order
  <2>3. call.shares \in Nat /\ call.action \in {"BUY", "SELL"}
    BY <2>1, PaperAssumption
  <2> HIDE DEF call, o, u
  <2> QED BY <2>1, <2>2, <2>3
<1>2. o.settled = FALSE /\ Signed(o) = IF call.action = "BUY" THEN call.shares ELSE 0 - call.shares
  BY DEF NewOrder, Signed
<1>3. /\ orders' = [orders EXCEPT ![u] = Append(orders[u], o)]
      /\ req' = [req EXCEPT ![r] = Ended(r, "done")] /\ UNCHANGED settler
      /\ req[r].pc = "commit"
  BY DEF Commit
<1>4. /\ \A q \in Requests \ {r} : req'[q] = req[q]
      /\ req'[r].pc = "done" /\ req'[r].holds = {} /\ req'[r].want = {}
  BY <1>3 DEF IInv, Typed, Ended, IdleReq
<1>5. Backed(r)
  BY DEF NothingShort
<1> HIDE DEF o
<1>6. /\ \A v \in Users \ {u} : orders'[v] = orders[v]
      /\ orders'[u] = Append(orders[u], o) /\ Len(orders'[u]) = n + 1 /\ orders'[u][n + 1] = o
      /\ \A i \in 1..n : orders'[u][i] = orders[u][i]
  BY <1>1, <1>3 DEF IInv, Typed
<1>7. SharesOf(orders[u], 1..n) \in Int /\ SharesOf(orders[u], 1..n) >= 0
  <2>1. n \in 0..n /\ Covered(orders[u])
    BY <1>1 DEF NothingShort
  <2> QED BY <1>1, <2>1, SharesCount DEF Covered
<1>8. SharesOf(orders[u], 1..n) + Signed(o) >= 0
  <2>1. call.action = "SELL" => call.shares <= SharesOf(orders[u], 1..n)
    BY SMTT(30), <1>3, <1>5 DEF Backed
  <2> HIDE DEF call, u, n
  <2> QED BY <1>1, <1>2, <1>7, <2>1
<1>9. /\ Covered(orders'[u])
      /\ SharesOf(orders'[u], 1..n + 1) = SharesOf(orders[u], 1..n) + Signed(o)
  BY SMTT(30), <1>1, <1>6, <1>8, AppendedShares DEF NothingShort
<1>10. \A v \in Users : Covered(orders'[v])
  BY <1>6, <1>9 DEF NothingShort
<1>11. OldestSettled'
  <2>1. ASSUME NEW v \in Users PROVE SettledFirst(orders'[v])
    <3>1. CASE v # u
      BY <1>6, <3>1 DEF Locked, OldestSettled
    <3>2. CASE v = u
      <4>1. SettledFirst(orders[u])
        BY <1>1 DEF Locked, OldestSettled
      <4> HIDE DEF n, u
      <4>2. ASSUME NEW i \in 1..n + 1, NEW j \in 1..n + 1, i < j, orders'[u][j].settled
            PROVE  orders'[u][i].settled
        <5>1. j \in 1..n /\ i \in 1..n
          BY <1>1, <1>2, <1>6, <4>2
        <5> QED BY <1>6, <4>1, <4>2, <5>1 DEF SettledFirst, n
      <4> QED BY <1>6, <3>2, <4>2 DEF SettledFirst
    <3> QED BY <3>1, <3>2
  <2> QED BY <2>1 DEF OldestSettled
<1>12. \A v \in Users : \A i \in 1..Len(orders[v]) :
          i \in 1..Len(orders'[v]) /\ orders'[v][i] = orders[v][i]
  <2>1. ASSUME NEW v \in Users, NEW i \in 1..Len(orders[v])
        PROVE  i \in 1..Len(orders'[v]) /\ orders'[v][i] = orders[v][i]
    <3>1. CASE v # u
      BY <1>6, <3>1
    <3>2. CASE v = u
      <4>1. i \in 1..n /\ i \in 1..n + 1
        BY <1>1, <3>2
      <4> QED BY <1>6, <3>2, <4>1
    <3> QED BY <3>1, <3>2
  <2> QED BY <2>1
<1>13. \A s \in Settlers : Flagging(s)'
  <2>1. \A s \in Settlers : settler[s].pc = "flag" => settler[s].rows \in [Users -> Seq(Order)]
    BY DEF IInv, SettlerFine, RowsRead
  <2> HIDE DEF u, n
  <2> QED BY <1>3, <1>12, <2>1 DEF Locked, Flagging
<1>14. \A q \in Requests : Grip(q)'
  <2>1. ASSUME NEW q \in Requests \ {r} PROVE Grip(q)'
    <3> DEFINE v == req[q].call.user
               kept == req[q].want \cup req[q].holds
    <3>1. req'[q] = req[q] /\ Grip(q)
      BY <1>4 DEF Locked
    <3>2. kept # {} => v \in Users
      BY <3>1, CallUsers DEF IInv, ReqFine, Grip
    <3>3. ASSUME NEW i \in kept
          PROVE  /\ i \in 1..Len(orders'[v])
                 /\ \A j \in 1..Len(orders'[v]) : j < i /\ ~orders'[v][j].settled => j \in kept
                 /\ i \in req[q].holds => ~orders'[v][i].settled
      <4>1. v \in Users /\ i \in 1..Len(orders[v]) /\ Len(orders[v]) \in Nat
        BY <3>1, <3>2, <3>3 DEF Grip, IInv, Typed
      <4>2. \A j \in 1..Len(orders'[v]) : j < i => j \in 1..Len(orders[v])
        BY <1>6, <4>1
      <4>3. /\ \A j \in 1..Len(orders[v]) : j < i /\ ~orders[v][j].settled => j \in kept
            /\ i \in req[q].holds => ~orders[v][i].settled
        BY <3>1, <3>3 DEF Grip
      <4> HIDE DEF kept, v, u, n
      <4> QED BY <1>12, <4>1, <4>2, <4>3
    <3> QED BY <3>1, <3>3 DEF Grip
  <2>2. Grip(r)'
    BY <1>4 DEF Grip
  <2> QED BY <2>1, <2>2
<1>15. OneHolder'
  <2>1. \A a \in Sessions, v \in Users, i \in Nat : Holds(a, v, i)' => Holds(a, v, i)
    BY <1>3, <1>4 DEF Holds, Sessions
  <2> QED BY <2>1 DEF Locked, OneHolder
<1>16. \A q \in Requests : Backed(q)'
  <2>1. ASSUME NEW q \in Requests \ {r}, Selling(q)
        PROVE  req[q].call.shares <= SharesOf(orders'[req[q].call.user],
                                              1..Len(orders'[req[q].call.user]))
    <3> DEFINE v == req[q].call.user
    <3>1. /\ v \in Users /\ req[q].call.shares \in Nat
          /\ req[q].call.shares <= SharesOf(orders[v], 1..Len(orders[v]))
      BY SMTT(30), <2>1, CallUsers, PaperAssumption DEF IInv, ReqFine, Selling, NothingShort, Backed
    <3>2. CASE v # u
      BY <1>6, <3>1, <3>2
    <3>3. CASE v = u
      <4>1. call.action = "BUY"
        BY <1>1, <1>3, <2>1, <3>3, OneSeller DEF Selling
      <4> HIDE DEF call, u, n
      <4>2. SharesOf(orders[u], 1..n) + Signed(o) >= SharesOf(orders[u], 1..n)
        BY <1>1, <1>2, <1>7, <4>1
      <4>3. req[q].call.shares <= SharesOf(orders[u], 1..n)
        BY <3>1, <3>3 DEF n
      <4>4. Signed(o) \in Int
        BY <1>1, OrderNumbers
      <4> DEFINE x == SharesOf(orders[u], 1..n)
                 y == SharesOf(orders'[u], 1..n + 1)
                 z == Signed(o)
      <4>5. /\ y = x + z /\ x + z >= x /\ req[q].call.shares <= x
            /\ x \in Int /\ z \in Int /\ req[q].call.shares \in Int
        BY <1>7, <1>9, <3>1, <4>2, <4>3, <4>4
      <4> HIDE DEF x, y, z
      <4>6. req[q].call.shares <= y
        BY <4>5
      <4>7. SharesOf(orders'[v], 1..Len(orders'[v])) = y
        BY <1>6, <3>3 DEF y
      <4> QED BY <4>6, <4>7
    <3> QED BY <3>2, <3>3
  <2>2. ASSUME NEW q \in Requests PROVE Backed(q)'
    BY <1>4, <2>1 DEF Backed, Selling
  <2> QED BY <2>2
<1> QED BY <1>10, <1>11, <1>13, <1>14, <1>15, <1>16 DEF Locked, NothingShort

LEMMA AbandonSettlementLocks ==
  ASSUME IInv, Locked, NothingShort, NEW s \in Settlers, AbandonSettlement(s)
  PROVE  Locked' /\ NothingShort'
<1>1. /\ \A t \in Settlers \ {s} : settler'[t] = settler[t]
      /\ settler'[s].holds = {} /\ settler'[s].pc = "refused"
      /\ UNCHANGED <<orders, req>>
  BY DEF IInv, Typed, AbandonSettlement, IdleSettler
<1>2. Flagging(s)'
  BY <1>1 DEF Flagging
<1> QED BY <1>1, <1>2, SettlerLocks

LEMMA SettleBeginLocks ==
  ASSUME IInv, Locked, NothingShort, NEW s \in Settlers, NEW verdict \in Verdicts,
         SettleBegin(s, verdict)
  PROVE  Locked' /\ NothingShort'
<1>1. /\ \A t \in Settlers \ {s} : settler'[t] = settler[t]
      /\ settler'[s].holds = settler[s].holds /\ settler'[s].pc \in {"refused", "claim"}
      /\ UNCHANGED <<orders, req>> /\ settler[s].pc = "idle"
  BY DEF IInv, Typed, SettlerType, SettleBegin
<1>2. Flagging(s)'
  BY <1>1 DEF Locked, Flagging
<1> QED BY <1>1, <1>2, SettlerLocks

LEMMA ClaimLocks ==
  ASSUME IInv, Locked, NothingShort, NEW s \in Settlers, ClaimMarket(s)
  PROVE  Locked' /\ NothingShort'
<1>1. /\ \A t \in Settlers \ {s} : settler'[t] = settler[t]
      /\ settler'[s].holds = settler[s].holds /\ settler'[s].pc = "rows"
      /\ UNCHANGED <<orders, req>> /\ settler[s].pc = "claim"
  BY DEF IInv, Typed, SettlerType, ClaimMarket
<1>2. Flagging(s)'
  BY <1>1 DEF Locked, Flagging
<1> QED BY <1>1, <1>2, SettlerLocks

LEMMA ReadOrdersLocks ==
  ASSUME IInv, Locked, NothingShort, NEW s \in Settlers, ReadOrders(s)
  PROVE  Locked' /\ NothingShort'
<1> DEFINE todo == UNION {{u} \X Unsettled(orders[u]) : u \in Users}
           due == {u \in Users : Worth(orders[u], settler[s].verdict) > 0}
<1>1. /\ settler' = [settler EXCEPT ![s].pc = "flag", ![s].rows = orders,
                                    ![s].todo = todo, ![s].due = due]
      /\ settler[s].pc = "rows" /\ UNCHANGED <<orders, req>>
  BY DEF ReadOrders
<1>2. \A row \in todo : row[1] \in Users /\ row[2] \in 1..Len(orders[row[1]])
  BY DEF Unsettled
<1> HIDE DEF todo, due
<1>3. settler[s].holds = {}
  BY <1>1 DEF Locked, Flagging
<1>4. /\ \A t \in Settlers \ {s} : settler'[t] = settler[t]
      /\ settler'[s].holds = {} /\ settler'[s].rows = orders /\ settler'[s].todo = todo
  BY <1>1, <1>3 DEF IInv, Typed, SettlerType
<1>5. Flagging(s)'
  BY <1>1, <1>2, <1>4 DEF Flagging
<1> QED BY <1>1, <1>3, <1>4, <1>5, SettlerLocks

\* A row that is flagged was nobody's.
LEMMA FlagLocks ==
  ASSUME IInv, Locked, NothingShort, NEW s \in Settlers, NEW row \in settler[s].todo,
         FlagRow(s, row[1], row[2])
  PROVE  Locked' /\ NothingShort'
<1>1. row \in Users \X Nat /\ <<row[1], row[2]>> = row /\ row[1] \in Users /\ row[2] \in Nat
  BY DEF IInv, Typed, SettlerType
<1>2. /\ \A t \in Settlers \ {s} : settler'[t] = settler[t]
      /\ settler'[s].pc = "flag" /\ settler'[s].rows = settler[s].rows
      /\ settler'[s].todo = settler[s].todo \ {row}
      /\ settler'[s].holds = settler[s].holds \cup {row}
      /\ UNCHANGED <<orders, req>> /\ settler[s].pc = "flag" /\ ~RowLocked(row[1], row[2], s)
  BY ZenonT(40), <1>1 DEF IInv, Typed, SettlerType, FlagRow
<1>3. (\A q \in Requests : Grip(q)' /\ Backed(q)') /\ OldestSettled'
  BY <1>2 DEF Locked, NothingShort, Grip, Backed, OldestSettled
<1>4. Flagging(s)'
  BY <1>2 DEF Locked, Flagging
<1>5. \A t \in Settlers : Flagging(t)'
  <2>1. ASSUME NEW t \in Settlers \ {s} PROVE Flagging(t)'
    BY SMTT(30), <1>2 DEF Locked, Flagging
  <2> QED BY <1>4, <2>1
<1>6. \A a \in Sessions, v \in Users, j \in Nat : Holds(a, v, j)' =>
         Holds(a, v, j) \/ (a = s /\ v = row[1] /\ j = row[2])
  BY <1>1, <1>2, SessionsApart DEF Holds, Sessions
<1>7. \A a \in Sessions : Holds(a, row[1], row[2]) => a = s
  BY <1>2 DEF RowLocked
<1>8. OneHolder'
  BY <1>6, <1>7 DEF Locked, OneHolder
<1>9. \A u \in Users : Covered(orders'[u])
  BY <1>2 DEF NothingShort
<1> QED BY <1>3, <1>5, <1>8, <1>9 DEF Locked, NothingShort

LEMMA CreditUserLocks ==
  ASSUME IInv, Locked, NothingShort, NEW s \in Settlers, NEW u \in Users, CreditUser(s, u)
  PROVE  Locked' /\ NothingShort'
<1>1. /\ \A t \in Settlers \ {s} : settler'[t] = settler[t]
      /\ settler'[s].pc = settler[s].pc /\ settler'[s].rows = settler[s].rows
      /\ settler'[s].todo = settler[s].todo /\ settler'[s].holds = settler[s].holds
      /\ UNCHANGED <<orders, req>>
  BY DEF IInv, Typed, SettlerType, CreditUser
<1>2. Flagging(s)'
  BY <1>1 DEF Locked, Flagging
<1> QED BY <1>1, <1>2, SettlerLocks

\* A settlement settles all that it has read and not found settled: what is left is newer.
\* None of it is a row that a close has.
LEMMA CommitSettlementLocks ==
  ASSUME IInv, Locked, NothingShort, NEW s \in Settlers, CommitSettlement(s)
  PROVE  Locked' /\ NothingShort'
<1> DEFINE flagged == settler[s].holds
           read == settler[s].rows
<1>1. /\ settler[s].pc = "flag" /\ settler[s].todo = {} /\ UNCHANGED req
      /\ settler' = [settler EXCEPT ![s] = [IdleSettler EXCEPT !.pc = "done"]]
  BY DEF CommitSettlement
<1>2. /\ orders' \in [Users -> Seq(Order)]
      /\ \A u \in Users : Len(orders'[u]) = Len(orders[u]) /\ Len(orders[u]) \in Nat
      /\ \A u \in Users : \A i \in 1..Len(orders[u]) :
            orders'[u][i].settled = (orders[u][i].settled \/ <<u, i>> \in flagged)
  BY Flagged DEF IInv, Typed
<1>3. \A u \in Users : \A i \in 1..Len(orders[u]) :
         /\ orders'[u][i].action = orders[u][i].action
         /\ orders'[u][i].shares = orders[u][i].shares
  <2>1. ASSUME NEW u \in Users, NEW i \in 1..Len(orders[u])
        PROVE  /\ orders'[u][i].action = orders[u][i].action
               /\ orders'[u][i].shares = orders[u][i].shares
    <3>1. orders'[u][i] = [orders[u][i] EXCEPT !.settled = @ \/ <<u, i>> \in flagged]
      BY DEF CommitSettlement
    <3>2. orders[u][i] \in Order
      BY DEF IInv, Typed
    <3> HIDE DEF flagged
    <3> QED BY <3>1, <3>2 DEF Order
  <2> QED BY <2>1
<1>4. \A u \in Users : orders[u] \in Seq(Order) /\ orders'[u] \in Seq(Order)
  BY <1>2 DEF IInv, Typed
<1>5. \A u \in Users : /\ Covered(orders'[u])
                       /\ SharesOf(orders'[u], 1..Len(orders'[u])) = SharesOf(orders[u], 1..Len(orders[u]))
  BY <1>2, <1>3, <1>4, FlaggedShares DEF NothingShort
<1>6. /\ \A t \in Settlers \ {s} : settler'[t] = settler[t] /\ settler[t].pc # "flag"
      /\ settler'[s].holds = {} /\ settler'[s].pc = "done"
  BY <1>1 DEF IInv, Typed, IdleSettler, SettlerFine
<1>7. \A t \in Settlers : Flagging(t)'
  BY <1>6 DEF Locked, Flagging
<1>8. OneHolder'
  <2>1. \A a \in Sessions, v \in Users, i \in Nat : Holds(a, v, i)' => Holds(a, v, i)
    BY <1>1, <1>6 DEF Holds, Sessions
  <2> QED BY <2>1 DEF Locked, OneHolder
<1>9. OldestSettled'
  <2>1. ASSUME NEW u \in Users, NEW i \in 1..Len(orders'[u]), NEW j \in 1..Len(orders'[u]),
               i < j, orders'[u][j].settled
        PROVE  orders'[u][i].settled
    <3>1. i \in 1..Len(orders[u]) /\ j \in 1..Len(orders[u]) /\ Len(orders[u]) \in Nat
      BY <1>2, <2>1
    <3>2. orders[u][j].settled \/ <<u, j>> \in flagged
      BY <1>2, <2>1, <3>1
    <3>3. CASE orders[u][j].settled
      <4>1. orders[u][i].settled
        BY <2>1, <3>1, <3>3 DEF Locked, OldestSettled, SettledFirst
      <4> QED BY <1>2, <3>1, <4>1
    <3>4. CASE <<u, j>> \in flagged /\ ~orders[u][i].settled
      <4>1. read[u] \in Seq(Order) /\ j \in 1..Len(read[u]) /\ i \in 1..Len(read[u])
        <5>1. read[u] \in Seq(Order)
          BY <1>1 DEF IInv, SettlerFine, RowsRead
        <5>2. j \in 1..Len(read[u])
          BY <1>1, <3>4 DEF Locked, Flagging
        <5> QED BY <2>1, <3>1, <5>1, <5>2
      <4>2. ~read[u][i].settled
        BY <1>1, <3>4, <4>1 DEF Locked, Flagging
      <4>3. i \in Unsettled(read[u])
        BY <4>1, <4>2 DEF Unsettled
      <4>4. <<u, i>> \in flagged
        BY <1>1, <4>3 DEF IInv, SettlerFine, RowsRead
      <4> QED BY <1>2, <3>1, <4>4
    <3>5. orders[u][i].settled => orders'[u][i].settled
      BY <1>2, <3>1
    <3> QED BY <3>2, <3>3, <3>4, <3>5
  <2> QED BY <2>1 DEF OldestSettled, SettledFirst
<1>10. \A q \in Requests : Grip(q)' /\ Backed(q)'
  <2>1. ASSUME NEW q \in Requests PROVE Grip(q)'
    <3> DEFINE v == req[q].call.user
               kept == req[q].want \cup req[q].holds
    <3>1. req'[q] = req[q] /\ Grip(q)
      BY <1>1 DEF Locked
    <3>2. kept # {} => v \in Users
      BY <3>1, CallUsers DEF IInv, ReqFine, Grip
    <3>3. ASSUME NEW i \in kept
          PROVE  /\ i \in 1..Len(orders'[v])
                 /\ \A j \in 1..Len(orders'[v]) : j < i /\ ~orders'[v][j].settled => j \in kept
                 /\ i \in req[q].holds => ~orders'[v][i].settled
      <4>1. v \in Users /\ i \in 1..Len(orders[v]) /\ Len(orders[v]) \in Nat /\ i \in Nat
        BY <3>1, <3>2, <3>3 DEF Grip, IInv, Typed
      <4>2. /\ \A j \in 1..Len(orders[v]) : j < i /\ ~orders[v][j].settled => j \in kept
            /\ i \in req[q].holds => ~orders[v][i].settled
        BY <3>1, <3>3 DEF Grip
      <4>3. i \in req[q].holds => <<v, i>> \notin flagged
        <5>1. i \in req[q].holds => Holds(q, v, i)
          BY SessionsApart DEF Holds
        <5>2. <<v, i>> \in flagged => Holds(s, v, i)
          BY DEF Holds
        <5>3. q # s /\ q \in Sessions /\ s \in Sessions
          BY SessionsApart DEF Sessions
        <5> QED BY <4>1, <5>1, <5>2, <5>3 DEF Locked, OneHolder
      <4> HIDE DEF kept, v, flagged
      <4> QED BY <1>2, <4>1, <4>2, <4>3
    <3> QED BY <3>1, <3>3 DEF Grip
  <2>2. ASSUME NEW q \in Requests PROVE Backed(q)'
    <3>1. Selling(q) => req[q].call.user \in Users
      BY CallUsers DEF IInv, ReqFine, Selling
    <3> QED BY <1>1, <1>5, <3>1 DEF NothingShort, Backed, Selling
  <2> QED BY <2>1, <2>2
<1> QED BY <1>5, <1>7, <1>8, <1>9, <1>10 DEF Locked, NothingShort

LEMMA LockedNext == IInv /\ Locked /\ NothingShort /\ ClosesLock /\ [Next]_vars => Locked' /\ NothingShort'
<1> SUFFICES ASSUME IInv, Locked, NothingShort, ClosesLock, [Next]_vars
             PROVE  Locked' /\ NothingShort'
  OBVIOUS
<1>1. ASSUME NEW r \in Requests, NEW call \in Calls, Begin(r, call)
      PROVE  Locked' /\ NothingShort'
  BY <1>1, BeginLocks
<1>2. ASSUME NEW r \in Requests, Step(r) PROVE Locked' /\ NothingShort'
  <2>1. DeadlockVictim(r) => Locked' /\ NothingShort'
    BY AbandonLocks, SessionsApart DEF DeadlockVictim
  <2> QED BY <1>2, <2>1, LookupLocks, DebitLocks, SelectLocks, ReadLocks, CreditLocks, LockLocks,
             InsertLocks, CommitLocks DEF Step
<1>3. ASSUME NEW r \in Requests, Crash(r) PROVE Locked' /\ NothingShort'
  BY <1>3, AbandonLocks DEF Crash
<1>4. ASSUME NEW s \in Settlers, NEW verdict \in Verdicts, SettleBegin(s, verdict)
      PROVE  Locked' /\ NothingShort'
  BY <1>4, SettleBeginLocks
<1>5. ASSUME NEW s \in Settlers, SettleStep(s) PROVE Locked' /\ NothingShort'
  <2>1. DeadlockVictim(s) => Locked' /\ NothingShort'
    BY AbandonSettlementLocks DEF DeadlockVictim
  <2> QED BY <1>5, <2>1, ClaimLocks, ReadOrdersLocks, FlagLocks, CreditUserLocks,
             CommitSettlementLocks DEF SettleStep
<1>6. ASSUME NEW s \in Settlers, CrashSettlement(s) PROVE Locked' /\ NothingShort'
  BY <1>6, AbandonSettlementLocks DEF CrashSettlement
<1>7. CASE UNCHANGED vars
  <2>1. OneHolder'
    BY <1>7 DEF vars, Locked, OneHolder, Holds
  <2>2. (\A r \in Requests : Grip(r)' /\ Backed(r)') /\ \A s \in Settlers : Flagging(s)'
    BY <1>7 DEF vars, Locked, NothingShort, Grip, Backed, Flagging
  <2> QED BY <1>7, <2>1, <2>2 DEF vars, Locked, NothingShort, OldestSettled
<1> QED BY <1>1, <1>2, <1>3, <1>4, <1>5, <1>6, <1>7 DEF Next

LEMMA ShortOfNothing ==
  IInv /\ NothingShort => \A u \in Users : SharesOf(orders[u], DOMAIN orders[u]) >= 0
<1> SUFFICES ASSUME IInv, NothingShort, NEW u \in Users
             PROVE  SharesOf(orders[u], DOMAIN orders[u]) >= 0
  OBVIOUS
<1>1. DOMAIN orders[u] = 1..Len(orders[u]) /\ Len(orders[u]) \in 0..Len(orders[u])
  BY DEF IInv, Typed
<1> QED BY <1>1 DEF NothingShort, Covered

\* As long as each close has a row locked when it sells, the orders of a user never sell
\* more than they buy: two closes would each have the oldest row of the other, and what a
\* settlement leaves open is newer than all it settled.
THEOREM SharesSuffice == Spec => NeverOversold
<1>1. Init => IInv /\ Locked /\ NothingShort
  BY InitInv, LockedInit
<1>2. IInv /\ Locked /\ NothingShort /\ ClosesLock /\ [Next]_vars
         => IInv' /\ Locked' /\ NothingShort'
  BY NextInv, LockedNext
<1>3. IInv /\ NothingShort => \A u \in Users : SharesOf(orders[u], DOMAIN orders[u]) >= 0
  BY ShortOfNothing
<1> QED BY <1>1, <1>2, <1>3, PTL DEF Spec, NeverOversold

\* Before there is any settlement, a user who has traded has rows to lock, and a close has
\* or awaits one.
Lockable ==
    /\ \A u \in Users : orders[u] # <<>> /\ \A i \in 1..Len(orders[u]) : ~orders[u][i].settled
    /\ \A r \in Requests : req[r].pc = "lock" => req[r].want \cup req[r].holds # {}
    /\ ClosesLock

Grips == \A r \in Requests : Grip(r)

LEMMA OthersLock ==
  ASSUME IInv, Lockable, NEW r \in Requests,
         \A q \in Requests \ {r} : req'[q] = req[q], UNCHANGED orders,
         req'[r].pc = "lock" => req'[r].want \cup req'[r].holds # {},
         req'[r].pc \in {"credit", "insert", "commit"} /\ req'[r].call.action = "SELL" =>
            req'[r].holds # {}
  PROVE  Lockable'
  BY DEF Lockable, ClosesLock

LEMMA LockableStep ==
  ASSUME IInv, Grips, Lockable, NEW r \in Requests, Step(r)
  PROVE  Lockable'
<1>1. ASSUME NEW pc \in {"refused", "replayed"}, Abandon(r, pc) PROVE Lockable'
  BY <1>1, OthersLock DEF IInv, Typed, Abandon, Ended, IdleReq
<1>2. CASE Lookup(r)
  BY <1>2, OthersLock DEF IInv, Typed, ReqType, Lookup
<1>3. CASE Debit(r)
  <2>1. /\ \A q \in Requests \ {r} : req'[q] = req[q]
        /\ req'[r].pc \in {"insert", "refused"} /\ req'[r].call = req[r].call
        /\ UNCHANGED orders
    BY <1>3 DEF IInv, Typed, ReqType, Debit, Refuse
  <2>2. req[r].call.action = "BUY"
    BY <1>3 DEF Grips, Grip, Debit
  <2> QED BY <2>1, <2>2, OthersLock
<1>4. CASE SelectForUpdate(r)
  <2>1. req[r].call.user \in Users
    BY <1>4, CallUsers DEF IInv, ReqFine, SelectForUpdate
  <2>2. Wanted(orders[req[r].call.user]) # {}
    <3>1. orders[req[r].call.user] \in Seq(Order) /\ orders[req[r].call.user] # <<>>
      BY <2>1 DEF IInv, Typed, Lockable
    <3>2. 1 \in 1..Len(orders[req[r].call.user])
      BY <3>1
    <3> QED BY <2>1, <3>2 DEF Lockable, Wanted, Unsettled
  <2> QED BY <1>4, <2>2, OthersLock DEF IInv, Typed, ReqType, SelectForUpdate
<1>5. CASE ReadPosition(r)
  <2>1. /\ \A q \in Requests \ {r} : req'[q] = req[q]
        /\ req'[r].pc = "refused" \/ (req'[r].pc = "credit" /\ req'[r].holds = req[r].holds)
        /\ UNCHANGED orders
    BY <1>5 DEF IInv, Typed, ReqType, ReadPosition, Ended, IdleReq
  <2>2. req[r].holds # {}
    BY <1>5 DEF ReadPosition, Lockable
  <2> QED BY <2>1, <2>2, OthersLock
<1>6. CASE Credit(r)
  <2>1. /\ \A q \in Requests \ {r} : req'[q] = req[q]
        /\ req'[r].pc = "insert" /\ req'[r].call = req[r].call /\ req'[r].holds = req[r].holds
        /\ UNCHANGED orders
    BY <1>6 DEF IInv, Typed, ReqType, Credit
  <2>2. req[r].call.action = "SELL" => req[r].holds # {}
    BY <1>6 DEF Credit, Lockable, ClosesLock
  <2> QED BY <2>1, <2>2, OthersLock
<1>7. ASSUME NEW i \in req[r].want, LockRow(r, i) PROVE Lockable'
  <2>1. req[r].call.user \in Users /\ ~orders[req[r].call.user][i].settled
    BY <1>7, CallUsers DEF IInv, ReqFine, Grips, Grip, LockRow, Lockable
  <2> QED BY <1>7, <2>1, OthersLock DEF IInv, Typed, ReqType, LockRow
<1>8. CASE Insert(r)
  <2>1. CASE KeyTaken(req[r].call.user, req[r].call.key)
    BY <1>1, <1>8, <2>1 DEF Insert
  <2>2. CASE ~KeyTaken(req[r].call.user, req[r].call.key)
    <3>1. /\ \A q \in Requests \ {r} : req'[q] = req[q]
          /\ req'[r].pc = "commit" /\ req'[r].call = req[r].call /\ req'[r].holds = req[r].holds
          /\ UNCHANGED orders
      BY <1>8, <2>2 DEF IInv, Typed, ReqType, Insert
    <3>2. req[r].call.action = "SELL" => req[r].holds # {}
      BY <1>8 DEF Insert, Lockable, ClosesLock
    <3> QED BY <3>1, <3>2, OthersLock
  <2> QED BY <2>1, <2>2
<1>9. CASE Commit(r)
  <2> DEFINE u == req[r].call.user
             o == NewOrder(req[r].call)
  <2>1. /\ u \in Users /\ orders[u] \in Seq(Order) /\ o.settled = FALSE
        /\ o \in Order
    <3>1. req[r].call \in Calls /\ u \in Users /\ orders[u] \in Seq(Order)
      BY <1>9, CallUsers DEF IInv, Typed, ReqFine, Commit
    <3>2. o \in Order
      BY <3>1, PaperAssumption DEF NewOrder, Order
    <3> QED BY <3>1, <3>2 DEF NewOrder
  <2>2. /\ orders' = [orders EXCEPT ![u] = Append(orders[u], o)]
        /\ req' = [req EXCEPT ![r] = Ended(r, "done")]
    BY <1>9 DEF Commit
  <2> HIDE DEF o
  <2>3. \A v \in Users : orders'[v] # <<>> /\ \A i \in 1..Len(orders'[v]) : ~orders'[v][i].settled
    <3>1. ASSUME NEW v \in Users
          PROVE  orders'[v] # <<>> /\ \A i \in 1..Len(orders'[v]) : ~orders'[v][i].settled
      <4>1. CASE v # u
        BY <2>2, <4>1 DEF IInv, Typed, Lockable
      <4>2. CASE v = u
        <5>1. /\ orders'[u] = Append(orders[u], o) /\ Len(orders'[u]) = Len(orders[u]) + 1
              /\ Len(orders[u]) \in Nat /\ orders'[u][Len(orders[u]) + 1] = o
              /\ \A i \in 1..Len(orders[u]) : orders'[u][i] = orders[u][i]
          BY <2>1, <2>2 DEF IInv, Typed
        <5>2. \A i \in 1..Len(orders[u]) : ~orders[u][i].settled
          BY <2>1 DEF Lockable
        <5>3. Append(orders[u], o) # <<>>
          BY <2>1, AppendProperties
        <5> HIDE DEF u
        <5>4. \A i \in 1..Len(orders[u]) + 1 : i \in 1..Len(orders[u]) \/ i = Len(orders[u]) + 1
          BY <5>1
        <5>5. orders'[u] # <<>>
          BY <5>1, <5>3
        <5>6. \A i \in 1..Len(orders'[u]) : ~orders'[u][i].settled
          BY <2>1, <5>1, <5>2, <5>4
        <5> QED BY <4>2, <5>5, <5>6
      <4> QED BY <4>1, <4>2
    <3> QED BY <3>1
  <2>4. (\A q \in Requests \ {r} : req'[q] = req[q]) /\ req'[r].pc = "done"
    BY <2>2 DEF IInv, Typed, Ended, IdleReq
  <2> QED BY <2>3, <2>4 DEF Lockable, ClosesLock
<1>10. CASE DeadlockVictim(r)
  BY <1>1, <1>10, SessionsApart DEF DeadlockVictim
<1> QED BY <1>2, <1>3, <1>4, <1>5, <1>6, <1>7, <1>8, <1>9, <1>10 DEF Step

LEMMA LockableNext ==
  ASSUME Settlers = {}, IInv, Grips, Lockable, [Next]_vars
  PROVE  Lockable'
<1>1. ASSUME NEW r \in Requests, NEW call \in Calls, Begin(r, call) PROVE Lockable'
  BY <1>1, OthersLock DEF IInv, Typed, ReqType, Begin
<1>2. ASSUME NEW r \in Requests, Crash(r) PROVE Lockable'
  BY <1>2, OthersLock DEF IInv, Typed, Crash, Abandon, Ended, IdleReq
<1>3. CASE UNCHANGED vars
  BY <1>3 DEF vars, Lockable, ClosesLock
<1> QED BY <1>1, <1>2, <1>3, LockableStep DEF Next

\* A market that is not settled: users who have traded in it never sell more than they
\* bought, however many closes and buys race, crash or are repeated.
THEOREM UnsettledSharesSuffice ==
  ASSUME Settlers = {}, \A u \in Users : SeedOrders[u] # <<>>
  PROVE  Spec => [](\A u \in Users : SharesOf(orders[u], DOMAIN orders[u]) >= 0)
<1>1. Init => IInv /\ Locked /\ NothingShort
  BY InitInv, LockedInit
<1>2. Init => Lockable
  BY PaperAssumption DEF Init, Lockable, ClosesLock, IdleReq
<1>3. Locked => Grips
  BY DEF Locked, Grips
<1>4. Lockable => ClosesLock
  BY DEF Lockable
<1>5. IInv /\ Locked /\ NothingShort /\ Lockable /\ [Next]_vars
         => IInv' /\ Locked' /\ NothingShort' /\ Lockable'
  BY <1>3, <1>4, NextInv, LockedNext, LockableNext
<1>6. IInv /\ NothingShort => \A u \in Users : SharesOf(orders[u], DOMAIN orders[u]) >= 0
  BY ShortOfNothing
<1> QED BY <1>1, <1>2, <1>5, <1>6, PTL DEF Spec

-------------------------------------------------------------------------------------
(* Streams, and MCPaperStreams, where a stream runs while no paper is traded.      *)

LEMMA StreamStarts == StreamInit => StreamTypeOK
  BY StreamAssumption DEF StreamInit, StreamTypeOK

LEMMA StreamSteps == StreamTypeOK /\ [StreamNext]_streamVars => StreamTypeOK'
<1> SUFFICES ASSUME StreamTypeOK, [StreamNext]_streamVars PROVE StreamTypeOK'
  OBVIOUS
<1> USE StreamAssumption DEF StreamTypeOK, Environment
<1>1. CASE ReadMapping \/ ReadFails \/ LookAgain
  BY <1>1 DEF ReadMapping, ReadFails, LookAgain
<1>2. CASE Connect \/ DelayOver \/ Restart \/ Cancel
  BY <1>2 DEF Connect, DelayOver, Restart, AfterCrash, Cancel
<1>3. CASE SessionFails
  BY <1>3 DEF SessionFails, Overflows
<1>4. CASE Mirror \/ Outage
  BY <1>4 DEF Mirror, Outage
<1>5. CASE UNCHANGED streamVars
  BY <1>5 DEF streamVars
<1> QED BY <1>1, <1>2, <1>3, <1>4, <1>5 DEF StreamNext

\* A market stream is in one of its states, subscribed to listings of its venue, and its
\* backoff stops counting at the exponent no float can hold: next_delay() raises there,
\* and the restart guard in main.py begins with a new backoff.
THEOREM StreamTyped == StreamSpec => []StreamTypeOK
  BY StreamStarts, StreamSteps, PTL DEF StreamSpec

\* Taken together, too, the ledger and the stream keep their types: neither's steps touch
\* what the other keeps.
THEOREM LiveTyped == LiveSpec => []LiveTypeOK
<1>1. LiveInit => IInv /\ Cashes /\ StreamTypeOK
  <2>1. NoStream => StreamTypeOK
    BY StreamAssumption DEF NoStream, StreamTypeOK
  <2> QED BY <2>1, InitInv, CashesInit, StreamStarts DEF LiveInit
<1>2. [LiveNext]_liveVars => [Next]_vars /\ [StreamNext]_streamVars
  <2>1. liveVars' = liveVars => vars' = vars /\ streamVars' = streamVars
    BY DEF liveVars
  <2> QED BY <2>1 DEF LiveNext
<1>3. IInv /\ Cashes /\ StreamTypeOK /\ [LiveNext]_liveVars
         => IInv' /\ Cashes' /\ StreamTypeOK'
  BY <1>2, NextInv, CashesNext, StreamSteps
<1>4. IInv /\ Cashes /\ StreamTypeOK => LiveTypeOK
  BY DEF IInv, Typed, Cashes, TypeOK, LiveTypeOK
<1> QED BY <1>1, <1>3, <1>4, PTL DEF LiveSpec

=====================================================================================

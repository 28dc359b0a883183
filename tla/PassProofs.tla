-------------------------------- MODULE PassProofs ----------------------------------
(***********************************************************************************)
(* What several passes of a worker, or several sessions of a service, do to the    *)
(* same rows, for any number of them.                                              *)
(*                                                                                 *)
(* OncePerWindow of PredictionWriter, for any markets, processes, batch size and   *)
(* window: the row locks carry the proof.  A pass that has looked for recent rows  *)
(* of a market holds the market's row until it ends, so nobody can log that market *)
(* in between and what it saw is still true when it commits.                       *)
(*                                                                                 *)
(* OrdersHaveEntries of PodRunner, for any markets and passes: the keys carry it.  *)
(* A key is a count of entries that only grows after it was taken, so the keys of  *)
(* a market are different numbers none of which is above the count of its entries. *)
(*                                                                                 *)
(* AlarmsAreEarned of Scanners, for any editors, specs and bounds: every run is a  *)
(* row of its own, so an alarm can be paid for with the failure that raised it.    *)
(*                                                                                 *)
(* ForecastArena, for any users, passes, resolvers, requests and times: what was   *)
(* locked in time is scored, once, and the model never forecasts what is known;    *)
(* both rest on who holds the market row.  And the locks of a forecaster are a     *)
(* chain, which rests on the unique numbers alone.                                 *)
(***********************************************************************************)
EXTENDS PredictionWriter, PodRunner, Scanners, ForecastArena, FiniteSetTheorems,
        SequenceTheorems, TLAPS

(* PredictionWriter.                                                               *)

(* The prediction writer.                                                          *)

Selecting(r) == runs[r].at \in {"selected", "predicted"}

\* A pass holds the rows it selected.
HoldsItsRows ==
    \A r \in Runs : Selecting(r) => \A s \in runs[r].rows : rowOf[s] = r

\* What a pass is about to write has no row in the window of its `now`.
WritesAreFresh ==
    \A r \in Runs : runs[r].at = "predicted" =>
        \A s \in runs[r].write :
            s \in runs[r].rows /\ ~Recent(s, runs[r].now)

WriterInv == WriterTypeOK /\ HoldsItsRows /\ WritesAreFresh /\ OncePerWindow

\* The SELECT returns markets of the table whose rows are free.
LEMMA SelectedFree == \A s \in Selected : s \in Listed /\ Free(s)
  BY DEF Selected, Listed

LEMMA WriterInitInv == WriterInit => WriterInv
  BY DEF WriterInit, WriterInv, WriterTypeOK, HoldsItsRows, WritesAreFresh, OncePerWindow,
         Selecting, NotRunning

LEMMA StartInv ==
  ASSUME WriterInv, NEW r \in Runs, StartRun(r)
  PROVE  WriterInv'
<1>1. WriterTypeOK'
  BY DEF WriterInv, WriterTypeOK, StartRun, NotRunning
<1>2. HoldsItsRows'
  BY DEF WriterInv, WriterTypeOK, StartRun, NotRunning, HoldsItsRows, Selecting
<1>3. WritesAreFresh'
  BY DEF WriterInv, WriterTypeOK, StartRun, NotRunning, WritesAreFresh, Recent
<1>4. OncePerWindow'
  BY DEF WriterInv, StartRun, OncePerWindow
<1> QED BY <1>1, <1>2, <1>3, <1>4 DEF WriterInv

\* Rows others hold are not free, so selecting takes none of them.
LEMMA SelectInv ==
  ASSUME WriterInv, NEW r \in Runs, SelectMarkets(r)
  PROVE  WriterInv'
<1> USE DEF WriterInv
<1>1. WriterTypeOK'
  BY ZenonT(40), SelectedFree DEF WriterTypeOK, SelectMarkets
<1>2. HoldsItsRows'
  <2> SUFFICES ASSUME NEW q \in Runs, Selecting(q)', NEW s \in (runs[q].rows)'
               PROVE  rowOf'[s] = q
    BY DEF HoldsItsRows
  <2>1. CASE q = r
    BY <2>1, SelectedFree DEF WriterTypeOK, SelectMarkets
  <2>2. CASE q # r
    <3>1. rowOf[s] = q /\ s \in Listed
      BY <2>2 DEF HoldsItsRows, Selecting, WriterTypeOK, SelectMarkets
    <3>2. s \notin Selected
      BY <3>1, SelectedFree, WriterAssumption DEF Free
    <3> QED BY <3>1, <3>2 DEF SelectMarkets
  <2> QED BY <2>1, <2>2
<1>3. WritesAreFresh'
  BY DEF WriterTypeOK, SelectMarkets, WritesAreFresh, Recent
<1>4. OncePerWindow'
  BY DEF SelectMarkets, OncePerWindow
<1> QED BY <1>1, <1>2, <1>3, <1>4

LEMMA PredictInv ==
  ASSUME WriterInv, NEW r \in Runs, Predict(r)
  PROVE  WriterInv'
<1> USE DEF WriterInv
<1> PICK predicted \in SUBSET {s \in runs[r].rows : ~Recent(s, runs[r].now)} :
           runs' = [runs EXCEPT ![r].at = "predicted", ![r].write = predicted]
  BY DEF Predict
<1>1. WriterTypeOK'
  <2>1. predicted \subseteq runs[r].rows /\ runs[r].rows \subseteq Listed
    BY DEF WriterTypeOK
  <2>2. UNCHANGED <<ticks, tradable, logged, rowOf>>
    BY DEF Predict
  <2> QED BY ZenonT(40), <2>1, <2>2 DEF WriterTypeOK
<1>2. HoldsItsRows'
  BY DEF WriterTypeOK, Predict, HoldsItsRows, Selecting
<1>3. WritesAreFresh'
  BY DEF WriterTypeOK, Predict, WritesAreFresh, Recent
<1>4. OncePerWindow'
  BY DEF Predict, OncePerWindow
<1> QED BY <1>1, <1>2, <1>3, <1>4

\* The rows a pass logs are for markets it holds: nobody else is about to log them, and
\* all older rows are more than a window old.
LEMMA CommitRunInv ==
  ASSUME WriterInv, NEW r \in Runs, CommitRun(r)
  PROVE  WriterInv'
<1> USE DEF WriterInv
<1> DEFINE new == [slug : runs[r].write, at : {runs[r].now}, by : {r}]
<1>0. /\ logged' = logged \cup new
      /\ runs[r].write \subseteq Listed /\ runs[r].now \in Nat
      /\ \A s \in runs[r].write : s \in runs[r].rows /\ rowOf[s] = r
      /\ \A s \in runs[r].write : ~Recent(s, runs[r].now)
  BY DEF WriterTypeOK, CommitRun, WritesAreFresh, HoldsItsRows, Selecting
<1>1. WriterTypeOK'
  BY <1>0 DEF WriterTypeOK, CommitRun, NotRunning, Unlocked
<1>2. HoldsItsRows'
  BY DEF WriterTypeOK, CommitRun, NotRunning, Unlocked, HoldsItsRows, Selecting
<1>3. WritesAreFresh'
  <2> SUFFICES ASSUME NEW q \in Runs, (runs[q].at = "predicted")',
                      NEW s \in (runs[q].write)'
               PROVE  (s \in runs[q].rows /\ ~Recent(s, runs[q].now))'
    BY DEF WritesAreFresh
  <2>1. q # r /\ runs'[q] = runs[q] /\ runs[q].at = "predicted" /\ s \in runs[q].write
    BY DEF WriterTypeOK, CommitRun, NotRunning
  <2>2. s \in runs[q].rows /\ rowOf[s] = q /\ ~Recent(s, runs[q].now)
    BY <2>1 DEF WritesAreFresh, HoldsItsRows, Selecting
  <2>3. \A p \in new : p.slug # s
    BY <1>0, <2>1, <2>2
  <2> QED BY <1>0, <2>1, <2>2, <2>3 DEF Recent
<1>4. OncePerWindow'
  <2> SUFFICES ASSUME NEW p \in logged', NEW q \in logged', p.slug = q.slug, p # q
               PROVE  p.at - q.at > RecencySec \/ q.at - p.at > RecencySec
    BY DEF OncePerWindow
  <2>1. \A x \in logged : x.at \in Nat
    BY DEF WriterTypeOK
  <2>2. \A x \in new : x.slug \in runs[r].write /\ x.at = runs[r].now /\ x.by = r
    OBVIOUS
  <2>3. \A x \in logged, y \in new : x.slug = y.slug => y.at - x.at > RecencySec
    <3> TAKE x \in logged, y \in new
    <3> HAVE x.slug = y.slug
    <3>1. ~(x.at >= runs[r].now - RecencySec)
      BY <1>0, <2>2 DEF Recent
    <3> QED BY <1>0, <2>1, <2>2, <3>1, WriterAssumption
  <2>4. CASE p \in logged /\ q \in logged
    BY <2>4 DEF OncePerWindow
  <2>5. CASE p \in logged /\ q \in new
    BY <2>5, <2>3
  <2>6. CASE p \in new /\ q \in logged
    BY <2>6, <2>3
  <2>7. CASE p \in new /\ q \in new
    BY <2>7
  <2> QED BY <1>0, <2>4, <2>5, <2>6, <2>7
<1> QED BY <1>1, <1>2, <1>3, <1>4

LEMMA FailInv ==
  ASSUME WriterInv, NEW r \in Runs, FailRun(r)
  PROVE  WriterInv'
<1> USE DEF WriterInv
<1>1. WriterTypeOK'
  BY DEF WriterTypeOK, FailRun, NotRunning, Unlocked
<1>2. HoldsItsRows'
  BY DEF WriterTypeOK, FailRun, NotRunning, Unlocked, HoldsItsRows, Selecting
<1>3. WritesAreFresh'
  BY DEF WriterTypeOK, FailRun, NotRunning, WritesAreFresh, Recent
<1>4. OncePerWindow'
  BY DEF FailRun, OncePerWindow
<1> QED BY <1>1, <1>2, <1>3, <1>4

\* The clock, closing a market and stuttering touch nothing the other conjuncts read.
LEMMA WorldInv ==
  ASSUME WriterInv, WriterClock \/ (\E s \in Listed : ChangeStatus(s)) \/ UNCHANGED writerVars
  PROVE  WriterInv'
<1>1. WriterTypeOK'
  BY WriterAssumption DEF WriterInv, WriterTypeOK, WriterClock, ChangeStatus, writerVars
<1>2. UNCHANGED <<logged, rowOf, runs>>
  BY DEF WriterClock, ChangeStatus, writerVars
<1>3. HoldsItsRows' /\ WritesAreFresh' /\ OncePerWindow'
  BY <1>2 DEF WriterInv, HoldsItsRows, Selecting, WritesAreFresh, Recent, OncePerWindow
<1> QED BY <1>1, <1>3 DEF WriterInv

\* The invariant holds of every behaviour of the writer.
THEOREM WriterInvariance == WriterSpec => []WriterInv
<1>1. WriterInv /\ [WriterNext]_writerVars => WriterInv'
  BY StartInv, SelectInv, PredictInv, CommitRunInv, FailInv, WorldInv DEF WriterNext, RunNext
<1> QED BY WriterInitInv, <1>1, PTL DEF WriterSpec

\* The writer keeps its types.
THEOREM Typed == WriterSpec => []WriterTypeOK
  BY WriterInvariance, PTL DEF WriterInv

\* prediction_writer.py: two passes never log one market twice within a window.
THEOREM NoDoubleWrite == WriterSpec => []OncePerWindow
  BY WriterInvariance, PTL DEF WriterInv

-------------------------------------------------------------------------------------
(* The pod runner.                                                                 *)

Underway == {"keyed", "unplaced", "reserved", "placed"}

NumEntered(m) == Len(entered[m])
Own(rec, m) == Len(rec.entries[m])

\* What a pass in state `rec` may have: no key ahead of the entries it sees, no entry
\* that does not name an order it sees.
Sound(rec) ==
    /\ \A o \in rec.mine : o.entry <= NumEntered(o.market) + Own(rec, o.market)
    /\ rec.at \in Underway =>
          /\ rec.next <= Len(Traded)
          /\ rec.holds[Traded[rec.next]] > 0
          /\ rec.entry <= NumEntered(Traded[rec.next]) + Own(rec, Traded[rec.next])
    /\ rec.at = "placed" =>
          [market |-> Traded[rec.next], entry |-> rec.entry] \in podOrders \cup rec.mine
    /\ \A m \in TradedMarkets : \A i \in 1..Own(rec, m) :
          [market |-> m, entry |-> rec.entries[m][i]] \in podOrders \cup rec.mine

\* The same of what is committed.
CommittedSound ==
    /\ \A o \in podOrders : o.entry <= NumEntered(o.market)
    /\ \A m \in TradedMarkets : \A i \in 1..NumEntered(m) :
          [market |-> m, entry |-> entered[m][i]] \in podOrders

PodInv == PodTypeOK /\ CommittedSound /\ \A p \in PodPasses : Sound(podPass[p])

LEMMA TradedAt ==
  ASSUME NEW i \in 1..(Len(Traded) + 1), i <= Len(Traded)
  PROVE  Traded[i] \in TradedMarkets /\ i + 1 \in 1..(Len(Traded) + 1)
<1>1. Len(Traded) \in Nat /\ DOMAIN Traded = 1..Len(Traded)
  BY PodAssumption, LenProperties
<1> QED BY <1>1 DEF TradedMarkets

LEMMA CountIsNat ==
  ASSUME PodTypeOK, NEW m \in TradedMarkets
  PROVE  NumEntered(m) \in Nat /\ entered[m] \in Seq(Nat)
<1>1. entered[m] \in Seq(Nat)
  BY DEF PodTypeOK
<1> QED BY <1>1, LenProperties DEF NumEntered

LEMMA LenIsNat ==
  ASSUME NEW rec \in PassRecord, NEW m \in TradedMarkets
  PROVE  Own(rec, m) \in Nat /\ rec.entries[m] \in Seq(Nat)
<1>1. rec.entries[m] \in Seq(Nat)
  BY DEF PassRecord
<1> QED BY <1>1, LenProperties DEF Own

\* An idle pass, and one that lost its transaction, are sound.
LEMMA IdleSound ==
  ASSUME NEW at \in {"idle", "emptied"}
  PROVE  LET rec == [NotPassing EXCEPT !.at = at] IN rec \in PassRecord /\ Sound(rec)
<1> DEFINE rec == [NotPassing EXCEPT !.at = at]
<1>1. /\ rec.at = at /\ rec.next = 1 /\ rec.entry = 0 /\ rec.mine = {}
      /\ rec.holds = NoRows /\ rec.entries = NoEntries
      /\ rec = [at |-> at, next |-> 1, entry |-> 0, mine |-> {},
                holds |-> NoRows, entries |-> NoEntries]
  BY DEF NotPassing
<1>2. 1 \in 1..(Len(Traded) + 1)
  BY PodAssumption, LenProperties
<1>3. NoRows \in [TradedMarkets -> Nat] /\ NoEntries \in [TradedMarkets -> Seq(Nat)]
  BY DEF NoRows, NoEntries
<1> HIDE DEF rec
<1>4. rec \in PassRecord
  <2>1. at \in {"idle", "market", "keyed", "unplaced", "reserved", "placed", "emptied"}
    OBVIOUS
  <2>2. {} \in SUBSET OrderKey /\ 0 \in Nat
    OBVIOUS
  <2> QED BY <1>1, <1>2, <1>3, <2>1, <2>2 DEF PassRecord
<1>5. \A m \in TradedMarkets : \A i \in 1..Own(rec, m) : FALSE
  BY <1>1 DEF NoEntries, Own
<1>6. Sound(rec)
  BY <1>1, <1>5 DEF Sound, Underway
<1> QED BY <1>4, <1>6 DEF rec

LEMMA NotPassingSound == NotPassing \in PassRecord /\ Sound(NotPassing)
<1>1. NotPassing = [NotPassing EXCEPT !.at = "idle"]
  BY DEF NotPassing
<1> QED BY <1>1, IdleSound

LEMMA PodInitInv == PodInit => PodInv
<1> SUFFICES ASSUME PodInit PROVE PodInv
  OBVIOUS
<1>1. PodTypeOK
  BY NotPassingSound DEF PodInit, PodTypeOK, NoRows, NoEntries
<1>2. CommittedSound
  BY DEF PodInit, CommittedSound, NoEntries, NumEntered
<1>3. \A p \in PodPasses : Sound(podPass[p])
  BY NotPassingSound DEF PodInit
<1> QED BY <1>1, <1>2, <1>3 DEF PodInv

\* A step that commits nothing concerns one pass and perhaps the lock.
LEMMA OwnStep ==
  ASSUME PodInv, NEW p \in PodPasses, NEW rec \in PassRecord, Sound(rec),
         podPass' = [podPass EXCEPT ![p] = rec],
         accountOf' \in PodPasses \cup {NoPass}, UNCHANGED <<podOrders, held, entered>>
  PROVE  PodInv'
<1>1. PodTypeOK'
  BY DEF PodInv, PodTypeOK
<1>2. CommittedSound'
  BY DEF PodInv, CommittedSound, NumEntered
<1>3. \A q \in PodPasses : podPass'[q] = IF q = p THEN rec ELSE podPass[q]
  BY DEF PodInv, PodTypeOK
<1>4. \A q \in PodPasses : Sound(podPass'[q])
  BY <1>3 DEF PodInv
<1>5. \A q \in PodPasses : (Sound(podPass[q]))'
  BY <1>4 DEF Sound, NumEntered
<1> QED BY <1>1, <1>2, <1>5 DEF PodInv

\* What every action finds.
LEMMA PassBefore ==
  ASSUME PodInv, NEW p \in PodPasses
  PROVE  /\ podPass[p] \in PassRecord /\ Sound(podPass[p])
         /\ accountOf \in PodPasses \cup {NoPass} /\ p \in PodPasses \cup {NoPass}
         /\ AccountLeft(p) \in PodPasses \cup {NoPass}
  BY DEF PodInv, PodTypeOK, AccountLeft

\* Steps that only move a pass on.
LEMMA MoveInv ==
  ASSUME PodInv, NEW p \in PodPasses,
         \/ StartPass(p) \/ PassOver(p) \/ ReserveFunds(p) \/ SwallowFailure(p)
         \/ LookUpKey(p)
  PROVE  PodInv'
<1> DEFINE old == podPass[p]
<1>0. old \in PassRecord /\ Sound(old)
  BY PassBefore
<1>1. CASE StartPass(p)
  <2> DEFINE rec == [old EXCEPT !.at = "market"]
  <2>1. rec \in PassRecord /\ Sound(rec)
    BY <1>0 DEF PassRecord, Sound, Underway, Own
  <2> QED BY <1>1, <2>1, PassBefore, OwnStep DEF StartPass
<1>2. CASE PassOver(p)
  <2> DEFINE rec == [old EXCEPT !.next = @ + 1]
  <2>1. old.next \in 1..(Len(Traded) + 1) /\ old.at = "market" /\ old.next <= Len(Traded)
    BY <1>0, <1>2 DEF PassOver, AtMarket, PassRecord
  <2>2. rec \in PassRecord
    BY <1>0, <2>1, TradedAt DEF PassRecord
  <2>3. Sound(rec)
    BY <1>0, <2>1 DEF Sound, Underway, PassRecord, Own
  <2> QED BY <1>2, <2>2, <2>3, PassBefore, OwnStep DEF PassOver
<1>3. CASE ReserveFunds(p)
  <2> DEFINE rec == [old EXCEPT !.at = "reserved"]
  <2>1. rec \in PassRecord /\ Sound(rec)
    BY <1>0, <1>3 DEF PassRecord, Sound, Underway, Own, ReserveFunds
  <2> QED BY <1>3, <2>1, PassBefore, OwnStep DEF ReserveFunds
<1>4. CASE SwallowFailure(p)
  <2> DEFINE rec == [old EXCEPT !.at = "market", !.next = @ + 1]
  <2>1. old.next \in 1..(Len(Traded) + 1) /\ old.next <= Len(Traded)
    BY <1>0, <1>4 DEF SwallowFailure, PassRecord, Sound, Underway
  <2>2. rec \in PassRecord
    BY <1>0, <2>1, TradedAt DEF PassRecord
  <2>3. Sound(rec)
    BY <1>0 DEF Sound, Underway, PassRecord, Own
  <2> QED BY <1>4, <2>2, <2>3, PassBefore, OwnStep DEF SwallowFailure
<1>5. CASE LookUpKey(p)
  <2>1. CASE Key(p) \in podOrders \cup podPass[p].mine
    <3> DEFINE rec == [old EXCEPT !.at = "placed"]
    <3>1. rec \in PassRecord /\ Sound(rec)
      BY <1>0, <1>5, <2>1 DEF PassRecord, Sound, Underway, Own, LookUpKey, Key, Here
    <3> QED BY <1>5, <2>1, <3>1, PassBefore, OwnStep DEF LookUpKey
  <2>2. CASE Key(p) \notin podOrders \cup podPass[p].mine
    <3> DEFINE rec == [old EXCEPT !.at = "unplaced"]
    <3>1. rec \in PassRecord /\ Sound(rec)
      BY <1>0, <1>5 DEF PassRecord, Sound, Underway, Own, LookUpKey
    <3> QED BY <1>5, <2>2, <3>1, PassBefore, OwnStep DEF LookUpKey
  <2> QED BY <2>1, <2>2
<1> QED BY <1>1, <1>2, <1>3, <1>4, <1>5

LEMMA LoseInv ==
  ASSUME PodInv, NEW p \in PodPasses, LosePodPass(p)
  PROVE  PodInv'
  BY NotPassingSound, PassBefore, OwnStep DEF LosePodPass

LEMMA HoldInv ==
  ASSUME PodInv, NEW p \in PodPasses, HoldMarket(p)
  PROVE  PodInv'
<1> DEFINE old == podPass[p]
           m   == Here(p)
           rec == [old EXCEPT !.holds[m] = @ + 1, !.next = @ + 1]
<1>0. old \in PassRecord /\ Sound(old) /\ old.at = "market"
  BY PassBefore DEF HoldMarket, AtMarket
<1>1. old.next \in 1..(Len(Traded) + 1) /\ old.next <= Len(Traded)
  BY <1>0 DEF HoldMarket, AtMarket, PassRecord
<1>2. m \in TradedMarkets /\ old.next + 1 \in 1..(Len(Traded) + 1)
  BY <1>1, TradedAt DEF Here
<1> HIDE DEF m
<1>6. [old.holds EXCEPT ![m] = @ + 1] \in [TradedMarkets -> Nat]
  BY SMTT(30), <1>0, <1>2 DEF PassRecord
<1>3. /\ rec.at = "market" /\ rec.entry = old.entry /\ rec.mine = old.mine
      /\ rec.entries = old.entries
  BY <1>0 DEF PassRecord
<1>4. rec \in PassRecord
  BY <1>0, <1>2, <1>6 DEF PassRecord
<1>5. Sound(rec)
  BY <1>0, <1>3 DEF Sound, Underway, Own
<1>7. /\ podPass' = [podPass EXCEPT ![p] = rec]
      /\ UNCHANGED <<podOrders, held, entered, accountOf>>
  BY DEF HoldMarket, m
<1> HIDE DEF rec
<1> QED BY <1>4, <1>5, <1>7, PassBefore, OwnStep

LEMMA DecideInv ==
  ASSUME PodInv, NEW p \in PodPasses, DecideEntry(p)
  PROVE  PodInv'
<1> DEFINE old == podPass[p]
           m   == Here(p)
           n   == EntryCount(p, m)
           rec == [old EXCEPT !.at = "keyed", !.holds[m] = @ + 1, !.entry = n]
<1>0. old \in PassRecord /\ Sound(old)
  BY PassBefore
<1>1. old.next \in 1..(Len(Traded) + 1) /\ old.next <= Len(Traded)
  BY <1>0 DEF DecideEntry, AtMarket, PassRecord
<1>2. m \in TradedMarkets /\ m = Traded[old.next]
  BY <1>1, TradedAt DEF Here
<1> HIDE DEF m
<1>3. n \in Nat /\ n = NumEntered(m) + Own(old, m)
  <2>1. n = NumEntered(m) + Own(old, m)
    BY DEF EntryCount, NumEntered, Own
  <2>2. NumEntered(m) \in Nat /\ Own(old, m) \in Nat
    BY <1>0, <1>2, CountIsNat, LenIsNat DEF PodInv
  <2> QED BY <2>1, <2>2
<1> HIDE DEF n
<1>4. /\ old.holds \in [TradedMarkets -> Nat]
      /\ [old.holds EXCEPT ![m] = @ + 1] \in [TradedMarkets -> Nat]
  BY SMTT(30), <1>0, <1>2 DEF PassRecord
<1>5. /\ rec.at = "keyed" /\ rec.entry = n /\ rec.mine = old.mine
      /\ rec.entries = old.entries /\ rec.next = old.next /\ rec.holds[m] = old.holds[m] + 1
  BY <1>0, <1>2, <1>4 DEF PassRecord
<1>6. rec \in PassRecord
  BY <1>0, <1>2, <1>3, <1>4 DEF PassRecord
<1>7. Sound(rec)
  <2>1. rec.holds[m] > 0 /\ rec.entry <= NumEntered(m) + Own(rec, m)
    BY <1>2, <1>3, <1>4, <1>5 DEF Own
  <2> HIDE DEF rec
  <2> QED BY <1>0, <1>1, <1>2, <1>5, <2>1 DEF Sound, Underway, Own
<1> HIDE DEF rec
<1>8. /\ podPass' = [podPass EXCEPT ![p] = rec]
      /\ UNCHANGED <<podOrders, held, entered, accountOf>>
  BY DEF DecideEntry, rec, n, m
<1> QED BY <1>6, <1>7, <1>8, PassBefore, OwnStep

\* The key of a new order is a count of entries, which can only have grown since.
LEMMA InsertInv ==
  ASSUME PodInv, NEW p \in PodPasses, InsertOrder(p)
  PROVE  PodInv'
<1> DEFINE old == podPass[p]
<1>0. old \in PassRecord /\ Sound(old) /\ old.at = "reserved"
  BY PassBefore DEF InsertOrder
<1>1. CASE Key(p) \in podOrders
  BY <1>1, IdleSound, PassBefore, OwnStep DEF InsertOrder
<1>2. CASE Key(p) \notin podOrders
  <2> DEFINE key == Key(p)
             rec == [old EXCEPT !.at = "placed", !.mine = @ \cup {key}]
  <2>1. /\ old.next \in 1..(Len(Traded) + 1) /\ old.next <= Len(Traded)
        /\ old.holds[Traded[old.next]] > 0
        /\ old.entry <= NumEntered(Traded[old.next]) + Own(old, Traded[old.next])
    BY <1>0 DEF Sound, Underway, PassRecord
  <2>2. key = [market |-> Traded[old.next], entry |-> old.entry] /\ key \in OrderKey
    BY <1>0, <2>1, TradedAt DEF Key, Here, OrderKey, PassRecord
  <2> HIDE DEF key
  <2>3. /\ rec.at = "placed" /\ rec.next = old.next /\ rec.entry = old.entry
        /\ rec.holds = old.holds /\ rec.entries = old.entries
        /\ rec.mine = old.mine \cup {key}
    BY <1>0 DEF PassRecord
  <2>4. rec \in PassRecord
    BY <1>0, <2>2 DEF PassRecord
  <2>5. key.entry <= NumEntered(key.market) + Own(old, key.market)
    BY <2>1, <2>2
  <2>6. Sound(rec)
    <3> HIDE DEF rec
    <3> QED BY <1>0, <2>1, <2>2, <2>3, <2>5 DEF Sound, Underway, Own
  <2> HIDE DEF rec
  <2>7. /\ podPass' = [podPass EXCEPT ![p] = rec]
        /\ UNCHANGED <<podOrders, held, entered, accountOf>>
    BY <1>2 DEF InsertOrder, rec, key
  <2> QED BY <2>4, <2>6, <2>7, PassBefore, OwnStep
<1> QED BY <1>1, <1>2

\* The new entry names the order placed or found.
LEMMA EnterInv ==
  ASSUME PodInv, NEW p \in PodPasses, EnterTrade(p)
  PROVE  PodInv'
<1> DEFINE old == podPass[p]
           m   == Here(p)
           es  == old.entries[m]
           new == Append(es, old.entry)
           rec == [old EXCEPT !.at = "market", !.next = @ + 1, !.holds[m] = @ - 1,
                              !.entries[m] = new]
<1>0. old \in PassRecord /\ Sound(old) /\ old.at = "placed"
  BY PassBefore DEF EnterTrade
<1>1. /\ old.next \in 1..(Len(Traded) + 1) /\ old.next <= Len(Traded)
      /\ m = Traded[old.next] /\ old.holds[m] > 0
      /\ [market |-> m, entry |-> old.entry] \in podOrders \cup old.mine
  BY <1>0 DEF Sound, Underway, PassRecord, Here
<1>2. m \in TradedMarkets /\ old.next + 1 \in 1..(Len(Traded) + 1)
  BY <1>1, TradedAt
<1>3. es \in Seq(Nat) /\ Len(es) \in Nat /\ old.entry \in Nat
  BY <1>0, <1>2, LenIsNat DEF PassRecord
<1>4. /\ new \in Seq(Nat) /\ Len(new) = Len(es) + 1 /\ new[Len(es) + 1] = old.entry
      /\ \A i \in 1..Len(es) : new[i] = es[i]
  <2>1. \A n \in Nat : /\ Append(es, n) \in Seq(Nat) /\ Len(Append(es, n)) = Len(es) + 1
                       /\ Append(es, n)[Len(es) + 1] = n
                       /\ \A i \in 1..Len(es) : Append(es, n)[i] = es[i]
    <3> HIDE DEF es
    <3> QED BY <1>3, AppendProperties
  <2> QED BY <1>3, <2>1
<1> HIDE DEF m
<1>5. old.holds \in [TradedMarkets -> Nat] /\ old.entries \in [TradedMarkets -> Seq(Nat)]
  BY <1>0 DEF PassRecord
<1>6. [old.holds EXCEPT ![m] = @ - 1] \in [TradedMarkets -> Nat]
  <2>1. old.holds[m] \in Nat /\ old.holds[m] > 0
    BY <1>1, <1>2, <1>5
  <2>2. old.holds[m] - 1 \in Nat
    BY <2>1
  <2> QED BY <1>5, <2>2
<1> HIDE DEF es, new
<1>7. [old.entries EXCEPT ![m] = new] \in [TradedMarkets -> Seq(Nat)]
  BY <1>2, <1>4, <1>5
<1>8. /\ rec.at = "market" /\ rec.mine = old.mine
      /\ rec.entries = [old.entries EXCEPT ![m] = new]
  BY <1>0 DEF PassRecord
<1>9. rec \in PassRecord
  BY <1>0, <1>2, <1>6, <1>7 DEF PassRecord
<1>10. \A x \in TradedMarkets : rec.entries[x] = IF x = m THEN new ELSE old.entries[x]
  BY <1>5, <1>8
<1> HIDE DEF rec
<1>11. Sound(rec)
  <2>1. \A o \in rec.mine : o.entry <= NumEntered(o.market) + Own(rec, o.market)
    <3> TAKE o \in rec.mine
    <3>1. o.market \in TradedMarkets /\ o.entry \in Nat
      BY <1>0, <1>8 DEF PassRecord, OrderKey
    <3>2. o.entry <= NumEntered(o.market) + Own(old, o.market)
      BY <1>0, <1>8 DEF Sound
    <3>3. NumEntered(o.market) \in Nat /\ Own(old, o.market) \in Nat
      BY <1>0, <3>1, CountIsNat, LenIsNat DEF PodInv
    <3>4. CASE o.market = m
      <4>1. Own(rec, o.market) = Own(old, o.market) + 1
        BY <3>1, <3>4, <1>4, <1>10 DEF es, Own
      <4> QED BY <4>1, <3>1, <3>2, <3>3
    <3>5. CASE o.market # m
      BY <3>1, <3>2, <3>5, <1>10 DEF Own
    <3> QED BY <3>4, <3>5
  <2>2. \A x \in TradedMarkets : \A i \in 1..Own(rec, x) :
            [market |-> x, entry |-> rec.entries[x][i]] \in podOrders \cup rec.mine
    <3> TAKE x \in TradedMarkets
    <3>1. CASE x # m
      BY <3>1, <1>0, <1>8, <1>10 DEF Sound, Own
    <3>2. CASE x = m
      <4> SUFFICES ASSUME NEW i \in 1..Len(new)
                   PROVE  [market |-> m, entry |-> new[i]] \in podOrders \cup old.mine
        BY <3>2, <1>8, <1>10 DEF Own
      <4>1. CASE i \in 1..Len(es)
        BY <4>1, <1>0, <1>2, <1>4 DEF Sound, es, Own
      <4>2. CASE i = Len(es) + 1
        BY <4>2, <1>1, <1>4
      <4> QED BY <4>1, <4>2, <1>3, <1>4
    <3> QED BY <3>1, <3>2
  <2> QED BY <2>1, <2>2, <1>8 DEF Sound, Underway
<1>12. /\ podPass' = [podPass EXCEPT ![p] = rec] /\ UNCHANGED <<podOrders, held, entered>>
       /\ accountOf' \in PodPasses \cup {NoPass}
  BY PassBefore DEF EnterTrade, rec, new, es, m
<1> QED BY <1>9, <1>11, <1>12, OwnStep

\* What a pass commits only adds to what the others count and see.
LEMMA CommitPassInv ==
  ASSUME PodInv, NEW p \in PodPasses, CommitPodPass(p)
  PROVE  PodInv'
<1> DEFINE old == podPass[p]
<1>0. old \in PassRecord /\ Sound(old)
  BY PassBefore
<1>1. ASSUME NEW m \in TradedMarkets
      PROVE  /\ entered'[m] = entered[m] \o old.entries[m] /\ entered'[m] \in Seq(Nat)
             /\ NumEntered(m)' = NumEntered(m) + Own(old, m)
             /\ NumEntered(m) \in Nat /\ Own(old, m) \in Nat
             /\ \A i \in 1..(NumEntered(m) + Own(old, m)) :
                   entered'[m][i] = IF i <= NumEntered(m) THEN entered[m][i]
                                    ELSE old.entries[m][i - NumEntered(m)]
  <2>1. entered'[m] = entered[m] \o old.entries[m]
    BY DEF CommitPodPass
  <2>2. /\ entered[m] \in Seq(Nat) /\ old.entries[m] \in Seq(Nat)
        /\ NumEntered(m) \in Nat /\ Own(old, m) \in Nat
    BY <1>0, CountIsNat, LenIsNat DEF PodInv
  <2>3. /\ entered[m] \o old.entries[m] \in Seq(Nat)
        /\ Len(entered[m] \o old.entries[m]) = NumEntered(m) + Own(old, m)
        /\ \A i \in 1..(NumEntered(m) + Own(old, m)) :
              (entered[m] \o old.entries[m])[i] =
                 IF i <= NumEntered(m) THEN entered[m][i] ELSE old.entries[m][i - NumEntered(m)]
    BY <2>2, ConcatProperties DEF NumEntered, Own
  <2> QED BY <2>1, <2>2, <2>3 DEF NumEntered
<1>2. \A m \in TradedMarkets :
         NumEntered(m) \in Nat /\ NumEntered(m)' \in Nat /\ NumEntered(m) <= NumEntered(m)'
  <2> TAKE m \in TradedMarkets
  <2>1. /\ NumEntered(m)' = NumEntered(m) + Own(old, m)
        /\ NumEntered(m) \in Nat /\ Own(old, m) \in Nat
    BY <1>1
  <2> QED BY <2>1
<1>3. /\ podOrders' = podOrders \cup old.mine
      /\ podPass' = [podPass EXCEPT ![p] = NotPassing]
      /\ \A q \in PodPasses : podPass'[q] = IF q = p THEN NotPassing ELSE podPass[q]
  BY DEF PodInv, PodTypeOK, CommitPodPass
<1>4. PodTypeOK'
  <2>1. entered' \in [TradedMarkets -> Seq(Nat)]
    <3>1. entered' = [m \in TradedMarkets |-> entered[m] \o old.entries[m]]
      BY DEF CommitPodPass
    <3> QED BY <3>1, <1>1
  <2>2. held' \in [TradedMarkets -> Nat]
    <3>1. held \in [TradedMarkets -> Nat] /\ old.holds \in [TradedMarkets -> Nat]
      BY <1>0 DEF PodInv, PodTypeOK, PassRecord
    <3> QED BY <3>1 DEF CommitPodPass
  <2>3. podOrders' \subseteq OrderKey
    BY <1>0, <1>3 DEF PodInv, PodTypeOK, PassRecord
  <2>4. accountOf' \in PodPasses \cup {NoPass}
    BY PassBefore DEF CommitPodPass
  <2>5. podPass' \in [PodPasses -> PassRecord]
    BY <1>3, NotPassingSound DEF PodInv, PodTypeOK
  <2> QED BY <2>1, <2>2, <2>3, <2>4, <2>5 DEF PodTypeOK
<1>5. CommittedSound'
  <2>1. \A o \in podOrders' : o.entry <= NumEntered(o.market)'
    <3> TAKE o \in podOrders'
    <3>1. o.market \in TradedMarkets /\ o.entry \in Nat
      BY <1>0, <1>3 DEF PodInv, PodTypeOK, PassRecord, OrderKey
    <3>2. CASE o \in podOrders
      <4>1. o.entry <= NumEntered(o.market)
        BY <3>2 DEF PodInv, CommittedSound
      <4> QED BY <4>1, <3>1, <1>2
    <3>3. CASE o \in old.mine
      BY <3>1, <3>3, <1>0, <1>1 DEF Sound
    <3> QED BY <3>2, <3>3, <1>3
  <2>2. ASSUME NEW m \in TradedMarkets, NEW i \in 1..NumEntered(m)'
        PROVE  [market |-> m, entry |-> entered'[m][i]] \in podOrders'
    <3>0. /\ NumEntered(m)' = NumEntered(m) + Own(old, m)
          /\ NumEntered(m) \in Nat /\ Own(old, m) \in Nat
      BY <1>1
    <3>4. i \in 1..(NumEntered(m) + Own(old, m))
      BY <3>0
    <3>5. entered'[m][i] = IF i <= NumEntered(m) THEN entered[m][i]
                           ELSE old.entries[m][i - NumEntered(m)]
      BY <3>4, <1>1
    <3>1. CASE i <= NumEntered(m)
      <4>1. i \in 1..NumEntered(m) /\ entered'[m][i] = entered[m][i]
        BY <3>0, <3>1, <3>4, <3>5
      <4> QED BY <4>1, <1>3 DEF PodInv, CommittedSound
    <3>2. CASE ~(i <= NumEntered(m))
      <4>1. /\ i - NumEntered(m) \in 1..Own(old, m)
            /\ entered'[m][i] = old.entries[m][i - NumEntered(m)]
        BY <3>0, <3>2, <3>4, <3>5
      <4> QED BY <4>1, <1>0, <1>3 DEF Sound
    <3> QED BY <3>1, <3>2
  <2>3. \A o \in podOrders' : o.entry <= NumEntered(o.market)'
    BY <2>1
  <2> QED BY <2>2, <2>3 DEF CommittedSound, NumEntered
<1>6. ASSUME NEW q \in PodPasses
      PROVE  (Sound(podPass[q]))'
  <2>1. CASE q = p
    <3>1. podPass'[q] = NotPassing
      BY <2>1, <1>3
    <3>2. \A m \in TradedMarkets : \A i \in 1..Own(NotPassing, m) : FALSE
      BY DEF NotPassing, NoEntries, Own
    <3>3. NotPassing.mine = {} /\ NotPassing.at = "idle"
      BY DEF NotPassing
    <3> QED BY <3>1, <3>2, <3>3 DEF Sound, Underway
  <2>2. CASE q # p
    <3> PICK rec : rec = podPass[q]
      OBVIOUS
    <3>0. rec \in PassRecord /\ Sound(rec) /\ podPass'[q] = rec
      BY <2>2, <1>3, PassBefore
    <3>1. ASSUME NEW m \in TradedMarkets, NEW n \in Nat, n <= NumEntered(m) + Own(rec, m)
          PROVE  n <= NumEntered(m)' + Own(rec, m)
      BY <3>0, <3>1, <1>2, LenIsNat
    <3>2. \A o \in rec.mine : o.entry <= NumEntered(o.market)' + Own(rec, o.market)
      <4> TAKE o \in rec.mine
      <4>1. o.market \in TradedMarkets /\ o.entry \in Nat
        BY <3>0 DEF PassRecord, OrderKey
      <4> QED BY <4>1, <3>0, <3>1 DEF Sound
    <3>3. rec.at \in Underway =>
             /\ rec.next <= Len(Traded) /\ rec.holds[Traded[rec.next]] > 0
             /\ rec.entry <= NumEntered(Traded[rec.next])' + Own(rec, Traded[rec.next])
      <4> HAVE rec.at \in Underway
      <4>1. /\ rec.next <= Len(Traded) /\ rec.holds[Traded[rec.next]] > 0
            /\ rec.entry <= NumEntered(Traded[rec.next]) + Own(rec, Traded[rec.next])
            /\ rec.next \in 1..(Len(Traded) + 1) /\ rec.entry \in Nat
        BY <3>0 DEF Sound, PassRecord
      <4>2. Traded[rec.next] \in TradedMarkets
        BY <4>1, TradedAt
      <4>3. rec.entry <= NumEntered(Traded[rec.next])' + Own(rec, Traded[rec.next])
        BY <4>1, <4>2, <3>1
      <4> QED BY <4>1, <4>3
    <3>4. rec.at = "placed" =>
             [market |-> Traded[rec.next], entry |-> rec.entry] \in podOrders' \cup rec.mine
      BY <3>0, <1>3 DEF Sound
    <3>5. \A m \in TradedMarkets : \A i \in 1..Own(rec, m) :
             [market |-> m, entry |-> rec.entries[m][i]] \in podOrders' \cup rec.mine
      BY <3>0, <1>3 DEF Sound
    <3> QED BY <3>0, <3>2, <3>3, <3>4, <3>5 DEF Sound, NumEntered
  <2> QED BY <2>1, <2>2
<1> QED BY <1>4, <1>5, <1>6 DEF PodInv

\* Orders of one market have different keys, none above the number of entries.
LEMMA KeysAreFew == PodInv => OrdersHaveEntries
<1> SUFFICES ASSUME PodInv, NEW m \in TradedMarkets
             PROVE  LET keys == {o.entry : o \in {q \in podOrders : q.market = m}}
                    IN  /\ Cardinality(keys) <= Len(entered[m]) + 1
                        /\ \A i \in DOMAIN entered[m] : entered[m][i] \in keys
  BY DEF OrdersHaveEntries
<1> DEFINE keys == {o.entry : o \in {q \in podOrders : q.market = m}}
           n == NumEntered(m)
<1>1. n \in Nat /\ n = Len(entered[m]) /\ DOMAIN entered[m] = 1..n
  BY CountIsNat, LenProperties DEF PodInv, NumEntered
<1>2. keys \subseteq 0..n
  <2>1. \A o \in podOrders : o.entry \in Nat /\ o.entry <= NumEntered(o.market)
    BY DEF PodInv, PodTypeOK, CommittedSound, OrderKey
  <2> QED BY <2>1, <1>1
<1>3. IsFiniteSet(0..n) /\ Cardinality(0..n) = n + 1
  <2> HIDE DEF n
  <2>1. 0 \in Int /\ n \in Int /\ ~(0 > n) /\ n - 0 + 1 = n + 1
    BY <1>1
  <2> QED BY <2>1, FS_Interval
<1>4. Cardinality(keys) <= n + 1
  <2>1. Cardinality(keys) <= Cardinality(0..n)
    BY <1>2, <1>3, FS_Subset
  <2> QED BY <2>1, <1>3
<1>5. \A i \in DOMAIN entered[m] : entered[m][i] \in keys
  <2> TAKE i \in DOMAIN entered[m]
  <2>1. [market |-> m, entry |-> entered[m][i]] \in podOrders
    BY <1>1 DEF PodInv, CommittedSound
  <2> QED BY <2>1
<1> QED BY <1>1, <1>4, <1>5

\* The invariant holds of every behaviour of the pod runner.
THEOREM PodInvariance == PodSpec => []PodInv
<1>1. PodInv /\ [PodNext]_podVars => PodInv'
  <2> SUFFICES ASSUME PodInv, [PodNext]_podVars PROVE PodInv'
    OBVIOUS
  <2>1. CASE PodNext
    BY <2>1, MoveInv, HoldInv, DecideInv, InsertInv, EnterInv, CommitPassInv, LoseInv DEF PodNext
  <2>2. CASE UNCHANGED podVars
    <3>1. UNCHANGED <<podOrders, held, entered, accountOf, podPass>>
      BY <2>2 DEF podVars
    <3> QED BY <3>1 DEF PodInv, PodTypeOK, CommittedSound, Sound, NumEntered
  <2> QED BY <2>1, <2>2
<1> QED BY PodInitInv, <1>1, PTL DEF PodSpec

\* The pod runner keeps its types.
THEOREM PodTyped == PodSpec => []PodTypeOK
  BY PodInvariance, PTL DEF PodInv

\* pods/runner.py: passes that fail, race and retry leave at most one order of a pod in a
\* market more than it has entries there, and no entry without an order.
THEOREM EntriesKeepUp == PodSpec => []OrdersHaveEntries
  BY PodInvariance, KeysAreFew, PTL

-------------------------------------------------------------------------------------
(* Scanners.  A session that is about to raise an alarm has seen three failures,   *)
(* its own among them, and its own is in no other session's log.                   *)

Statuses == {"draft", "active", "paused", "failed"}

\* The values that the saves and runs so far can have made.
RowSoFar == [spec : Specs, version : 1..saves + 1, status : Statuses]

RunSoFar == [started : 1..begun, test : BOOLEAN, ok : BOOLEAN, version : 1..saves + 1,
             spec : Specs]

\* What a session of the service has in hand.
Session ==
    {Away}
    \cup [at : {"loaded", "gated"}, task : Tasks, row : RowSoFar]
    \cup [at : {"saving"}, row : RowSoFar, spec : Specs, version : 1..saves + 2,
          archives : BOOLEAN]
    \cup [at : {"scanning"}, task : Tasks, row : RowSoFar, started : 1..begun]
    \cup [at : {"scanned"}, task : Tasks, row : RowSoFar, run : RunSoFar, trips : BOOLEAN]

Failures(log) == {r \in log : ~r.ok /\ ~r.test}

IsScanning(e) == editor[e].at \in {"scanning", "scanned"}

StartedBy(e) == IF editor[e].at = "scanning" THEN editor[e].started ELSE editor[e].run.started

ScanTypes ==
    /\ scanner \in RowSoFar /\ saves \in 0..MaxSaves /\ begun \in 0..MaxRuns
    /\ DOMAIN versions \subseteq 1..saves + 1
    /\ \A v \in DOMAIN versions : versions[v] \in Specs
    /\ runLog \subseteq RunSoFar /\ alarms \subseteq 1..begun
    /\ editor \in [Editors -> Session]

\* Every run has a start of its own.
RunsApart ==
    /\ \A e \in Editors : IsScanning(e) => \A r \in runLog : r.started # StartedBy(e)
    /\ \A e, f \in Editors :
          e # f /\ IsScanning(e) /\ IsScanning(f) => StartedBy(e) # StartedBy(f)

\* A verdict rests on three failures.
VerdictsRest ==
    \A e \in Editors :
        editor[e].at = "scanned" /\ editor[e].trips =>
            /\ ~editor[e].run.ok /\ ~editor[e].run.test
            /\ \E R \in SUBSET Failures(runLog \cup {editor[e].run}) :
                  Cardinality(R) = AlarmAfter

\* The property is not inductive without the last two: a session that judges before the
\* others commit rests on failures that are all its own or committed.
ScanInv ==
    /\ ScanTypes /\ RunsApart /\ VerdictsRest
    /\ IsFiniteSet(runLog) /\ IsFiniteSet(alarms)
    /\ AlarmsAreEarned

\* No run has been started.
LEMMA InitScan == ScannerInit => ScanInv
<1> SUFFICES ASSUME ScannerInit PROVE ScanInv
  OBVIOUS
<1>1. runLog = {} /\ alarms = {} /\ \A e \in Editors : editor[e] = Away
  BY DEF ScannerInit
<1>2. ScanTypes
  BY ScannerAssumption DEF ScannerInit, ScanTypes, RowSoFar, Statuses, Session
<1>3. RunsApart /\ VerdictsRest
  BY <1>1 DEF RunsApart, VerdictsRest, IsScanning, Away
<1>4. AlarmsAreEarned
  BY <1>1 DEF AlarmsAreEarned, ScannerInit
<1> QED BY <1>1, <1>2, <1>3, <1>4, FS_EmptySet DEF ScanInv

\* Steps of a session that neither start nor end a run nor write the row.
LEMMA QuietScan ==
  ASSUME ScanInv, NEW e \in Editors, NEW s \in Session, ~(s.at \in {"scanning", "scanned"}),
         EditorTo(e, s), UNCHANGED <<scanner, versions, runLog, alarms, begun, saves>>
  PROVE  ScanInv'
<1>1. editor' = [editor EXCEPT ![e] = s] /\ editor \in [Editors -> Session]
  BY DEF EditorTo, ScanInv, ScanTypes
<1>2. UNCHANGED <<RowSoFar, RunSoFar, Session>>
  BY DEF RowSoFar, RunSoFar, Session
<1>3. editor' \in [Editors -> Session']
  BY <1>1, <1>2
<1>4. \A f \in Editors : IsScanning(f)' => editor'[f] = editor[f] /\ IsScanning(f)
  BY <1>1 DEF IsScanning
<1>5. ScanTypes'
  BY <1>2, <1>3 DEF ScanInv, ScanTypes
<1>6. RunsApart'
  BY <1>4 DEF ScanInv, RunsApart, StartedBy
<1>7. VerdictsRest'
  BY <1>4 DEF ScanInv, VerdictsRest, IsScanning, Failures
<1>8. AlarmsAreEarned'
  BY DEF ScanInv, AlarmsAreEarned
<1> QED BY <1>5, <1>6, <1>7, <1>8 DEF ScanInv

\* A session reads the row.
LEMMA LoadScan ==
  ASSUME ScanInv, NEW e \in Editors, NEW task \in Tasks, LoadScanner(e, task)
  PROVE  ScanInv'
<1> DEFINE s == [at |-> "loaded", task |-> task, row |-> scanner]
<1>1. s \in Session /\ ~(s.at \in {"scanning", "scanned"})
  BY DEF Session, ScanInv, ScanTypes
<1>2. EditorTo(e, s) /\ UNCHANGED <<scanner, versions, runLog, alarms, begun, saves>>
  BY DEF LoadScanner
<1> HIDE DEF s
<1> QED BY <1>1, <1>2, QuietScan

\* A session is lost.
LEMMA LoseScan ==
  ASSUME ScanInv, NEW e \in Editors, LoseEditor(e)
  PROVE  ScanInv'
<1>1. Away \in Session /\ ~(Away.at \in {"scanning", "scanned"})
  BY DEF Session, Away
<1> QED BY <1>1, QuietScan DEF LoseEditor

\* What a session that has read the row knows.
LEMMA LoadedSession ==
  ASSUME ScanInv, NEW e \in Editors, editor[e].at \in {"loaded", "gated"}
  PROVE  editor[e] \in [at : {"loaded", "gated"}, task : Tasks, row : RowSoFar]
  BY DEF ScanInv, ScanTypes, Session, Away

\* A new version is numbered.
LEMMA PrepareScan ==
  ASSUME ScanInv, NEW e \in Editors, PrepareEdit(e) \/ PrepareRollback(e)
  PROVE  ScanInv'
<1>1. /\ editor[e].row \in RowSoFar
      /\ UNCHANGED <<scanner, versions, runLog, alarms, begun, saves>>
  BY LoadedSession DEF PrepareEdit, PrepareRollback, Loaded
<1>2. PICK spec \in Specs, v \in 1..saves + 2 : EditorTo(e, Saving(e, spec, v))
  <2>1. CASE PrepareEdit(e)
    <3>1. editor[e].row.version + 1 \in 1..saves + 2
      BY <1>1 DEF RowSoFar, ScanInv, ScanTypes
    <3> QED BY <2>1, <3>1 DEF PrepareEdit
  <2>2. CASE PrepareRollback(e)
    <3>1. \A v \in DOMAIN versions : v \in 1..saves + 2 /\ versions[v] \in Specs
      BY DEF ScanInv, ScanTypes
    <3> QED BY <2>2, <3>1 DEF PrepareRollback
  <2> QED BY <2>1, <2>2
<1> DEFINE s == Saving(e, spec, v)
<1>3. s \in Session /\ ~(s.at \in {"scanning", "scanned"})
  BY <1>1 DEF Session, Saving
<1> HIDE DEF s
<1> QED BY <1>1, <1>2, <1>3, QuietScan DEF s

\* The publication gate looks at the runs.
LEMMA GateScan ==
  ASSUME ScanInv, NEW e \in Editors, PassGate(e)
  PROVE  ScanInv'
<1> DEFINE s == [editor[e] EXCEPT !.at = "gated"]
<1>1. s \in Session /\ ~(s.at \in {"scanning", "scanned"})
  BY LoadedSession DEF PassGate, Loaded, Session
<1>2. EditorTo(e, s) /\ UNCHANGED <<scanner, versions, runLog, alarms, begun, saves>>
  BY DEF PassGate
<1> HIDE DEF s
<1> QED BY <1>1, <1>2, QuietScan

\* Only an alarm makes a status "failed".
LEMMA StatusScan ==
  ASSUME ScanInv, NEW e \in Editors, NEW assigned \in Statuses \ {"failed"},
         StatusWritten(e, assigned), EditorTo(e, Away),
         UNCHANGED <<versions, runLog, alarms, begun, saves>>
  PROVE  ScanInv'
<1>1. editor' = [editor EXCEPT ![e] = Away] /\ editor \in [Editors -> Session]
      /\ Away \in Session /\ ~(Away.at \in {"scanning", "scanned"})
  BY DEF EditorTo, ScanInv, ScanTypes, Session, Away
<1>2. UNCHANGED <<RowSoFar, RunSoFar, Session>>
  BY DEF RowSoFar, RunSoFar, Session
<1>3. scanner' \in RowSoFar /\ (scanner'.status = "failed" => scanner.status = "failed")
  BY DEF StatusWritten, Written, ScanInv, ScanTypes, RowSoFar
<1>4. editor' \in [Editors -> Session']
  BY <1>1, <1>2
<1>5. \A f \in Editors : IsScanning(f)' => editor'[f] = editor[f] /\ IsScanning(f)
  BY <1>1 DEF IsScanning
<1>6. ScanTypes'
  BY <1>2, <1>3, <1>4 DEF ScanInv, ScanTypes
<1>7. RunsApart' /\ VerdictsRest'
  BY <1>5 DEF ScanInv, RunsApart, StartedBy, VerdictsRest, IsScanning, Failures
<1>8. AlarmsAreEarned'
  BY <1>3 DEF ScanInv, AlarmsAreEarned
<1> QED BY <1>6, <1>7, <1>8 DEF ScanInv

\* A version is published.
LEMMA PublishScan ==
  ASSUME ScanInv, NEW e \in Editors,
         PublishScanner(e) \/ SetStatus(e, "pause", "paused") \/ SetStatus(e, "resume", "active")
  PROVE  ScanInv'
<1>1. PICK assigned \in {"active", "paused"} :
         StatusWritten(e, assigned) /\ EditorTo(e, Away)
         /\ UNCHANGED <<versions, runLog, alarms, begun, saves>>
  BY DEF PublishScanner, SetStatus
<1> QED BY <1>1, StatusScan DEF Statuses

\* A number grows no faster than the saves that commit.
LEMMA SaveScan ==
  ASSUME ScanInv, NEW e \in Editors, SaveSpec(e)
  PROVE  ScanInv'
<1> DEFINE s == editor[e]
           v == s.row.version
<1>1. /\ s.at = "saving" /\ saves < MaxSaves /\ saves' = saves + 1
      /\ editor' = [editor EXCEPT ![e] = Away] /\ UNCHANGED <<runLog, alarms, begun>>
  BY DEF SaveSpec, EditorTo
<1>2. /\ s.row \in RowSoFar /\ s.spec \in Specs /\ s.version \in 1..saves + 2
      /\ editor \in [Editors -> Session] /\ saves \in 0..MaxSaves /\ saves \in Nat
  BY <1>1, ScannerAssumption DEF ScanInv, ScanTypes, Session, Away
<1>3. RowSoFar \subseteq RowSoFar' /\ RunSoFar \subseteq RunSoFar'
  BY <1>1, <1>2 DEF RowSoFar, RunSoFar
<1>4. Session \subseteq Session'
  BY <1>1, <1>2, <1>3 DEF Session
<1>5. editor' \in [Editors -> Session']
  BY <1>1, <1>2, <1>4 DEF Session
<1>6. /\ scanner' = [scanner EXCEPT !.spec = Written(s.spec, s.row.spec, @),
                                    !.version = Written(s.version, v, @)]
      /\ scanner \in RowSoFar
  BY DEF SaveSpec, ScanInv, ScanTypes
<1>7. scanner' \in RowSoFar' /\ scanner'.status = scanner.status
  <2> DEFINE spec == Written(s.spec, s.row.spec, scanner.spec)
             version == Written(s.version, v, scanner.version)
  <2>1. scanner' = [scanner EXCEPT !.spec = spec, !.version = version]
    BY <1>6
  <2>2. spec \in Specs /\ version \in 1..saves' + 1
    BY <1>1, <1>2, <1>6 DEF RowSoFar, Written
  <2> HIDE DEF spec, version
  <2> QED BY <1>6, <2>1, <2>2 DEF RowSoFar
<1>8. /\ DOMAIN versions' \subseteq DOMAIN versions \cup {v}
      /\ \A w \in DOMAIN versions' : versions'[w] = s.row.spec \/
            (w \in DOMAIN versions /\ versions'[w] = versions[w])
  BY DEF SaveSpec
<1>9. DOMAIN versions' \subseteq 1..saves' + 1 /\ \A w \in DOMAIN versions' : versions'[w] \in Specs
  <2>1. v \in 1..saves + 1 /\ s.row.spec \in Specs
    BY <1>2 DEF RowSoFar
  <2>2. DOMAIN versions \subseteq 1..saves + 1 /\ \A w \in DOMAIN versions : versions[w] \in Specs
    BY DEF ScanInv, ScanTypes
  <2> HIDE DEF s, v
  <2> QED BY <1>1, <1>2, <1>8, <2>1, <2>2
<1>10. ScanTypes'
  <2>1. saves' \in 0..MaxSaves
    BY <1>1, <1>2, ScannerAssumption
  <2>2. runLog' \subseteq RunSoFar' /\ alarms' \subseteq 1..begun' /\ begun' \in 0..MaxRuns
    BY <1>1, <1>3 DEF ScanInv, ScanTypes
  <2> QED BY <1>5, <1>7, <1>9, <2>1, <2>2 DEF ScanTypes
<1>11. \A f \in Editors : IsScanning(f)' => editor'[f] = editor[f] /\ IsScanning(f)
  BY <1>1, <1>2 DEF IsScanning, Away
<1>12. RunsApart' /\ VerdictsRest'
  BY <1>1, <1>11 DEF ScanInv, RunsApart, StartedBy, VerdictsRest, IsScanning, Failures
<1>13. AlarmsAreEarned'
  BY <1>1, <1>7 DEF ScanInv, AlarmsAreEarned
<1> QED BY <1>1, <1>10, <1>12, <1>13 DEF ScanInv

\* A run starts, later than every other.
LEMMA StartScanScan ==
  ASSUME ScanInv, NEW e \in Editors, StartScan(e)
  PROVE  ScanInv'
<1> DEFINE s == [at |-> "scanning", task |-> editor[e].task, row |-> editor[e].row,
                 started |-> begun + 1]
<1>1. /\ editor' = [editor EXCEPT ![e] = s] /\ begun' = begun + 1 /\ begun < MaxRuns
      /\ UNCHANGED <<scanner, versions, runLog, alarms, saves>>
  BY DEF StartScan, EditorTo
<1>2. editor \in [Editors -> Session] /\ begun \in 0..MaxRuns /\ begun \in Nat
  BY ScannerAssumption DEF ScanInv, ScanTypes
<1>3. RowSoFar' = RowSoFar /\ RunSoFar \subseteq RunSoFar'
  BY <1>1, <1>2 DEF RowSoFar, RunSoFar
<1>4. Session \subseteq Session'
  BY <1>1, <1>2, <1>3 DEF Session
<1>5. s \in Session'
  <2>1. editor[e].row \in RowSoFar /\ editor[e].task \in Tasks
    BY LoadedSession DEF StartScan, Loaded
  <2> QED BY <1>1, <1>2, <1>3, <2>1 DEF Session
<1>6. editor' \in [Editors -> Session']
  BY <1>1, <1>2, <1>4, <1>5
<1>7. ScanTypes'
  BY <1>1, <1>2, <1>3, <1>6, ScannerAssumption DEF ScanInv, ScanTypes
<1>8. \A f \in Editors : f # e => editor'[f] = editor[f] /\ (IsScanning(f)' <=> IsScanning(f))
  BY <1>1, <1>2 DEF IsScanning
<1>9. StartedBy(e)' = begun + 1 /\ editor'[e].at = "scanning"
  BY <1>1, <1>2 DEF StartedBy
<1>10. \A r \in runLog : r.started \in 1..begun
  BY DEF ScanInv, ScanTypes, RunSoFar
<1>11. \A f \in Editors : IsScanning(f) => StartedBy(f) \in 1..begun
  <2> SUFFICES ASSUME NEW f \in Editors, IsScanning(f) PROVE StartedBy(f) \in 1..begun
    OBVIOUS
  <2>1. CASE editor[f].at = "scanning"
    <3>1. editor[f] \in [at : {"scanning"}, task : Tasks, row : RowSoFar, started : 1..begun]
      BY <1>2, <2>1 DEF Session, Away
    <3> QED BY <2>1, <3>1 DEF StartedBy
  <2>2. CASE editor[f].at = "scanned"
    <3>1. editor[f].run \in RunSoFar
      BY <1>2, <2>2 DEF Session, Away
    <3> QED BY <2>2, <3>1 DEF StartedBy, RunSoFar
  <2> QED BY <2>1, <2>2 DEF IsScanning
<1>12. \A f \in Editors : f # e => StartedBy(f)' = StartedBy(f)
  BY <1>8 DEF StartedBy
<1>13. RunsApart'
  <2>1. ASSUME NEW f \in Editors, IsScanning(f)', NEW r \in runLog
        PROVE  r.started # StartedBy(f)'
    <3>1. CASE f = e
      BY <1>2, <1>9, <1>10, <3>1
    <3>2. CASE f # e
      BY <1>8, <1>12, <2>1, <3>2 DEF ScanInv, RunsApart
    <3> QED BY <3>1, <3>2
  <2>2. ASSUME NEW f \in Editors, NEW g \in Editors, f # g, IsScanning(f)', IsScanning(g)'
        PROVE  StartedBy(f)' # StartedBy(g)'
    <3>1. CASE f # e /\ g # e
      BY <1>8, <1>12, <2>2, <3>1 DEF ScanInv, RunsApart
    <3>2. CASE f = e
      BY <1>2, <1>8, <1>9, <1>11, <1>12, <2>2, <3>2
    <3>3. CASE g = e
      BY <1>2, <1>8, <1>9, <1>11, <1>12, <2>2, <3>3
    <3> QED BY <3>1, <3>2, <3>3
  <2> QED BY <1>1, <2>1, <2>2 DEF RunsApart
<1>14. VerdictsRest'
  BY <1>1, <1>8, <1>9 DEF ScanInv, VerdictsRest, Failures
<1>15. AlarmsAreEarned'
  BY <1>1 DEF ScanInv, AlarmsAreEarned
<1> QED BY <1>1, <1>7, <1>13, <1>14, <1>15 DEF ScanInv

\* A run ends and is judged with the failures that are committed.
LEMMA FinishScanScan ==
  ASSUME ScanInv, NEW e \in Editors, NEW ok \in BOOLEAN, FinishScan(e, ok)
  PROVE  ScanInv'
<1> DEFINE run == RunOf(e, ok)
           s == [at |-> "scanned", task |-> editor[e].task, row |-> editor[e].row,
                 run |-> run, trips |-> Trips(run)]
<1>1. /\ editor' = [editor EXCEPT ![e] = s] /\ editor[e].at = "scanning"
      /\ UNCHANGED <<scanner, versions, runLog, alarms, begun, saves>>
  BY DEF FinishScan, EditorTo
<1>2. editor \in [Editors -> Session]
      /\ editor[e] \in [at : {"scanning"}, task : Tasks, row : RowSoFar, started : 1..begun]
  BY <1>1 DEF ScanInv, ScanTypes, Session, Away
<1>3. run \in RunSoFar /\ run.started = editor[e].started
  BY <1>2 DEF RunOf, RunSoFar, RowSoFar
<1>4. s \in Session
  BY <1>2, <1>3 DEF Session, Trips
<1>5. UNCHANGED <<RowSoFar, RunSoFar, Session>>
  BY <1>1 DEF RowSoFar, RunSoFar, Session
<1>6. ScanTypes'
  BY <1>1, <1>2, <1>4, <1>5 DEF ScanInv, ScanTypes
<1>7. /\ \A f \in Editors : f # e => editor'[f] = editor[f]
      /\ editor'[e].at = "scanned" /\ editor'[e].run = run /\ editor'[e].trips = Trips(run)
  BY <1>1, <1>2
<1>8. \A f \in Editors : (IsScanning(f)' <=> IsScanning(f)) /\ StartedBy(f)' = StartedBy(f)
  BY <1>1, <1>3, <1>7 DEF IsScanning, StartedBy
<1>9. RunsApart'
  BY <1>1, <1>8 DEF ScanInv, RunsApart
<1>10. ASSUME Trips(run)
       PROVE  /\ ~run.ok /\ ~run.test
              /\ \E R \in SUBSET Failures(runLog \cup {run}) : Cardinality(R) = AlarmAfter
  <2> DEFINE R == NewestOf(AlarmAfter, Judged(runLog \cup {run}))
  <2>1. ~run.ok /\ ~run.test /\ Cardinality(R) = AlarmAfter /\ \A r \in R : ~r.ok
    BY <1>10 DEF Trips
  <2>2. R \subseteq Failures(runLog \cup {run})
    BY <2>1 DEF NewestOf, Judged, Failures
  <2> QED BY <2>1, <2>2
<1> HIDE DEF run, s
<1>11. VerdictsRest'
  BY <1>1, <1>7, <1>10 DEF ScanInv, VerdictsRest, Failures
<1>12. AlarmsAreEarned'
  BY <1>1 DEF ScanInv, AlarmsAreEarned
<1> QED BY <1>1, <1>6, <1>9, <1>11, <1>12 DEF ScanInv

\* A run, and the alarm it may raise, are committed.
LEMMA EndScanScan ==
  ASSUME ScanInv, NEW e \in Editors, EndScan(e)
  PROVE  ScanInv'
<1> DEFINE s == editor[e]
           run == s.run
           alarmed == s.trips /\ s.row.status # "failed"
<1>1. /\ s.at = "scanned" /\ runLog' = runLog \cup {run}
      /\ StatusWritten(e, StatusAfter(s))
      /\ alarms' = IF alarmed THEN alarms \cup {run.started} ELSE alarms
      /\ editor' = [editor EXCEPT ![e] = Away] /\ UNCHANGED <<versions, begun, saves>>
  BY DEF EndScan, EditorTo
<1>2. /\ editor \in [Editors -> Session]
      /\ s.row \in RowSoFar /\ run \in RunSoFar /\ s.trips \in BOOLEAN /\ s.task \in Tasks
  BY <1>1 DEF ScanInv, ScanTypes, Session, Away
<1>3. UNCHANGED <<RowSoFar, RunSoFar, Session>> /\ Away \in Session
  BY <1>1 DEF RowSoFar, RunSoFar, Session
<1>4. StatusAfter(s) \in Statuses /\ s.row.status \in Statuses
  BY <1>2 DEF StatusAfter, Statuses, RowSoFar
<1>5. /\ scanner' \in RowSoFar
      /\ scanner'.status = Written(StatusAfter(s), s.row.status, scanner.status)
  BY <1>1, <1>4 DEF StatusWritten, Written, ScanInv, ScanTypes, RowSoFar
<1>6. run.started \in 1..begun /\ alarms' \subseteq 1..begun
  BY <1>1, <1>2 DEF RunSoFar, ScanInv, ScanTypes
<1>7. ScanTypes'
  BY <1>1, <1>2, <1>3, <1>5, <1>6 DEF ScanInv, ScanTypes
<1>8. \A f \in Editors : IsScanning(f)' => f # e /\ editor'[f] = editor[f] /\ IsScanning(f)
  BY <1>1, <1>2 DEF IsScanning, Away
<1>9. IsScanning(e) /\ StartedBy(e) = run.started
  BY <1>1 DEF IsScanning, StartedBy
<1>10. run \notin runLog
  BY <1>9 DEF ScanInv, RunsApart
<1>11. \A f \in Editors : IsScanning(f)' => StartedBy(f)' = StartedBy(f)
  BY <1>8 DEF StartedBy
<1>12. RunsApart'
  BY <1>1, <1>8, <1>9, <1>11 DEF ScanInv, RunsApart
<1>13. VerdictsRest'
  <2> SUFFICES ASSUME NEW f \in Editors, editor'[f].at = "scanned", editor'[f].trips
               PROVE  /\ ~editor'[f].run.ok /\ ~editor'[f].run.test
                      /\ \E R \in SUBSET Failures(runLog \cup {editor[f].run})' :
                            Cardinality(R) = AlarmAfter
    BY DEF VerdictsRest
  <2>1. f # e /\ editor'[f] = editor[f]
    BY <1>8 DEF IsScanning
  <2>2. Failures(runLog \cup {editor[f].run}) \subseteq Failures(runLog \cup {editor[f].run})'
    BY <1>1, <2>1 DEF Failures
  <2> QED BY <2>1, <2>2 DEF ScanInv, VerdictsRest
<1>14. IsFiniteSet(runLog') /\ IsFiniteSet(alarms')
  BY <1>1, FS_AddElement DEF ScanInv
<1>15. AlarmsAreEarned'
  <2> DEFINE old == Failures(runLog)
             new == Failures(runLog')
  <2>1. IsFiniteSet(old) /\ IsFiniteSet(new) /\ Cardinality(old) \in Nat
        /\ Cardinality(new) \in Nat /\ old \subseteq new /\ Cardinality(old) <= Cardinality(new)
    <3>1. old \subseteq runLog /\ new \subseteq runLog' /\ old \subseteq new
      BY <1>1 DEF Failures
    <3>2. IsFiniteSet(old) /\ IsFiniteSet(new)
      BY <1>14, <3>1, FS_Subset DEF ScanInv
    <3> HIDE DEF old, new
    <3> QED BY <3>1, <3>2, FS_Subset, FS_CardinalityType
  <2>2. /\ AlarmAfter = 3 /\ Cardinality(alarms) \in Nat /\ Cardinality(alarms') \in Nat
        /\ Cardinality(alarms') <= Cardinality(alarms) + 1
        /\ ~alarmed => alarms' = alarms
    <3>1. IsFiniteSet(alarms) /\ alarms' \in {alarms, alarms \cup {run.started}}
          /\ (~alarmed => alarms' = alarms)
      BY <1>1 DEF ScanInv
    <3> HIDE DEF alarmed, run
    <3> QED BY SMTT(30), <1>14, <3>1, FS_AddElement, FS_CardinalityType DEF AlarmAfter
  <2>3. alarms # {} => Cardinality(alarms) + 2 <= Cardinality(old)
    BY <2>2 DEF ScanInv, AlarmsAreEarned, Failures
  <2>4. ASSUME alarmed
        PROVE  Cardinality(new) >= 3 /\ Cardinality(new) = Cardinality(old) + 1
    <3>1. ~run.ok /\ ~run.test
      BY <1>1, <2>4 DEF ScanInv, VerdictsRest
    <3>2. new = old \cup {run} /\ run \notin old
      BY <1>1, <1>10, <3>1 DEF Failures
    <3>3. PICK R \in SUBSET new : Cardinality(R) = 3
      BY <1>1, <2>2, <2>4 DEF ScanInv, VerdictsRest
    <3> HIDE DEF old, new, run, s
    <3>4. Cardinality(new) = Cardinality(old) + 1
      BY <2>1, <3>2, FS_AddElement
    <3>5. Cardinality(R) <= Cardinality(new)
      BY <2>1, <3>3, FS_Subset
    <3> QED BY <2>1, <3>3, <3>4, <3>5
  <2>5. alarms' # {} => Cardinality(alarms') + 2 <= Cardinality(new)
    <3>1. CASE alarmed /\ alarms = {}
      <4>1. Cardinality(alarms) = 0
        BY <3>1, FS_EmptySet
      <4> HIDE DEF alarmed, new, old
      <4> QED BY <2>1, <2>2, <2>4, <3>1, <4>1
    <3>2. CASE alarmed /\ alarms # {}
      <4> HIDE DEF alarmed, new, old
      <4> QED BY <2>1, <2>2, <2>3, <2>4, <3>2
    <3>3. CASE ~alarmed
      <4> HIDE DEF alarmed, new, old
      <4> QED BY <2>1, <2>2, <2>3, <3>3
    <3> QED BY <3>1, <3>2, <3>3
  <2>6. scanner'.status = "failed" => alarms' # {}
    <3>1. CASE alarmed
      BY <1>1, <3>1
    <3>2. CASE ~alarmed
      <4>1. StatusAfter(s) = "failed" => s.row.status = "failed"
        BY <3>2 DEF StatusAfter
      <4>2. scanner'.status = "failed" => scanner.status = "failed"
        BY <1>5, <4>1 DEF Written
      <4> QED BY <1>1, <3>2, <4>2 DEF ScanInv, AlarmsAreEarned
    <3> QED BY <3>1, <3>2
  <2> QED BY <2>2, <2>5, <2>6 DEF AlarmsAreEarned, Failures
<1> QED BY <1>7, <1>12, <1>13, <1>14, <1>15 DEF ScanInv

\* Every step preserves the invariant.
LEMMA NextScan == ScanInv /\ [ScannerNext]_scannerVars => ScanInv'
<1> SUFFICES ASSUME ScanInv, [ScannerNext]_scannerVars PROVE ScanInv'
  OBVIOUS
<1>1. CASE UNCHANGED scannerVars
  <2>1. UNCHANGED <<RowSoFar, RunSoFar, Session>>
    BY <1>1 DEF scannerVars, RowSoFar, RunSoFar, Session
  <2> QED BY <1>1, <2>1 DEF scannerVars, ScanInv, ScanTypes, RunsApart, VerdictsRest,
          IsScanning, StartedBy, Failures, AlarmsAreEarned
<1>2. CASE ScannerNext
  BY <1>2, LoadScan, PrepareScan, SaveScan, StartScanScan, FinishScanScan, EndScanScan,
     GateScan, PublishScan, LoseScan DEF ScannerNext
<1> QED BY <1>1, <1>2

\* The inductive invariant of the scanner service and its scheduled runs.
THEOREM ScanInvariance == ScannerSpec => []ScanInv
  BY InitScan, NextScan, PTL DEF ScannerSpec

\* Rows, runs and alarms keep their types.
THEOREM ScanTyped == ScannerSpec => []ScannerTypeOK
<1>1. ASSUME ScanInv PROVE ScannerTypeOK
  <2>1. RowSoFar \subseteq Row /\ RunSoFar \subseteq Run
    BY <1>1, ScannerAssumption
       DEF ScanInv, ScanTypes, RowSoFar, RunSoFar, Row, Run, Statuses
  <2>2. 1..saves + 1 \subseteq 1..MaxSaves + 1 /\ 1..begun \subseteq 1..MaxRuns
    BY <1>1, ScannerAssumption DEF ScanInv, ScanTypes
  <2>3. \A e \in Editors :
          editor[e].at \in {"away", "loaded", "saving", "scanning", "scanned", "gated"}
    BY <1>1 DEF ScanInv, ScanTypes, Session, Away
  <2> QED BY <1>1, <2>1, <2>2, <2>3 DEF ScanInv, ScanTypes, ScannerTypeOK
<1> QED BY <1>1, ScanInvariance, PTL

\* However runs of users and of the scheduler overlap, an alarm rests on AlarmAfter failed
\* runs, the last of them its own, and the first failures raise none.
THEOREM AlarmsEarned == ScannerSpec => []AlarmsAreEarned
<1>1. ScanInv => AlarmsAreEarned
  BY DEF ScanInv
<1> QED BY <1>1, ScanInvariance, PTL

-------------------------------------------------------------------------------------
(* ForecastArena.                                                                  *)

Holding == {"holding", "priced", "stamped", "inserted", "finishing"}

InHand == {"stamped", "sharing", "inserted"}

\* Two rows of one lock, f of a forecast and s of its score.
Scores(s, f) == s.who = f.who /\ s.seq = f.seq

ScoredIn(made, f) == \E s \in made : Scores(s, f)

OneScoreEach(made) == \A s, t \in made : s.who = t.who /\ s.seq = t.seq => s = t

\* A row has its eight columns.
IsForecast(f) ==
    f = [who |-> f.who, key |-> f.key, asked |-> f.asked, seq |-> f.seq, at |-> f.at,
         known |-> f.known, blind |-> f.blind, tardy |-> f.tardy]

\* The market row is held by the session that says so.
RowHeld ==
    /\ \A p \in Passes : rowHolder = p <=> pass[p].at \in Holding
    /\ \A r \in Resolvers : rowHolder = r <=> resolver[r].at \in Resolving

\* A user's row is never the model's.
UserFine(u) ==
    /\ "at" \in DOMAIN user[u]
    /\ user[u].at = "seen" => user[u].q \in Requests
    /\ user[u].at \in InHand =>
          DOMAIN user[u] = {"at", "row"} /\ IsForecast(user[u].row) /\ user[u].row.who # Model

\* While a pass holds the row nobody resolves the market.
PassFine(p) ==
    /\ pass[p].at \in Holding => market.status = "OPEN"
    /\ pass[p].at \in {"stamped", "inserted"} =>
          /\ IsForecast(pass[p].row) /\ pass[p].row.who = Model
          /\ pass[p].row.known => venue # Unresolved
    /\ pass[p].at = "inserted" =>
          /\ pass[p].row.at < Close
          /\ pass[p].row.known => pass[p].row.blind

\* What a resolver is about to score is not scored, and is all that should be.
ResolverFine(r) ==
    LET d == resolver[r] IN
    /\ "at" \in DOMAIN d
    /\ d.at = "scored" =>
          /\ OneScoreEach(d.made)
          /\ \A s \in d.made, t \in scores : ~(s.who = t.who /\ s.seq = t.seq)
          /\ \A f \in forecasts :
                f.at < d.stamp /\ ~f.tardy => ScoredIn(scores, f) \/ ScoredIn(d.made, f)

ModelFine ==
    \A f \in forecasts : f.who = Model => f.at < Close /\ ~f.tardy /\ (f.known => f.blind)

ResolvedFine ==
    /\ OneScoreEach(scores)
    /\ market.status = "RESOLVED" =>
          \A f \in forecasts :
              f.at < market.resolvedAt /\ ~f.tardy => ScoredIn(scores, f)

Domains == DOMAIN user = Users /\ DOMAIN pass = Passes /\ DOMAIN resolver = Resolvers

ArenaInv ==
    /\ Domains /\ RowHeld /\ ModelFine /\ ResolvedFine
    /\ \A u \in Users : UserFine(u)
    /\ \A p \in Passes : PassFine(p)
    /\ \A r \in Resolvers : ResolverFine(r)

-------------------------------------------------------------------------------------
LEMMA InitInv == ArenaInit => ArenaInv
  BY ArenaAssumption
     DEF ArenaInit, ArenaInv, Domains, RowHeld, ModelFine, ResolvedFine, UserFine, PassFine,
         ResolverFine, Asleep, Holding, InHand, Resolving, OneScoreEach, ScoredIn

\* A row as it is made, whoever makes it.
LEMMA NewRow ==
  ASSUME NEW who, NEW key, NEW asked
  PROVE  LET f == NewForecast(who, key, asked) IN
         IsForecast(f) /\ f.who = who /\ (f.known => venue # Unresolved)
  BY DEF NewForecast, IsForecast

\* A row as it is committed.
LEMMA Stamped ==
  ASSUME NEW row, IsForecast(row), NEW late \in BOOLEAN
  PROVE  LET f == [row EXCEPT !.tardy = late] IN
         /\ f.who = row.who /\ f.at = row.at /\ f.known = row.known /\ f.blind = row.blind
         /\ f.tardy = late
  BY DEF IsForecast

-------------------------------------------------------------------------------------
(* The sessions of users.                                                          *)

\* A user moves on without committing.
LEMMA UserMoves ==
  ASSUME ArenaInv, OnlyUser, NEW u \in Users, NEW d, UserTo(u, d), UserFine(u)'
  PROVE  ArenaInv'
<1>1. /\ DOMAIN user' = Users /\ \A v \in Users \ {u} : user'[v] = user[v]
  BY DEF ArenaInv, Domains, UserTo
<1>2. \A v \in Users : UserFine(v)'
  BY <1>1 DEF ArenaInv, UserFine, IsForecast
<1>3. Domains' /\ RowHeld' /\ ModelFine' /\ ResolvedFine'
  BY <1>1 DEF ArenaInv, OnlyUser, Domains, RowHeld, ModelFine, ResolvedFine, OneScoreEach, ScoredIn,
              Scores
<1>4. \A p \in Passes : PassFine(p)'
  BY DEF ArenaInv, OnlyUser, PassFine, IsForecast
<1>5. \A r \in Resolvers : ResolverFine(r)'
  BY DEF ArenaInv, OnlyUser, ResolverFine, OneScoreEach, ScoredIn, Scores
<1> QED BY <1>2, <1>3, <1>4, <1>5 DEF ArenaInv

\* One more row: late for every resolver that has read, and for a resolved market.
LEMMA Committed ==
  ASSUME ArenaInv, NEW f, f.tardy = TooLate, forecasts' = forecasts \cup {f},
         UNCHANGED <<market, scores, resolver>>
  PROVE  ResolvedFine' /\ \A r \in Resolvers : ResolverFine(r)'
<1>1. ResolvedFine'
  BY DEF ArenaInv, ResolvedFine, TooLate, OneScoreEach, ScoredIn, Scores
<1>2. \A r \in Resolvers : ResolverFine(r)'
  BY ZenonT(40) DEF ArenaInv, ResolverFine, TooLate, OneScoreEach, ScoredIn, Scores
<1> QED BY <1>1, <1>2

LEMMA UserInv ==
  ASSUME ArenaInv, NEW u \in Users, UserNext(u)
  PROVE  ArenaInv'
<1>0. DOMAIN user = Users /\ UserFine(u)
  BY DEF ArenaInv, Domains
<1>1. ASSUME UserTo(u, Asleep), OnlyUser PROVE ArenaInv'
  <2>1. user'[u] = Asleep
    BY <1>0, <1>1 DEF UserTo
  <2>2. UserFine(u)'
    BY <2>1 DEF UserFine, Asleep, InHand
  <2> QED BY <1>1, <2>2, UserMoves
<1>2. CASE Decline(u) \/ InsertFails(u) \/ LoseLock(u)
  BY <1>1, <1>2 DEF Decline, InsertFails, LoseLock
<1>3. ASSUME NEW q \in Requests, SeeMarket(u, q) PROVE ArenaInv'
  <2>1. user'[u] = [at |-> "seen", q |-> q, status |-> market.status]
    BY <1>0, <1>3 DEF SeeMarket, UserTo
  <2>2. UserFine(u)'
    BY <2>1 DEF UserFine, InHand
  <2> QED BY <1>3, <2>2, UserMoves DEF SeeMarket
<1>4. CASE StampLock(u)
  <2> DEFINE q == user[u].q
             row == NewForecast(q.who, q.key, q.asked)
  <2>1. q \in Requests /\ user'[u] = [at |-> "stamped", row |-> row]
    BY <1>0, <1>4 DEF StampLock, UserTo, UserFine
  <2>2. IsForecast(row) /\ row.who # Model
    BY <2>1, NewRow, ArenaAssumption
  <2> HIDE DEF row
  <2>3. UserFine(u)'
    BY <2>1, <2>2 DEF UserFine, InHand
  <2> QED BY <1>4, <2>3, UserMoves DEF StampLock, row
<1>5. CASE ShareMarket(u) \/ InsertLock(u)
  <2>1. PICK at \in InHand : user' = [user EXCEPT ![u] = [user[u] EXCEPT !.at = at]]
    BY <1>5 DEF ShareMarket, InsertLock, UserTo, InHand
  <2>2. user[u].at \in InHand
    BY <1>5 DEF ShareMarket, InsertLock, InHand
  <2>3. /\ user'[u].at = at /\ DOMAIN user'[u] = {"at", "row"}
        /\ user'[u].row = user[u].row
    BY <1>0, <2>1, <2>2 DEF UserFine
  <2>4. UserFine(u)'
    BY <1>0, <2>2, <2>3 DEF UserFine, InHand, IsForecast
  <2> QED BY <1>5, <2>1, <2>4, UserMoves DEF ShareMarket, InsertLock
<1>6. CASE CommitLock(u)
  <2> DEFINE row == user[u].row
             f == [row EXCEPT !.tardy = TooLate]
  <2>1. IsForecast(row) /\ row.who # Model
    BY <1>0, <1>6 DEF CommitLock, UserFine, InHand
  <2>2. f.tardy = TooLate /\ f.who # Model
    BY <2>1, Stamped DEF TooLate
  <2>3. /\ forecasts' = forecasts \cup {f}
        /\ UNCHANGED <<now, venue, market, rowHolder, scores, pass, resolver>>
        /\ user' = [user EXCEPT ![u] = Asleep]
    BY <1>6 DEF CommitLock, UserTo
  <2> HIDE DEF f
  <2>4. ResolvedFine' /\ \A r \in Resolvers : ResolverFine(r)'
    BY <2>2, <2>3, Committed
  <2>5. /\ DOMAIN user' = Users /\ user'[u] = Asleep
        /\ \A v \in Users \ {u} : user'[v] = user[v]
    BY <1>0, <2>3
  <2>6. \A v \in Users : UserFine(v)'
    BY <2>5 DEF ArenaInv, UserFine, IsForecast, Asleep, InHand
  <2>7. Domains' /\ RowHeld' /\ ModelFine' /\ \A p \in Passes : PassFine(p)'
    BY <2>2, <2>3, <2>5 DEF ArenaInv, Domains, RowHeld, ModelFine, PassFine, IsForecast
  <2> QED BY <2>4, <2>6, <2>7 DEF ArenaInv
<1> QED BY <1>2, <1>3, <1>4, <1>5, <1>6 DEF UserNext

-------------------------------------------------------------------------------------
(* The autolock passes.                                                            *)

\* A pass moves on, whatever it does to the row, without committing a forecast.
LEMMA PassMoves ==
  ASSUME ArenaInv, NEW p \in Passes, NEW d, PassTo(p, d), PassFine(p)',
         UNCHANGED <<now, venue, market, forecasts, scores, user, resolver>>,
         \/ rowHolder' = rowHolder /\ (d.at \in Holding <=> pass[p].at \in Holding)
         \/ rowHolder = Nobody /\ rowHolder' = p /\ d.at \in Holding
         \/ rowHolder = p /\ rowHolder' = Nobody /\ d.at \notin Holding
  PROVE  ArenaInv'
<1>1. /\ DOMAIN pass' = Passes /\ pass'[p] = d /\ \A q \in Passes \ {p} : pass'[q] = pass[q]
  BY DEF ArenaInv, Domains, PassTo
<1>2. \A q \in Passes : PassFine(q)'
  BY <1>1 DEF ArenaInv, PassFine, IsForecast
<1>3. RowHeld'
  BY <1>1, ArenaAssumption DEF ArenaInv, RowHeld
<1>4. Domains' /\ ModelFine' /\ ResolvedFine' /\ \A u \in Users : UserFine(u)'
  BY <1>1 DEF ArenaInv, Domains, ModelFine, ResolvedFine, UserFine, OneScoreEach, ScoredIn, Scores,
              IsForecast
<1>5. \A r \in Resolvers : ResolverFine(r)'
  BY DEF ArenaInv, ResolverFine, OneScoreEach, ScoredIn, Scores
<1> QED BY <1>2, <1>3, <1>4, <1>5 DEF ArenaInv

LEMMA PassInv ==
  ASSUME ArenaInv, NEW p \in Passes, PassNext(p)
  PROVE  ArenaInv'
<1>0. /\ DOMAIN pass = Passes /\ PassFine(p)
      /\ rowHolder = p <=> pass[p].at \in Holding
      /\ \A d : PassTo(p, d) => pass'[p] = d
  BY DEF ArenaInv, Domains, RowHeld, PassTo
<1>1. ASSUME NEW at \in Holding \ {"stamped", "inserted"}, PassTo(p, [at |-> at]),
             pass[p].at \in Holding, OnlyPass
      PROVE  ArenaInv'
  <2>1. PassFine(p)'
    BY <1>0, <1>1 DEF PassFine, OnlyPass
  <2> QED BY <1>1, <2>1, PassMoves DEF OnlyPass
<1>2. CASE LookAtVenue(p) \/ FindModelLock(p) \/ LoseEligibility(p)
  <2>1. /\ pass[p].at \in Holding /\ OnlyPass
        /\ PassTo(p, [at |-> "priced"]) \/ PassTo(p, [at |-> "finishing"])
    BY <1>2 DEF LookAtVenue, FindModelLock, LoseEligibility, Holding
  <2> QED BY <1>1, <2>1 DEF Holding
<1>3. CASE Select(p) \/ SkipRow(p)
  <2>1. PICK at \in {"idle", "selected"} : PassTo(p, [at |-> at])
    BY <1>3 DEF Select, SkipRow, Asleep
  <2>2. pass[p].at \notin Holding /\ at \notin Holding /\ OnlyPass
    BY <1>3 DEF Select, SkipRow, Asleep, Holding
  <2>3. PassFine(p)'
    BY <1>0, <2>1, <2>2 DEF PassFine, Holding
  <2> QED BY <2>1, <2>2, <2>3, PassMoves DEF OnlyPass
<1>4. CASE LockRow(p)
  <2>1. PassFine(p)'
    BY <1>0, <1>4 DEF LockRow, PassFine
  <2> QED BY <1>4, <2>1, PassMoves DEF LockRow, Holds, Holding
<1>5. CASE StampModel(p)
  <2> DEFINE row == NewForecast(Model, ModelKey, 0)
             d == [at |-> "stamped", row |-> row]
  <2>1. PassTo(p, d) /\ OnlyPass /\ pass[p].at \in Holding /\ d.at \in Holding
    BY <1>5 DEF StampModel, Holding
  <2>2. IsForecast(row) /\ row.who = Model /\ (row.known => venue # Unresolved)
    BY NewRow
  <2> HIDE DEF row
  <2>3. PassFine(p)'
    BY <1>0, <2>1, <2>2 DEF PassFine, OnlyPass, IsForecast
  <2> HIDE DEF d
  <2> QED BY <2>1, <2>3, PassMoves DEF OnlyPass
<1>6. CASE InsertModel(p)
  <2> DEFINE row == pass[p].row
  <2>1. PICK blind \in BOOLEAN :
           /\ blind \/ venue = Unresolved
           /\ PassTo(p, [at |-> "inserted", row |-> [row EXCEPT !.blind = blind]])
    BY <1>6 DEF InsertModel
  <2> DEFINE seen == [row EXCEPT !.blind = blind]
             d == [at |-> "inserted", row |-> seen]
  <2>2. PassTo(p, d) /\ OnlyPass /\ pass[p].at = "stamped" /\ row.at < Close
    BY <1>6, <2>1 DEF InsertModel, PreClose
  <2>3. /\ IsForecast(row) /\ row.who = Model /\ (row.known => venue # Unresolved)
    BY <1>0, <2>2 DEF PassFine
  <2>4. /\ IsForecast(seen) /\ seen.who = Model /\ seen.at = row.at /\ seen.known = row.known
        /\ seen.blind = blind
    BY <2>3 DEF IsForecast
  <2> HIDE DEF row, seen
  <2>5. PassFine(p)'
    BY <1>0, <2>1, <2>2, <2>3, <2>4 DEF PassFine, OnlyPass, Holding
  <2>6. d.at \in Holding /\ pass[p].at \in Holding
    BY <2>2 DEF Holding
  <2> HIDE DEF d
  <2> QED BY <2>2, <2>5, <2>6, PassMoves DEF OnlyPass
<1>7. ASSUME PassTo(p, Asleep), FreeRow(p), pass[p].at \in Holding,
             UNCHANGED <<now, venue, market, forecasts, scores, user, resolver>>
      PROVE  ArenaInv'
  <2>1. PassFine(p)'
    BY <1>0, <1>7 DEF PassFine, Asleep, Holding
  <2> QED BY <1>0, <1>7, <2>1, PassMoves DEF FreeRow, Asleep, Holding
<1>8. CASE LosePass(p)
  BY <1>7, <1>8 DEF LosePass, Holding
<1>9. CASE CommitPass(p) /\ pass[p].at = "finishing"
  BY <1>7, <1>9 DEF CommitPass, Holding
<1>10. CASE CommitPass(p) /\ pass[p].at = "inserted"
  <2> DEFINE row == pass[p].row
             f == [row EXCEPT !.tardy = TooLate]
  <2>1. /\ forecasts' = forecasts \cup {f} /\ rowHolder' = Nobody
        /\ pass' = [pass EXCEPT ![p] = Asleep]
        /\ UNCHANGED <<now, venue, market, scores, user, resolver>>
    BY <1>0, <1>10 DEF CommitPass, FreeRow, PassTo, Holding
  <2>2. /\ IsForecast(row) /\ row.who = Model /\ row.at < Close
        /\ row.known => row.blind
    BY <1>0, <1>10 DEF PassFine
  <2>3. ~TooLate
    BY <1>0, <1>10, ArenaAssumption
       DEF TooLate, ArenaInv, RowHeld, PassFine, Holding, Resolving
  <2>4. /\ f.tardy = TooLate /\ f.who = Model /\ f.at < Close /\ ~f.tardy
        /\ f.known => f.blind
    <3>1. TooLate \in BOOLEAN
      BY DEF TooLate
    <3> HIDE DEF row
    <3>2. /\ f.who = row.who /\ f.at = row.at /\ f.known = row.known /\ f.blind = row.blind
          /\ f.tardy = TooLate
      BY <2>2, <3>1, Stamped
    <3> HIDE DEF f
    <3> QED BY <2>2, <2>3, <3>2
  <2> HIDE DEF f
  <2>5. ResolvedFine' /\ \A r \in Resolvers : ResolverFine(r)'
    BY <2>1, <2>4, Committed
  <2>6. /\ DOMAIN pass' = Passes /\ pass'[p] = Asleep
        /\ \A q \in Passes \ {p} : pass'[q] = pass[q]
    BY <1>0, <2>1
  <2>7. RowHeld'
    BY <1>0, <1>10, <2>1, <2>6, ArenaAssumption DEF ArenaInv, RowHeld, Holding, Asleep
  <2>8. Domains' /\ ModelFine' /\ \A u \in Users : UserFine(u)'
    BY <2>1, <2>4, <2>6 DEF ArenaInv, Domains, ModelFine, UserFine, IsForecast
  <2>9. \A q \in Passes : PassFine(q)'
    BY <2>1, <2>6 DEF ArenaInv, PassFine, IsForecast, Asleep, Holding
  <2> QED BY <2>5, <2>7, <2>8, <2>9 DEF ArenaInv
<1>11. CommitPass(p) => pass[p].at \in {"inserted", "finishing"}
  BY DEF CommitPass
<1> QED BY <1>2, <1>3, <1>4, <1>5, <1>6, <1>8, <1>9, <1>10, <1>11 DEF PassNext

-------------------------------------------------------------------------------------
(* The resolvers.                                                                  *)

\* A resolver moves on, whatever it does to the row, without committing.
LEMMA ResolverMoves ==
  ASSUME ArenaInv, NEW r \in Resolvers, NEW d, ResolverTo(r, d), ResolverFine(r)',
         UNCHANGED <<now, venue, market, forecasts, scores, user, pass>>,
         \/ rowHolder' = rowHolder /\ (d.at \in Resolving <=> resolver[r].at \in Resolving)
         \/ rowHolder = Nobody /\ rowHolder' = r /\ d.at \in Resolving
         \/ rowHolder = r /\ rowHolder' = Nobody /\ d.at \notin Resolving
  PROVE  ArenaInv'
<1>1. /\ DOMAIN resolver' = Resolvers /\ resolver'[r] = d
      /\ \A q \in Resolvers \ {r} : resolver'[q] = resolver[q]
  BY DEF ArenaInv, Domains, ResolverTo
<1>2. \A q \in Resolvers : ResolverFine(q)'
  BY <1>1 DEF ArenaInv, ResolverFine, OneScoreEach, ScoredIn, Scores
<1>3. RowHeld'
  BY <1>1, ArenaAssumption DEF ArenaInv, RowHeld
<1>4. Domains' /\ ModelFine' /\ ResolvedFine' /\ \A u \in Users : UserFine(u)'
  BY <1>1 DEF ArenaInv, Domains, ModelFine, ResolvedFine, UserFine, OneScoreEach, ScoredIn, Scores,
              IsForecast
<1>5. \A p \in Passes : PassFine(p)'
  BY DEF ArenaInv, PassFine, IsForecast
<1> QED BY <1>2, <1>3, <1>4, <1>5 DEF ArenaInv

\* What score_market makes of the rows it reads.
LEMMA ScoresMade ==
  ASSUME NEW outcome, NEW stamp
  PROVE  LET made == {ScoreOf(f, outcome) : f \in {g \in Unscored : g.at < stamp}} IN
         /\ OneScoreEach(made)
         /\ \A s \in made, t \in scores : ~(s.who = t.who /\ s.seq = t.seq)
         /\ \A f \in forecasts : f.at < stamp => ScoredIn(scores, f) \/ ScoredIn(made, f)
<1> DEFINE made == {ScoreOf(f, outcome) : f \in {g \in Unscored : g.at < stamp}}
<1>1. OneScoreEach(made)
  BY DEF OneScoreEach, ScoreOf
<1>2. \A s \in made, t \in scores : ~(s.who = t.who /\ s.seq = t.seq)
  BY DEF ScoreOf, Unscored
<1>3. ASSUME NEW f \in forecasts, f.at < stamp, f \notin Unscored PROVE ScoredIn(scores, f)
  BY <1>3 DEF Unscored, ScoredIn, Scores
<1>4. ASSUME NEW f \in Unscored, f.at < stamp PROVE ScoredIn(made, f)
  <2>1. ScoreOf(f, outcome) \in made /\ Scores(ScoreOf(f, outcome), f)
    BY <1>4 DEF ScoreOf, Scores
  <2> QED BY <2>1 DEF ScoredIn
<1> QED BY <1>1, <1>2, <1>3, <1>4

LEMMA ResolverInv ==
  ASSUME ArenaInv, NEW r \in Resolvers, ResolverNext(r)
  PROVE  ArenaInv'
<1>0. /\ DOMAIN resolver = Resolvers /\ ResolverFine(r)
      /\ rowHolder = r <=> resolver[r].at \in Resolving
      /\ \A d : ResolverTo(r, d) => resolver'[r] = d
  BY DEF ArenaInv, Domains, RowHeld, ResolverTo
<1>1. ASSUME NEW d, ResolverTo(r, d), OnlyResolver, "at" \in DOMAIN d, d.at # "scored",
             d.at \in Resolving <=> resolver[r].at \in Resolving
      PROVE  ArenaInv'
  <2>1. ResolverFine(r)'
    BY <1>0, <1>1 DEF ResolverFine
  <2> QED BY <1>1, <2>1, ResolverMoves DEF OnlyResolver
<1>2. ASSUME NEW outcome, NEW stated, AdminResolves(r, outcome, stated) PROVE ArenaInv'
  <2> DEFINE d == [at |-> "deciding", outcome |-> outcome, stated |-> stated,
                   candidate |-> 2 * now]
  <2>1. "at" \in DOMAIN d /\ d.at = "deciding" /\ resolver[r].at = "idle"
    BY <1>2 DEF AdminResolves, Asleep
  <2>2. ResolverTo(r, d) /\ OnlyResolver
    BY <1>2 DEF AdminResolves
  <2> HIDE DEF d
  <2> QED BY <1>1, <2>1, <2>2 DEF Resolving
<1>3. CASE WorkerSelects(r) \/ WorkerFetches(r)
  <2> DEFINE none == Asleep
             selected == [at |-> "selected"]
             deciding == [at |-> "deciding", outcome |-> venue, stated |-> {Close},
                          candidate |-> Close]
  <2>1. /\ "at" \in DOMAIN none /\ none.at = "idle"
        /\ "at" \in DOMAIN selected /\ selected.at = "selected"
        /\ "at" \in DOMAIN deciding /\ deciding.at = "deciding"
    BY DEF Asleep
  <2>2. /\ OnlyResolver /\ resolver[r].at \in {"idle", "selected"}
        /\ ResolverTo(r, none) \/ ResolverTo(r, selected) \/ ResolverTo(r, deciding)
    BY <1>3 DEF WorkerSelects, WorkerFetches, Asleep
  <2> HIDE DEF none, selected, deciding
  <2> QED BY <1>1, <2>1, <2>2 DEF Resolving
<1>4. CASE UpdateMarket(r)
  <2> DEFINE d == [resolver[r] EXCEPT !.at = "updated"]
  <2>1. "at" \in DOMAIN d /\ d.at = "updated"
    BY <1>0 DEF ResolverFine
  <2>2. ResolverTo(r, d)
    BY <1>4 DEF UpdateMarket
  <2> HIDE DEF d
  <2>3. ResolverFine(r)'
    BY <1>0, <2>1, <2>2 DEF ResolverFine
  <2> QED BY <1>4, <2>1, <2>2, <2>3, ResolverMoves DEF UpdateMarket, Resolving
<1>5. CASE StampResolution(r)
  <2>1. PICK stamp : ResolverTo(r, [at |-> "stamped", outcome |-> resolver[r].outcome,
                                    stamp |-> stamp])
    BY <1>5 DEF StampResolution
  <2> DEFINE d == [at |-> "stamped", outcome |-> resolver[r].outcome, stamp |-> stamp]
  <2>2. "at" \in DOMAIN d /\ d.at = "stamped" /\ ResolverTo(r, d)
    BY <2>1
  <2> HIDE DEF d
  <2> QED BY <1>1, <1>5, <2>2 DEF StampResolution, Resolving
<1>6. CASE ScoreMarket(r)
  <2> DEFINE outcome == resolver[r].outcome
             stamp == resolver[r].stamp
             made == {ScoreOf(f, outcome) : f \in {g \in Unscored : g.at < stamp}}
             d == [at |-> "scored", outcome |-> outcome, stamp |-> stamp, made |-> made]
  <2>1. ResolverTo(r, d) /\ OnlyResolver /\ resolver[r].at = "stamped"
    BY <1>6 DEF ScoreMarket
  <2>2. /\ OneScoreEach(made)
        /\ \A s \in made, t \in scores : ~(s.who = t.who /\ s.seq = t.seq)
        /\ \A f \in forecasts : f.at < stamp => ScoredIn(scores, f) \/ ScoredIn(made, f)
    BY ScoresMade
  <2> HIDE DEF made, stamp, outcome
  <2>3. "at" \in DOMAIN d /\ d.at = "scored" /\ d.made = made /\ d.stamp = stamp
    OBVIOUS
  <2> HIDE DEF d
  <2>4. resolver'[r] = d
    BY <1>0, <2>1
  <2>5. ResolverFine(r)'
    BY <2>1, <2>2, <2>3, <2>4 DEF ResolverFine, OnlyResolver, OneScoreEach, ScoredIn, Scores
  <2> QED BY <2>1, <2>3, <2>5, ResolverMoves DEF OnlyResolver, Resolving
<1>7. CASE LoseResolver(r)
  <2>1. ResolverTo(r, Asleep) /\ FreeRow(r) /\ resolver[r].at \in Resolving
    BY <1>7 DEF LoseResolver
  <2>2. ResolverFine(r)'
    BY <1>0, <2>1 DEF ResolverFine, Asleep
  <2> QED BY <1>0, <1>7, <2>1, <2>2, ResolverMoves DEF LoseResolver, FreeRow, Asleep, Resolving
<1>8. CASE CommitResolution(r)
  <2> DEFINE d == resolver[r]
  <2>1. /\ d.at = "scored" /\ scores' = scores \cup d.made
        /\ market' = [status |-> "RESOLVED", outcome |-> d.outcome, resolvedAt |-> d.stamp]
        /\ resolver' = [resolver EXCEPT ![r] = Asleep]
        /\ UNCHANGED <<now, venue, forecasts, user, pass>>
    BY <1>8 DEF CommitResolution, ResolverTo
  <2>2. rowHolder = r /\ rowHolder' = Nobody
    BY <1>0, <1>8 DEF CommitResolution, FreeRow, Resolving
  <2>3. /\ DOMAIN resolver' = Resolvers /\ resolver'[r] = Asleep
        /\ \A q \in Resolvers \ {r} : resolver'[q] = resolver[q]
    BY <1>0, <2>1
  <2>4. ResolvedFine'
    <3>1. /\ OneScoreEach(d.made)
          /\ \A s \in d.made, t \in scores : ~(s.who = t.who /\ s.seq = t.seq)
          /\ \A f \in forecasts :
                f.at < d.stamp /\ ~f.tardy => ScoredIn(scores, f) \/ ScoredIn(d.made, f)
      BY <1>0, <2>1 DEF ResolverFine
    <3>2. OneScoreEach(scores')
      BY <2>1, <3>1 DEF ArenaInv, ResolvedFine, OneScoreEach
    <3>3. \A f \in forecasts : f.at < d.stamp /\ ~f.tardy => ScoredIn(scores', f)
      BY <2>1, <3>1 DEF ScoredIn
    <3>4. market'.resolvedAt = d.stamp
      BY <2>1
    <3> QED BY <2>1, <3>2, <3>3, <3>4 DEF ResolvedFine, OneScoreEach, ScoredIn
  <2>5. \A q \in Resolvers : ResolverFine(q)'
    <3>1. "at" \in DOMAIN resolver'[r] /\ resolver'[r].at # "scored"
      BY <2>3 DEF Asleep
    <3>2. \A q \in Resolvers \ {r} : resolver[q].at # "scored"
      BY <2>2 DEF ArenaInv, RowHeld, Resolving
    <3> QED BY <2>3, <3>1, <3>2 DEF ArenaInv, ResolverFine
  <2>6. \A p \in Passes : pass[p].at \notin Holding /\ p # r
    BY <2>2, ArenaAssumption DEF ArenaInv, RowHeld
  <2>7. \A p \in Passes : PassFine(p)'
    BY <2>1, <2>6 DEF PassFine, Holding
  <2>8. RowHeld'
    BY <2>1, <2>2, <2>3, <2>6, ArenaAssumption DEF ArenaInv, RowHeld, Resolving, Asleep
  <2>9. Domains' /\ ModelFine' /\ \A u \in Users : UserFine(u)'
    BY <2>1, <2>3 DEF ArenaInv, Domains, ModelFine, UserFine, IsForecast
  <2> QED BY <2>4, <2>5, <2>7, <2>8, <2>9 DEF ArenaInv
<1> QED BY <1>2, <1>3, <1>4, <1>5, <1>6, <1>7, <1>8 DEF ResolverNext

-------------------------------------------------------------------------------------
\* The clock and the venue disturb nothing: a venue that has settled stays so.
LEMMA OutsideInv ==
  ASSUME ArenaInv, ArenaClock \/ VenueSettles \/ UNCHANGED arenaVars
  PROVE  ArenaInv'
<1>1. /\ UNCHANGED <<market, rowHolder, forecasts, scores, user, pass, resolver>>
      /\ venue # Unresolved => venue' = venue
  BY DEF ArenaClock, VenueSettles, arenaVars
<1>2. Domains' /\ RowHeld' /\ ModelFine' /\ ResolvedFine' /\ \A u \in Users : UserFine(u)'
  BY <1>1 DEF ArenaInv, Domains, RowHeld, ModelFine, ResolvedFine, UserFine, OneScoreEach, ScoredIn,
              Scores, IsForecast
<1>3. \A p \in Passes : PassFine(p)'
  BY <1>1 DEF ArenaInv, PassFine, IsForecast
<1>4. \A r \in Resolvers : ResolverFine(r)'
  BY <1>1 DEF ArenaInv, ResolverFine, OneScoreEach, ScoredIn, Scores
<1> QED BY <1>2, <1>3, <1>4 DEF ArenaInv

LEMMA NextInv == ArenaInv /\ [ArenaNext]_arenaVars => ArenaInv'
  BY UserInv, PassInv, ResolverInv, OutsideInv DEF ArenaNext

\* The arena keeps its inductive invariant: the market row has one holder, nobody
\* resolves what a pass holds, and a resolver's scores are new and complete.
THEOREM ArenaInvariance == ArenaSpec => []ArenaInv
  BY InitInv, NextInv, PTL DEF ArenaSpec

\* However resolutions race with locks, passes and one another, every forecast that the
\* scoring could see and that was locked before the recorded time is scored, once, and the
\* model's can always be seen.
THEOREM InTimeIsScored == ArenaSpec => []OnTimeLocksAreScored
<1>1. ArenaInv => OnTimeLocksAreScored
  <2> SUFFICES ASSUME ArenaInv PROVE OnTimeLocksAreScored
    OBVIOUS
  <2>1. \A f \in forecasts : ScoredIn(scores, f) => f \notin Unscored
    BY DEF ScoredIn, Scores, Unscored
  <2>2. \A s, t \in scores : <<s.who, s.seq>> = <<t.who, t.seq>> => s = t
    BY DEF ArenaInv, ResolvedFine, OneScoreEach
  <2>3. \A f \in Of(Model) : ~f.tardy
    BY DEF ArenaInv, ModelFine, Of
  <2> QED BY <2>1, <2>2, <2>3 DEF OnTimeLocksAreScored, ArenaInv, ResolvedFine
<1> QED BY <1>1, ArenaInvariance, PTL

\* The model never forecasts what is known, whenever the venue settles and whatever the
\* other passes do; only a second look that fails can leave it ignorant of a settlement.
THEOREM NoHindsight == ArenaSpec => []NoModelHindsight
<1>1. ArenaInv => NoModelHindsight
  BY DEF ArenaInv, ModelFine, NoModelHindsight, Of
<1> QED BY <1>1, ArenaInvariance, PTL

-------------------------------------------------------------------------------------
(* The chain of beliefs.  A lock that is in hand follows one that is committed, so *)
(* the number it would leave out is taken.                                         *)

\* g is a change of f, later or at the same time.
Follows(g, f) ==
    /\ f.seq = g.seq - 1 /\ f.at <= g.at
    /\ Kept(f.asked) # Kept(g.asked) \/ g.asked # 2 * Kept(g.asked)

Linked(r) ==
    /\ r.seq \in Nat \ {0} /\ r.at \in Nat /\ r.at <= 2 * now
    /\ r.seq = 1 \/ \E f \in Of(r.who) : Follows(r, f)

\* The committed locks.
Chain ==
    /\ now \in Nat /\ IsFiniteSet(forecasts)
    /\ \A f \in forecasts : Linked(f) /\ f.seq <= Cardinality(Of(f.who))
    /\ \A f, g \in forecasts : f.who = g.who /\ f.seq = g.seq => f = g
    /\ \A f \in forecasts : \A k \in 1..Cardinality(Of(f.who)) : \E g \in Of(f.who) : g.seq = k
    /\ \A f \in forecasts : f.who = Model => f.key = ModelKey

NoClash(r) == \A f \in forecasts : ~Clash(f, r)

\* The rows in hand, the uncommitted ones among them.
Drafts ==
    {user[u].row : u \in {v \in Users : user[v].at \in InHand}}
        \cup {pass[p].row : p \in {q \in Passes : pass[q].at \in {"stamped", "inserted"}}}

UsersApart ==
    \A u, v \in Users :
        u # v /\ user[u].at = "inserted" /\ user[v].at = "inserted" =>
            ~Clash(user[u].row, user[v].row)

ModelKeys ==
    \A p \in Passes : pass[p].at \in {"stamped", "inserted"} => pass[p].row.key = ModelKey

ChainInv ==
    /\ Chain /\ UsersApart /\ ModelKeys
    /\ \A r \in Drafts : Linked(r)
    /\ \A r \in InFlight : NoClash(r)

LEMMA InitChain == ArenaInit => ChainInv
<1> SUFFICES ASSUME ArenaInit PROVE ChainInv
  OBVIOUS
<1>1. forecasts = {} /\ now = 0 /\ IsFiniteSet({})
  BY FS_EmptySet DEF ArenaInit
<1>2. /\ \A u \in Users : user[u].at = "idle"
      /\ \A p \in Passes : pass[p].at = "idle"
  BY DEF ArenaInit, Asleep
<1>3. Drafts = {} /\ InFlight = {} /\ UsersApart /\ ModelKeys
  BY <1>2 DEF Drafts, InFlight, UsersApart, ModelKeys, InHand
<1> QED BY <1>1, <1>3 DEF ChainInv, Chain

\* The number of the next lock is one more than there are.
LEMMA NextInChain ==
  ASSUME Chain, NEW who
  PROVE  /\ IsFiniteSet(Of(who)) /\ Cardinality(Of(who)) \in Nat
         /\ NextSeq(who) = Cardinality(Of(who)) + 1
         /\ Of(who) # {} => /\ Latest(who) \in Of(who)
                            /\ Latest(who).seq = Cardinality(Of(who))
<1>1. IsFiniteSet(Of(who)) /\ Cardinality(Of(who)) \in Nat
  BY FS_Subset, FS_CardinalityType DEF Chain, Of
<1>2. CASE Of(who) = {}
  BY <1>1, <1>2, FS_EmptySet DEF NextSeq
<1>3. CASE Of(who) # {}
  <2> DEFINE n == Cardinality(Of(who))
  <2>1. n > 0
    BY <1>1, <1>3, FS_EmptySet
  <2>2. \A f \in Of(who) : f.seq \in Nat /\ f.seq <= n
    BY DEF Chain, Linked, Of
  <2>3. PICK f \in Of(who) : f.seq = n
    <3>1. PICK g \in Of(who) : TRUE
      BY <1>3
    <3>2. g \in forecasts /\ g.who = who /\ n \in 1..Cardinality(Of(g.who))
      BY <1>1, <2>1, <3>1 DEF Of
    <3> QED BY <3>2 DEF Chain
  <2>4. \A g \in Of(who) : g.seq <= f.seq
    BY <2>2, <2>3
  <2>5. Latest(who) \in Of(who) /\ \A g \in Of(who) : g.seq <= Latest(who).seq
    BY <2>3, <2>4 DEF Latest
  <2>6. n <= Latest(who).seq /\ Latest(who).seq <= n /\ Latest(who).seq \in Nat
    BY <2>2, <2>3, <2>5
  <2> QED BY <1>1, <1>3, <2>5, <2>6 DEF NextSeq
<1> QED BY <1>2, <1>3

\* A lock as it is made.
LEMMA MadeLinked ==
  ASSUME Chain, NEW who, NEW key, NEW asked,
         Of(who) # {} => 2 * Kept(Latest(who).asked) # asked
  PROVE  LET r == NewForecast(who, key, asked) IN Linked(r) /\ r.key = key
<1> DEFINE r == NewForecast(who, key, asked)
<1>1. r.who = who /\ r.key = key /\ r.asked = asked /\ r.seq = NextSeq(who) /\ r.at = 2 * now
  BY DEF NewForecast
<1> HIDE DEF r
<1>2. now \in Nat /\ r.seq \in Nat \ {0} /\ r.at \in Nat /\ r.at <= 2 * now
  BY <1>1, NextInChain DEF Chain
<1>3. ASSUME Of(who) # {} PROVE Follows(r, Latest(who)) /\ Latest(who) \in Of(r.who)
  <2>1. /\ Latest(who) \in Of(who) /\ Latest(who).seq = Cardinality(Of(who))
        /\ r.seq = Cardinality(Of(who)) + 1 /\ Cardinality(Of(who)) \in Nat
    BY <1>1, <1>3, NextInChain
  <2>2. Latest(who).at <= 2 * now
    BY <2>1 DEF Chain, Linked, Of
  <2>3. 2 * Kept(Latest(who).asked) # r.asked
    BY <1>1, <1>3
  <2> QED BY <1>1, <2>1, <2>2, <2>3 DEF Follows
<1>4. ASSUME Of(who) = {} PROVE r.seq = 1
  BY <1>1, <1>4, NextInChain, FS_EmptySet
<1> QED BY <1>1, <1>2, <1>3, <1>4 DEF Linked, r

\* Two rows that differ only in what the code does not keep.
SameLock(f, r) ==
    f.who = r.who /\ f.key = r.key /\ f.asked = r.asked /\ f.seq = r.seq /\ f.at = r.at

LEMMA AlikeRows ==
  ASSUME NEW row, IsForecast(row), NEW b
  PROVE  SameLock([row EXCEPT !.tardy = b], row) /\ SameLock([row EXCEPT !.blind = b], row)
  BY DEF IsForecast, SameLock

\* A committed lock stays, and so does what follows it.
LEMMA StaysLinked ==
  ASSUME forecasts \subseteq forecasts', now \in Nat, now' \in Nat, now <= now',
         NEW r, NEW q, SameLock(q, r), Linked(r)
  PROVE  Linked(q)'
<1>1. Of(r.who) \subseteq Of(r.who)'
  BY DEF Of
<1>2. q.at \in Nat /\ q.at <= 2 * now' /\ q.seq \in Nat \ {0}
  BY DEF Linked, SameLock
<1>3. r.seq = 1 \/ \E f \in Of(r.who)' : Follows(q, f)
  BY <1>1 DEF Linked, Follows, SameLock
<1> QED BY <1>2, <1>3 DEF Linked, SameLock, Of

\* The commit of a lock.
LEMMA ChainGrows ==
  ASSUME Chain, NEW r, NEW f, SameLock(f, r), Linked(r), NoClash(r),
         r.who = Model => r.key = ModelKey, forecasts' = forecasts \cup {f}, now' = now
  PROVE  Chain'
<1> DEFINE n == Cardinality(Of(f.who))
<1>1. /\ IsFiniteSet(Of(f.who)) /\ n \in Nat
  BY NextInChain
<1>2. f \notin forecasts /\ \A g \in Of(f.who) : g.seq # f.seq
  BY DEF NoClash, Clash, SameLock, Of
<1>3. Of(f.who)' = Of(f.who) \cup {f} /\ f \notin Of(f.who)
  BY <1>2 DEF Of
<1>4. Cardinality(Of(f.who)') = n + 1
  BY <1>1, <1>3, FS_AddElement
<1>5. \A who : who # f.who => Of(who)' = Of(who)
  BY DEF Of
<1>6. f.seq = n + 1
  <2>1. f.seq \in Nat \ {0}
    BY DEF Linked, SameLock
  <2>2. f.seq <= n + 1
    <3>1. CASE r.seq = 1
      BY <1>1, <3>1 DEF SameLock
    <3>2. CASE r.seq # 1
      <4>1. PICK g \in Of(f.who) : g.seq = r.seq - 1
        BY <3>2 DEF Linked, Follows, SameLock
      <4>2. g.seq <= n /\ g.seq \in Nat
        BY <4>1 DEF Chain, Linked, Of
      <4> QED BY <1>1, <2>1, <4>1, <4>2 DEF SameLock
    <3> QED BY <3>1, <3>2
  <2>3. ASSUME f.seq <= n PROVE FALSE
    <3>1. Of(f.who) # {}
      BY <1>1, <2>1, <2>3, FS_EmptySet
    <3>2. PICK g \in Of(f.who) : TRUE
      BY <3>1
    <3>3. g \in forecasts /\ g.who = f.who
      BY <3>2 DEF Of
    <3>4. f.seq \in 1..n
      BY <1>1, <2>1, <2>3
    <3>5. \E x \in Of(f.who) : x.seq = f.seq
      BY <3>3, <3>4 DEF Chain
    <3> QED BY <1>2, <3>5
  <2> QED BY <1>1, <2>1, <2>2, <2>3
<1> HIDE DEF n
<1>7. ASSUME NEW g \in forecasts'
      PROVE  /\ Linked(g)'
             /\ g.seq <= Cardinality(Of(g.who)')
             /\ \A k \in 1..Cardinality(Of(g.who)') : \E x \in Of(g.who)' : x.seq = k
  <2>1. Linked(g)'
    <3>1. CASE g = f
      BY <3>1, StaysLinked DEF Chain
    <3>2. CASE g \in forecasts
      <4>1. SameLock(g, g)
        BY DEF SameLock
      <4> QED BY <3>2, <4>1, StaysLinked DEF Chain
    <3> QED BY <3>1, <3>2
  <2>2. CASE g.who # f.who
    <3>1. g \in forecasts /\ Of(g.who)' = Of(g.who)
      BY <1>5, <2>2
    <3> QED BY <2>1, <3>1 DEF Chain
  <2>3. CASE g.who = f.who
    <3>1. g.seq <= n + 1
      <4>1. CASE g = f
        BY <1>1, <1>6, <4>1
      <4>2. CASE g \in forecasts
        BY <1>1, <2>3, <4>2 DEF Chain, Linked, n
      <4> QED BY <4>1, <4>2
    <3>2. ASSUME NEW k \in 1..n + 1 PROVE \E x \in Of(f.who)' : x.seq = k
      <4>1. CASE k = n + 1
        BY <1>3, <1>6, <4>1
      <4>2. CASE k # n + 1
        <5>1. k \in 1..n
          BY <1>1, <3>2, <4>2
        <5>2. Of(f.who) # {}
          BY <1>1, <5>1, FS_EmptySet DEF n
        <5>3. PICK h \in forecasts : h.who = f.who
          BY <5>2 DEF Of
        <5>4. \E x \in Of(f.who) : x.seq = k
          BY <5>1, <5>3 DEF Chain, n
        <5> QED BY <1>3, <5>4
      <4> QED BY <4>1, <4>2
    <3> QED BY <1>4, <2>1, <2>3, <3>1, <3>2
  <2> QED BY <2>2, <2>3
<1>8. ASSUME NEW g \in forecasts', NEW h \in forecasts', g.who = h.who, g.seq = h.seq
      PROVE  g = h
  <2>1. CASE g \in forecasts /\ h \in forecasts
    BY <1>8, <2>1 DEF Chain
  <2>2. CASE g = f \/ h = f
    BY <1>2, <1>8, <2>2 DEF Of
  <2> QED BY <2>1, <2>2
<1>9. \A g \in forecasts' : g.who = Model => g.key = ModelKey
  BY DEF Chain, SameLock
<1>10. IsFiniteSet(forecasts') /\ now' \in Nat
  BY FS_AddElement DEF Chain
<1>11. \A g \in forecasts' : (Linked(g) /\ g.seq <= Cardinality(Of(g.who)))'
  BY <1>7
<1>12. \A g \in forecasts' :
          \A k \in 1..Cardinality(Of(g.who)') : \E x \in Of(g.who)' : x.seq = k
  BY <1>7
<1> QED BY <1>8, <1>9, <1>10, <1>11, <1>12 DEF Chain

\* A step that commits no lock: what is new in hand must have its place.
LEMMA ChainKept ==
  ASSUME ChainInv, forecasts' = forecasts, now' \in Nat, now <= now', UsersApart', ModelKeys',
         \A r \in Drafts' : r \in Drafts \/ Linked(r),
         \A r \in InFlight' : r \in InFlight \/ NoClash(r)
  PROVE  ChainInv'
<1>1. \A r : Linked(r) => Linked(r)'
  BY StaysLinked DEF SameLock, ChainInv, Chain
<1>2. \A r \in Drafts' : Linked(r)'
  BY <1>1 DEF ChainInv
<1>3. \A r \in InFlight' : NoClash(r)'
  BY DEF ChainInv, NoClash
<1>4. \A f \in forecasts : Linked(f)'
  BY <1>1 DEF ChainInv, Chain
<1>5. \A who : Of(who)' = Of(who)
  BY DEF Of
<1>6. Chain'
  BY <1>4, <1>5 DEF ChainInv, Chain
<1> QED BY <1>2, <1>3, <1>6 DEF ChainInv

\* A step that commits one.
LEMMA ChainExtended ==
  ASSUME ChainInv, NEW r \in InFlight, r \in Drafts, NEW f, SameLock(f, r),
         r.who = Model => r.key = ModelKey, forecasts' = forecasts \cup {f}, now' = now,
         UsersApart', ModelKeys', Drafts' \subseteq Drafts, InFlight' \subseteq InFlight,
         \A x \in InFlight' : ~Clash(r, x)
  PROVE  ChainInv'
<1>1. Linked(r) /\ NoClash(r) /\ Chain
  BY DEF ChainInv
<1>2. Chain'
  BY <1>1, ChainGrows
<1>3. \A x \in Drafts' : Linked(x)'
  BY StaysLinked DEF SameLock, ChainInv, Chain
<1>4. \A x \in InFlight' : NoClash(x)'
  BY DEF ChainInv, NoClash, Clash, SameLock
<1> QED BY <1>2, <1>3, <1>4 DEF ChainInv

LEMMA UserChain ==
  ASSUME ArenaInv, ChainInv, NEW u \in Users, UserNext(u)
  PROVE  ChainInv'
<1>0. /\ DOMAIN user = Users /\ UserFine(u) /\ now \in Nat
      /\ \A d : UserTo(u, d) => /\ user'[u] = d
                                /\ \A v \in Users \ {u} : user'[v] = user[v]
  BY DEF ArenaInv, Domains, UserTo, ChainInv, Chain
<1>1. ASSUME NEW d, UserTo(u, d), OnlyUser,
             d.at \in InHand => Linked(d.row),
             d.at = "inserted" =>
               /\ NoClash(d.row)
               /\ \A v \in Users \ {u} : user[v].at = "inserted" => ~Clash(user[v].row, d.row)
      PROVE  ChainInv'
  <2>1. user'[u] = d /\ (\A v \in Users \ {u} : user'[v] = user[v])
        /\ pass' = pass /\ forecasts' = forecasts /\ now' = now
    BY <1>0, <1>1 DEF OnlyUser
  <2>2. \A r \in Drafts' : r \in Drafts \/ Linked(r)
    BY <1>1, <2>1 DEF Drafts
  <2>3. \A r \in InFlight' : r \in InFlight \/ NoClash(r)
    BY <1>1, <2>1 DEF InFlight
  <2>4. UsersApart'
    BY <1>1, <2>1 DEF ChainInv, UsersApart, Clash
  <2>5. ModelKeys'
    BY <2>1 DEF ChainInv, ModelKeys
  <2> QED BY <1>0, <2>1, <2>2, <2>3, <2>4, <2>5, ChainKept
<1>2. CASE Decline(u) \/ InsertFails(u) \/ LoseLock(u)
  <2>1. UserTo(u, Asleep) /\ OnlyUser
    BY <1>2 DEF Decline, InsertFails, LoseLock
  <2>2. Asleep.at = "idle"
    BY DEF Asleep
  <2> QED BY <1>1, <2>1, <2>2 DEF InHand
<1>3. ASSUME NEW q \in Requests, SeeMarket(u, q) PROVE ChainInv'
  <2> DEFINE d == [at |-> "seen", q |-> q, status |-> market.status]
  <2>1. UserTo(u, d) /\ OnlyUser /\ d.at = "seen"
    BY <1>3 DEF SeeMarket
  <2> HIDE DEF d
  <2> QED BY <1>1, <2>1 DEF InHand
<1>4. CASE StampLock(u)
  <2> DEFINE q == user[u].q
             row == NewForecast(q.who, q.key, q.asked)
             d == [at |-> "stamped", row |-> row]
  <2>1. UserTo(u, d) /\ OnlyUser /\ ~Redundant(q)
    BY <1>4 DEF StampLock
  <2>2. Linked(row)
    BY <2>1, MadeLinked DEF Redundant, ChainInv
  <2>3. d.at = "stamped" /\ d.row = row
    OBVIOUS
  <2> HIDE DEF row, d
  <2> QED BY <1>1, <2>1, <2>2, <2>3
<1>5. CASE ShareMarket(u) \/ InsertLock(u)
  <2>1. PICK at \in InHand : UserTo(u, [user[u] EXCEPT !.at = at])
    BY <1>5 DEF ShareMarket, InsertLock, InHand
  <2> DEFINE d == [user[u] EXCEPT !.at = at]
  <2>2. user[u].at \in InHand /\ OnlyUser /\ UserTo(u, d)
    BY <1>5, <2>1 DEF ShareMarket, InsertLock, InHand
  <2>3. d.at = at /\ d.row = user[u].row
    BY <1>0, <2>2 DEF UserFine
  <2>4. Linked(user[u].row)
    BY <2>2 DEF ChainInv, Drafts
  <2>5. ASSUME at = "inserted"
        PROVE  NoClash(user[u].row)
               /\ \A v \in Users \ {u} :
                    user[v].at = "inserted" => ~Clash(user[v].row, user[u].row)
    <3>1. CASE InsertLock(u)
      BY <3>1 DEF InsertLock, Duplicate, Awaited, NoClash, InFlight
    <3>2. CASE ShareMarket(u)
      <4>1. user'[u].at = "sharing"
        BY <1>0, <2>2, <3>2 DEF ShareMarket, UserFine, UserTo
      <4> QED BY <1>0, <2>2, <2>3, <2>5, <4>1
    <3> QED BY <1>5, <3>1, <3>2
  <2> HIDE DEF d
  <2> QED BY <1>1, <2>2, <2>3, <2>4, <2>5
<1>6. CASE CommitLock(u)
  <2> DEFINE row == user[u].row
             f == [row EXCEPT !.tardy = TooLate]
  <2>1. /\ user[u].at = "inserted" /\ forecasts' = forecasts \cup {f} /\ UserTo(u, Asleep)
        /\ now' = now /\ pass' = pass
    BY <1>6 DEF CommitLock
  <2>2. IsForecast(row) /\ row.who # Model
    BY <1>0, <2>1 DEF UserFine, InHand
  <2>3. SameLock(f, row)
    BY <2>2, AlikeRows
  <2>4. user'[u].at = "idle" /\ \A v \in Users \ {u} : user'[v] = user[v]
    BY <1>0, <2>1 DEF Asleep
  <2>5. row \in InFlight /\ row \in Drafts
    BY <2>1 DEF InFlight, Drafts, InHand
  <2>6. Drafts' \subseteq Drafts /\ InFlight' \subseteq InFlight
    BY <2>1, <2>4 DEF Drafts, InFlight, InHand
  <2>7. UsersApart' /\ ModelKeys'
    BY <2>1, <2>4 DEF ChainInv, UsersApart, ModelKeys, Clash
  <2>8. ASSUME NEW x \in InFlight' PROVE ~Clash(row, x)
    <3>1. CASE \E v \in Users : user'[v].at = "inserted" /\ x = user'[v].row
      BY <2>1, <2>4, <3>1 DEF ChainInv, UsersApart
    <3>2. CASE \E p \in Passes : pass[p].at = "inserted" /\ x = pass[p].row
      BY <2>2, <3>2 DEF ArenaInv, PassFine, Clash
    <3> QED BY <2>1, <2>8, <3>1, <3>2 DEF InFlight
  <2> HIDE DEF f, row
  <2> QED BY <2>1, <2>2, <2>3, <2>5, <2>6, <2>7, <2>8, ChainExtended
<1> QED BY <1>2, <1>3, <1>4, <1>5, <1>6 DEF UserNext

LEMMA PassChain ==
  ASSUME ArenaInv, ChainInv, NEW p \in Passes, PassNext(p)
  PROVE  ChainInv'
<1>0. /\ DOMAIN pass = Passes /\ PassFine(p) /\ now \in Nat
      /\ \A d : PassTo(p, d) => /\ pass'[p] = d
                                /\ \A q \in Passes \ {p} : pass'[q] = pass[q]
  BY DEF ArenaInv, Domains, PassTo, ChainInv, Chain
<1>1. ASSUME NEW d, PassTo(p, d), UNCHANGED <<now, forecasts, user>>,
             d.at \in {"stamped", "inserted"} => Linked(d.row) /\ d.row.key = ModelKey,
             d.at = "inserted" => NoClash(d.row)
      PROVE  ChainInv'
  <2>1. pass'[p] = d /\ (\A q \in Passes \ {p} : pass'[q] = pass[q])
    BY <1>0, <1>1
  <2>2. \A r \in Drafts' : r \in Drafts \/ Linked(r)
    BY <1>1, <2>1 DEF Drafts
  <2>3. \A r \in InFlight' : r \in InFlight \/ NoClash(r)
    BY <1>1, <2>1 DEF InFlight
  <2>4. UsersApart'
    BY <1>1 DEF ChainInv, UsersApart, Clash
  <2>5. ModelKeys'
    BY <1>1, <2>1 DEF ChainInv, ModelKeys
  <2> QED BY <1>0, <1>1, <2>2, <2>3, <2>4, <2>5, ChainKept
<1>2. ASSUME NEW at, at \notin {"stamped", "inserted"}, PassTo(p, [at |-> at]),
             UNCHANGED <<now, forecasts, user>>
      PROVE  ChainInv'
  <2> DEFINE d == [at |-> at]
  <2>1. d.at = at
    OBVIOUS
  <2> HIDE DEF d
  <2> QED BY <1>1, <1>2, <2>1 DEF d
<1>3. CASE \/ Select(p) \/ SkipRow(p) \/ LookAtVenue(p) \/ FindModelLock(p) \/ LoseEligibility(p)
           \/ LockRow(p) \/ LosePass(p) \/ (CommitPass(p) /\ pass[p].at = "finishing")
  <2>1. PICK at \in {"idle", "selected", "holding", "priced", "finishing"} :
          PassTo(p, [at |-> at])
    BY <1>3 DEF Select, SkipRow, LookAtVenue, FindModelLock, LoseEligibility, LockRow,
       LosePass, CommitPass, Asleep
  <2>2. UNCHANGED <<now, forecasts, user>>
    BY <1>3 DEF Select, SkipRow, LookAtVenue, FindModelLock, LoseEligibility, LockRow,
       LosePass, CommitPass, OnlyPass
  <2> QED BY <1>2, <2>1, <2>2
<1>4. CASE StampModel(p)
  <2> DEFINE row == NewForecast(Model, ModelKey, 0)
             d == [at |-> "stamped", row |-> row]
  <2>1. PassTo(p, d) /\ OnlyPass
    BY <1>4 DEF StampModel
  <2>2. Of(Model) = {}
    BY <1>4, ArenaAssumption DEF StampModel, KeyHeld, ChainInv, Chain, Of
  <2>3. Linked(row) /\ row.key = ModelKey
    BY <2>2, MadeLinked DEF ChainInv
  <2>4. d.at = "stamped" /\ d.row = row
    OBVIOUS
  <2> HIDE DEF row, d
  <2> QED BY <1>1, <2>1, <2>3, <2>4 DEF OnlyPass
<1>5. CASE InsertModel(p)
  <2> DEFINE row == pass[p].row
  <2>1. PICK blind \in BOOLEAN :
           PassTo(p, [at |-> "inserted", row |-> [row EXCEPT !.blind = blind]])
    BY <1>5 DEF InsertModel
  <2> DEFINE seen == [row EXCEPT !.blind = blind]
             d == [at |-> "inserted", row |-> seen]
  <2>2. PassTo(p, d) /\ OnlyPass /\ pass[p].at = "stamped" /\ ~Duplicate(row)
    BY <1>5, <2>1 DEF InsertModel
  <2>3. IsForecast(row)
    BY <1>0, <2>2 DEF PassFine
  <2>4. SameLock(seen, row)
    BY <2>3, AlikeRows
  <2>5. Linked(row) /\ row.key = ModelKey
    BY <2>2 DEF ChainInv, Drafts, ModelKeys
  <2>6. NoClash(seen) /\ seen.key = ModelKey
    BY <2>2, <2>4, <2>5 DEF Duplicate, NoClash, Clash, SameLock
  <2>7. Linked(seen)
    BY <2>4, <2>5 DEF Linked, SameLock, Follows
  <2>8. d.at = "inserted" /\ d.row = seen
    OBVIOUS
  <2> HIDE DEF row, seen, d
  <2> QED BY <1>1, <2>2, <2>6, <2>7, <2>8 DEF OnlyPass
<1>6. CASE CommitPass(p) /\ pass[p].at = "inserted"
  <2> DEFINE row == pass[p].row
             f == [row EXCEPT !.tardy = TooLate]
  <2>1. forecasts' = forecasts \cup {f} /\ PassTo(p, Asleep) /\ now' = now /\ user' = user
    BY <1>6 DEF CommitPass
  <2>2. IsForecast(row) /\ row.who = Model /\ row.key = ModelKey
    BY <1>0, <1>6 DEF PassFine, ChainInv, ModelKeys
  <2>3. SameLock(f, row)
    BY <2>2, AlikeRows
  <2>4. pass'[p].at = "idle" /\ \A q \in Passes \ {p} : pass'[q] = pass[q]
    BY <1>0, <2>1 DEF Asleep
  <2>5. row \in InFlight /\ row \in Drafts
    BY <1>6 DEF InFlight, Drafts
  <2>6. Drafts' \subseteq Drafts /\ InFlight' \subseteq InFlight
    BY <2>1, <2>4 DEF Drafts, InFlight
  <2>7. UsersApart' /\ ModelKeys'
    BY <2>1, <2>4 DEF ChainInv, UsersApart, ModelKeys, Clash
  <2>8. \A q \in Passes \ {p} : pass[q].at # "inserted"
    BY <1>6, ArenaAssumption DEF ArenaInv, RowHeld, Holding
  <2>9. ASSUME NEW x \in InFlight' PROVE ~Clash(row, x)
    <3>1. PICK v \in Users : user[v].at = "inserted" /\ x = user[v].row
      BY <2>1, <2>4, <2>8, <2>9 DEF InFlight
    <3>2. x.who # Model
      BY <3>1 DEF ArenaInv, UserFine, InHand
    <3> QED BY <2>2, <3>2 DEF Clash
  <2> HIDE DEF f, row
  <2> QED BY <2>1, <2>2, <2>3, <2>5, <2>6, <2>7, <2>9, ChainExtended
<1>7. CommitPass(p) => pass[p].at \in {"inserted", "finishing"}
  BY DEF CommitPass
<1> QED BY <1>3, <1>4, <1>5, <1>6, <1>7 DEF PassNext

LEMMA ChainStep == ArenaInv /\ ChainInv /\ [ArenaNext]_arenaVars => ChainInv'
<1> SUFFICES ASSUME ArenaInv, ChainInv, [ArenaNext]_arenaVars PROVE ChainInv'
  OBVIOUS
<1>1. ASSUME UNCHANGED <<forecasts, user, pass>>, now' \in {now, now + 1} PROVE ChainInv'
  <2>1. now \in Nat /\ now' \in Nat /\ now <= now'
    BY <1>1 DEF ChainInv, Chain
  <2>2. Drafts' = Drafts /\ InFlight' = InFlight /\ UsersApart' /\ ModelKeys'
    BY <1>1 DEF Drafts, InFlight, UsersApart, ModelKeys, ChainInv, Clash
  <2> QED BY <1>1, <2>1, <2>2, ChainKept
<1>2. CASE ArenaClock \/ VenueSettles \/ UNCHANGED arenaVars
  BY <1>1, <1>2 DEF ArenaClock, VenueSettles, arenaVars
<1>3. ASSUME NEW r \in Resolvers, ResolverNext(r) PROVE ChainInv'
  BY <1>1, <1>3 DEF ResolverNext, AdminResolves, WorkerSelects, WorkerFetches, UpdateMarket,
     StampResolution, ScoreMarket, CommitResolution, LoseResolver, OnlyResolver
<1> QED BY <1>2, <1>3, UserChain, PassChain DEF ArenaNext

\* The chain is kept by every lock: the unique numbers decide which of two that saw the
\* same latest lock is committed.
THEOREM ChainInvariance == ArenaSpec => [](ArenaInv /\ ChainInv)
<1>1. ArenaInit => ArenaInv /\ ChainInv
  BY InitInv, InitChain
<1>2. ArenaInv /\ ChainInv /\ [ArenaNext]_arenaVars => (ArenaInv /\ ChainInv)'
  BY NextInv, ChainStep
<1> QED BY <1>1, <1>2, PTL DEF ArenaSpec

\* However locks, retries and passes interleave, the locks of a forecaster are numbered
\* without a gap or a repetition, in the order of their times, each a change.
THEOREM Chained == ArenaSpec => []BeliefsAreAChain
<1>1. ASSUME Chain PROVE BeliefsAreAChain
  <2>1. ASSUME NEW f \in forecasts, NEW g \in forecasts, f.who = g.who, g.seq = f.seq + 1
        PROVE  /\ f.at <= g.at
               /\ Kept(f.asked) # Kept(g.asked) \/ g.asked # 2 * Kept(g.asked)
    <3>1. f.seq \in Nat \ {0} /\ Linked(g)
      BY <1>1 DEF Chain, Linked
    <3>2. PICK x \in Of(g.who) : Follows(g, x)
      BY <2>1, <3>1 DEF Linked
    <3>3. x.seq = f.seq /\ x \in forecasts /\ x.who = f.who
      BY <2>1, <3>1, <3>2 DEF Follows, Of
    <3>4. x = f
      BY <1>1, <3>3 DEF Chain
    <3> QED BY <3>2, <3>4 DEF Follows
  <2> QED BY <1>1, <2>1 DEF Chain, BeliefsAreAChain
<1>2. ChainInv => BeliefsAreAChain
  BY <1>1 DEF ChainInv
<1> QED BY <1>2, ChainInvariance, PTL

-------------------------------------------------------------------------------------
(* The columns of the rows, and what a score is of.                                *)

Scored(made) == \A s \in made : \E f \in forecasts : Scores(s, f)

ArenaRows ==
    /\ now \in 0..MaxTime /\ venue \in Outcomes \cup {Unresolved}
    /\ market.status \in {"OPEN", "RESOLVED"}
    /\ forecasts \subseteq Forecast
    /\ \A u \in Users : user[u].at \in InHand => user[u].row \in Forecast
    /\ \A p \in Passes :
          /\ pass[p].at \in {"idle", "selected"} \cup Holding
          /\ pass[p].at \in {"stamped", "inserted"} => pass[p].row \in Forecast
    /\ Scored(scores)
    /\ \A r \in Resolvers : resolver[r].at = "scored" => Scored(resolver[r].made)

LEMMA InitRows == ArenaInit => ArenaRows
  BY ArenaAssumption DEF ArenaInit, ArenaRows, Asleep, InHand, Holding, Scored

\* A lock as it is made has its columns.
LEMMA MadeForecast ==
  ASSUME Chain, ArenaRows, NEW who, NEW key, NEW asked, NextSeq(who) <= MaxSeq,
         who \in {q.who : q \in Requests} \cup {Model},
         key \in {q.key : q \in Requests} \cup {ModelKey},
         asked \in {q.asked : q \in Requests} \cup {0}
  PROVE  NewForecast(who, key, asked) \in Forecast
<1>1. NextSeq(who) \in 1..MaxSeq
  BY NextInChain, ArenaAssumption
<1>2. 2 * now \in 0..2 * MaxTime
  BY ArenaAssumption DEF ArenaRows
<1>3. (venue # Unresolved) \in BOOLEAN
  OBVIOUS
<1> QED BY <1>1, <1>2, <1>3 DEF NewForecast, Forecast

\* A row that is marked keeps its columns.
LEMMA MarkedForecast ==
  ASSUME NEW row \in Forecast, NEW b \in BOOLEAN
  PROVE  /\ [row EXCEPT !.tardy = b] \in Forecast
         /\ [row EXCEPT !.blind = b] \in Forecast
  BY DEF Forecast

\* Forecasts are never taken back, so what is a score stays one.
LEMMA ScoredStays ==
  ASSUME forecasts \subseteq forecasts', NEW made, Scored(made)
  PROVE  \A s \in made : \E f \in forecasts' : Scores(s, f)
  BY DEF Scored

\* A session moves on, with at most one more forecast.
LEMMA UserRow ==
  ASSUME ArenaInv, ArenaRows, NEW u \in Users, NEW d, UserTo(u, d),
         d.at \in InHand => d.row \in Forecast,
         forecasts \subseteq forecasts', forecasts' \subseteq Forecast,
         UNCHANGED <<now, venue, market, scores, pass, resolver>>
  PROVE  ArenaRows'
<1>1. DOMAIN user = Users
  BY DEF ArenaInv, Domains
<1>2. \A v \in Users : user'[v].at \in InHand => user'[v].row \in Forecast
  BY <1>1 DEF ArenaRows, UserTo
<1>3. Scored(scores)' /\ \A r \in Resolvers : resolver'[r].at = "scored" => Scored(resolver[r].made)'
  BY ScoredStays DEF ArenaRows, Scored
<1> QED BY <1>2, <1>3 DEF ArenaRows

LEMMA PassRow ==
  ASSUME ArenaInv, ArenaRows, NEW p \in Passes, NEW d, PassTo(p, d),
         d.at \in {"idle", "selected"} \cup Holding,
         d.at \in {"stamped", "inserted"} => d.row \in Forecast,
         forecasts \subseteq forecasts', forecasts' \subseteq Forecast,
         UNCHANGED <<now, venue, market, scores, user, resolver>>
  PROVE  ArenaRows'
<1>1. DOMAIN pass = Passes
  BY DEF ArenaInv, Domains
<1>2. \A q \in Passes :
          /\ pass'[q].at \in {"idle", "selected"} \cup Holding
          /\ pass'[q].at \in {"stamped", "inserted"} => pass'[q].row \in Forecast
  BY <1>1 DEF ArenaRows, PassTo
<1>3. Scored(scores)' /\ \A r \in Resolvers : resolver'[r].at = "scored" => Scored(resolver[r].made)'
  BY ScoredStays DEF ArenaRows, Scored
<1> QED BY <1>2, <1>3 DEF ArenaRows

LEMMA UserRows ==
  ASSUME ArenaInv, ChainInv, ArenaRows, NEW u \in Users, UserNext(u)
  PROVE  ArenaRows'
<1>1. ASSUME NEW d, UserTo(u, d), d.at \in InHand => d.row \in Forecast, OnlyUser
      PROVE  ArenaRows'
  BY <1>1, UserRow DEF OnlyUser, ArenaRows
<1>2. CASE Decline(u) \/ InsertFails(u) \/ LoseLock(u)
  <2>1. UserTo(u, Asleep) /\ OnlyUser /\ Asleep.at \notin InHand
    BY <1>2 DEF Decline, InsertFails, LoseLock, Asleep, InHand
  <2> QED BY <1>1, <2>1
<1>3. ASSUME NEW q \in Requests, SeeMarket(u, q) PROVE ArenaRows'
  <2> DEFINE d == [at |-> "seen", q |-> q, status |-> market.status]
  <2>1. UserTo(u, d) /\ OnlyUser /\ d.at \notin InHand
    BY <1>3 DEF SeeMarket, InHand
  <2> QED BY <1>1, <2>1
<1>4. CASE StampLock(u)
  <2> DEFINE q == user[u].q
             row == NewForecast(q.who, q.key, q.asked)
             d == [at |-> "stamped", row |-> row]
  <2>1. q \in Requests /\ NextSeq(q.who) <= MaxSeq /\ UserTo(u, d) /\ OnlyUser
    BY <1>4 DEF StampLock, ArenaInv, UserFine
  <2>2. row \in Forecast
    BY <2>1, MadeForecast DEF ChainInv
  <2>3. d.row \in Forecast
    BY <2>2
  <2> HIDE DEF d
  <2> QED BY <1>1, <2>1, <2>3
<1>5. CASE ShareMarket(u) \/ InsertLock(u)
  <2>1. PICK at \in InHand : UserTo(u, [user[u] EXCEPT !.at = at]) /\ OnlyUser
    BY <1>5 DEF ShareMarket, InsertLock, InHand
  <2>2. user[u].at \in InHand
    BY <1>5 DEF ShareMarket, InsertLock, InHand
  <2>3. [user[u] EXCEPT !.at = at].row = user[u].row /\ user[u].row \in Forecast
    BY <2>2 DEF ArenaInv, UserFine, ArenaRows
  <2> QED BY <1>1, <2>1, <2>3
<1>6. CASE CommitLock(u)
  <2> DEFINE f == [user[u].row EXCEPT !.tardy = TooLate]
  <2>1. user[u].row \in Forecast /\ TooLate \in BOOLEAN
    BY <1>6 DEF CommitLock, ArenaRows, InHand, TooLate
  <2>2. f \in Forecast
    BY <2>1, MarkedForecast
  <2>3. /\ UserTo(u, Asleep) /\ Asleep.at \notin InHand /\ forecasts' = forecasts \cup {f}
        /\ UNCHANGED <<now, venue, market, scores, pass, resolver>>
    BY <1>6 DEF CommitLock, Asleep, InHand
  <2> HIDE DEF f
  <2>4. forecasts \subseteq forecasts' /\ forecasts' \subseteq Forecast
    BY <2>2, <2>3 DEF ArenaRows
  <2> QED BY <2>3, <2>4, UserRow
<1> QED BY <1>2, <1>3, <1>4, <1>5, <1>6 DEF UserNext

\* The model's first lock has number one.
LEMMA ModelsNumber ==
  ASSUME Chain, ~KeyHeld(Model, ModelKey)
  PROVE  NextSeq(Model) <= MaxSeq
<1>1. Of(Model) = {}
  BY ArenaAssumption DEF Chain, KeyHeld, Of
<1>2. NextSeq(Model) = 1
  BY <1>1 DEF NextSeq
<1> QED BY <1>2, ArenaAssumption

LEMMA PassRows ==
  ASSUME ArenaInv, ChainInv, ArenaRows, NEW p \in Passes, PassNext(p)
  PROVE  ArenaRows'
<1>1. ASSUME NEW d, PassTo(p, d), d.at \in {"idle", "selected"} \cup Holding,
             d.at \in {"stamped", "inserted"} => d.row \in Forecast,
             UNCHANGED <<now, venue, market, forecasts, scores, user, resolver>>
      PROVE  ArenaRows'
  BY <1>1, PassRow DEF ArenaRows
<1>2. CASE \/ Select(p) \/ LockRow(p) \/ SkipRow(p) \/ LookAtVenue(p) \/ FindModelLock(p)
           \/ LoseEligibility(p) \/ LosePass(p)
  <2>1. PICK at \in {"idle", "selected", "holding", "priced", "finishing"} :
            PassTo(p, [at |-> at])
    BY <1>2 DEF Select, LockRow, SkipRow, LookAtVenue, FindModelLock, LoseEligibility, LosePass,
                Asleep
  <2>2. UNCHANGED <<now, venue, market, forecasts, scores, user, resolver>>
    BY <1>2 DEF Select, LockRow, SkipRow, LookAtVenue, FindModelLock, LoseEligibility, LosePass,
                OnlyPass
  <2> QED BY <1>1, <2>1, <2>2 DEF Holding
<1>3. CASE StampModel(p)
  <2> DEFINE row == NewForecast(Model, ModelKey, 0)
             d == [at |-> "stamped", row |-> row]
  <2>1. row \in Forecast
    BY <1>3, MadeForecast, ModelsNumber DEF ChainInv, StampModel
  <2>2. PassTo(p, d) /\ OnlyPass
    BY <1>3 DEF StampModel
  <2>3. d.row \in Forecast /\ d.at \in Holding
    BY <2>1 DEF Holding
  <2> HIDE DEF d
  <2> QED BY <1>1, <2>2, <2>3 DEF OnlyPass
<1>4. CASE InsertModel(p)
  <2>1. PICK blind \in BOOLEAN :
            PassTo(p, [at |-> "inserted", row |-> [pass[p].row EXCEPT !.blind = blind]])
    BY <1>4 DEF InsertModel
  <2> DEFINE d == [at |-> "inserted", row |-> [pass[p].row EXCEPT !.blind = blind]]
  <2>2. pass[p].row \in Forecast /\ OnlyPass
    BY <1>4 DEF InsertModel, ArenaRows
  <2>3. d.row \in Forecast /\ d.at \in Holding
    BY <2>2, MarkedForecast DEF Holding
  <2>4. PassTo(p, d)
    BY <2>1
  <2> HIDE DEF d
  <2> QED BY <1>1, <2>2, <2>3, <2>4 DEF OnlyPass
<1>5. CASE CommitPass(p)
  <2> DEFINE f == [pass[p].row EXCEPT !.tardy = TooLate]
  <2>1. pass[p].at = "inserted" => f \in Forecast
    <3>1. pass[p].at = "inserted" => pass[p].row \in Forecast /\ TooLate \in BOOLEAN
      BY DEF ArenaRows, TooLate
    <3> QED BY <3>1, MarkedForecast
  <2>2. /\ PassTo(p, Asleep) /\ Asleep.at = "idle"
        /\ forecasts' = IF pass[p].at = "inserted" THEN forecasts \cup {f} ELSE forecasts
        /\ UNCHANGED <<now, venue, market, scores, user, resolver>>
    BY <1>5 DEF CommitPass, Asleep
  <2> HIDE DEF f
  <2>3. forecasts \subseteq forecasts' /\ forecasts' \subseteq Forecast
    BY <2>1, <2>2 DEF ArenaRows
  <2> QED BY <2>2, <2>3, PassRow
<1> QED BY <1>2, <1>3, <1>4, <1>5 DEF PassNext

LEMMA ResolverRows ==
  ASSUME ArenaInv, ArenaRows, NEW r \in Resolvers, ResolverNext(r)
  PROVE  ArenaRows'
<1>1. DOMAIN resolver = Resolvers /\ UNCHANGED <<now, venue, forecasts, user, pass>>
  BY DEF ArenaInv, Domains, ResolverNext, AdminResolves, WorkerSelects, WorkerFetches,
         UpdateMarket, StampResolution, ScoreMarket, CommitResolution, LoseResolver, OnlyResolver
<1>2. ASSUME NEW d, ResolverTo(r, d), d.at = "scored" => Scored(d.made), Scored(scores'),
             market'.status \in {"OPEN", "RESOLVED"}
      PROVE  ArenaRows'
  <2>1. \A q \in Resolvers : resolver'[q].at = "scored" => Scored(resolver'[q].made)
    BY <1>1, <1>2 DEF ArenaRows, ResolverTo
  <2>2. Scored(scores)' /\ \A q \in Resolvers : resolver'[q].at = "scored" => Scored(resolver[q].made)'
    BY <1>1, <1>2, <2>1 DEF Scored
  <2> QED BY <1>1, <1>2, <2>2 DEF ArenaRows
<1>3. ASSUME NEW d, ResolverTo(r, d), d.at # "scored", UNCHANGED <<market, scores>>
      PROVE  ArenaRows'
  BY <1>2, <1>3 DEF ArenaRows
<1>4. ASSUME NEW outcome, NEW stated, AdminResolves(r, outcome, stated) PROVE ArenaRows'
  <2> DEFINE d == [at |-> "deciding", outcome |-> outcome, stated |-> stated,
                   candidate |-> 2 * now]
  <2>1. ResolverTo(r, d) /\ d.at # "scored" /\ UNCHANGED <<market, scores>>
    BY <1>4 DEF AdminResolves, OnlyResolver
  <2> HIDE DEF d
  <2> QED BY <1>3, <2>1
<1>5. CASE WorkerSelects(r)
  <2>1. ResolverTo(r, [at |-> "selected"]) /\ UNCHANGED <<market, scores>>
    BY <1>5 DEF WorkerSelects, OnlyResolver
  <2> QED BY <1>3, <2>1
<1>6. CASE WorkerFetches(r)
  <2> DEFINE d == [at |-> "deciding", outcome |-> venue, stated |-> {Close}, candidate |-> Close]
  <2>1. /\ ResolverTo(r, Asleep) \/ ResolverTo(r, d)
        /\ d.at # "scored" /\ Asleep.at # "scored" /\ UNCHANGED <<market, scores>>
    BY <1>6 DEF WorkerFetches, OnlyResolver, Asleep
  <2> HIDE DEF d
  <2> QED BY <1>3, <2>1
<1>7. CASE UpdateMarket(r)
  <2> DEFINE d == [resolver[r] EXCEPT !.at = "updated"]
  <2>1. ResolverTo(r, d) /\ d.at # "scored" /\ UNCHANGED <<market, scores>>
    BY <1>7 DEF UpdateMarket, ArenaInv, ResolverFine
  <2> HIDE DEF d
  <2> QED BY <1>3, <2>1
<1>8. CASE StampResolution(r)
  <2>1. PICK stamp : ResolverTo(r, [at |-> "stamped", outcome |-> resolver[r].outcome,
                                    stamp |-> stamp])
    BY <1>8 DEF StampResolution
  <2>2. UNCHANGED <<market, scores>>
    BY <1>8 DEF StampResolution, OnlyResolver
  <2> QED BY <1>3, <2>1, <2>2
<1>9. CASE ScoreMarket(r)
  <2> DEFINE outcome == resolver[r].outcome
             made == {ScoreOf(f, outcome) : f \in {g \in Unscored : g.at < resolver[r].stamp}}
             d == [at |-> "scored", outcome |-> outcome, stamp |-> resolver[r].stamp,
                   made |-> made]
  <2>1. Scored(made)
    BY DEF Scored, Scores, ScoreOf, Unscored
  <2>2. ResolverTo(r, d) /\ UNCHANGED <<market, scores>>
    BY <1>9 DEF ScoreMarket, OnlyResolver
  <2>3. d.made = made
    OBVIOUS
  <2> HIDE DEF d, made
  <2> QED BY <1>2, <2>1, <2>2, <2>3 DEF ArenaRows
<1>10. CASE CommitResolution(r)
  <2>1. /\ ResolverTo(r, Asleep) /\ Asleep.at # "scored"
        /\ scores' = scores \cup resolver[r].made /\ market'.status = "RESOLVED"
        /\ resolver[r].at = "scored"
    BY <1>10 DEF CommitResolution, Asleep
  <2>2. Scored(scores')
    BY <2>1 DEF Scored, ArenaRows
  <2> QED BY <1>2, <2>1, <2>2
<1>11. CASE LoseResolver(r)
  <2>1. ResolverTo(r, Asleep) /\ Asleep.at # "scored" /\ UNCHANGED <<market, scores>>
    BY <1>11 DEF LoseResolver, Asleep
  <2> QED BY <1>3, <2>1
<1> QED
  BY <1>4, <1>5, <1>6, <1>7, <1>8, <1>9, <1>10, <1>11 DEF ResolverNext

LEMMA RowsStep == ArenaInv /\ ChainInv /\ ArenaRows /\ [ArenaNext]_arenaVars => ArenaRows'
<1> SUFFICES ASSUME ArenaInv, ChainInv, ArenaRows, [ArenaNext]_arenaVars PROVE ArenaRows'
  OBVIOUS
<1>1. CASE ArenaClock
  BY <1>1, ArenaAssumption DEF ArenaClock, ArenaRows, Scored
<1>2. CASE VenueSettles
  BY <1>2 DEF VenueSettles, ArenaRows, Scored, VenueOutcome, Outcomes
<1>3. CASE UNCHANGED arenaVars
  BY <1>3 DEF arenaVars, ArenaRows, Scored
<1> QED BY <1>1, <1>2, <1>3, UserRows, PassRows, ResolverRows DEF ArenaNext

\* Every row a forecast, a score or a resolution leaves has its columns, every score is
\* of a forecast, and the market row is held by the session that says so, whatever
\* passes, resolvers and users lose on the way.
THEOREM ArenaTyped == ArenaSpec => []ForecastTypeOK
<1>1. ArenaInit => ArenaInv /\ ChainInv /\ ArenaRows
  BY InitInv, InitChain, InitRows
<1>2. ArenaInv /\ ChainInv /\ ArenaRows /\ [ArenaNext]_arenaVars
      => (ArenaInv /\ ChainInv /\ ArenaRows)'
  BY NextInv, ChainStep, RowsStep
<1>3. ASSUME ArenaInv, ArenaRows PROVE ForecastTypeOK
  <2>1. \A p \in Passes : rowHolder = p <=> pass[p].at \notin {"idle", "selected"}
    BY <1>3 DEF ArenaInv, RowHeld, Holding, ArenaRows
  <2> QED BY <1>3, <2>1 DEF ForecastTypeOK, ArenaInv, RowHeld, ArenaRows, Scored, Scores
<1> QED BY <1>1, <1>2, <1>3, PTL DEF ArenaSpec

=====================================================================================

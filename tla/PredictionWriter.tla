----------------------------- MODULE PredictionWriter ------------------------------
(***********************************************************************************)
(* The writer of prediction_logs (services/prediction_writer.py): passes started   *)
(* by the loop in main.py and by the ARQ cron, in one process or in several.       *)
(*                                                                                 *)
(* Passes of a process queue on _PASS_LOCK; passes of different processes only     *)
(* have the row locks of their SELECT ... FOR UPDATE SKIP LOCKED.  A pass takes    *)
(* its `now` before it selects, so passes need not commit in the order of theirs.  *)
(***********************************************************************************)
EXTENDS Integers, Sequences, FiniteSets

CONSTANTS
    ByVolume,      \* the markets, the largest volume first
    Runs,          \* passes that may be under way together
    ProcessOf,     \* the process of each
    Batch,         \* how many markets a pass selects
    RecencySec,    \* window_sec, in clock steps
    LastTick,      \* bound on the clock
    NoRun

Listed == {ByVolume[i] : i \in DOMAIN ByVolume}

ASSUME WriterAssumption ==
    /\ ByVolume \in Seq(Listed)
    /\ NoRun \notin Runs
    /\ {RecencySec, LastTick, Batch} \subseteq Nat

VARIABLES
    ticks,         \* datetime.now
    tradable,      \* the markets whose status is OPEN
    logged,        \* the committed prediction_logs rows: [slug, at, by]
    rowOf,         \* per market row, the pass that has it locked
    runs           \* the passes

writerVars == <<ticks, tradable, logged, rowOf, runs>>

NotRunning == [at |-> "idle", now |-> 0, rows |-> {}, write |-> {}]

WriterInit ==
    /\ ticks = 0 /\ tradable = Listed /\ logged = {}
    /\ rowOf = [s \in Listed |-> NoRun]
    /\ runs = [r \in Runs |-> NotRunning]

-------------------------------------------------------------------------------------
\* async with _PASS_LOCK.
PassLock(r) ==
    \A q \in Runs : ProcessOf[q] = ProcessOf[r] => runs[q].at = "idle"

StartRun(r) ==
    /\ PassLock(r)
    /\ runs' = [runs EXCEPT ![r] = [NotRunning EXCEPT !.at = "begun", !.now = ticks]]
    /\ UNCHANGED <<ticks, tradable, logged, rowOf>>

\* Mutant: the SELECT takes rows that others have locked.
FreeToAnyone(s) == s \in tradable

\* What the SELECT may take: an OPEN market whose row is not locked.
Free(s) == s \in tradable /\ rowOf[s] = NoRun

\* Those of the largest volume among them.
Selected ==
    {ByVolume[i] : i \in {j \in DOMAIN ByVolume :
        Free(ByVolume[j])
        /\ Cardinality({k \in 1..j : Free(ByVolume[k])}) <= Batch}}

SelectMarkets(r) ==
    /\ runs[r].at = "begun"
    /\ runs' = [runs EXCEPT ![r].at = "selected", ![r].rows = Selected]
    /\ rowOf' = [s \in Listed |-> IF s \in Selected THEN r ELSE rowOf[s]]
    /\ UNCHANGED <<ticks, tradable, logged>>

\* _slugs_predicted_since.
Recent(s, now) == \E p \in logged : p.slug = s /\ p.at >= now - RecencySec

\* A market past its lock_at, without a price, or whose prediction fails is counted and
\* left out.
Predict(r) ==
    /\ runs[r].at = "selected"
    /\ \E predicted \in SUBSET {s \in runs[r].rows : ~Recent(s, runs[r].now)} :
          runs' = [runs EXCEPT ![r].at = "predicted", ![r].write = predicted]
    /\ UNCHANGED <<ticks, tradable, logged, rowOf>>

Unlocked(r) == [s \in Listed |-> IF rowOf[s] = r THEN NoRun ELSE rowOf[s]]

CommitRun(r) ==
    /\ runs[r].at = "predicted"
    /\ logged' = logged \cup [slug : runs[r].write, at : {runs[r].now}, by : {r}]
    /\ rowOf' = Unlocked(r)
    /\ runs' = [runs EXCEPT ![r] = NotRunning]
    /\ UNCHANGED <<ticks, tradable>>

\* An exception rolls back and is recorded; a crash is the same without the record.
FailRun(r) ==
    /\ runs[r].at # "idle"
    /\ rowOf' = Unlocked(r)
    /\ runs' = [runs EXCEPT ![r] = NotRunning]
    /\ UNCHANGED <<ticks, tradable, logged>>

\* A market is paused or resolved, or opened again; of a selected market that waits for
\* its row.
ChangeStatus(s) ==
    /\ rowOf[s] = NoRun
    /\ tradable' = IF s \in tradable THEN tradable \ {s} ELSE tradable \cup {s}
    /\ UNCHANGED <<ticks, logged, rowOf, runs>>

WriterClock ==
    /\ ticks < LastTick
    /\ ticks' = ticks + 1
    /\ UNCHANGED <<tradable, logged, rowOf, runs>>

RunNext(r) == StartRun(r) \/ SelectMarkets(r) \/ Predict(r) \/ CommitRun(r) \/ FailRun(r)

WriterNext ==
    \/ WriterClock
    \/ \E s \in Listed : ChangeStatus(s)
    \/ \E r \in Runs : RunNext(r)

WriterSpec == WriterInit /\ [][WriterNext]_writerVars

-------------------------------------------------------------------------------------
(* Properties.                                                                     *)

WriterTypeOK ==
    /\ ticks \in Nat /\ tradable \subseteq Listed
    /\ logged \subseteq [slug : Listed, at : Nat, by : Runs]
    /\ rowOf \in [Listed -> Runs \cup {NoRun}]
    /\ runs \in [Runs -> [at : {"idle", "begun", "selected", "predicted"}, now : Nat,
                          rows : SUBSET Listed, write : SUBSET Listed]]

\* "Boot catch-up and a cron pass in the same window cannot double-write": two rows of
\* one market are more than the window apart, in whatever order and process their passes
\* began, selected and committed.
OncePerWindow ==
    \A p, q \in logged :
        p.slug = q.slug /\ p # q =>
            p.at - q.at > RecencySec \/ q.at - p.at > RecencySec

=====================================================================================

--------------------------------- MODULE Scanners ----------------------------------
(***********************************************************************************)
(* Scanner Studio, on one scanner: the spec and its numbered versions              *)
(* (services/scanner_version_service.py), test runs and the gate they open to      *)
(* publishing, runs started by a user or by the scheduler                          *)
(* (scanner_scheduler_service.py, scanner_executor_service.py) and the dead letter *)
(* after three failures.                                                           *)
(*                                                                                 *)
(* Every request, and every pass of the scheduler, is a READ COMMITTED transaction *)
(* that loads the row once and works on that object; a commit writes the columns   *)
(* it gave a new value.  A run is inserted and finished in one transaction, so no  *)
(* session sees another's running run, and _running_run finds none.  When an active *)
(* scanner is due is left open.                                                    *)
(***********************************************************************************)
EXTENDS Integers, FiniteSets

CONSTANTS
    Editors,       \* requests and passes under way together
    Specs,         \* specs a user may save
    FirstSpec,     \* the one the scanner is created with
    MaxSaves,      \* bound on the edits and rollbacks that commit
    MaxRuns        \* bound on the runs started

ASSUME ScannerAssumption == FirstSpec \in Specs /\ MaxSaves \in Nat /\ MaxRuns \in Nat

VARIABLES
    scanner,       \* the committed row
    versions,      \* scanner_versions: the spec archived under each number
    runLog,        \* committed scanner_runs; `spec` is what the run executed, which
                   \* the code does not record
    alarms,        \* the runs whose transaction wrote a scanner:failing row
    begun,         \* runs started so far, in the order of started_at
    saves,
    editor         \* the sessions

scannerVars == <<scanner, versions, runLog, alarms, begun, saves, editor>>

AlarmAfter == 3

Away == [at |-> "away"]

ScannerInit ==
    /\ scanner = [spec |-> FirstSpec, version |-> 1, status |-> "draft"]
    /\ versions = <<>> /\ runLog = {} /\ alarms = {}
    /\ begun = 0 /\ saves = 0
    /\ editor = [e \in Editors |-> Away]

EditorTo(e, record) == editor' = [editor EXCEPT ![e] = record]

\* What a column holds after a session that read `loaded` and assigned `assigned`.
Written(assigned, loaded, current) == IF assigned = loaded THEN current ELSE assigned

StatusWritten(e, assigned) ==
    scanner' = [scanner EXCEPT !.status = Written(assigned, editor[e].row.status, @)]

-------------------------------------------------------------------------------------
(* Every handler begins with its SELECT of the scanner, and some refuse there.     *)

Tasks == {"edit", "rollback", "test", "run", "pass", "publish", "pause", "resume"}

Admitted(task) ==
    /\ task = "publish" => scanner.status = "draft"
    /\ task = "run" => scanner.status # "paused"
    /\ task = "pass" => scanner.status = "active"

LoadScanner(e, task) ==
    /\ editor[e] = Away /\ Admitted(task)
    /\ EditorTo(e, [at |-> "loaded", task |-> task, row |-> scanner])
    /\ UNCHANGED <<scanner, versions, runLog, alarms, begun, saves>>

\* An error or a lost connection rolls back; an alarm, a run and a version go with it.
LoseEditor(e) ==
    /\ editor[e] # Away
    /\ EditorTo(e, Away)
    /\ UNCHANGED <<scanner, versions, runLog, alarms, begun, saves>>

-------------------------------------------------------------------------------------
(* Versions: apply_spec_change, rollback_scanner_spec.                             *)

Loaded(e, task) == editor[e].at = "loaded" /\ editor[e].task = task

\* archive_current_spec's lookup; the version that is found is left as it is.
Saving(e, spec, version) ==
    [at |-> "saving", row |-> editor[e].row, spec |-> spec, version |-> version,
     archives |-> editor[e].row.version \notin DOMAIN versions]

PrepareEdit(e) ==
    /\ Loaded(e, "edit")
    /\ \E spec \in Specs : EditorTo(e, Saving(e, spec, editor[e].row.version + 1))
    /\ UNCHANGED <<scanner, versions, runLog, alarms, begun, saves>>

PrepareRollback(e) ==
    /\ Loaded(e, "rollback")
    /\ \E v \in DOMAIN versions : EditorTo(e, Saving(e, versions[v], v))
    /\ UNCHANGED <<scanner, versions, runLog, alarms, begun, saves>>

\* A version that another session has archived since breaks the unique key.
SaveSpec(e) ==
    LET s == editor[e]
        v == s.row.version
    IN
    /\ s.at = "saving" /\ saves < MaxSaves
    /\ s.archives => v \notin DOMAIN versions
    /\ versions' = IF s.archives
                   THEN [w \in DOMAIN versions \cup {v} |->
                           IF w = v THEN s.row.spec ELSE versions[w]]
                   ELSE versions
    /\ scanner' = [scanner EXCEPT !.spec = Written(s.spec, s.row.spec, @),
                                  !.version = Written(s.version, v, @)]
    /\ saves' = saves + 1
    /\ EditorTo(e, Away)
    /\ UNCHANGED <<runLog, alarms, begun>>

-------------------------------------------------------------------------------------
(* Runs: run_scanner for a test, a user's run or a pass of the scheduler.          *)

StartScan(e) ==
    /\ \E task \in {"test", "run", "pass"} : Loaded(e, task)
    /\ begun < MaxRuns
    /\ begun' = begun + 1
    /\ EditorTo(e, [at |-> "scanning", task |-> editor[e].task, row |-> editor[e].row,
                    started |-> begun + 1])
    /\ UNCHANGED <<scanner, versions, runLog, alarms, saves>>

RunOf(e, ok) ==
    LET s == editor[e] IN
    [started |-> s.started, test |-> s.task = "test", ok |-> ok,
     version |-> s.row.version, spec |-> s.row.spec]

NewestOf(n, log) == {r \in log : Cardinality({q \in log : q.started > r.started}) < n}

\* Mutant: test runs are counted too.
JudgedAny(log) == log

\* The runs the dead letter looks at.
Judged(log) == {r \in log : ~r.test}

\* _maybe_deadletter_after_failure, up to its verdict.
Trips(run) ==
    LET recent == NewestOf(AlarmAfter, Judged(runLog \cup {run})) IN
    /\ ~run.ok /\ ~run.test
    /\ Cardinality(recent) = AlarmAfter
    /\ \A r \in recent : ~r.ok

\* The steps have run, or one has failed beyond repair or the deadline has passed.
FinishScan(e, ok) ==
    /\ editor[e].at = "scanning"
    /\ EditorTo(e, [at |-> "scanned", task |-> editor[e].task, row |-> editor[e].row,
                    run |-> RunOf(e, ok), trips |-> Trips(RunOf(e, ok))])
    /\ UNCHANGED <<scanner, versions, runLog, alarms, begun, saves>>

\* A user's run makes an active scanner of a draft, whatever its result.
StatusAfter(s) ==
    IF s.trips THEN "failed"
    ELSE IF s.task = "run" /\ s.row.status = "draft" THEN "active" ELSE s.row.status

EndScan(e) ==
    LET s == editor[e] IN
    /\ s.at = "scanned"
    /\ runLog' = runLog \cup {s.run}
    /\ StatusWritten(e, StatusAfter(s))
    /\ alarms' = IF s.trips /\ s.row.status # "failed" THEN alarms \cup {s.run.started}
                                                       ELSE alarms
    /\ EditorTo(e, Away)
    /\ UNCHANGED <<versions, begun, saves>>

-------------------------------------------------------------------------------------
(* Status changes.                                                                 *)

Qualified(version) == \E r \in runLog : r.test /\ r.ok /\ r.version = version

PassGate(e) ==
    /\ Loaded(e, "publish")
    /\ Qualified(editor[e].row.version)
    /\ EditorTo(e, [editor[e] EXCEPT !.at = "gated"])
    /\ UNCHANGED <<scanner, versions, runLog, alarms, begun, saves>>

PublishScanner(e) ==
    /\ editor[e].at = "gated"
    /\ StatusWritten(e, "active")
    /\ EditorTo(e, Away)
    /\ UNCHANGED <<versions, runLog, alarms, begun, saves>>

SetStatus(e, task, assigned) ==
    /\ Loaded(e, task)
    /\ StatusWritten(e, assigned)
    /\ EditorTo(e, Away)
    /\ UNCHANGED <<versions, runLog, alarms, begun, saves>>

ScannerNext ==
    \E e \in Editors :
        \/ \E task \in Tasks : LoadScanner(e, task)
        \/ PrepareEdit(e) \/ PrepareRollback(e) \/ SaveSpec(e)
        \/ StartScan(e) \/ (\E ok \in BOOLEAN : FinishScan(e, ok)) \/ EndScan(e)
        \/ PassGate(e) \/ PublishScanner(e)
        \/ SetStatus(e, "pause", "paused") \/ SetStatus(e, "resume", "active")
        \/ LoseEditor(e)

ScannerSpec == ScannerInit /\ [][ScannerNext]_scannerVars

-------------------------------------------------------------------------------------
(* Properties.                                                                     *)

Row == [spec : Specs, version : 1..MaxSaves + 1,
        status : {"draft", "active", "paused", "failed"}]

Run == [started : 1..MaxRuns, test : BOOLEAN, ok : BOOLEAN, version : 1..MaxSaves + 1,
        spec : Specs]

ScannerTypeOK ==
    /\ scanner \in Row
    /\ DOMAIN versions \subseteq 1..MaxSaves + 1
    /\ \A v \in DOMAIN versions : versions[v] \in Specs
    /\ runLog \subseteq Run /\ alarms \subseteq 1..MaxRuns
    /\ begun \in 0..MaxRuns /\ saves \in 0..MaxSaves
    /\ \A e \in Editors :
          editor[e].at \in {"away", "loaded", "saving", "scanning", "scanned", "gated"}

\* A scanner is put aside, and an alarm raised, only after three failed runs that are no
\* tests, and no two alarms share one: the first two failures raise none, each later
\* one at most one, also when runs of users and of the scheduler overlap and judge
\* before the others commit.
AlarmsAreEarned ==
    /\ alarms # {} =>
          Cardinality(alarms) + AlarmAfter - 1
             <= Cardinality({r \in runLog : ~r.ok /\ ~r.test})
    /\ scanner.status = "failed" => alarms # {}

\* The publish gate: a draft is published only when a test has passed on the spec it has
\* then.  The code asks for a test of the same number, and a rollback followed by an
\* edit gives a number to a second spec.
PublishedWasTested ==
    [][\A e \in Editors :
          /\ editor[e].at = "gated" /\ editor'[e] = Away
          /\ scanner.status # "active" /\ scanner'.status = "active"
          => \E r \in runLog : r.test /\ r.ok /\ r.spec = scanner'.spec]_scannerVars

=====================================================================================

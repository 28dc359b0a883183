------------------------------- MODULE ForecastArena -------------------------------
(***********************************************************************************)
(* The forecast arena, on one external market: users who lock forecasts            *)
(* (forecast_routes.create_forecast, ForecastService.lock_forecast), the passes    *)
(* that lock the model's own (workers/forecast_autolock.py), and the two ways the  *)
(* market resolves and its forecasts are scored, the worker's                      *)
(* (services/external_market_resolver.py) and the admin's, through                 *)
(* ExternalMarketService.resolve and ScoringService.score_market.                  *)
(*                                                                                 *)
(* Every actor is a READ COMMITTED transaction; an action is one statement, or the *)
(* code between two.  Stamps are twice the clock, which leaves room for the        *)
(* microsecond that _default_resolved_at adds.  Forecasts are LIVE ones: PRACTICE  *)
(* locks come after the resolution and are never scored.                           *)
(***********************************************************************************)
EXTENDS Integers, FiniteSets

CONSTANTS
    Users,          \* sessions of POST /forecasts
    Requests,       \* what they may ask: [who, key, asked]
    Passes,         \* sessions of the autolock task
    Resolvers,      \* sessions of the resolver task and of the admin's endpoint
    ResolveStamps,  \* resolved_at an admin may state, besides leaving it out
    NoKey,          \* no Idempotency-Key
    Unresolved,     \* no outcome
    Nobody,         \* no holder of the market row
    Model,          \* the system forecaster
    ModelKey,       \* "model-autolock:<market>"
    CloseAt,        \* close_at, in clock steps
    Horizon,        \* the autolock window
    MaxTime,        \* bound on the clock
    MaxSeq          \* bound on the locks of one forecaster

ASSUME ArenaAssumption ==
    /\ {CloseAt, Horizon, MaxTime} \subseteq Nat
    /\ MaxSeq \in Nat \ {0}      \* the model's one lock needs a number
    /\ ResolveStamps \subseteq Nat
    /\ \A q \in Requests : q.who # Model
    /\ ModelKey # NoKey
    /\ Passes \cap Resolvers = {} /\ Nobody \notin Passes \cup Resolvers

VARIABLES
    now,            \* the clock
    venue,          \* the outcome the venue reports, Unresolved while it trades
    market,         \* the committed ExternalMarket row
    rowHolder,      \* the session that holds that row FOR UPDATE or has updated it
    forecasts,      \* the committed ForecastLog rows
    scores,         \* the committed ForecastScore rows
    user,           \* one record per session, `at` being where it is
    pass,
    resolver

arenaVars == <<now, venue, market, rowHolder, forecasts, scores,
               user, pass, resolver>>

\* 1 is YES; which of the two the venue reports makes no difference.
Outcomes == {0, 1}

VenueOutcome == 1

Close == 2 * CloseAt

\* Numeric(6, 4): the column keeps half the digits a request may state, here every
\* even value, and rounds the others.
Kept(asked) == asked \div 2

Asleep == [at |-> "idle"]

ArenaInit ==
    /\ now = 0
    /\ venue = Unresolved
    /\ market = [status |-> "OPEN", outcome |-> Unresolved, resolvedAt |-> 0]
    /\ rowHolder = Nobody
    /\ forecasts = {} /\ scores = {}
    /\ user = [u \in Users |-> Asleep]
    /\ pass = [p \in Passes |-> Asleep]
    /\ resolver = [r \in Resolvers |-> Asleep]

Of(who) == {f \in forecasts : f.who = who}

\* _latest and next_seq.
Latest(who) == CHOOSE f \in Of(who) : \A g \in Of(who) : g.seq <= f.seq

NextSeq(who) == IF Of(who) = {} THEN 1 ELSE Latest(who).seq + 1

\* _get_by_idempotency_key.
KeyHeld(who, key) == key # NoKey /\ \E f \in Of(who) : f.key = key

\* The last three fields record what the code does not: that the venue had settled
\* when the lock was stamped, that the look at it for this lock failed, and that the
\* lock was committed after forecasts were read for scoring.
NewForecast(who, key, asked) ==
    [who |-> who, key |-> key, asked |-> asked, seq |-> NextSeq(who), at |-> 2 * now,
     known |-> venue # Unresolved, blind |-> FALSE, tardy |-> FALSE]

\* A row inserted and not committed yet.
InFlight ==
    {user[u].row : u \in {v \in Users : user[v].at = "inserted"}}
        \cup {pass[p].row : p \in {q \in Passes : pass[q].at = "inserted"}}

\* The two unique indexes of forecast_logs.
Clash(f, g) ==
    f.who = g.who /\ (f.seq = g.seq \/ (f.key = g.key /\ f.key # NoKey))

ArenaClock ==
    /\ now < MaxTime
    /\ now' = now + 1
    /\ UNCHANGED <<venue, market, rowHolder, forecasts, scores, user, pass,
                   resolver>>

\* The venue settles whenever it will, before the announced close as well.
VenueSettles ==
    /\ venue = Unresolved
    /\ venue' = VenueOutcome
    /\ UNCHANGED <<now, market, rowHolder, forecasts, scores, user, pass, resolver>>

Resolving == {"updated", "stamped", "scored"}

TooLate == market.status = "RESOLVED" \/ \E r \in Resolvers : resolver[r].at = "scored"

-------------------------------------------------------------------------------------
(* POST /forecasts.                                                                *)

UserTo(u, record) == user' = [user EXCEPT ![u] = record]

OnlyUser == UNCHANGED <<now, venue, market, rowHolder, forecasts, scores,
                        pass, resolver>>

\* resolve_url reads the market row; its status is not read again.
SeeMarket(u, q) ==
    /\ user[u] = Asleep
    /\ UserTo(u, [at |-> "seen", q |-> q, status |-> market.status])
    /\ OnlyUser

\* Mutant: nothing is redundant.
RedundantNever(q) == FALSE

\* abs(latest.user_probability - user_probability) < 1e-9: the kept value is compared
\* with what is asked, not with what would be kept of it.
Redundant(q) == Of(q.who) # {} /\ 2 * Kept(Latest(q.who).asked) = q.asked

\* A key already used answers with its forecast, before any check; a market that was
\* not open and a probability that is the last one's are refused.
Decline(u) ==
    LET q == user[u].q IN
    /\ user[u].at = "seen"
    /\ KeyHeld(q.who, q.key) \/ user[u].status # "OPEN" \/ Redundant(q)
    /\ UserTo(u, Asleep)
    /\ OnlyUser

\* The lookup of the key and the read of the latest lock are one step here: a lock of
\* the same key that commits between them makes the insert fail.
StampLock(u) ==
    LET q == user[u].q IN
    /\ user[u].at = "seen"
    /\ ~KeyHeld(q.who, q.key) /\ user[u].status = "OPEN" /\ ~Redundant(q)
    /\ NextSeq(q.who) <= MaxSeq
    /\ UserTo(u, [at |-> "stamped", row |-> NewForecast(q.who, q.key, q.asked)])
    /\ OnlyUser

\* The snapshot row is inserted first; its foreign key shares the market row, and
\* waits for an autolock pass that holds it, though not for a resolver's update.
ShareMarket(u) ==
    /\ user[u].at = "stamped"
    /\ rowHolder \notin Passes
    /\ UserTo(u, [user[u] EXCEPT !.at = "sharing"])
    /\ OnlyUser

Duplicate(row) == \E f \in forecasts : Clash(f, row)

Awaited(row) == \E f \in InFlight : Clash(f, row)

InsertLock(u) ==
    LET row == user[u].row IN
    /\ user[u].at = "sharing"
    /\ ~Duplicate(row) /\ ~Awaited(row)
    /\ UserTo(u, [user[u] EXCEPT !.at = "inserted"])
    /\ OnlyUser

InsertFails(u) ==
    /\ user[u].at = "sharing"
    /\ Duplicate(user[u].row)
    /\ UserTo(u, Asleep)
    /\ OnlyUser

CommitLock(u) ==
    /\ user[u].at = "inserted"
    /\ forecasts' = forecasts
           \cup {[user[u].row EXCEPT !.tardy = TooLate]}
    /\ UserTo(u, Asleep)
    /\ UNCHANGED <<now, venue, market, rowHolder, scores, pass, resolver>>

LoseLock(u) ==
    /\ user[u] # Asleep
    /\ UserTo(u, Asleep)
    /\ OnlyUser

-------------------------------------------------------------------------------------
(* The autolock task, which runs in the API process and in the worker.             *)

PassTo(p, record) == pass' = [pass EXCEPT ![p] = record]

OnlyPass == UNCHANGED <<now, venue, market, rowHolder, forecasts, scores,
                        user, resolver>>

\* The select: open, closing within the window, and no LIVE forecast on it yet.
Eligible ==
    /\ market.status = "OPEN"
    /\ now < CloseAt /\ CloseAt <= now + Horizon
    /\ forecasts = {}

Select(p) ==
    /\ pass[p] = Asleep
    /\ PassTo(p, IF Eligible THEN [at |-> "selected"] ELSE Asleep)
    /\ OnlyPass

Sharing == {u \in Users : user[u].at \in {"sharing", "inserted"}}

\* Mutant: the select takes no lock.
HoldsNobody(p) == rowHolder

Holds(p) == p

\* FOR UPDATE SKIP LOCKED: a row somebody holds is skipped, and one that has changed
\* since the select began is tested again.
LockRow(p) ==
    /\ pass[p].at = "selected"
    /\ rowHolder = Nobody /\ Sharing = {} /\ market.status = "OPEN"
    /\ rowHolder' = Holds(p)
    /\ PassTo(p, [at |-> "holding"])
    /\ UNCHANGED <<now, venue, market, forecasts, scores, user, resolver>>

SkipRow(p) ==
    /\ pass[p].at = "selected"
    /\ rowHolder # Nobody \/ Sharing # {} \/ market.status # "OPEN"
    /\ PassTo(p, Asleep)
    /\ OnlyPass

\* The first look at the venue; a market it has closed, or that cannot be read, is
\* left alone.
LookAtVenue(p) ==
    /\ pass[p].at = "holding"
    /\ \/ venue = Unresolved /\ PassTo(p, [at |-> "priced"])
       \/ PassTo(p, [at |-> "finishing"])
    /\ OnlyPass

\* A pass that finds the model's forecast in place takes it for its own.
FindModelLock(p) ==
    /\ pass[p].at = "priced"
    /\ KeyHeld(Model, ModelKey)
    /\ PassTo(p, [at |-> "finishing"])
    /\ OnlyPass

StampModel(p) ==
    /\ pass[p].at = "priced"
    /\ ~KeyHeld(Model, ModelKey)
    /\ PassTo(p, [at |-> "stamped", row |-> NewForecast(Model, ModelKey, 0)])
    /\ OnlyPass

\* Mutant: the lock is kept whatever the time.
PreCloseAlways(row) == TRUE

PreClose(row) == row.at < Close

\* lock_forecast looks at the venue again and inserts; the pass tests the outcome and
\* the time, and rolls the savepoint back when the market has closed meanwhile.  A
\* second look that fails leaves the first one's metadata in place.
InsertModel(p) ==
    LET row == pass[p].row IN
    /\ pass[p].at = "stamped"
    /\ ~Duplicate(row) /\ ~Awaited(row)
    /\ PreClose(row)
    /\ \E blind \in BOOLEAN :
          /\ blind \/ venue = Unresolved
          /\ PassTo(p, [at |-> "inserted", row |-> [row EXCEPT !.blind = blind]])
    /\ OnlyPass

LoseEligibility(p) ==
    /\ pass[p].at = "stamped"
    /\ ~PreClose(pass[p].row) \/ venue # Unresolved \/ Duplicate(pass[p].row)
    /\ PassTo(p, [at |-> "finishing"])
    /\ OnlyPass

FreeRow(x) == rowHolder' = IF rowHolder = x THEN Nobody ELSE rowHolder

CommitPass(p) ==
    /\ pass[p].at \in {"inserted", "finishing"}
    /\ forecasts' = IF pass[p].at = "inserted"
                    THEN forecasts \cup
                         {[pass[p].row EXCEPT !.tardy = TooLate]}
                    ELSE forecasts
    /\ FreeRow(p)
    /\ PassTo(p, Asleep)
    /\ UNCHANGED <<now, venue, market, scores, user, resolver>>

LosePass(p) ==
    /\ pass[p].at \in {"holding", "priced", "stamped", "inserted"}
    /\ FreeRow(p)
    /\ PassTo(p, Asleep)
    /\ UNCHANGED <<now, venue, market, forecasts, scores, user, resolver>>

-------------------------------------------------------------------------------------
(* Resolution and scoring.                                                         *)

ResolverTo(r, record) == resolver' = [resolver EXCEPT ![r] = record]

OnlyResolver == UNCHANGED <<now, venue, market, rowHolder, forecasts,
                            scores, user, pass>>

\* The admin's endpoint reads the row, refuses a resolved one and, unless it was told
\* the time, takes the present for its candidate.
AdminResolves(r, outcome, stated) ==
    /\ resolver[r] = Asleep
    /\ market.status = "OPEN"
    /\ ResolverTo(r, [at |-> "deciding", outcome |-> outcome, stated |-> stated,
                      candidate |-> 2 * now])
    /\ OnlyResolver

\* The task reads its batch once; ORM identity makes `resolve` test this same copy.
WorkerSelects(r) ==
    /\ resolver[r] = Asleep
    /\ market.status = "OPEN" /\ CloseAt < now
    /\ ResolverTo(r, [at |-> "selected"])
    /\ OnlyResolver

\* Only a terminal result of the venue resolves, with the close as its time.
WorkerFetches(r) ==
    /\ resolver[r].at = "selected"
    /\ IF venue = Unresolved
       THEN ResolverTo(r, Asleep)
       ELSE ResolverTo(r, [at |-> "deciding", outcome |-> venue, stated |-> {Close},
                           candidate |-> Close])
    /\ OnlyResolver

\* The UPDATE waits for the row and overwrites what it then holds: no status in its
\* WHERE clause, no row lock at the read.
UpdateMarket(r) ==
    /\ resolver[r].at = "deciding"
    /\ rowHolder = Nobody
    /\ rowHolder' = r
    /\ ResolverTo(r, [resolver[r] EXCEPT !.at = "updated"])
    /\ UNCHANGED <<now, venue, market, forecasts, scores, user, pass>>

\* _default_resolved_at: never at or before a lock that is already there.
DefaultStamp(candidate) ==
    LET late == {f.at : f \in {g \in forecasts : g.at >= candidate}} IN
    IF late = {} THEN candidate
                 ELSE (CHOOSE t \in late : \A x \in late : x <= t) + 1

StampResolution(r) ==
    LET d == resolver[r] IN
    /\ d.at = "updated"
    /\ \E stamp \in IF d.stated = {} THEN {DefaultStamp(d.candidate)} ELSE d.stated :
          ResolverTo(r, [at |-> "stamped", outcome |-> d.outcome, stamp |-> stamp])
    /\ OnlyResolver

ScoreOf(f, outcome) == [who |-> f.who, seq |-> f.seq, outcome |-> outcome]

Unscored ==
    {f \in forecasts : \A s \in scores : <<s.who, s.seq>> # <<f.who, f.seq>>}

\* score_market reads the committed forecasts and their scores and applies the leakage
\* gate; a lock that commits after this is not looked at.
ScoreMarket(r) ==
    LET d == resolver[r] IN
    /\ d.at = "stamped"
    /\ ResolverTo(r, [at |-> "scored", outcome |-> d.outcome, stamp |-> d.stamp,
                      made |-> {ScoreOf(f, d.outcome) :
                                   f \in {g \in Unscored : g.at < d.stamp}}])
    /\ OnlyResolver

\* The resolution and the scores commit together.
CommitResolution(r) ==
    LET d == resolver[r] IN
    /\ d.at = "scored"
    /\ scores' = scores \cup d.made
    /\ market' = [status |-> "RESOLVED", outcome |-> d.outcome, resolvedAt |-> d.stamp]
    /\ FreeRow(r)
    /\ ResolverTo(r, Asleep)
    /\ UNCHANGED <<now, venue, forecasts, user, pass>>

LoseResolver(r) ==
    /\ resolver[r].at \in Resolving
    /\ FreeRow(r)
    /\ ResolverTo(r, Asleep)
    /\ UNCHANGED <<now, venue, market, forecasts, scores, user, pass>>

-------------------------------------------------------------------------------------
UserNext(u) ==
    \/ \E q \in Requests : SeeMarket(u, q)
    \/ Decline(u) \/ StampLock(u) \/ ShareMarket(u) \/ InsertLock(u) \/ InsertFails(u)
    \/ CommitLock(u) \/ LoseLock(u)

PassNext(p) ==
    \/ Select(p) \/ LockRow(p) \/ SkipRow(p) \/ LookAtVenue(p) \/ FindModelLock(p)
    \/ StampModel(p) \/ InsertModel(p) \/ LoseEligibility(p)
    \/ CommitPass(p) \/ LosePass(p)

ResolverNext(r) ==
    \/ \E outcome \in Outcomes, stated \in {{}} \cup {{t} : t \in ResolveStamps} :
          AdminResolves(r, outcome, stated)
    \/ WorkerSelects(r) \/ WorkerFetches(r) \/ UpdateMarket(r)
    \/ StampResolution(r) \/ ScoreMarket(r)
    \/ CommitResolution(r) \/ LoseResolver(r)

ArenaNext ==
    \/ ArenaClock \/ VenueSettles
    \/ \E u \in Users : UserNext(u)
    \/ \E p \in Passes : PassNext(p)
    \/ \E r \in Resolvers : ResolverNext(r)

ArenaSpec == ArenaInit /\ [][ArenaNext]_arenaVars

-------------------------------------------------------------------------------------
(* Properties.                                                                     *)

Forecast ==
    [who : {q.who : q \in Requests} \cup {Model},
     key : {q.key : q \in Requests} \cup {ModelKey},
     asked : {q.asked : q \in Requests} \cup {0},
     seq : 1..MaxSeq, at : 0..2 * MaxTime, known : BOOLEAN, blind : BOOLEAN, tardy : BOOLEAN]

\* The rows are well formed, and the market row is held by exactly the session whose
\* transaction says so: no path of a pass or a resolver keeps it or frees another's.
ForecastTypeOK ==
    /\ now \in 0..MaxTime
    /\ venue \in Outcomes \cup {Unresolved}
    /\ market.status \in {"OPEN", "RESOLVED"}
    /\ forecasts \subseteq Forecast
    /\ \A s \in scores : \E f \in forecasts : s.who = f.who /\ s.seq = f.seq
    /\ \A p \in Passes : rowHolder = p <=> pass[p].at \notin {"idle", "selected"}
    /\ \A r \in Resolvers : rowHolder = r <=> resolver[r].at \in Resolving

\* Whoever resolves the market, and however two resolutions race, every forecast that is
\* committed when the scoring reads them and locked before the recorded time is scored,
\* once; and the model's are always committed by then, because a pass holds the market
\* row from its choice to its commit.  A user's may be in flight: it is never scored.
OnTimeLocksAreScored ==
    /\ market.status = "RESOLVED" =>
          \A f \in forecasts :
              f.at < market.resolvedAt /\ ~f.tardy => f \notin Unscored
    /\ \A s, t \in scores : <<s.who, s.seq>> = <<t.who, t.seq>> => s = t
    /\ \A f \in Of(Model) : ~f.tardy

\* The model never forecasts what is known: its lock is earlier than the close, and
\* than the venue's settlement unless the second look at the venue failed.
NoModelHindsight ==
    \A f \in Of(Model) :
        /\ f.at < Close
        /\ f.known => f.blind

\* The locks of one forecaster are a chain of beliefs: numbered without a gap or a
\* repetition, in the order of their times, each a change of the one before.  Only a
\* probability with more digits than the column keeps can be locked again unchanged.
BeliefsAreAChain ==
    \A f, g \in forecasts :
        f.who = g.who =>
            /\ f.seq = g.seq => f = g
            /\ f.seq <= Cardinality(Of(f.who))
            /\ g.seq = f.seq + 1 =>
                  /\ f.at <= g.at
                  /\ Kept(f.asked) # Kept(g.asked) \/ g.asked # 2 * Kept(g.asked)

\* ScoringService: a LIVE forecast counts only if it was locked strictly before the
\* market's resolution timestamp, so a scored one is older than the recorded time.
ScoredBeforeResolution ==
    \A f \in forecasts : f \notin Unscored => f.at < market.resolvedAt

=====================================================================================

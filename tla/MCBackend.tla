-------------------------------- MODULE MCBackend ----------------------------------
(***********************************************************************************)
(* Components that share no state, explored one at a time: a behaviour belongs to  *)
(* one part, chosen at the start, and leaves the variables of the others alone.    *)
(*                                                                                 *)
(*   book         four orders, three price ticks, quantities up to two: an order   *)
(*                sweeps two prices, leaves a partly filled maker at the head, and *)
(*                two makers queue at one price                                    *)
(*   sockets      one connection, to /feed or to /prices; four ticks overflow the  *)
(*                bus queue of two, two briefs the hub queue of one                *)
(*   cache        two readers; two writers, or one key more than fits              *)
(*   limit        two keys for one window of six steps, two requests in each       *)
(*   arena        a crew of two or three sessions: every pair of a forecaster's    *)
(*                locks, an autolock pass and a resolver, of each the two that     *)
(*                race, and a third                                                *)
(*   breaker      three callers of one gate that three failures shut               *)
(*   writer       a crew of two passes, of one process or of two, over two markets *)
(*                of which a pass takes one                                        *)
(*   scanner      two sessions; the crew is what they may do, up to four runs, one *)
(*                next to edits                                                    *)
(*   pods         two passes of one pod over two markets, of two trade rows and one *)
(***********************************************************************************)
EXTENDS OrderBook, FanOut, MarketsCache, RateLimit, ForecastArena,
        Breaker, PredictionWriter, Scanners, PodRunner

VARIABLES explored, crew

SlugAsked == [s \in Sockets |-> "m1"]

Published == [t \in Topics |-> IF t = Tick THEN 4 ELSE 2]

\* A lock with a key, to retry, and one whose probability the column rounds.
Asked == {[who |-> "ann", key |-> "k1", asked |-> 2],
          [who |-> "ann", key |-> NoKey, asked |-> 3]}

ListedMarkets == <<"m1", "m2">>

RowsPerMarket == [m \in {"m1", "m2"} |-> IF m = "m1" THEN 2 ELSE 1]

WriterProcess == [r \in Runs |-> IF r = "w3" THEN "worker" ELSE "web"]

-------------------------------------------------------------------------------------
\* The sessions, or keys, of one behaviour of a part; the others stay idle.
ArenaCrews ==
    {{"u1", "u2"}, {"p1", "p2", "x1"}, {"u1", "p1", "x1"}, {"u1", "x1", "x2"}, {"p1", "x1", "x2"}}

WriterCrews == {{"w1", "w2"}, {"w1", "w3"}}

ScannerCrews ==
    {{"edit", "rollback", "test", "publish"}, {"run", "pass", "test"},
     {"run", "pass", "resume"}, {"run", "pause", "resume"}}

\* Of the cache, every key and one writer, or every writer and all keys but one.
CacheCrews ==
    {(Keys \cup Writers) \ {absent} : absent \in {CHOOSE k \in Keys : TRUE,
                                                 CHOOSE w \in Writers : TRUE}}

EditorSymmetry == Permutations(Editors)

\* Order identifiers are compared only for equality: they are used in their order.
IdsInOrder == \A i \in DOMAIN arrived' : arrived'[i] = i

\* What a tick is about matters to /prices only.
PlainTicks ==
    (\A s \in Sockets : endpoint[s] = "feed") =>
        \A i \in DOMAIN published'[Tick] : published'[Tick][i] = "m1"

\* Next to a resolver a user only makes the request that carries a key.
KeyedOnly ==
    Resolvers \cap crew # {} =>
        \A u \in Users : user'[u].at = "seen" => user'[u].q.key # NoKey

MCInit ==
    /\ explored \in {"book", "sockets", "cache", "limit", "arena", "breaker", "writer",
                "scanner", "pods"}
    /\ crew \in CASE explored = "arena" -> ArenaCrews
                  [] explored = "cache" -> CacheCrews
                  [] explored = "writer" -> WriterCrews
                  [] explored = "scanner" -> ScannerCrews
                  [] OTHER -> {{}}
    /\ Init /\ FanInit /\ CacheInit /\ RateInit /\ ArenaInit /\ BreakerInit /\ WriterInit
    /\ ScannerInit /\ PodInit
    /\ explored = "sockets" \/ endpoint = [s \in Sockets |-> "feed"]
    /\ explored = "breaker" \/ gate = "breaker"

ArenaStep ==
    \/ ArenaClock \/ VenueSettles
    \/ \E u \in Users \cap crew : UserNext(u)
    \/ \E p \in Passes \cap crew : PassNext(p)
    \/ \E r \in Resolvers \cap crew : ResolverNext(r)

CacheStep ==
    /\ CacheNext
    /\ \A r \in Readers : readers'[r] # NotReading => readers'[r].key \in crew
    /\ \A w \in Writers \ crew : writers'[w] = "idle"

WriterStep ==
    \/ WriterClock \/ \E s \in Listed : ChangeStatus(s)
    \/ \E r \in Runs \cap crew : RunNext(r)

\* One run is enough to publish what has been edited.
ScannerStep ==
    /\ ScannerNext
    /\ \A e \in Editors : editor'[e].at = "loaded" => editor'[e].task \in crew
    /\ "edit" \in crew => begun' <= 1

Still(p, itsVars) == explored # p => UNCHANGED itsVars

MCNext ==
    /\ \/ explored = "book" /\ Next /\ IdsInOrder
       \/ explored = "sockets" /\ FanNext /\ PlainTicks
       \/ explored = "cache" /\ CacheStep
       \/ explored = "limit" /\ RateNext
       \/ explored = "arena" /\ ArenaStep /\ KeyedOnly
       \/ explored = "breaker" /\ BreakerNext
       \/ explored = "writer" /\ WriterStep
       \/ explored = "scanner" /\ ScannerStep
       \/ explored = "pods" /\ PodNext
    /\ Still("book", vars) /\ Still("sockets", fanVars) /\ Still("cache", cacheVars)
    /\ Still("limit", rateVars) /\ Still("arena", arenaVars)
    /\ Still("breaker", breakerVars) /\ Still("writer", writerVars)
    /\ Still("scanner", scannerVars) /\ Still("pods", podVars)
    /\ UNCHANGED <<explored, crew>>

\* Every part keeps its types: the queues their size, the cache its keys, the window its
\* quota of entries, a forecast row its columns.
PartTypesOK ==
    /\ explored = "book" => TypeOK
    /\ explored = "sockets" => FanTypeOK
    /\ explored = "cache" => CacheTypeOK
    /\ explored = "limit" => RateTypeOK
    /\ explored = "arena" => ForecastTypeOK
    /\ explored = "breaker" => BreakerTypeOK
    /\ explored = "writer" => WriterTypeOK
    /\ explored = "scanner" => ScannerTypeOK
    /\ explored = "pods" => PodTypeOK

MCSpec == MCInit /\ [][MCNext]_<<vars, fanVars, cacheVars, rateVars, arenaVars,
                                breakerVars, writerVars, scannerVars, podVars, explored, crew>>

=====================================================================================

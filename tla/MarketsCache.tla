------------------------------- MODULE MarketsCache --------------------------------
(***********************************************************************************)
(* The in-process cache of the public market list (core/markets_cache.py): the     *)
(* readers that fill it (list_markets in api/v1/routes.py), the market changes     *)
(* that clear it before their transaction commits (MarketService, the admin's      *)
(* resolve) and the ones that never clear it (the loops of this process that       *)
(* ingest and resolve, and every other process).                                   *)
(* core/market_detail_cache.py is the same code behind the detail page.            *)
(***********************************************************************************)
EXTENDS Integers, FiniteSets

CONSTANTS
    Keys,          \* query tuples
    Readers,       \* list requests
    Writers,       \* sessions that change a market
    Ttl,           \* TTL_SEC, in clock steps
    MaxKeys,       \* _MAX_KEYS
    MaxChanges     \* bound on the committed changes

ASSUME CacheAssumption == Ttl \in Nat \ {0} /\ MaxKeys \in Nat /\ MaxChanges \in Nat

VARIABLES
    committed,     \* how many changes of the market table have committed
    cleared,       \* the last of them whose session had cleared the cache
    cache,         \* _cache: the keys held, with the age of their list
    readers,       \* per request, the key and the list it has read
    writers        \* per session, whether it has an uncommitted change

cacheVars == <<committed, cleared, cache, readers, writers>>

NotReading == [at |-> "idle"]

Empty == <<>>

CacheInit ==
    /\ committed = 0 /\ cleared = 0
    /\ cache = Empty
    /\ readers = [r \in Readers |-> NotReading]
    /\ writers = [w \in Writers |-> "idle"]

\* get() answers from an entry younger than the TTL; an older one stays in the map.
Young(k) == k \in DOMAIN cache /\ cache[k].age < Ttl

-------------------------------------------------------------------------------------
(* list_markets.                                                                   *)

\* A request that finds a fresh entry is answered from it and changes nothing.
Miss(r, k) ==
    /\ readers[r] = NotReading /\ ~Young(k)
    /\ readers' = [readers EXCEPT ![r] = [at |-> "missed", key |-> k]]
    /\ UNCHANGED <<committed, cleared, cache, writers>>

ReadRows(r) ==
    /\ readers[r].at = "missed"
    /\ readers' = [readers EXCEPT ![r] =
                     [at |-> "read", key |-> readers[r].key, rows |-> committed]]
    /\ UNCHANGED <<committed, cleared, cache, writers>>

\* `raced` records what the code does not: at the put a session that had cleared the
\* cache was still uncommitted, or one had committed since the rows were read.
Fill(rows) ==
    [rows |-> rows, age |-> 0,
     raced |-> rows < cleared \/ \E w \in Writers : writers[w] = "changed"]

\* A map over its bound is emptied.
Room == IF Cardinality(DOMAIN cache) > MaxKeys THEN Empty ELSE cache

\* The bound is tested before the insertion, so the map holds one key more than it.
Put(r) ==
    /\ readers[r].at = "read"
    /\ cache' = [k \in DOMAIN Room \cup {readers[r].key} |->
                   IF k = readers[r].key THEN Fill(readers[r].rows) ELSE Room[k]]
    /\ readers' = [readers EXCEPT ![r] = NotReading]
    /\ UNCHANGED <<committed, cleared, writers>>

-------------------------------------------------------------------------------------
(* Market changes.                                                                 *)

\* Mutant: invalidate() only drops what has expired anyway.
InvalidatedStale == [k \in {j \in Keys : Young(j)} |-> cache[k]]

\* invalidate().
Invalidated == Empty

\* The row is changed and flushed and the cache cleared; the session may go on to
\* change other markets, and its request commits or rolls back later.
Change(w) ==
    /\ committed < MaxChanges
    /\ writers' = [writers EXCEPT ![w] = "changed"]
    /\ cache' = Invalidated
    /\ UNCHANGED <<committed, cleared, readers>>

CommitChange(w) ==
    /\ writers[w] = "changed" /\ committed < MaxChanges
    /\ committed' = committed + 1 /\ cleared' = committed + 1
    /\ writers' = [writers EXCEPT ![w] = "idle"]
    /\ UNCHANGED <<cache, readers>>

RollbackChange(w) ==
    /\ writers[w] = "changed"
    /\ writers' = [writers EXCEPT ![w] = "idle"]
    /\ UNCHANGED <<committed, cleared, cache, readers>>

\* Sessions that commit changes of market rows and clear nothing here: the resolver loop
\* of this very process (settle_market, called without MarketService), its ingest loop
\* (LiveMarketIngestService), and whatever runs in another process.  A pass that also
\* goes through MarketService, as the ingest loop does to lapse markets, is a Change.
CommitSilently ==
    /\ committed < MaxChanges
    /\ committed' = committed + 1
    /\ UNCHANGED <<cleared, cache, readers, writers>>

\* time.monotonic() advances.
CacheClock ==
    /\ \E k \in Keys : Young(k)
    /\ cache' = [k \in DOMAIN cache |->
                   IF Young(k) THEN [cache[k] EXCEPT !.age = @ + 1] ELSE cache[k]]
    /\ UNCHANGED <<committed, cleared, readers, writers>>

CacheNext ==
    \/ CommitSilently \/ CacheClock
    \/ \E r \in Readers : (\E k \in Keys : Miss(r, k)) \/ ReadRows(r) \/ Put(r)
    \/ \E w \in Writers : Change(w) \/ CommitChange(w) \/ RollbackChange(w)

CacheSpec == CacheInit /\ [][CacheNext]_cacheVars

-------------------------------------------------------------------------------------
(* Properties.                                                                     *)

\* The map holds at most one key more than its bound, and no list of the future.
CacheTypeOK ==
    /\ committed \in 0..MaxChanges /\ cleared \in 0..committed
    /\ DOMAIN cache \subseteq Keys /\ Cardinality(DOMAIN cache) <= MaxKeys + 1
    /\ \A k \in DOMAIN cache :
          /\ cache[k].rows \in 0..committed
          /\ cache[k].age \in 0..Ttl
          /\ cache[k].raced \in BOOLEAN
    /\ \A r \in Readers :
          \/ readers[r] = NotReading
          \/ readers[r] \in [at : {"missed"}, key : Keys]
          \/ readers[r] \in [at : {"read"}, key : Keys, rows : 0..committed]
    /\ writers \in [Writers -> {"idle", "changed"}]

\* A change whose session cleared the cache is missing from a list that is served only
\* when the list was put there between the clearing and the commit, or by a reader that
\* a commit overtook; whatever else commits, and however often, excuses nothing.  Of the
\* changes that clear nothing (CommitSilently) this says nothing: those of the resolver
\* and ingest loops stay hidden for up to the TTL without any race, although the
\* docstrings of markets_cache.py promise that resolve and ingest show at once.
ClearedChangesShow ==
    \A k \in Keys : Young(k) /\ cache[k].rows < cleared => cache[k].raced

=====================================================================================

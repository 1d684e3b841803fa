---------------------------- MODULE PriceCollection ---------------------------
(***************************************************************************)
(* backend/scrapers/pricing_collector.py: the collection of spot prices by *)
(* one thread per region, the collection of on-demand prices region after  *)
(* region, and the reads of both.  All threads of a collection share one   *)
(* database session: a commit stores the rows of every region that is in   *)
(* it, and after a commit that failed, which nothing rolls back, every     *)
(* later use of the session raises.  Prices reach the cache before they    *)
(* are committed.  Nothing keeps a collection from starting while another  *)
(* runs; each has a session and threads of its own.                        *)
(*                                                                         *)
(* Two collections of on-demand prices do not overlap here: both look for  *)
(* a row before they insert one, and whether the table refuses the second  *)
(* is in app.database.models, which is not in the repository.              *)
(*                                                                         *)
(* A price stands for the time it was valid at, 1, 2, ...; the newest of a *)
(* pool is what AWS returns first.  One instance type stands for all, so   *)
(* that the on-demand price is one per region.  The module's imports of    *)
(* app.* do not resolve in the repository; it is modelled as written.      *)
(***************************************************************************)
EXTENDS Integers, FiniteSets, FiniteSetsExt, NoneValue

CONSTANTS
    Collectors, \* processes that collect spot prices
    Regions,
    PricePools,
    RegionOf,   \* the region of each pool
    Readers,
    MaxTime,            \* bound on the changes of the prices
    MaxCollections,     \* bound on the collections
    MaxPriceExpiries    \* bound on the cached prices that expire

ASSUME PriceAssumption == MaxTime \in Nat

VARIABLES
    now,        \* the current price of every pool
    rows,       \* committed rows of SpotPriceHistory: <<pool, price>>
    session,    \* [pending, poisoned] of each collection
    thread,     \* its thread of each region
    cache,      \* spot_price:{region}:{az}:{type}
    reader,     \* what each reader is doing
    ondemand,   \* committed on-demand price of each region
    ondemandCache,
    ondemandJob,        \* the collection of on-demand prices
    collections, priceExpiries,
    \* history: threads that store an answer of AWS although another collection
    \* has got a newer one since, and where the cached price of a pool is from
    overtaken, origin

priceVars == <<now, rows, session, thread, cache, reader, ondemand,
               ondemandCache, ondemandJob, collections, priceExpiries, overtaken,
               origin>>

priceCounters == <<collections, priceExpiries>>
spotVars == <<rows, session, thread, overtaken, origin>>
onDemandVars == <<ondemand, ondemandCache, ondemandJob>>

NoSession == [pending |-> {}, poisoned |-> FALSE]
NoThread == [step |-> "idle", todo |-> {}, price |-> 0]
NoReader == [pool |-> None, price |-> None]
NoOnDemandJob == [step |-> "idle", region |-> None, price |-> 0, todo |-> {},
          pending |-> {}, poisoned |-> FALSE, counted |-> {}]

PriceInit ==
    /\ now = 1 /\ collections = 0 /\ priceExpiries = 0
    /\ rows = {}
    /\ session = [c \in Collectors |-> NoSession]
    /\ thread = [c \in Collectors |-> [r \in Regions |-> NoThread]]
    /\ cache = [p \in PricePools |-> None]
    /\ overtaken = {} /\ origin = [p \in PricePools |-> "newest"]
    /\ reader = [c \in Readers |-> NoReader]
    /\ ondemand = [r \in Regions |-> None]
    /\ ondemandCache = [r \in Regions |-> None]
    /\ ondemandJob = NoOnDemandJob

Tick ==
    /\ now < MaxTime
    /\ now' = now + 1
    /\ UNCHANGED <<spotVars, cache, reader, onDemandVars, priceCounters>>

\* Spot prices live for ten minutes in the cache, on-demand prices a day.
Expire ==
    /\ priceExpiries < MaxPriceExpiries
    /\ priceExpiries' = priceExpiries + 1
    /\ \/ \E p \in PricePools :
            cache[p] # None /\ cache' = [cache EXCEPT ![p] = None] /\ UNCHANGED ondemandCache
       \/ \E r \in Regions : /\ ondemandCache[r] # None
                             /\ ondemandCache' = [ondemandCache EXCEPT ![r] = None]
                             /\ UNCHANGED cache
    /\ UNCHANGED <<now, spotVars, reader, ondemand, ondemandJob, collections>>

-----------------------------------------------------------------------------
\* collect_spot_prices(): a new session and one thread for each region
Collect(c) ==
    /\ \A r \in Regions : thread[c][r].step = "idle"
    /\ collections < MaxCollections
    /\ collections' = collections + 1
    /\ session' = [session EXCEPT ![c] = NoSession]
    /\ thread' = [thread EXCEPT ![c] = [r \in Regions |-> [NoThread EXCEPT !.step = "fetch"]]]
    /\ UNCHANGED <<now, rows, overtaken, origin, cache, reader, onDemandVars, priceExpiries>>

SetThread(c, r, step) == thread' = [thread EXCEPT ![c][r].step = step]

\* Threads that store an older answer for the region
Older(r) ==
    {<<d, r>> : d \in {d \in Collectors :
                          thread[d][r].step = "store" /\ thread[d][r].price < now}}

\* describe_spot_price_history() answers or raises.
Fetch(c, r) ==
    /\ thread[c][r].step = "fetch"
    /\ \/ /\ thread' = [thread EXCEPT ![c][r] = [step |-> "store", price |-> now,
                          todo |-> {p \in PricePools : RegionOf[p] = r}]]
          /\ overtaken' = (overtaken \cup Older(r)) \ {<<c, r>>}
       \/ SetThread(c, r, "error") /\ UNCHANGED overtaken
    /\ UNCHANGED <<now, rows, session, origin, cache, reader, onDemandVars,
                   collections, priceExpiries>>

\* The row is added to the session, then the price is cached; when Redis
\* raises the row stays in the session.
Store(c, r, p) ==
    LET price == thread[c][r].price IN
    /\ thread[c][r].step = "store" /\ p \in thread[c][r].todo
    /\ session' = [session EXCEPT ![c].pending = @ \cup {<<p, price>>}]
    /\ \/ /\ thread' = [thread EXCEPT ![c][r].todo = @ \ {p}]
          /\ cache' = [cache EXCEPT ![p] = price]
          /\ origin' = [origin EXCEPT ![p] = IF <<c, r>> \in overtaken THEN "overtaken"
                                             ELSE "newest"]
       \/ /\ SetThread(c, r, "error")
          /\ origin' = [origin EXCEPT ![p] = IF cache[p] # None /\ cache[p] < price
                                               THEN "before" ELSE @]
          /\ UNCHANGED cache
    /\ UNCHANGED <<now, rows, overtaken, reader, onDemandVars, priceCounters>>

\* What a failed commit leaves of the session: the rows of all regions that
\* were pending are gone.
FailedSession == [pending |-> {}, poisoned |-> TRUE]

\* Two threads that commit at the same time disturb each other, which is one
\* of the ways in which a commit fails.
Commit(c, r) ==
    /\ thread[c][r].step = "store" /\ thread[c][r].todo = {}
    /\ \/ /\ ~session[c].poisoned
          /\ rows' = rows \cup session[c].pending
          /\ session' = [session EXCEPT ![c] = NoSession]
          /\ SetThread(c, r, "done")
       \/ /\ session' = [session EXCEPT ![c] = FailedSession]
          /\ SetThread(c, r, "error")
          /\ UNCHANGED rows
    /\ UNCHANGED <<now, overtaken, origin, cache, reader, onDemandVars, priceCounters>>

\* The statistics are returned with status "success" whatever they count, and
\* the session is closed.
Collected(c) ==
    /\ \A r \in Regions : thread[c][r].step \in {"done", "error"}
    /\ thread' = [thread EXCEPT ![c] = [r \in Regions |-> NoThread]]
    /\ session' = [session EXCEPT ![c] = NoSession]
    /\ overtaken' = overtaken \ ({c} \X Regions)
    /\ UNCHANGED <<now, rows, origin, cache, reader, onDemandVars, priceCounters>>

-----------------------------------------------------------------------------
Newest(p) ==
    LET prices == {t \in 1 .. MaxTime : <<p, t>> \in rows}
    IN IF prices = {} THEN None ELSE Max(prices)

\* get_current_spot_price(): a price that is cached is answered at once; one
\* that is not is read from the database,
Miss(c, p) ==
    /\ reader[c] = NoReader
    /\ cache[p] = None /\ Newest(p) # None
    /\ reader' = [reader EXCEPT ![c] = [pool |-> p, price |-> Newest(p)]]
    /\ UNCHANGED <<now, spotVars, cache, onDemandVars, priceCounters>>

\* and goes to the cache, which a collection may have filled since.
Refill(c) ==
    /\ reader[c] # NoReader
    /\ cache' = [cache EXCEPT ![reader[c].pool] = reader[c].price]
    /\ origin' = [origin EXCEPT ![reader[c].pool] = "reader"]
    /\ reader' = [reader EXCEPT ![c] = NoReader]
    /\ UNCHANGED <<now, rows, session, thread, overtaken, onDemandVars, priceCounters>>

-----------------------------------------------------------------------------
\* collect_ondemand_prices(), with one session for the regions in turn
CollectOnDemand ==
    /\ ondemandJob.step = "idle" /\ collections < MaxCollections
    /\ collections' = collections + 1
    /\ ondemandJob' = [NoOnDemandJob EXCEPT !.step = "next", !.todo = Regions]
    /\ UNCHANGED <<now, spotVars, cache, reader, ondemand, ondemandCache, priceExpiries>>

\* The next region: its price is fetched and its row updated or inserted in
\* the session.  The API may raise, and in a session whose commit failed the
\* query of the row does, before anything of the region is cached.
NextRegion(r) ==
    /\ ondemandJob.step = "next" /\ r \in ondemandJob.todo
    /\ \/ /\ ~ondemandJob.poisoned
          /\ ondemandJob' = [ondemandJob EXCEPT
               !.step = "cache", !.region = r, !.price = now, !.todo = @ \ {r},
               !.pending = @ \cup {<<r, now>>}]
       \/ ondemandJob' = [ondemandJob EXCEPT !.todo = @ \ {r}]
    /\ UNCHANGED <<now, spotVars, cache, reader, ondemand, ondemandCache, priceCounters>>

\* When Redis raises the row stays in the session for the next commit.
CacheOnDemand ==
    /\ ondemandJob.step = "cache"
    /\ \/ /\ ondemandCache' = [ondemandCache EXCEPT ![ondemandJob.region] = ondemandJob.price]
          /\ ondemandJob' = [ondemandJob EXCEPT !.step = "commit"]
       \/ /\ ondemandJob' = [ondemandJob EXCEPT !.step = "next"]
          /\ UNCHANGED ondemandCache
    /\ UNCHANGED <<now, spotVars, cache, reader, ondemand, priceCounters>>

CommitOnDemand ==
    /\ ondemandJob.step = "commit"
    /\ \/ /\ ondemand' = [r \in Regions |->
               IF \E row \in ondemandJob.pending : row[1] = r
                 THEN (CHOOSE row \in ondemandJob.pending : row[1] = r)[2]
                 ELSE ondemand[r]]
          /\ ondemandJob' = [ondemandJob EXCEPT !.step = "next", !.pending = {},
               !.counted = @ \cup {<<ondemandJob.region, ondemandJob.price>>}]
       \/ /\ ondemandJob' = [ondemandJob EXCEPT !.step = "next", !.pending = {},
                                               !.poisoned = TRUE]
          /\ UNCHANGED ondemand
    /\ UNCHANGED <<now, spotVars, cache, reader, ondemandCache, priceCounters>>

OnDemandCollected ==
    /\ ondemandJob.step = "next" /\ ondemandJob.todo = {}
    /\ ondemandJob' = NoOnDemandJob
    /\ UNCHANGED <<now, spotVars, cache, reader, ondemand, ondemandCache, priceCounters>>

PriceNext ==
    \/ Tick \/ Expire
    \/ \E c \in Collectors : Collect(c) \/ Collected(c)
    \/ \E c \in Collectors, r \in Regions :
         Fetch(c, r) \/ (\E p \in PricePools : Store(c, r, p)) \/ Commit(c, r)
    \/ \E r \in Regions : NextRegion(r)
    \/ \E c \in Readers : (\E p \in PricePools : Miss(c, p)) \/ Refill(c)
    \/ CollectOnDemand \/ CacheOnDemand \/ CommitOnDemand \/ OnDemandCollected

PriceSpec == PriceInit /\ [][PriceNext]_priceVars

-----------------------------------------------------------------------------
\* What the statistics of a collection count is in the database: the rows of a
\* region whose thread ended well were committed, by it or by the thread of
\* another region, although the commit of a third may have failed in between.
CountedIsStored ==
    /\ \A c \in Collectors, r \in Regions : thread[c][r].step = "done" =>
         \A p \in PricePools : RegionOf[p] = r => <<p, thread[c][r].price>> \in rows
    /\ \A entry \in ondemandJob.counted : ondemand[entry[1]] = entry[2]

\* A cached price that is older than the newest stored one was put there by a
\* reader, who read the database before the newer row was committed, or by a
\* collection that another one had overtaken, or has been there since before
\* the newer one, which could not be cached.
CacheBehindRowIsExplained ==
    \A p \in PricePools :
      (cache[p] # None /\ Newest(p) # None /\ cache[p] < Newest(p)) =>
        origin[p] \in {"reader", "overtaken", "before"}
=============================================================================

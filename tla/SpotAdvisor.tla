------------------------------ MODULE SpotAdvisor -----------------------------
(***************************************************************************)
(* backend/scrapers/spot_advisor_scraper.py: the scrape that stores the    *)
(* ratings of AWS Spot Advisor, and the readers that fill the cache from   *)
(* the database.  A rating stands for the number of the publication it is  *)
(* from.  The scrape writes the rows of one operating system, caching each *)
(* rating at once, and commits them before it takes up the next; what      *)
(* raises ends it and drops the rows that are not committed, and leaves    *)
(* what it has cached.                                                     *)
(*                                                                         *)
(* A second scrape does not start while one runs, an assumption about the  *)
(* schedule (once a day): both would look for a row before they insert     *)
(* one, and what the table refuses is in app.database.models, which is not *)
(* in the repository.                                                      *)
(***************************************************************************)
EXTENDS Naturals, NoneValue

CONSTANTS
    Ratings,        \* keys: a region, an instance type and an operating system
    Systems,        \* the operating systems
    SystemOf,       \* that of each key
    RatingReaders,
    MaxPublished,   \* bound on the publications of AWS
    MaxScrapes,
    MaxEvicted     \* bound on the ratings that leave the cache

VARIABLES
    publication,    \* the number of the current publication
    stored,         \* committed rows of SpotAdvisorData, 0 for none
    advised,        \* spot_advisor:{region}:{type}:{os}
    scrape,         \* the running scrape
    refill,         \* what each reader has read and not cached yet
    scrapes, evicted,
    \* history: keys that a reader cached last, and keys whose cached rating
    \* lost its row
    byReader, lost

advisorVars == <<publication, stored, advised, scrape, refill, scrapes, evicted,
                 byReader, lost>>

NoScrape == [step |-> "idle", data |-> 0, systems |-> {}, system |-> None,
             todo |-> {}, pending |-> {}]

AdvisorInit ==
    /\ publication = 1 /\ scrapes = 0 /\ evicted = 0
    /\ stored = [k \in Ratings |-> 0]
    /\ advised = [k \in Ratings |-> None]
    /\ scrape = NoScrape
    /\ refill = [c \in RatingReaders |-> {}]
    /\ byReader = {} /\ lost = {}

PublishRatings ==
    /\ publication < MaxPublished
    /\ publication' = publication + 1
    /\ UNCHANGED <<stored, advised, scrape, refill, scrapes, evicted, byReader, lost>>

\* Ratings live in the cache for a day.
Evict(k) ==
    /\ advised[k] # None /\ evicted < MaxEvicted
    /\ advised' = [advised EXCEPT ![k] = None]
    /\ evicted' = evicted + 1
    /\ UNCHANGED <<publication, stored, scrape, refill, scrapes, byReader, lost>>

-----------------------------------------------------------------------------
\* scrape_spot_advisor_data() has fetched the document; a fetch that fails
\* changes nothing.
Scrape ==
    /\ scrape.step = "idle" /\ scrapes < MaxScrapes
    /\ scrapes' = scrapes + 1
    /\ scrape' = [NoScrape EXCEPT !.step = "system", !.data = publication,
                                  !.systems = Systems]
    /\ UNCHANGED <<publication, stored, advised, refill, evicted, byReader, lost>>

NextSystem(s) ==
    /\ scrape.step = "system" /\ s \in scrape.systems
    /\ scrape' = [scrape EXCEPT !.step = "store", !.system = s,
                    !.systems = @ \ {s}, !.todo = {k \in Ratings : SystemOf[k] = s}]
    /\ UNCHANGED <<publication, stored, advised, refill, scrapes, evicted,
                   byReader, lost>>

\* The row is updated or created in the session, and the rating cached.
StoreRating(k) ==
    /\ scrape.step = "store" /\ k \in scrape.todo
    /\ scrape' = [scrape EXCEPT !.todo = @ \ {k}, !.pending = @ \cup {k}]
    /\ advised' = [advised EXCEPT ![k] = scrape.data]
    /\ byReader' = byReader \ {k}
    /\ lost' = lost \ {k}
    /\ UNCHANGED <<publication, stored, refill, scrapes, evicted>>

\* Mutant: the commit is left to the last operating system.
CommitSystemMutant ==
    /\ scrape.step = "store" /\ scrape.todo = {}
    /\ stored' = [k \in Ratings |->
                    IF k \in scrape.pending /\ scrape.systems = {}
                      THEN scrape.data ELSE stored[k]]
    /\ scrape' = [scrape EXCEPT !.step = "system", !.pending = {}]
    /\ UNCHANGED <<publication, advised, refill, scrapes, evicted, byReader, lost>>

CommitSystem ==
    /\ scrape.step = "store" /\ scrape.todo = {}
    /\ stored' = [k \in Ratings |->
                    IF k \in scrape.pending THEN scrape.data ELSE stored[k]]
    /\ scrape' = [scrape EXCEPT !.step = "system", !.pending = {}]
    /\ UNCHANGED <<publication, advised, refill, scrapes, evicted, byReader, lost>>

Scraped ==
    /\ scrape.step = "system" /\ scrape.systems = {}
    /\ scrape' = NoScrape
    /\ UNCHANGED <<publication, stored, advised, refill, scrapes, evicted,
                   byReader, lost>>

\* Redis, the database or the commit raises.
ScrapeFails ==
    /\ scrape.step = "store"
    /\ lost' = lost \cup (scrape.pending \ byReader)
    /\ scrape' = NoScrape
    /\ UNCHANGED <<publication, stored, advised, refill, scrapes, evicted, byReader>>

-----------------------------------------------------------------------------
\* get_spot_advisor_rating() of a key that is not cached
MissRating(c, k) ==
    /\ refill[c] = {} /\ advised[k] = None /\ stored[k] # 0
    /\ refill' = [refill EXCEPT ![c] = {<<k, stored[k]>>}]
    /\ UNCHANGED <<publication, stored, advised, scrape, scrapes, evicted,
                   byReader, lost>>

\* refresh_cache_for_region() reads all rows and caches one after the other.
Refresh(c) ==
    /\ refill[c] = {}
    /\ refill' = [refill EXCEPT ![c] =
                    {<<k, stored[k]>> : k \in {k \in Ratings : stored[k] # 0}}]
    /\ UNCHANGED <<publication, stored, advised, scrape, scrapes, evicted,
                   byReader, lost>>

CacheRating(c) ==
    \E entry \in refill[c] :
      /\ refill' = [refill EXCEPT ![c] = @ \ {entry}]
      /\ advised' = [advised EXCEPT ![entry[1]] = entry[2]]
      /\ byReader' = byReader \cup {entry[1]}
      /\ lost' = lost \ {entry[1]}
      /\ UNCHANGED <<publication, stored, scrape, scrapes, evicted>>

ReaderFails(c) ==
    /\ refill[c] # {}
    /\ refill' = [refill EXCEPT ![c] = {}]
    /\ UNCHANGED <<publication, stored, advised, scrape, scrapes, evicted,
                   byReader, lost>>

AdvisorNext ==
    \/ PublishRatings \/ Scrape \/ CommitSystem \/ Scraped \/ ScrapeFails
    \/ \E k \in Ratings : Evict(k) \/ StoreRating(k)
    \/ \E s \in Systems : NextSystem(s)
    \/ \E c \in RatingReaders :
         \/ \E k \in Ratings : MissRating(c, k)
         \/ Refresh(c) \/ CacheRating(c) \/ ReaderFails(c)

AdvisorSpec == AdvisorInit /\ [][AdvisorNext]_advisorVars

-----------------------------------------------------------------------------
\* Where the cached rating and the stored one differ, a reader or a refresh
\* put back what it had read before the commit, when the cached one is older;
\* when it is newer, its row waits for the commit of its operating system or
\* was lost with a scrape that failed.
DifferenceIsExplained ==
    \A k \in Ratings : advised[k] # None =>
      /\ advised[k] < stored[k] => k \in byReader
      /\ advised[k] > stored[k] => k \in scrape.pending \cup lost
=============================================================================

----------------------------- MODULE BatchStages -----------------------------
(***************************************************************************)
(* The stages that treat a whole batch at a time: WebsiteEnrichmentStage,  *)
(* SocialDiscoveryStage and UrlSelectionStage, each of which starts when   *)
(* the one before it is over.  The first two run one task per lead under a *)
(* semaphore (gather_with_concurrency); an enrichment task opens the       *)
(* lead's Maps page, trying again while it holds its browser page.         *)
(*                                                                         *)
(* enrich_batch() may also be called on its own, with a cache of earlier   *)
(* answers: then the other stages do not follow.  Time passes only where   *)
(* there is a cache, whose entries it ages.                                *)
(***************************************************************************)
EXTENDS Integers, FiniteSets

CONSTANTS
    NumLeads,           \* how many leads the batch has
    Places,             \* the cache keys of their Maps URLs
    PoolSize,           \* the pages of the BrowserContextPool
    WorkerCount,        \* worker_count, the semaphore of either stage
    MaxAttempts,        \* RetryPolicy.max_attempts of the DetailPanelNavigator
    TTL                 \* the cache's default_ttl_seconds

ASSUME SizesAssumption ==
    /\ NumLeads \in Nat /\ PoolSize \in Nat \ {0} /\ WorkerCount \in Nat \ {0}
    /\ MaxAttempts \in Nat \ {0} /\ TTL \in Nat
    /\ Places # {}

Leads == 1..NumLeads

\* lead.website: None, an empty text, or an address.
Websites == {"none", "blank", "site"}

\* What a lookup can answer: validate_and_normalize_website() gives None or
\* an address, never an empty text.
Answers == {"none", "site"}

Links    == {"none", "rejected", "usable"}
Stages   == {"enriching", "discovering", "done"}
Controls == {"spared", "waiting", "acquire", "browse", "backoff", "fetch", "search", "ended"}
Tallies  == {"website_enrichment", "social_discovery", "url_selection"}

VARIABLES
    cached,             \* enrich_batch() was given a cache
    place,              \* the cache key of each lead's Maps URL
    needed,             \* the leads that the enrichment stage's tally is about
    website,            \* lead.website
    links,              \* the best of lead.social's links
    stage,              \* the stage that runs
    pc,                 \* where the task of each lead is suspended
    attempt,            \* how often it has tried to open the Maps page
    store,              \* MemoryCache._store
    metrics,            \* EnrichmentMetrics._total, ._missing
    tally,              \* what each stage reports to the progress tracker
    since               \* history: how long ago a lookup gave each answer

callVars == <<cached, place, needed>>
leadVars == <<website, links>>
taskVars == <<stage, pc, attempt>>
timeVars == <<store, since>>
vars == <<callVars, leadVars, taskVars, timeVars, metrics, tally>>

(* An entry lives on for "left" time units: it is served as long as this   *)
(* is not negative, for "expires_at < now" is strict.  An answer given     *)
(* more than TTL ago may as well never have been given.                    *)
NoEntry == [value |-> "empty", left |-> -1]
Entries == {NoEntry} \cup [value : Answers, left : -1..TTL]
LongAgo == TTL + 1

TypeOK ==
    /\ cached \in BOOLEAN
    /\ place \in [Leads -> Places]
    /\ needed \subseteq Leads
    /\ website \in [Leads -> Websites]
    /\ links \in [Leads -> Links]
    /\ stage \in Stages
    /\ pc \in [Leads -> Controls]
    /\ attempt \in [Leads -> 0..MaxAttempts]
    /\ store \in [Places -> Entries]
    /\ metrics \in [{"total", "missing"} -> 0..NumLeads]
    /\ tally \in [Tallies -> [completed : Int, failed : Int]]
    /\ since \in [Places -> [Answers -> 0..LongAgo]]

-----------------------------------------------------------------------------
\* What an entry that has "left" to live says about the lookups there were.
SinceOf(e) == [a \in Answers |-> IF e.value = a /\ e.left >= 0 THEN TTL - e.left ELSE LongAgo]

\* The leads enrich_batch() makes tasks for.
NeedsEnrichment(l) == website[l] \in {"none", "blank"}

\* The cache may hold what earlier batches found: Tick ages it before the
\* first task looks.  Without a cache, the keys do not matter.
Init ==
    /\ cached \in BOOLEAN
    /\ IF cached
       THEN /\ place \in [Leads -> Places]
            /\ store \in [Places -> {NoEntry} \cup [value : Answers, left : {TTL}]]
       ELSE /\ place = [l \in Leads |-> CHOOSE p \in Places : TRUE]
            /\ store = [p \in Places |-> NoEntry]
    /\ since = [p \in Places |-> SinceOf(store[p])]
    /\ website \in [Leads -> Websites]
    /\ links = [l \in Leads |-> "none"]
    /\ needed = {l \in Leads : website[l] = "none"}
    /\ stage = "enriching"
    /\ pc = [l \in Leads |-> IF NeedsEnrichment(l) THEN "waiting" ELSE "spared"]
    /\ attempt = [l \in Leads |-> 0]
    /\ metrics = [m \in {"total", "missing"} |-> 0]
    /\ tally = [t \in Tallies |-> [completed |-> 0, failed |-> 0]]

\* The task of a lead is over.
End(l) ==
    /\ pc' = [pc EXCEPT ![l] = "ended"]
    /\ attempt' = [attempt EXCEPT ![l] = 0]

-----------------------------------------------------------------------------
(* What the code would be with one plausible mistake in it: no action uses *)
(* these; each stands in for a definition below to show that a property    *)
(* notices.                                                                *)

\* An entry is served in the instant after its last.
ServedLate(e) == e.value # "empty"

\* A cached None counts as no entry (MemoryCache.get() without the wrapper).
ServedIfSite(e) == e.value = "site" /\ e.left >= 0

\* A failed lookup is stored as "no website".
FailCached(l) ==
    /\ store' = [store EXCEPT ![place[l]] = [value |-> "none", left |-> TTL]]
    /\ since' = since
    /\ metrics' = [metrics EXCEPT !["total"] = @ + 1, !["missing"] = @ + 1]
    /\ End(l)
    /\ UNCHANGED <<stage, callVars, leadVars, tally>>

\* Only failures are missing websites for the metrics.
CountFailuresOnly(site) == [metrics EXCEPT !["total"] = @ + 1]

\* The stage does not wait for the tasks that sleep.
TasksOverEarly == \A l \in Leads : pc[l] \in {"spared", "ended", "backoff"}

-----------------------------------------------------------------------------
(* gather_with_concurrency() and BrowserContextPool: a task beyond the     *)
(* semaphore is running, one that opens the Maps page holds a page, also   *)
(* while it sleeps before another try.                                     *)
Running     == {l \in Leads : pc[l] \notin {"spared", "waiting", "ended"}}
PageHolders == {l \in Leads : pc[l] \in {"browse", "backoff"}}
SlotFree    == Cardinality(Running) < WorkerCount
PageFree    == Cardinality(PageHolders) < PoolSize

-----------------------------------------------------------------------------
(* enrich_one() with _enrich_and_record()                                  *)

Served(e) == e.value # "empty" /\ e.left >= 0

Finished(site) ==
    [metrics EXCEPT !["total"] = @ + 1, !["missing"] = @ + (IF site = "none" THEN 1 ELSE 0)]

\* With the semaphore, a cached answer settles the lead at once; an entry
\* that has expired is deleted by the look at it.
Take(l) ==
    /\ stage = "enriching" /\ pc[l] = "waiting" /\ SlotFree
    /\ IF cached /\ Served(store[place[l]])
       THEN /\ website' = [website EXCEPT ![l] = store[place[l]].value]
            /\ metrics' = Finished(website'[l])
            /\ pc' = [pc EXCEPT ![l] = "ended"]
            /\ UNCHANGED store
       ELSE /\ pc' = [pc EXCEPT ![l] = "acquire"]
            /\ store' = [store EXCEPT ![place[l]] = NoEntry]
            /\ UNCHANGED <<website, metrics>>
    /\ UNCHANGED <<callVars, links, stage, attempt, since, tally>>

AcquirePage(l) ==
    /\ pc[l] = "acquire" /\ PageFree
    /\ pc' = [pc EXCEPT ![l] = "browse"]
    /\ attempt' = [attempt EXCEPT ![l] = 1]
    /\ UNCHANGED <<callVars, leadVars, stage, timeVars, metrics, tally>>

\* MemoryCache.set() starts the entry's time anew.
Stored(site) == [value |-> site, left |-> TTL]

\* The answer settles the lead and, where there is a cache, its place.
LookUp(l) ==
    /\ stage = "enriching" /\ pc[l] = "browse"
    /\ \E site \in Answers :
        /\ website' = [website EXCEPT ![l] = site]
        /\ metrics' = Finished(site)
        /\ IF cached
           THEN /\ store' = [store EXCEPT ![place[l]] = Stored(site)]
                /\ since' = [since EXCEPT ![place[l]][site] = 0]
           ELSE UNCHANGED timeVars
    /\ End(l)
    /\ UNCHANGED <<callVars, links, stage, tally>>

\* RetryPolicy.execute() sleeps before it tries again.
OpenFails(l) ==
    /\ pc[l] = "browse" /\ attempt[l] < MaxAttempts
    /\ pc' = [pc EXCEPT ![l] = "backoff"]
    /\ UNCHANGED <<callVars, leadVars, stage, attempt, timeVars, metrics, tally>>

TryAgain(l) ==
    /\ pc[l] = "backoff"
    /\ pc' = [pc EXCEPT ![l] = "browse"]
    /\ attempt' = [attempt EXCEPT ![l] = @ + 1]
    /\ UNCHANGED <<callVars, leadVars, stage, timeVars, metrics, tally>>

\* Nothing is learnt of a place that could not be opened or read.
Fail(l) ==
    /\ End(l)
    /\ metrics' = [metrics EXCEPT !["total"] = @ + 1, !["missing"] = @ + 1]
    /\ UNCHANGED <<callVars, leadVars, stage, timeVars, tally>>

\* The last try fails, or the extractor raises, which is not tried again.
GiveUp(l) == stage = "enriching" /\ pc[l] = "browse" /\ Fail(l)

-----------------------------------------------------------------------------
(* discover_social_links_one() as discover_social_batch() runs it.  A page *)
(* or a profile that is listed as the site gives a link or none; what is   *)
(* missing then is searched for.                                           *)

\* What can be known after one more step: it never takes a link away.
Better(found) == CASE found = "none"     -> Links
                   [] found = "rejected" -> {"rejected", "usable"}
                   [] found = "usable"   -> {"usable"}

Discover(l, found, to) ==
    /\ links' = [links EXCEPT ![l] = found]
    /\ pc' = [pc EXCEPT ![l] = to]
    /\ UNCHANGED <<callVars, website, stage, attempt, timeVars, metrics, tally>>

SocialTake(l) ==
    /\ stage = "discovering" /\ pc[l] = "waiting" /\ SlotFree
    /\ \/ website[l] = "site" /\ Discover(l, "none", "fetch")
       \/ website[l] = "site" /\ \E found \in Links : Discover(l, found, "search")
       \/ website[l] # "site" /\ Discover(l, "none", "search")

\* The extractor may raise: _process() goes on with what it has.
SocialFetched(l) ==
    /\ pc[l] = "fetch"
    /\ \/ Discover(l, links[l], "ended")
       \/ \E found \in Links :
            \/ Discover(l, found, "search")
            \/ found # "none" /\ Discover(l, found, "ended")

SocialSearched(l) ==
    /\ pc[l] = "search"
    /\ \E found \in Better(links[l]) : Discover(l, found, "ended")

-----------------------------------------------------------------------------
(* The stages themselves                                                   *)

\* asyncio.gather() returns when every task has.
TasksOver == \A l \in Leads : pc[l] \in {"spared", "ended"}

Tallied(t, completed, among) ==
    [tally EXCEPT ![t] = [completed |-> completed, failed |-> among - completed]]

\* The enrichment stage counts the leads whose website was None, and the
\* next one makes a task for every lead, which has no link yet.
EnrichmentStageOver ==
    /\ stage = "enriching" /\ ~cached /\ TasksOver
    /\ tally' = Tallied("website_enrichment",
                        Cardinality({l \in needed : website[l] # "none"}), Cardinality(needed))
    /\ stage' = "discovering"
    /\ pc' = [l \in Leads |-> "waiting"]
    /\ UNCHANGED <<callVars, leadVars, attempt, timeVars, metrics>>

\* enrich_batch() returns to a caller of its own.
BatchReturns ==
    /\ stage = "enriching" /\ cached /\ TasksOver
    /\ stage' = "done"
    /\ UNCHANGED <<callVars, leadVars, pc, attempt, timeVars, metrics, tally>>

\* SelectionEngine.select() drops what is no valid URL.
Selected(found) == IF found = "usable" THEN "usable" ELSE "none"

With(ls) == Cardinality({l \in Leads : ls[l] # "none"})

\* URL selection follows without an await in between.
SocialStageOver ==
    /\ stage = "discovering" /\ TasksOver
    /\ links' = [l \in Leads |-> Selected(links[l])]
    /\ tally' = [tally EXCEPT
        !["social_discovery"] = [completed |-> With(links), failed |-> NumLeads - With(links)],
        !["url_selection"] = [completed |-> With(links'), failed |-> With(links) - With(links')]]
    /\ stage' = "done"
    /\ UNCHANGED <<callVars, website, pc, attempt, timeVars, metrics>>

-----------------------------------------------------------------------------
\* A time unit passes over every entry.
Tick ==
    /\ cached /\ stage = "enriching"
    /\ store' = [p \in Places |->
                    [store[p] EXCEPT !.left = IF @ > -1 THEN @ - 1 ELSE -1]]
    /\ since' = [p \in Places |-> [a \in Answers |->
                    IF since[p][a] < LongAgo THEN since[p][a] + 1 ELSE LongAgo]]
    /\ UNCHANGED <<callVars, leadVars, taskVars, metrics, tally>>

\* Nothing is left to do, which is no deadlock.
Returned == stage = "done" /\ UNCHANGED vars

EnrichStep(l) ==
    Take(l) \/ AcquirePage(l) \/ LookUp(l) \/ OpenFails(l) \/ TryAgain(l) \/ GiveUp(l)

SocialStep(l) == SocialTake(l) \/ SocialFetched(l) \/ SocialSearched(l)

StageStep == EnrichmentStageOver \/ BatchReturns \/ SocialStageOver

Next ==
    \/ \E l \in Leads : EnrichStep(l) \/ SocialStep(l)
    \/ StageStep
    \/ Tick
    \/ Returned

Spec == Init /\ [][Next]_vars

\* The event loop resumes every task that is ready; navigation, sleep, fetch
\* and search end.
FairSpec ==
    /\ Spec
    /\ \A l \in Leads : WF_vars(EnrichStep(l)) /\ WF_vars(SocialStep(l))
    /\ WF_vars(StageStep)
-----------------------------------------------------------------------------
(* The cache tells of a place only what a lookup of that very place has    *)
(* answered, and no longer than TTL: a place that could not be opened is   *)
(* not on record as one without a website ("whether a website was found or *)
(* confirmed absent", cache.py lines 1-2), however tasks that missed the   *)
(* same entry overwrite each other's answers.                              *)
CacheConfirmed ==
    \A p \in Places :
        store[p].value \in Answers /\ store[p].left >= 0 =>
            since[p][store[p].value] = TTL - store[p].left

(* A lead's website changes at most once, from a missing one to what some  *)
(* lookup of its place answered at most TTL ago, its own or another one.   *)
WebsiteConfirmed ==
    [][\A l \in Leads : website'[l] # website[l] =>
        /\ pc[l] # "ended" /\ website[l] \in {"none", "blank"}
        /\ cached => since'[place[l]][website'[l]] <= TTL]_vars

(* "A business already processed is never re-enriched" (cache.py line 2),  *)
(* as far as it goes: a lookup starts only if none of that place has been  *)
(* answered within TTL, "none" being an answer.  Lookups that are still on *)
(* their way do not count: two tasks may look the same place up.           *)
LookedUpOnlyIfUnknown ==
    [][\A l \in Leads : cached /\ pc[l] = "waiting" /\ pc'[l] = "acquire" =>
        \A a \in Answers : since[place[l]][a] > TTL]_vars

Looked(l) == stage # "enriching" \/ pc[l] = "ended"

(* The numbers of the stages and of the metrics fit together.  The metrics *)
(* miss a website exactly for the leads that were looked up and still have *)
(* none; the stage's tally leaves out those that started with an empty     *)
(* text, which were looked up too; social discovery counts every lead, and *)
(* selection those that discovery completed.                               *)
TalliesAgree ==
    LET unsited == {l \in Leads : Looked(l) /\ NeedsEnrichment(l)}
        sum(t) == tally[t].completed + tally[t].failed
    IN  /\ metrics["missing"] = Cardinality(unsited)
        /\ stage = "enriching" => metrics["total"] = Cardinality({l \in Leads : pc[l] = "ended"})
        /\ stage # "enriching" /\ ~cached =>
            /\ tally["website_enrichment"].failed = Cardinality(unsited \cap needed)
            /\ sum("website_enrichment") <= metrics["total"]
        /\ stage = "done" /\ ~cached =>
            /\ sum("social_discovery") = NumLeads
            /\ sum("url_selection") = tally["social_discovery"].completed
            /\ tally["url_selection"].completed = With(links)

\* How far a lead has come.  One that needs no lookup goes on with the batch.
PhaseOf(l) ==
    CASE stage = "enriching" /\ pc[l] \in {"waiting", "spared"}            -> "waiting"
      [] stage = "enriching" /\ pc[l] \in {"acquire", "browse", "backoff"} -> "enriching"
      [] stage = "enriching" /\ pc[l] = "ended"                            -> "enriched"
      [] stage # "enriching" /\ pc[l] = "waiting"                          -> "enriched"
      [] stage # "enriching" /\ pc[l] \in {"fetch", "search"}              -> "discovering"
      [] OTHER                                                             -> "delivered"

Flow == INSTANCE LeadFlow WITH
    MaxLeads <- NumLeads,
    total    <- IF cached THEN 0 ELSE NumLeads,
    phase    <- [l \in Leads |-> IF cached THEN "waiting" ELSE PhaseOf(l)],
    stopped  <- FALSE,
    done     <- (stage = "done")

(* Stage by stage instead of lead by lead, a batch is to its leads what    *)
(* the streaming stage is: one lookup, then one discovery, then the end.   *)
FlowSpec == Flow!FlowSpec
=============================================================================

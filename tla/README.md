# Verification of the lead scraper

TLA+ models of the service under `src/app`, the TLC configurations that check
them on small instances, and theorems about them that TLAPS proves for every
size.  The service searches Google Maps for businesses (the *leads*), looks up
their websites, discovers their Instagram and Facebook links, selects the best
of these, and returns the leads.

## 1. The system and its parts

| Part | State it keeps | Operations | Hard behaviour |
|---|---|---|---|
| `pipeline/orchestrator.py`, streaming stage | two bounded queues, the tallies, the stop event, the leads | feeder, enrichment workers, social workers, markers, `request_cancellation` | interleaving workers share leads; bounded queues; markers that must not overtake leads; a stop at any moment |
| `pipeline/orchestrator.py`, `run()` | what the run has opened, its tasks | start, discover, stream, `finally` | failing starts; hard cancellation at any await; clean-up cut short; tasks left behind |
| `discovery/google_maps/browser_pool.py` | the queue of free pages, the list of all entries | `start`, `acquire`, `stop` | contention; partial start; `stop` replaces the queue under waiters |
| `pipeline/orchestrator.py`, batch stages | what each stage reports | enrich, discover, select, a whole batch at a time | one stage must be over before the next reads its leads |
| `discovery/google_maps/browser_manager.py` | driver and browser | `start`, `stop` | failing launch or close |
| `discovery/google_maps/*` (search, scroll, collect, dedup) | scroll counters, collected cards | a chain of four stages | a page that changes while it is counted; boundaries |
| `enrichment/google_maps/*` | cache, metrics | `enrich_one`, batch workers | retry while a page is held; check-then-set of the cache |
| `enrichment/social/*`, `providers/duckduckgo.py` | per lead: links and confidences | profile, fetch, search fallback | two concurrent searches, one of which may fail |
| `selection/*` | none | dedup, rank, select | ties and boundaries of the ranking |
| `network/circuit_breaker.py` | state, failures, time of opening, trial slots | `call` | answers of concurrent calls in any order; cancelled calls |
| `network/rate_limiter.py` | tokens, time of the last refill | `acquire` | waiters sleep outside the lock |
| `network/session_manager.py`, `retry_strategy.py`, `network_metrics.py` | per-host limiters and breakers, counters, the singleton | `request`, `startup`, `shutdown` | retries, timeouts and cancellation between the counters; shutdown while requests run |
| `cache/memory_cache.py`, `network/dns_cache.py` | entries with a time to live | `get`, `set` | expiry; concurrent misses |
| `core/playwright_loop.py` | one thread and its loop | `run_playwright` | start-up under a lock (Windows only) |
| `core/lifespan.py` | the session of the process | start, shut down | shutdown while requests run |
| API, schemas, configuration, normalizers, validators, exports | none to speak of | | text processing |

How they interact: an API request builds one `PipelineOrchestrator` and awaits
`run()`.  The run opens a browser and a pool of pages, discovers the leads on
one page, and streams them.  Enrichment workers take pages for
`enrich_one`; social workers take pages for `BrowserWebsiteHTMLFetcher` and
send searches through the process-wide `SessionManager`, which has one rate
limiter and one circuit breaker per host.  All of it runs in one event loop:
between two awaits that really suspend, a coroutine runs without interruption,
and that is the grain of every action here.  `run()` streams the leads; the
batch stages do the same work one stage after another and are kept for callers
of their own, as is `enrich_batch()` with a cache.  `asyncio.Lock`s whose owner never
suspends, and uncontended awaits that return at once, are not steps of their
own.

What makes the parts correct, and what could go wrong at which line, is in
`PROJECT.json` under `hazards`, each with the properties that would notice.

## 2. The modules

### LeadFlow: what the streaming stage promises
For each lead: `waiting -> enriching -> enriched -> discovering -> delivered`,
either lookup skipped only when it is allowed to be, no lookup starting after a
stop, the stage returning exactly when all leads are delivered.  No workers, no
queues.

### LeadStream: the streaming stage
`_stream_enrichment_social_selection`, one action per stretch of code between
two suspensions:

| Action | Code |
|---|---|
| `Feed` | one `put` of `feed_enrichment`: leads in order, then one marker per worker |
| `EnrichTake`, `EnrichQuit` | `enrichment_worker` gets a lead (and decides whether to look it up) or a marker |
| `AcquirePage` | `BrowserContextPool.acquire` finds a page (both kinds of worker) |
| `EnrichFinish` | `enrich_one` returns or raises, the page goes back, the lead is tallied |
| `Forward` | `to_social.put(lead)` |
| `SocialTake`, `SocialQuit` | `social_worker` gets a lead or a marker; `discover_social_links_one` up to its first suspension |
| `SocialFetched` | the page fetch ends; what follows is a search, or tally, selection and the next `get` |
| `SocialSearched` | the search fallback ends; tally, selection, next `get` |
| `EnrichmentJoined`, `PutMarker`, `SocialJoined` | the stage's own coroutine |
| `RequestCancellation` | `request_cancellation()` |

A lead is a number.  Its website is one of four classes (none, an empty text,
a site, a social profile listed as the site), its links one of three (none, one
that selection rejects, one it keeps).  `processed` is a history variable.

### PipelineRun: the run around it
Extends LeadStream with the stages of `run()`, what is open (`driver`,
`browser`, `contexts`), who has a handle on it (`held` for the `_playwright` and
`_browser` of the manager, `tracked` for the `_all` of the pool), the
cancellation of the task at each of its awaits, and the tasks that go on when
the run no longer waits for them.  `stop()` closes only what it has a handle on;
a call that is cancelled may have opened or closed its thing or not, and changes
no handle (`CancelStart`, `CancelCleanup`); `UndoLaunch` is the await in the
`except` of a failed launch.  `lapses` is history: which calls ended with
something possibly left open.  `gather()` cancels its own children only: `CancelStream` ends the
tasks that are being awaited (`Awaited`) and no others.  `StopPool` strands the
workers that wait for the queue it replaces.

### CircuitBreaker: the breaker of one host
`_before_call`, `_on_success`, `_on_failure` are one step each, and a call lies
between two of them, so its answer may come in any later state.  `call`
remembers for each caller how it was let in: by a closed circuit (`passed`), as
a trial of the current half-open period (`trial`) or of an earlier one
(`stale`).  That, and `lost` (cancelled trials), are history: no guard of the
code reads them.

### RateLimiter: the token bucket of one host
One turn of the loop in `acquire` is one step (`Take` or `Sleep`), since its
lock is never held across a suspension; a caller sleeps outside it.  Time is
measured in ticks that each add one unit to the bucket, a token being
`TokenTime` units.  `since` and `spent` are history: the length of a window of
time that may begin at any moment (`OpenWindow`) and what was handed out in it.

### SessionRequest: one request to a host
Extends CircuitBreaker with `SessionManager.request`: limiter, retry loop and
metrics around `call`.  `Begin`, `Try` (let in or refused), `Answered` (success,
retry after a sleep, or failure) and `Abandon` (cancellation) each are one
stretch between suspensions.  When the limiter lets a request through is left
open here; RateLimiter says when it does.

### SessionManager: the session of the process
Extends SessionRequest with the life of the singleton: `lifespan()` shuts the
session down (`ShutdownBegins`, `ShutdownEnds` around the awaited `aclose()`),
runs start the session they get (`RunStarts`), requests keep the session they
were made with, and whoever asks after the shutdown gets another one
(`MakeSuccessor`).  A client is closed from the moment `aclose()` is called: an
attempt made then is let in by the breaker and answered by `ClientRefuses`, a
RuntimeError that nobody retries.  In the code no suspension lies between the
two; the model allows one, which only adds behaviours.

### BatchStages: a batch at a time
`gather_with_concurrency` is one task per lead (`pc`) and the number of tasks
past the semaphore.  A lookup is `Take` (the semaphore, then the cache),
`AcquirePage`, `OpenFails` and `TryAgain` as often as the retry policy says, and
`LookUp` or `GiveUp`.  Social discovery is the one-link view of it
(`SocialTake`, `SocialFetched`, `SocialSearched`); `SocialStageOver` goes
through selection, which does not suspend.  With `cached`, the batch is one of
`enrich_batch()` alone, whose cache may hold earlier answers, and `Tick` ages
them; `since` is history: how long ago a lookup of a place gave which answer.
The stages implement LeadFlow, as the streaming stage does: LeadFlow is what
either way of treating a batch promises.

### Selection: the best of many links
`select`, `deduplicate`, `rank_score` as operators on sequences of candidates.
A URL is a name and its *merits*, which is what the ranking reads off it.
SocialDiscovery calls `select` on what it found; its run also compares `select`
with what it should return, stated without merging or sorting, on every list of
up to three candidates (`EveryChoiceBest`), and the counts of the metrics
(`EveryRecordSums`).  The orchestrator passes at most one candidate for each
platform, so that only other callers reach the choice among several.

### MapsDiscovery: where the leads come from
`run_discovery`: `SearchDone`, the scroll loop (`Count`, `AskEnd`, `Scroll`,
`Poll`), `Collect` (read the cards, cut to the limit, drop duplicates) and
`Fail`.  The page (`Load`, `ShowMarker`) goes on loading cards between any two of them.
A card leads to a place or cannot be read.  The pause between scrolls (`Pause`,
in eighths of the base, and `Window`, in polls) is a function of the stall
count, as in the code, where both are reset together.  `Collected` are the
positions of the cards that are kept, `Deduplicated` their places.  `quiet` is
history: for how many polls no card was loaded.

### SocialDiscovery and LinkDiscovery: the links of one lead
SocialDiscovery is `discover_social_links_one` with the selection that the
social worker runs on its result, for both platforms: `Take` up to the first
suspension, `Fetched`, the two searches (`Search`) as tasks of their own,
`Gathered` or `GatherFails`, `Cancel` (which reaches the searches only as long
as their `gather()` is not over); `metrics` is what the lead adds to
`SocialDiscoveryMetrics`.  A URL is what becomes of it: a *clean*
profile, *odd* but valid, *broken*, or none.  A result page is a sequence of
anchors, and `Targets`, `Raises` and `Find` compute from it what
`discover()` and `find()` return.  LinkDiscovery is the view LeadStream has of
all this (one best link, better after every lookup); SocialDiscovery is shown
to implement it.

Every module states its type invariant.  The runs do not check it, but are kept
for what could be wrong with the code; those of all modules but the abstract
LeadFlow and LinkDiscovery are proved.

The `*_proofs` modules hold the theorems, for SocialDiscovery with those of
Selection and for SessionManager with those of SessionRequest; `MCCircuitBreaker` adds a symmetry
set where no liveness is checked.  Each module names, before its actions, the
mistakes (`mutants` in `PROJECT.json`) its properties are known to notice.

## 3. The runs

| Run | Question | Instance |
|---|---|---|
| `stream` | is a lead ever lost, handled twice, left behind, miscounted, looked up after the stop; is a page ever shared; does the stage implement LeadFlow, and always return | 2 + 1 workers, 1 page, 0..2 leads |
| `run_life` | what may a run leave open and why, do all its tasks stay within what it has open and does it return only when they are done, does every run end | 1 + 1 workers, 2 pages, 0..2 leads, 2 cancellations |
| `run_cancelled_cleanup` | does clean-up happen "either way": **violated** | 1 + 1 workers |
| `run_orphans` | does any task outlive its run: **violated** | 1 + 1 workers |
| `breaker` | do state, failures and slots stay consistent, is the circuit left again | 4 callers, all cancellable, threshold 2, 2 trials |
| `breaker_cancelled_trial` | is a full half-open circuit always left: **violated** | 2 callers, 1 trial |
| `breaker_late_success` | does an open circuit stay open until the timeout: **violated** | 3 callers |
| `limiter` | is the rate kept over every window, does anybody sleep for nothing, is everybody served | 3 callers, a burst of 7/3 tokens, windows up to 8 ticks |
| `session` | do the counters agree, does a sleeping request hold a slot, does every request end; are two sessions ever open at once, does a session that is shut down come back, does a late request get through | 2 callers, 3 requests, 3 attempts each, a shutdown and starts at any moment |
| `batch` | does the cache tell the truth, where does a website come from, is a known place looked up again, do the tallies fit, does a batch implement LeadFlow | 3 leads, 2 cache keys, 1 page, 2 workers, 2 tries, entries that live 1 tick |
| `discovery` | what is harvested from a feed that loads all the time, when is the end concluded, what is reported, does discovery end | feeds of 0..4 cards (2 places, unreadable ones), limits 1..3, 4 scrolls, 3 stalls |
| `social` | do links, confidences and searches fit together, do they add up to the one link of LeadStream, do the metrics tell what happened; is the best of several candidates selected | 4 kinds of website, result pages of 0..3 anchors, limit 2; lists of 0..3 of 36 candidates, the scores of the settings |

Why the bounds are enough.  Two enrichment workers are needed for one to exit
while the other still holds a lead, and three workers on one page make both
stages wait for the other.  Queue capacities follow from the workers as in the
code; two leads and a marker overflow the two slots of the second queue.  The
safety of the stage does not rest on these bounds: it is proved for any number
of workers, pages and leads (section 4).  The initial states range over all
batches up to the bound and all classes of website of each lead.  For the
breaker, four callers are two more than trials or failures needed to change its
state, so late answers of two kinds coexist with a full set of trials.
`failures` stops at the threshold and `elapsed` at the timeout, since the code
only compares them with `>=`.  Two cancellations reach a cancelled stage and a
cancelled clean-up; a further one finds the run ended.  For the limiter, the
burst is no multiple of a token and the window longer than the bucket takes to
fill.  Three requests of two callers, of three attempts each, open the circuit,
run its trials and close or reopen it, and one of them can begin before, during
and after the shutdown.  Three leads on two keys make two tasks miss one entry
while a third waits for the semaphore; one page for two workers makes them wait
for it too, two tries let one sleep with it, and an entry that lives one tick
can be fresh, in its last instant, and expired.  Three candidates hold two
duplicates and a rival, in any order, from two sources and three tiers.  Four cards hold two places, one of them repeated, and a bad
card, and the limit may cut between any two of them.  Three anchors are one
more than the limit, so that the anchor that would decide may come too late.

Fairness.  Weak fairness on each coroutine's next step: the event loop resumes
every task whose await is ready, and page visits, searches and requests run
under timeouts.  Requesting a stop, cancelling and making calls are never
fair.  Nor is shutting the session down, but once begun it ends, since
connections close.  Waiters for a page are served in any order here (the code: first come,
first served); each worker needs a page finitely often, so weak fairness is
enough.  In RateLimiter time passes and every sleeper whose time has come is
woken; that everybody is served is claimed only once no new callers arrive,
because the bucket keeps no order and a newcomer may overtake a sleeper for
ever.  The page owes MapsDiscovery nothing.

## 4. What is proved

For every value of the constants that the named assumptions of the modules
allow: any finite number of workers, pages, leads, callers, candidates and
cards, any limits and scores.  30 properties of the runs are theorems, and
the refinements are; TLC agreed with every inductive invariant on the small instances
first.

### The streaming stage (`LeadStream_proofs`)

* `Typing`, `NothingDropped`, `MarkersComeLast`, `OnePlace`, `PagesShared` and
  `StopStartsNothing` prove type correctness, the invariants `NoLeadDropped`,
  `ExitOnlyWhenDrained`, `LeadInOnePlace` and `PageDiscipline`, and the action
  property `NoNewWorkAfterCancel`.
* The inductive invariant `StreamInv` says, beyond types: a worker holds a lead
  exactly between two gets (`Busy`) and a page exactly while it browses
  (`PageHeld`); every lead in a queue or a hand belongs to the batch
  (`InBatch`); every lead of the batch is somewhere (`Somewhere`) and nowhere
  else (`Alone`); and in each queue the markers come after the leads, no lead
  can arrive behind a marker, because the feeder has finished, respectively all
  enrichment workers have exited, before the first marker is taken (`Order`).
  None of the properties is inductive without it: `NoLeadDropped` needs to know
  that exited workers leave empty queues, which needs the order in the queues,
  which needs that the workers that could still put have exited.
* `StreamImplementsFlow`: the stage implements the safety part of LeadFlow.
  Under the mapping of a lead's place to its phase, every step of a worker is a
  step of LeadFlow for one lead or a stutter; `StreamInv` says that the lead in
  the worker's hand is in no other place, so no other phase changes.
* `WritersTakeTurns` proves `WritesInTurn`, from the same mapping.
* `TalliesMatch` proves `TalliesAgree`.  `TallyInv` names, beside each counter,
  the set of leads that it counts (the leads that are through; the needed ones
  past their lookup) and says that the counter is its cardinality; a step adds
  one lead to the set and one to the counter.  That the lead was not in the set
  before is `StreamInv` again.

### The run (`PipelineRun_proofs`, extending the module above)

* `RunCleansUp` proves `CleanedUp`, which names what a run can leave open and
  the lapse behind it: a context survives the pool's stop only if its `close()`
  raised or the pool's start was cancelled, and then goes with the browser; the
  browser survives only if `browser.close()` raised; the driver only then, or if
  its own start was cancelled (all this as long as the clean-up itself is not
  cancelled, which is `run_cancelled_cleanup`).  The invariant `Owned` says who
  reaches what until the run has ended (`Reached`): contexts through the
  browser's handle, the browser through its own or the driver's, and so on; and
  what each stage has opened (`OpenByStage`).
* `TasksLiveWithinRun` proves `TasksWithinRun`, and `StreamWithinRun` carries
  `LeadInOnePlace`, `NoLeadDropped` and `ExitOnlyWhenDrained` over to a run
  that nobody cancels, whatever else in it fails.  `RunInv` says what each
  stage has open and which tasks there are (`StageTells`), and that `StreamInv`
  holds as long as nobody cancels (`TasksTell`).  Under cancellation the part
  of it that survives is `Base`; that the rest does not is what the run
  `run_orphans` shows.
* `RunTyping`: every variable keeps its type, in a cancelled run too.

### The batch stages (`BatchStages_proofs`)

* `CacheTellsTruth`, `NoneLookedUpTwice` and `WebsitesConfirmed` prove
  `CacheConfirmed`, `LookedUpOnlyIfUnknown` and `WebsiteConfirmed`.
  `CacheConfirmed` says that what is on record was answered; the second needs
  the reverse, that an answer no older than its time to live is on record or a
  later one is (`Remembered`).  `Sorted` says which leads a stage can hold.
* `NumbersFit` proves `TalliesAgree`, as above: `TallyInv` says which leads each
  counter counts.  `BatchTyping` needs it, since the metrics are bounded by the
  number of leads.
* `BatchImplementsFlow`: a batch implements the safety part of LeadFlow.

### Maps discovery (`MapsDiscovery_proofs`)

* `VerdictIsTrue` and `GivesUpLateOnly` prove `VerdictTells` and `GivesUpLate`.
  The invariant `ScrollInv` says what each stage of the loop knows of the counts
  (`Counting`, `VerdictCounts`) and that, as long as the count has not moved,
  the windows of the stall so far were waited for without a card (`Waited`).
* `HarvestIsRight` proves `Harvest` for any feed.  After n cards the loop of
  `deduplicate_leads()` has the place of each card collected so far, once, in
  the order of the first mentions (`Harvested`).  It needs that what was
  collected is closed downwards (`CollectedFromFirst`): then the first mention
  of a place that is new is also its first in the feed.  `Counts` says how many
  of the first n cards are collected and how many cannot be read.
* `DiscoveryTyping`.

### Social discovery and selection (`SocialDiscovery_proofs`)

* `TierAlwaysTells`, `AnswersAlwaysCount`, `SearchesAlwaysBelong`,
  `MetricsAlwaysTell` and `FoundAlwaysStays` prove `TierTellsSource`,
  `AnswersCount`, `SearchesBelong`, `MetricsTell` and `FoundStays`, for result
  pages of any length.  `SocialInv` adds what is known before the website was
  looked at, while the searches run and after they ended (`Before`, `During`,
  `After`), and that an answer counts as the business's own exactly if its page
  showed it (`AnswerTells`).  `SocialTyping` is the type invariant.
* `SocialImplementsLink`: both platforms with their searches implement the
  safety part of LinkDiscovery.
* `ChoiceAlwaysBest` and `RecordAlwaysSums`: of any list of candidates and for
  any scores, `select` takes the URL whose best mention scores highest, in a
  draw the one mentioned first, and every candidate is rejected, a duplicate or
  a distinct URL.  What `deduplicate` has kept of the first n candidates
  (`Fits`) is stated without merging.  `AlwaysSelectsBest` is the instance
  `SelectsBest`; `SelectionKeepsValid` is what the social worker relies on.
* `ScoreBounds` (source and merits add between 0 and 55 to the score of a
  tier), `BestIsUnique`, `FarTierWins` and `LowNeverBeatsHigh` (no merits lift a
  tier over one worth more than 55 more; with the default scores that separates
  low from high, though not medium from either).

### Network

* `CircuitBreaker_proofs`: `BreakerTyping`, `StateFollowsCount` and
  `SlotsAccounted`, for any number of callers and any limits, from the
  invariant that also bounds slots by the limit.
* `RateLimiter_proofs`: `BucketTyping`, `RateKept` and `TimersNotTooLong`, for
  any rate, burst and number of callers.  `WindowBound` becomes inductive by
  counting what is still in the bucket: what was handed out in the window, plus
  the tokens the bucket holds now, never exceeds one full bucket and the length
  of the window.
* `SessionManager_proofs`, for any callers, requests, attempts and limits of the
  breaker: `CountedOnce`, `SleepersHoldNoSlot`, `SessionsDoNotOverlap` and
  `LateRequestsAreRefused` prove `CountersAgree`, `OnlySentHoldSlots`,
  `OneOpenSession` and `LateRequestsFail`.  The invariant adds that a request
  off the network has an attempt left (`AttemptsLeft`), and what each stage of
  the shutdown says of client and singleton (`LifeInv`); the counters need that
  every step moves one request only.  `ManagerServesRequests` and
  `BreakerRemains` are refinements: the session implements SessionRequest, and
  its calls implement CircuitBreaker (`BreakerSpec`), because a closed client's
  refusal is an answer like another.

### Loops over data

The library's induction theorems take an operator as a parameter, which the
provers cannot instantiate.  What `deduplicate`, `deduplicate_leads` and the
sum of the scroll windows compute for every input is proved all the same: they
are recursive functions, the loop invariant is stated of the first n elements,
and the set of those n for which it fails is shown to be empty, since it has no
least element (`LeastElement`, `SetInduction`).

### Only model-checked

Liveness (`Termination`, `RunEnds`, `TrialsResolve`, `RecoveryComes`,
`ServedInTheEnd`, `RequestsEnd`, `DiscoveryEnds`) and the liveness parts of the
refinements of LeadFlow and LinkDiscovery: fairness and ENABLED are beyond the
prover.  The four violated properties of section 5 are counterexamples, which
need no proof.

## 5. What the runs found

1. `breaker_cancelled_trial`: `call()` catches `Exception`, which
   `CancelledError` is not.  A cancelled trial keeps its half-open slot; when
   all slots are gone that way the circuit rejects every call and no state
   change is left that could free them.
2. `breaker_late_success`: a success closes the circuit whatever its state, so
   a slow call from before the circuit opened ends the recovery period early.
3. `run_cancelled_cleanup`: cancelling the task while the `finally` block
   stops the pool skips stopping the browser; cancelling it while the browser
   closes skips stopping the driver.
4. `run_orphans`: cancelling the task during enrichment leaves the social
   tasks running after the run; those that wait for a page wait for ever.

The passing runs state some further things a reader should know, as what the
code does:

5. `CountersAgree`: a cancelled request stays among the open connections for
   good; `request()` has the same `except Exception` as the breaker.
6. `AnswersCount`: when one of a lead's two searches raises (a result whose
   href `urlparse` cannot read is enough), the answer of the other is lost and
   it runs on alone, although `batch.py` calls them independent.
7. `TierTellsSource`: an odd link on the business's own site is MEDIUM, where
   `confidence.py` says that links found there are HIGH; and a clean profile
   that search found but that does not look related is LOW.
8. `Harvest`: cards are cut to the limit before duplicates are dropped, so a
   request may get fewer leads than it asked for although the page had more.
9. `VerdictTells`: a limit that the last allowed scroll reaches is not reported
   as reached.
10. `LookedUpOnlyIfUnknown`: "a business already processed is never re-enriched"
   (`enrichment/google_maps/cache.py`) holds for answers that are there when a
   task looks, not for a lookup that is still under way: two tasks that miss
   the same entry both look the place up, and the later answer stays.
11. `TalliesAgree`: a lead whose website is an empty text is looked up, but the
   enrichment stage's tally leaves it out, since it counts `None` only.
12. `MetricsTell`: a lead whose search raises is never counted as processed,
   though it may be counted as fetched or as found on the website; rates made
   of these counters mix two populations of leads.
13. `LateRequestsFail`: a request that gets hold of the session while it closes
   raises a RuntimeError, and the breaker of its host counts that as a failure
   of the host.
14. `OneOpenSession` says that a session made after the shutdown does not
   overlap with the one before.  Nobody shuts that one down.
15. `CleanedUp`: a task that is cancelled while it awaits
   `async_playwright().start()` (`browser_manager.py:31`) leaves a driver coming
   up that no handle reaches; `stop()` then has nothing to stop.  One that is
   cancelled in the launch has no handle on the browser, which goes with the
   driver; and contexts of a cancelled `BrowserContextPool.start()` go with the
   browser.
16. `CleanedUp`: when `browser.close()` raises, `BrowserManager.stop()` gets no
   further and the driver stays up.  `run()` logs the error and ends; the
   contexts the pool had hold of have been closed by then.
17. `SearchesBelong`: the search that runs on after the other one raised is not
   reached by a cancellation of the lead either, since the `gather()` is over.

## 6. Abstractions and limits

* The text of websites, links and names is reduced to the classes that decide
  what the code does next; extraction and normalization choose among them.
* A failing discovery is an empty batch; a run whose batch is chosen empty and
  one whose discovery raised do the same from there on.
* `PipelineRun` models the run that owns its browser.  An injected pool is the
  caller's to manage.  What Playwright does is taken from how the code uses it:
  a browser takes its contexts with it and a driver its browser, a driver that
  fails to start or a launch that raises leaves nothing up, stopping a driver
  does not raise, and nothing closes of its own accord.
* What an orphaned social task gets from a page that is being closed is any
  outcome of a fetch.
* Clock readings are ticks; timeouts are compared in ticks.
* The number of cards on the results page only grows.  The scroll loop counts
  the cards' links and the collector reads their containers (two selectors,
  `selectors.py:31` and `:33`); MapsDiscovery has one set of cards for both, so
  that a container without a link, or the reverse, is not represented.
* BatchStages has no cancellation, and a website is fetched without taking a
  page (the plain HTTP fetcher); the cache is given to `enrich_batch()` alone,
  as nobody gives it to a stage.  The order in which tasks get the semaphore or
  a page is any order.
* A request of SessionManager goes to one host; the get-or-create of limiters
  and breakers does not suspend.
* SocialDiscovery takes a lead without links, as every lead of a run is; which
  regions of a page its links come from only decides which one is first.

## 7. Not modelled

* `core/playwright_loop.py` (Windows only): `_ensure_loop()` is called from the
  one loop of the server and never suspends, so nothing contends for its lock;
  what is left is the standard library's hand-over of a coroutine to another
  loop.
* `network/dns_cache.py`: not wired into the client, as its own comment says.
  `delete`, `clear`, `size` and `has` of the caches, `run_with_timeout`, and the
  sharing of a BrowserManager have no caller under `src/app`.
* `request_hooks.py`, `response_hooks.py`, `user_agent.py`: headers and logging.
* API, schemas, settings, middleware: parsing and wiring.  The ranges the
  settings allow are the assumptions on the constants.
* Text: `normalizers`, `validators`, `url_helper`, the exporters and benchmarks.
  What they decide (is there a usable URL, which kind) is a choice in the models.

## 8. Plan

Done: what a run does (LeadFlow, LeadStream, PipelineRun, MapsDiscovery,
SocialDiscovery with LinkDiscovery and Selection), what it uses (CircuitBreaker,
RateLimiter, SessionRequest, SessionManager), the batch stages with the cache
(BatchStages), and the proofs of section 4.

Every safety and action property of the passing runs is proved.  What is left:
the refinement of the whole run (a PipelineRun that nobody cancels against
LeadFlow, as LeadStream alone is), and RateLimiter composed with SessionRequest.

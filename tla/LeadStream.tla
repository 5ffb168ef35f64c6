----------------------------- MODULE LeadStream -----------------------------
(***************************************************************************)
(* PipelineOrchestrator._stream_enrichment_social_selection: the leads of  *)
(* one run flow from a feeder through a bounded queue to the enrichment    *)
(* workers, through a second bounded queue to the social workers, and out. *)
(* Both kinds of worker open pages of one browser page pool.  A graceful   *)
(* stop (request_cancellation) may arrive at any moment.                   *)
(*                                                                         *)
(* One action is the code a coroutine runs between two awaits that can     *)
(* suspend it; the event loop runs such a stretch without interruption.    *)
(***************************************************************************)
EXTENDS Naturals, Sequences, FiniteSets, SequencesExt

CONSTANTS
    EnrichWorkers,          \* the tasks running enrichment_worker()
    SocialWorkers,          \* the tasks running social_worker()
    Pages,                  \* the entries of the BrowserContextPool
    NoPage,                 \* a worker that holds no page
    MaxLeads                \* bound on the leads discovery hands over

ASSUME WorkersAssumption ==
    /\ IsFiniteSet(EnrichWorkers) /\ EnrichWorkers # {}
    /\ IsFiniteSet(SocialWorkers) /\ SocialWorkers # {}
    /\ EnrichWorkers \cap SocialWorkers = {}

ASSUME PagesAssumption == Pages # {} /\ NoPage \notin Pages

ASSUME LeadsAssumption == MaxLeads \in Nat

Workers == EnrichWorkers \cup SocialWorkers
Leads   == 1..MaxLeads
NoLead  == 0

\* The marker that tells one worker to stop; every other item is a lead.
QueueDone == 0

EnrichCap == 2 * Cardinality(EnrichWorkers)
SocialCap == 2 * Cardinality(SocialWorkers)

(* lead.website: None, an empty text, a web site, or a social profile that *)
(* the business lists as its site.  The best link found so far: none, one  *)
(* that URL selection is going to reject, one it is going to keep.         *)
Websites == {"none", "blank", "site", "profile"}
Links    == {"none", "rejected", "usable"}
Controls == {"get", "acquire", "browse", "put", "search", "exited"}
Stages   == {"enriching", "closing", "joining", "finished"}
Counters == {"enrichment_completed", "enrichment_failed", "social_completed",
             "social_failed", "selection_before", "selection_after"}

VARIABLES
    batch,          \* context.leads is the sequence 1..batch
    needed,         \* enrichment_needed_ids
    website,        \* [Leads -> Websites]
    links,          \* [Leads -> Links]
    fed,            \* how many items feed_enrichment() has put
    toEnrich,       \* the queue of leads to enrich
    toSocial,       \* the queue of leads to discover
    pc,             \* where each worker is suspended
    lead,           \* the lead each worker is busy with
    page,           \* the page each worker holds
    free,           \* the pages waiting in the pool
    processed,      \* history: the leads that came out at the end
    counts,         \* the counters of the run
    main,           \* where the stage's own coroutine is suspended
    markers,        \* how many markers it has put into toSocial
    cancelled       \* _cancel_event

leadVars   == <<website, links, processed, counts>>
queueVars  == <<fed, toEnrich, toSocial>>
workerVars == <<pc, lead, page, free>>
mainVars   == <<main, markers>>
fixedVars  == <<batch, needed>>
vars == <<leadVars, queueVars, workerVars, mainVars, fixedVars, cancelled>>

TypeOK ==
    /\ batch \in 0..MaxLeads
    /\ needed \subseteq Leads
    /\ website \in [Leads -> Websites]
    /\ links \in [Leads -> Links]
    /\ fed \in Nat
    /\ toEnrich \in Seq(Leads \cup {QueueDone})
    /\ toSocial \in Seq(Leads \cup {QueueDone})
    /\ pc \in [Workers -> Controls]
    /\ lead \in [Workers -> Leads \cup {NoLead}]
    /\ page \in [Workers -> Pages \cup {NoPage}]
    /\ free \subseteq Pages
    /\ processed \subseteq Leads
    /\ counts \in [Counters -> Nat]
    /\ main \in Stages
    /\ markers \in Nat
    /\ cancelled \in BOOLEAN
-----------------------------------------------------------------------------
Missing(sites) == {l \in Leads : sites[l] \in {"none", "blank"}}

Init ==
    /\ batch \in 0..MaxLeads
    /\ website \in [Leads -> Websites]
    /\ \A l \in Leads : l > batch => website[l] = "site"
    /\ needed = Missing(website)
    /\ links = [l \in Leads |-> "none"]
    /\ fed = 0
    /\ toEnrich = << >>
    /\ toSocial = << >>
    /\ pc = [w \in Workers |-> "get"]
    /\ lead = [w \in Workers |-> NoLead]
    /\ page = [w \in Workers |-> NoPage]
    /\ free = Pages
    /\ processed = {}
    /\ counts = [c \in Counters |-> 0]
    /\ main = "enriching"
    /\ markers = 0
    /\ cancelled = FALSE

Bump(cs, c) == [cs EXCEPT ![c] = @ + 1]

\* Where a worker is suspended next, and with which lead.
Goto(w, l, to) ==
    /\ pc' = [pc EXCEPT ![w] = to]
    /\ lead' = [lead EXCEPT ![w] = l]

-----------------------------------------------------------------------------
(* What the code would be with one plausible mistake in it: no action uses *)
(* these; each stands in for a definition below to show that a property    *)
(* notices.                                                                *)

\* A page is handed out without being taken out of the pool.
TakeShared(w) ==
    \E p \in Pages :
        /\ free' = free
        /\ page' = [page EXCEPT ![w] = p]

\* The last lead is not fed.
FeedItemShort(n) == IF n < batch THEN n ELSE QueueDone

\* The stop is not looked at before a lookup.
WantsRegardless(l) == l \in needed

\* A lookup that found nothing is tried again for ever.
EnrichUntilFound(w) ==
    /\ w \in EnrichWorkers /\ pc[w] = "browse"
    /\ free' = free \cup {page[w]}
    /\ page' = [page EXCEPT ![w] = NoPage]
    /\ \/ /\ Goto(w, lead[w], "acquire")
          /\ UNCHANGED <<website, counts>>
       \/ /\ website' = [website EXCEPT ![lead[w]] = "site"]
          /\ counts' = Bump(counts, "enrichment_completed")
          /\ Goto(w, lead[w], "put")
    /\ UNCHANGED <<queueVars, links, processed, mainVars, fixedVars, cancelled>>

\* A worker drops its lead once the run is stopped.
ForwardUnlessStopped(w) ==
    /\ pc[w] = "put"
    /\ Len(toSocial) < SocialCap
    /\ toSocial' = IF cancelled THEN toSocial ELSE Append(toSocial, lead[w])
    /\ Goto(w, NoLead, "get")
    /\ UNCHANGED <<fed, toEnrich, page, free, leadVars, mainVars, fixedVars, cancelled>>

\* The lead is handed on before its lookup is over.
ForwardEarly(w) ==
    /\ pc[w] \in {"acquire", "put"}
    /\ Len(toSocial) < SocialCap
    /\ toSocial' = Append(toSocial, lead[w])
    /\ IF pc[w] = "put" THEN Goto(w, NoLead, "get") ELSE UNCHANGED <<pc, lead>>
    /\ UNCHANGED <<fed, toEnrich, page, free, leadVars, mainVars, fixedVars, cancelled>>

\* Only links that selection keeps are counted.
TallyUsable(found) == IF found = "usable" THEN "social_completed" ELSE "social_failed"

\* The stop is not looked at before discovery.
NeverSkips(l) == FALSE

\* The markers follow the feeder, not the enrichment workers.
JoinedFeederOnly ==
    /\ main = "enriching"
    /\ fed = batch + Cardinality(EnrichWorkers)
    /\ main' = "closing"
    /\ UNCHANGED <<markers, leadVars, queueVars, workerVars, fixedVars, cancelled>>

-----------------------------------------------------------------------------
\* BrowserContextPool.acquire() takes an entry out of the pool and, on every
\* way out of the context manager, puts the same entry back.
TakePage(w) ==
    \E p \in free :
        /\ free' = free \ {p}
        /\ page' = [page EXCEPT ![w] = p]

ReleasePage(w) ==
    /\ free' = free \cup {page[w]}
    /\ page' = [page EXCEPT ![w] = NoPage]

-----------------------------------------------------------------------------
(* feed_enrichment(): every lead in order, then one marker per worker.     *)
FeedLength == batch + Cardinality(EnrichWorkers)
FeedItem(n) == IF n <= batch THEN n ELSE QueueDone

Feed ==
    /\ fed < FeedLength
    /\ Len(toEnrich) < EnrichCap
    /\ toEnrich' = Append(toEnrich, FeedItem(fed + 1))
    /\ fed' = fed + 1
    /\ UNCHANGED <<toSocial, leadVars, workerVars, mainVars, fixedVars, cancelled>>

-----------------------------------------------------------------------------
(* enrichment_worker()                                                     *)

WantsEnrichment(l) == l \in needed /\ ~cancelled

\* A lead that needs no lookup, or comes after the stop, goes straight on.
EnrichTake(w) ==
    /\ pc[w] = "get" /\ toEnrich # << >> /\ Head(toEnrich) # QueueDone
    /\ toEnrich' = Tail(toEnrich)
    /\ Goto(w, Head(toEnrich), IF WantsEnrichment(Head(toEnrich)) THEN "acquire" ELSE "put")
    /\ UNCHANGED <<fed, toSocial, page, free, leadVars, mainVars, fixedVars, cancelled>>

EnrichQuit(w) ==
    /\ pc[w] = "get" /\ toEnrich # << >> /\ Head(toEnrich) = QueueDone
    /\ toEnrich' = Tail(toEnrich)
    /\ Goto(w, NoLead, "exited")
    /\ UNCHANGED <<fed, toSocial, page, free, leadVars, mainVars, fixedVars, cancelled>>

\* Both kinds of worker wait here until the pool has a page for them.
AcquirePage(w) ==
    /\ pc[w] = "acquire"
    /\ TakePage(w)
    /\ Goto(w, lead[w], "browse")
    /\ UNCHANGED <<queueVars, leadVars, mainVars, fixedVars, cancelled>>

EnrichTally(site) ==
    IF site # "none" THEN "enrichment_completed" ELSE "enrichment_failed"

\* enrich_one() returns the validated site or None, or raises and leaves the
\* website as it was; either way the page goes back and the lead is counted.
EnrichFinish(w) ==
    /\ w \in EnrichWorkers /\ pc[w] = "browse"
    /\ \E site \in {"none", "site", "profile", website[lead[w]]} :
        /\ website' = [website EXCEPT ![lead[w]] = site]
        /\ counts' = Bump(counts, EnrichTally(site))
    /\ ReleasePage(w)
    /\ Goto(w, lead[w], "put")
    /\ UNCHANGED <<queueVars, links, processed, mainVars, fixedVars, cancelled>>

Forward(w) ==
    /\ pc[w] = "put"
    /\ Len(toSocial) < SocialCap
    /\ toSocial' = Append(toSocial, lead[w])
    /\ Goto(w, NoLead, "get")
    /\ UNCHANGED <<fed, toEnrich, page, free, leadVars, mainVars, fixedVars, cancelled>>

-----------------------------------------------------------------------------
(* social_worker(), with discover_social_links_one() and SelectionEngine   *)

SocialTally(found) == IF found # "none" THEN "social_completed" ELSE "social_failed"

\* SelectionEngine.select keeps what normalizes to a valid URL.
Selected(found) == IF found = "usable" THEN "usable" ELSE "none"

SelectionTally(cs, found) ==
    LET before == IF found = "none" THEN cs ELSE Bump(cs, "selection_before")
    IN  IF Selected(found) = "none" THEN before ELSE Bump(before, "selection_after")

\* Everything from the end of discovery to the next get(), without an await.
Deliver(w, l, found) ==
    /\ counts' = SelectionTally(Bump(counts, SocialTally(found)), found)
    /\ links' = [links EXCEPT ![l] = Selected(found)]
    /\ processed' = processed \cup {l}
    /\ Goto(w, NoLead, "get")

\* A lead that still waits for an answer keeps what was found so far.
Continue(w, l, found, to) ==
    /\ links' = [links EXCEPT ![l] = found]
    /\ Goto(w, l, to)
    /\ UNCHANGED <<counts, processed>>

SkipsDiscovery(l) == cancelled

\* A listed profile is taken as a link (if it can be normalized) and a site
\* is fetched; where neither applies the search fallback is asked at once.
SocialTake(w) ==
    /\ pc[w] = "get" /\ toSocial # << >> /\ Head(toSocial) # QueueDone
    /\ toSocial' = Tail(toSocial)
    /\ LET l == Head(toSocial) IN
        \/ SkipsDiscovery(l) /\ Deliver(w, l, links[l])
        \/ /\ ~SkipsDiscovery(l) /\ website[l] = "site"
           /\ Continue(w, l, links[l], "acquire")
        \/ /\ ~SkipsDiscovery(l) /\ website[l] = "profile"
           /\ \E found \in Links : Continue(w, l, found, "search")
        \/ /\ ~SkipsDiscovery(l) /\ website[l] \in {"none", "blank"}
           /\ Continue(w, l, links[l], "search")
    /\ UNCHANGED <<website, fed, toEnrich, page, free, mainVars, fixedVars, cancelled>>

\* What can be known after one more lookup: it never takes a link away.
Better(found) == CASE found = "none"     -> Links
                   [] found = "rejected" -> {"rejected", "usable"}
                   [] found = "usable"   -> {"usable"}

\* The fetcher swallows every error, the extractor may raise: the worker then
\* goes on with what it has.  The fallback is asked unless both links are there.
SocialFetched(w) ==
    /\ w \in SocialWorkers /\ pc[w] = "browse"
    /\ ReleasePage(w)
    /\ \/ Deliver(w, lead[w], links[lead[w]])
       \/ \E found \in Links :
            \/ Continue(w, lead[w], found, "search")
            \/ found # "none" /\ Deliver(w, lead[w], found)
    /\ UNCHANGED <<website, queueVars, mainVars, fixedVars, cancelled>>

SocialSearched(w) ==
    /\ pc[w] = "search"
    /\ \E found \in Better(links[lead[w]]) : Deliver(w, lead[w], found)
    /\ UNCHANGED <<website, queueVars, page, free, mainVars, fixedVars, cancelled>>

SocialQuit(w) ==
    /\ pc[w] = "get" /\ toSocial # << >> /\ Head(toSocial) = QueueDone
    /\ toSocial' = Tail(toSocial)
    /\ Goto(w, NoLead, "exited")
    /\ UNCHANGED <<fed, toEnrich, page, free, leadVars, mainVars, fixedVars, cancelled>>

-----------------------------------------------------------------------------
(* The stage's own coroutine                                               *)

FeederDone == fed = FeedLength
AllExited(ws) == \A w \in ws : pc[w] = "exited"

\* await asyncio.gather(feeder_task, *enrichment_tasks)
EnrichmentJoined ==
    /\ main = "enriching"
    /\ FeederDone /\ AllExited(EnrichWorkers)
    /\ main' = "closing"
    /\ UNCHANGED <<markers, leadVars, queueVars, workerVars, fixedVars, cancelled>>

PutMarker ==
    /\ main = "closing"
    /\ Len(toSocial) < SocialCap
    /\ toSocial' = Append(toSocial, QueueDone)
    /\ markers' = markers + 1
    /\ main' = IF markers' = Cardinality(SocialWorkers) THEN "joining" ELSE "closing"
    /\ UNCHANGED <<fed, toEnrich, leadVars, workerVars, fixedVars, cancelled>>

\* await asyncio.gather(*social_tasks)
SocialJoined ==
    /\ main = "joining"
    /\ AllExited(SocialWorkers)
    /\ main' = "finished"
    /\ UNCHANGED <<markers, leadVars, queueVars, workerVars, fixedVars, cancelled>>

RequestCancellation ==
    /\ ~cancelled
    /\ cancelled' = TRUE
    /\ UNCHANGED <<leadVars, queueVars, workerVars, mainVars, fixedVars>>

\* The stage has returned: nothing is left to do, which is no deadlock.
Returned == main = "finished" /\ UNCHANGED vars

EnrichStep(w) ==
    EnrichTake(w) \/ EnrichQuit(w) \/ AcquirePage(w) \/ EnrichFinish(w) \/ Forward(w)

SocialStep(w) ==
    SocialTake(w) \/ SocialQuit(w) \/ AcquirePage(w) \/ SocialFetched(w) \/ SocialSearched(w)

MainStep == EnrichmentJoined \/ PutMarker \/ SocialJoined

Next ==
    \/ Feed
    \/ \E w \in EnrichWorkers : EnrichStep(w)
    \/ \E w \in SocialWorkers : SocialStep(w)
    \/ MainStep
    \/ RequestCancellation
    \/ Returned

Spec == Init /\ [][Next]_vars

(* The event loop resumes every coroutine whose await is ready, and every  *)
(* page visit and search ends: they run under a timeout.  Nobody has to    *)
(* ask for a stop.                                                         *)
Fairness ==
    /\ WF_vars(Feed)
    /\ \A w \in EnrichWorkers : WF_vars(EnrichStep(w))
    /\ \A w \in SocialWorkers : WF_vars(SocialStep(w))
    /\ WF_vars(MainStep)

FairSpec == Spec /\ Fairness
-----------------------------------------------------------------------------
Unfed    == {l \in 1..batch : l > fed}
Held(ws) == {lead[w] : w \in ws}

\* Where the leads are, in the order they move on (markers included).
Where == <<Unfed, ToSet(toEnrich), Held(EnrichWorkers),
           ToSet(toSocial), Held(SocialWorkers), processed>>

NoRepeats(q) ==
    \A i, j \in 1..Len(q) : q[i] = q[j] /\ q[i] # QueueDone => i = j

(* Every lead of the batch is at exactly one place at any time: no worker  *)
(* loses one, and no two workers ever look after the same one (the comment *)
(* "so a lead is never dropped from the final result").                    *)
Conserved == 1..batch \subseteq UNION {Where[i] : i \in 1..6}

Exclusive ==
    /\ \A i, j \in 1..6 : i # j => Where[i] \cap Where[j] \subseteq {QueueDone}
    /\ NoRepeats(toEnrich) /\ NoRepeats(toSocial)
    /\ \A v, w \in Workers : lead[v] = lead[w] /\ lead[v] # NoLead => v = w

LeadInOnePlace == Conserved /\ Exclusive

(* When the stage returns, every lead of the batch went through social     *)
(* discovery and selection, stopped run or not.                            *)
NoLeadDropped == main = "finished" => processed = 1..batch

(* A worker that has taken its marker leaves no lead behind in its queue,  *)
(* although several producers fill toSocial and the markers come from a    *)
(* further one.                                                            *)
ExitOnlyWhenDrained ==
    /\ (\E w \in EnrichWorkers : pc[w] = "exited") => ToSet(toEnrich) \subseteq {QueueDone}
    /\ (\E w \in SocialWorkers : pc[w] = "exited") => ToSet(toSocial) \subseteq {QueueDone}

(* The pages are shared by two kinds of worker: each is free or with one   *)
(* worker, and only while that worker browses; a worker that waits for a   *)
(* queue never sits on a page.                                             *)
PageDiscipline ==
    /\ \A w \in Workers : (page[w] # NoPage) <=> (pc[w] = "browse")
    /\ \A p \in Pages : p \in free <=> \A w \in Workers : page[w] # p
    /\ \A v, w \in Workers : page[v] = page[w] /\ page[v] # NoPage => v = w

(* The numbers reported to the progress tracker are those of the leads     *)
(* that came through, at any moment and in a stopped run too.              *)
TalliesAgree ==
    /\ counts["social_completed"] + counts["social_failed"] = Cardinality(processed)
    /\ counts["selection_before"] = counts["social_completed"]
    /\ counts["selection_after"] = Cardinality({l \in processed : links[l] = "usable"})
    /\ counts["enrichment_completed"] + counts["enrichment_failed"] <= Cardinality(needed)
    /\ main = "finished" /\ ~cancelled =>
        counts["enrichment_completed"] + counts["enrichment_failed"] = Cardinality(needed)

Looking == {w \in Workers : pc[w] \in {"acquire", "browse", "search"}}

(* request_cancellation(): "stop starting new work, letting whatever is    *)
(* currently in flight finish naturally": after it no worker starts to     *)
(* look anything up, wherever its lead has got to.                         *)
NoNewWorkAfterCancel == [][cancelled => Looking' \subseteq Looking]_vars

\* How far a lead has come; a lead nobody has any more is lost.
PhaseOf(l) ==
    CASE \E w \in EnrichWorkers : lead[w] = l /\ pc[w] # "put" -> "enriching"
      [] \E w \in EnrichWorkers : lead[w] = l /\ pc[w] = "put" -> "enriched"
      [] \E w \in SocialWorkers : lead[w] = l                  -> "discovering"
      [] l \in processed                                       -> "delivered"
      [] l \in ToSet(toSocial)                               -> "enriched"
      [] l > fed \/ l \in ToSet(toEnrich)                    -> "waiting"
      [] OTHER                                                 -> "lost"

(* The coroutines share the lead objects without a lock: a website is only *)
(* written while an enrichment worker has the lead, so that discovery      *)
(* reads a settled one, and the links never after the lead is through.     *)
WritesInTurn ==
    [][\A l \in 1..batch :
        /\ website'[l] # website[l] => PhaseOf(l) = "enriching"
        /\ links'[l] # links[l] => PhaseOf(l) \in {"enriched", "discovering"}]_vars

(* The stage always returns: the bounded queues and the page pool, both    *)
(* smaller than what competes for them, never make everybody wait.         *)
Termination == <>(main = "finished")

Flow == INSTANCE LeadFlow WITH
    total   <- batch,
    phase   <- [l \in Leads |-> IF l <= batch THEN PhaseOf(l) ELSE "waiting"],
    stopped <- cancelled,
    done    <- (main = "finished")

(* The workers, queues and markers implement the life of a lead that       *)
(* LeadFlow describes, and carry every lead to its end.                    *)
FlowSpec == Flow!FlowSpec
=============================================================================

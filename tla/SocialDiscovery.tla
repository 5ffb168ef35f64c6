--------------------------- MODULE SocialDiscovery ---------------------------
(***************************************************************************)
(* discover_social_links_one() for one lead, and the URL selection that    *)
(* the social worker runs on its result: the listed website may be a       *)
(* profile itself, or a page with links on it; what is then missing is     *)
(* searched for, both platforms at once.  A URL is what becomes of it: a   *)
(* clean profile, an odd but valid URL, or a broken one.                   *)
(***************************************************************************)
EXTENDS Selection

CONSTANTS
    ResultLimit,        \* SOCIAL_SEARCH_RESULT_LIMIT
    MaxResults          \* bound on the length of a result page

ASSUME ResultsAssumption == ResultLimit \in Nat \ {0} /\ MaxResults \in Nat

Sites     == Platforms \cup {"none", "site"}
Shapes    == {"clean", "odd", "broken"}
Urls      == Shapes \cup {"none"}

\* What normalize_social_url() makes of the listed website; "none" if it raises.
Normalized == Urls

\* What the page's first link to each platform can be, after extraction,
\* normalization and removal of repeated links.
PageLinks == [Platforms -> Urls]

Controls  == {"taken", "fetching", "searching", "done", "cancelled"}
Searches  == {"idle", "asked", "answered", "raised", "cancelled"}

(* A result page lists, in DuckDuckGo's order: wrappers without a target,  *)
(* hrefs that urlparse cannot read, URLs that are none of the platform's   *)
(* or cannot be normalized, clean profiles that look like the business's   *)
(* own or like a stranger's, and other URLs of the platform.               *)
Anchors == {"empty", "garbled", "foreign", "own", "stranger", "odd", "broken"}
ResultPages == BoundedSeq(Anchors, MaxResults)

VARIABLES
    website,            \* lead.website
    link,               \* lead.social.instagram_url, .facebook_url
    tier,               \* lead.social.instagram_confidence, ...
    pc,                 \* where the lead's task is suspended
    search,             \* the tasks that run SocialSearchFallback.find()
    answer,             \* what they returned
    offered,            \* history: what the page they read listed
    metrics             \* SocialDiscoveryMetrics, of this lead

leadVars   == <<website, link, tier, pc>>
searchVars == <<search, answer, offered>>
vars == <<leadVars, searchVars, metrics>>

Counters == {"total_processed", "html_fetch_success", "website_success",
             "search_fallback_used"} \cup Platforms

NoAnswer == [url |-> "none", canonical |-> FALSE]
Answers  == [url : Urls, canonical : BOOLEAN]

TypeOK ==
    /\ website \in Sites
    /\ link \in [Platforms -> Urls]
    /\ tier \in [Platforms -> Tiers]
    /\ pc \in Controls
    /\ search \in [Platforms -> Searches]
    /\ answer \in [Platforms -> Answers]
    /\ offered \in [Platforms -> SUBSET Anchors]
    /\ metrics \in [Counters -> 0..1]

Init ==
    /\ website \in Sites
    /\ link = [p \in Platforms |-> "none"]
    /\ tier = [p \in Platforms |-> "none"]
    /\ pc = "taken"
    /\ search = [p \in Platforms |-> "idle"]
    /\ answer = [p \in Platforms |-> NoAnswer]
    /\ offered = [p \in Platforms |-> {}]
    /\ metrics = [c \in Counters |-> 0]

Record(cs) == [c \in Counters |-> metrics[c] + (IF c \in cs THEN 1 ELSE 0)]

-----------------------------------------------------------------------------
(* What the code would be with one plausible mistake in it: no action uses *)
(* these; each stands in for a definition below to show that a property    *)
(* notices.                                                                *)

\* needs_instagram and needs_facebook stay set after the website gave a link.
NeedsBoth(ls) == Platforms

\* The first answer is enough.
OneAnswered == \E p \in Platforms : search[p] = "answered"

\* The searches are tasks of their own instead of children of a gather().
CancelLeadOnly ==
    /\ pc \in {"fetching", "searching"}
    /\ pc' = "cancelled"
    /\ UNCHANGED <<website, link, tier, searchVars, metrics>>

\* Selection does not look at what is left after normalization.
FinishUnchecked(ls, ts) == link' = ls /\ tier' = ts /\ pc' = "done"

-----------------------------------------------------------------------------
(* DuckDuckGoSearchProvider.discover() and SocialSearchFallback.find().  A *)
(* request that fails is an empty page.                                    *)

\* The places of the first ResultLimit hrefs that have a target.
Targets(results) ==
    LET filled == {i \in 1..Len(results) : results[i] # "empty"}
    IN  {i \in filled : Cardinality({j \in filled : j <= i}) <= ResultLimit}

\* The parser gives up the whole page at an href it cannot read.
Raises(results) == \E i \in Targets(results) : results[i] = "garbled"

ShapeOf(a) == IF a \in {"own", "stranger"} THEN "clean" ELSE a

\* The places of the platform's own URLs, and the first of them.
PlatformUrls(results) == {i \in Targets(results) : results[i] # "foreign"}

FirstUrl(results) ==
    results[CHOOSE i \in PlatformUrls(results) : \A j \in PlatformUrls(results) : i <= j]

\* A mistake for Find: one pass over the results instead of two.
FindFirst(results) ==
    IF PlatformUrls(results) = {} THEN NoAnswer
    ELSE [url |-> ShapeOf(FirstUrl(results)), canonical |-> FirstUrl(results) = "own"]

Find(results) ==
    LET own == \E i \in PlatformUrls(results) : results[i] = "own"
    IN  CASE own -> [url |-> "clean", canonical |-> TRUE]
          [] ~own /\ PlatformUrls(results) # {} ->
                [url |-> ShapeOf(FirstUrl(results)), canonical |-> FALSE]
          [] OTHER -> NoAnswer

Search(p) ==
    /\ search[p] = "asked"
    /\ \E results \in ResultPages :
        IF Raises(results)
        THEN /\ search' = [search EXCEPT ![p] = "raised"]
             /\ UNCHANGED <<answer, offered>>
        ELSE /\ search' = [search EXCEPT ![p] = "answered"]
             /\ answer' = [answer EXCEPT ![p] = Find(results)]
             /\ offered' = [offered EXCEPT ![p] = {results[i] : i \in Targets(results)}]
    /\ UNCHANGED <<leadVars, metrics>>

-----------------------------------------------------------------------------
(* _candidates_from_lead() and SelectionEngine.select(), as soon as         *)
(* discovery has returned or raised: a link that is no valid URL is        *)
(* dropped, with its tier.                                                 *)
parse_confidence(t) == IF t = "none" THEN "low" ELSE t

make_candidate(p, u, t) ==
    [platform |-> p, source |-> "social_discovery", confidence |-> parse_confidence(t),
     normalized_url |-> IF u = "broken" THEN "none" ELSE u,
     merits |-> IF u = "clean" THEN Merits ELSE {}]

CandidatesOf(ls, ts) ==
    LET of(p) == IF ls[p] = "none" THEN << >> ELSE <<make_candidate(p, ls[p], ts[p])>>
    IN  of("instagram") \o of("facebook")

Finish(ls, ts) ==
    /\ link' = select(CandidatesOf(ls, ts))
    /\ tier' = [p \in Platforms |-> IF link'[p] = "none" THEN "none" ELSE ts[p]]
    /\ pc' = "done"

Missing(ls) == {p \in Platforms : ls[p] = "none"}

\* finish_one(): the links are counted as discovery found them.
Processed(ls) == {"total_processed"} \cup (Platforms \ Missing(ls))

\* record_website_success(), for a listed profile or a link on the page.
FromWebsite(ls) == IF Missing(ls) = Platforms THEN {} ELSE {"website_success"}

\* With what the website gave, on to the searches for what it did not.
GoOn(ls, ts, fetched) ==
    \/ /\ Missing(ls) = {}
       /\ Finish(ls, ts)
       /\ metrics' = Record(fetched \cup FromWebsite(ls) \cup Processed(ls))
       /\ UNCHANGED <<website, searchVars>>
    \/ /\ Missing(ls) # {}
       /\ link' = ls /\ tier' = ts /\ pc' = "searching"
       /\ search' = [p \in Platforms |-> IF p \in Missing(ls) THEN "asked" ELSE "idle"]
       /\ metrics' = Record(fetched \cup FromWebsite(ls))
       /\ UNCHANGED <<website, answer, offered>>

\* A listed profile is never fetched, even if it cannot be normalized.
TakeListed ==
    /\ website \in Platforms
    /\ \E u \in Normalized :
        GoOn([link EXCEPT ![website] = u],
             [tier EXCEPT ![website] = IF u = "none" THEN "none" ELSE "high"], {})

TakeSite ==
    /\ website = "site"
    /\ pc' = "fetching"
    /\ UNCHANGED <<website, link, tier, searchVars, metrics>>

TakeNone == website = "none" /\ GoOn(link, tier, {})

Take == pc = "taken" /\ (TakeListed \/ TakeSite \/ TakeNone)

SiteTier(u) == CASE u = "none"  -> "none"
                 [] u = "clean" -> "high"
                 [] OTHER       -> "medium"

\* The fetcher returns a page or None; the extractor takes the first link
\* to each platform, or raises on a page it cannot read.
Fetched ==
    /\ pc = "fetching"
    /\ \/ /\ Finish(link, tier)
          /\ metrics' = Record({"html_fetch_success"})
          /\ UNCHANGED <<website, searchVars>>
       \/ GoOn(link, tier, {})
       \/ \E seen \in PageLinks :
            GoOn([p \in Platforms |-> IF link[p] = "none" THEN seen[p] ELSE link[p]],
                 [p \in Platforms |-> IF link[p] = "none" THEN SiteTier(seen[p]) ELSE tier[p]],
                 {"html_fetch_success"})

Found(p) == search[p] = "answered" /\ answer[p].url # "none"

AllAnswered == \A p \in Platforms : search[p] \in {"idle", "answered"}

\* The links with those that were searched for.
Answered == [p \in Platforms |-> IF Found(p) THEN answer[p].url ELSE link[p]]

Gathered ==
    /\ pc = "searching"
    /\ AllAnswered
    /\ Finish(Answered,
              [p \in Platforms |-> IF Found(p)
                                   THEN IF answer[p].canonical THEN "medium" ELSE "low"
                                   ELSE tier[p]])
    /\ metrics' = Record(Processed(Answered) \cup
                         (IF \E p \in Platforms : Found(p) THEN {"search_fallback_used"} ELSE {}))
    /\ UNCHANGED <<website, searchVars>>

\* A mistake for GatherFails: finish_one() runs although the search raised.
GatherFailsCounted ==
    /\ pc = "searching"
    /\ \E p \in Platforms : search[p] = "raised"
    /\ Finish(link, tier)
    /\ metrics' = Record(Processed(link))
    /\ UNCHANGED <<website, searchVars>>

\* asyncio.gather() raises with the first search that does: the worker goes
\* on with what it has, the other search runs on.
GatherFails ==
    /\ pc = "searching"
    /\ \E p \in Platforms : search[p] = "raised"
    /\ Finish(link, tier)
    /\ UNCHANGED <<website, searchVars, metrics>>

\* A cancelled gather() cancels its searches, unless one has raised: then it is
\* over as soon as it learns of that, and what cancels the lead reaches none.
Cancel ==
    /\ pc \in {"fetching", "searching"}
    /\ pc' = "cancelled"
    /\ \/ search' = [p \in Platforms |-> IF search[p] = "asked" THEN "cancelled" ELSE search[p]]
       \/ (\E p \in Platforms : search[p] = "raised") /\ search' = search
    /\ UNCHANGED <<website, link, tier, answer, offered, metrics>>

\* The lead is through and no search is left: no deadlock.
Over ==
    /\ pc \in {"done", "cancelled"} /\ \A p \in Platforms : search[p] # "asked"
    /\ UNCHANGED vars

LeadStep == Take \/ Fetched \/ Gathered \/ GatherFails

Next ==
    \/ LeadStep
    \/ \E p \in Platforms : Search(p)
    \/ Cancel
    \/ Over

Spec == Init /\ [][Next]_vars

\* Fetches and searches run under timeouts.
FairSpec == Spec /\ WF_vars(LeadStep) /\ \A p \in Platforms : WF_vars(Search(p))
-----------------------------------------------------------------------------
Valid(u) == u \in {"clean", "odd"}

(* The tier that goes with a link is that of the place it came from,       *)
(* wherever the lead stands: high for a listed profile or a clean one on   *)
(* the site, medium for an odd link on the site (not "HIGH: found directly *)
(* on the business's own official website", confidence.py line 3), medium  *)
(* for a search exactly if the page held a profile that looks like the     *)
(* business's own, low for anything else.  No link, no tier.               *)
TierTellsSource ==
    \A p \in Platforms :
        /\ link[p] = "none" <=> tier[p] = "none"
        /\ link[p] # "none" =>
            tier[p] = CASE Found(p) -> IF "own" \in offered[p] THEN "medium" ELSE "low"
                        [] ~Found(p) /\ website = p -> "high"
                        [] OTHER -> SiteTier(link[p])

(* A link is never replaced by another one, whichever search answers when: *)
(* it stays or, if selection finds no valid URL in it, goes.               *)
FoundStays ==
    [][\A p \in Platforms :
        link[p] # "none" => link'[p] = link[p] \/ (link[p] = "broken" /\ link'[p] = "none")]_vars

(* A lead that is through has the link that either search found, unless    *)
(* one of them raised: then the other's answer is lost, although they are  *)
(* "independent queries" (batch.py lines 8-11).                            *)
AnswersCount ==
    pc = "done" /\ (\A p \in Platforms : search[p] # "raised") =>
        \A p \in Platforms : search[p] # "idle" =>
            /\ search[p] = "answered"
            /\ Valid(link[p]) <=> Valid(answer[p].url)

(* Searches run for what the website did not give, and one outlives its    *)
(* lead, whether that went on or was cancelled, only where the other one   *)
(* raised: gather() ends with the first exception and cancels nothing, so  *)
(* that cancelling the lead no longer reaches the search that is left.     *)
SearchesBelong ==
    /\ pc = "searching" => \A p \in Platforms : search[p] = "idle" <=> link[p] # "none"
    /\ (pc \in {"done", "cancelled"} /\ \E p \in Platforms : search[p] = "asked") =>
        \E p \in Platforms : search[p] = "raised"

(* The metrics are about the leads whose discovery returned: a search that *)
(* raises, a page that cannot be read or a cancellation takes a lead out   *)
(* of the processed ones, though not out of those with a page fetched or a *)
(* link on the website.  What is counted as found is what the lead has in  *)
(* the end or what selection dropped, and it came from somewhere.          *)
MetricsTell ==
    LET counted(c) == metrics[c] = 1
        crashed == \/ \E p \in Platforms : search[p] = "raised"
                   \/ /\ website = "site" /\ ~counted("website_success")
                      /\ \A p \in Platforms : search[p] = "idle"
    IN  /\ counted("total_processed") <=> pc = "done" /\ ~crashed
        /\ counted("search_fallback_used") =>
            counted("total_processed") /\ \E p \in Platforms : Found(p)
        /\ \A p \in Platforms :
            /\ counted(p) => counted("website_success") \/ counted("search_fallback_used")
            /\ counted("total_processed") /\ link[p] # "none" => counted(p)
            /\ Found(p) /\ pc = "done" /\ ~crashed => counted(p)
            /\ counted(p) => counted("total_processed")

\* What select() makes of any candidates has nothing to do with the lead: it
\* is looked at in one state only.
AtTheStart == pc = "taken" /\ website = "none"

(* The URL that is selected is the best one of any list of candidates, and *)
(* every one is accounted for in the metrics, as EveryChoiceBest and       *)
(* EveryRecordSums say.                                                    *)
SelectsBest == AtTheStart => EveryChoiceBest /\ EveryRecordSums

LinkStage == IF pc = "done" THEN "delivered" ELSE pc

BestOf(ls) ==
    LET usable == \E p \in Platforms : Valid(ls[p])
    IN  CASE usable -> "usable"
          [] ~usable /\ (\E p \in Platforms : ls[p] = "broken") -> "rejected"
          [] OTHER -> "none"

OneLink == INSTANCE LinkDiscovery WITH stage <- LinkStage, best <- BestOf(link)

(* The two platforms of a lead, with their concurrent searches, add up to  *)
(* the one link LeadStream knows, and discovery always ends.               *)
OneLinkSpec == OneLink!LinkSpec
=============================================================================

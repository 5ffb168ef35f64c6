---------------------------- MODULE MapsDiscovery ----------------------------
(***************************************************************************)
(* run_discovery(): search Google Maps, scroll the feed of results until   *)
(* enough cards are there or no more come, read the cards, drop what       *)
(* cannot be read, keep at most the limit, drop duplicates.  The page goes *)
(* on loading cards at any moment, between any two looks at it.            *)
(*                                                                         *)
(* Time is counted in polls: SCROLL_POLL_INTERVAL_SECONDS each.            *)
(***************************************************************************)
EXTENDS Naturals, Sequences, FiniteSets, SequencesExt

CONSTANTS
    Places,             \* what a card can lead to
    BadCard,            \* a card without link or name, or one that fails
    MaxCards,           \* bound on the results of a search
    MaxLimit,           \* bound on SearchRequest.limit
    MaxStall,           \* SCROLL_MAX_ATTEMPTS_WITHOUT_PROGRESS
    MaxTotal,           \* SCROLL_MAX_TOTAL_ATTEMPTS
    BaseWindow          \* polls in SCROLL_PAUSE_SECONDS

ASSUME DiscoveryAssumption ==
    /\ BadCard \notin Places
    /\ MaxCards \in Nat
    /\ {MaxLimit, MaxStall, MaxTotal, BaseWindow} \subseteq Nat \ {0}

Cards    == Places \cup {BadCard}
Feeds    == BoundedSeq(Cards, MaxCards)
Stages   == {"search", "count", "ask", "scroll", "wait", "collect", "returned", "failed"}
Verdicts == {"open", "limit", "end", "neither"}

VARIABLES
    limit,              \* the limit of the request
    feed,               \* all the cards the search has to offer
    shown,              \* how many of them the page has loaded
    marker,             \* the page says that this was the end of the list
    stage,              \* what run_discovery() waits for
    attempts,           \* total_attempts
    stall,              \* stall_count
    previous,           \* previous_count
    polls,              \* polls made in the window of this scroll
    verdict,            \* ScrollResult: reached_limit, reached_end_of_list
    leads,              \* context.leads
    duplicates,         \* context.duplicate_count
    quiet               \* history: polls since a card was last loaded

pageVars   == <<limit, feed, shown, marker>>
scrollVars == <<attempts, stall, previous, polls, verdict>>
leadVars   == <<leads, duplicates>>
vars == <<pageVars, stage, scrollVars, leadVars, quiet>>

\* The pause grows by half with every scroll that brought nothing, up to
\* four times the base: in eighths of the base, after k such scrolls.
Pause(k) == CASE k = 0 -> 8 [] k = 1 -> 12 [] k = 2 -> 18 [] k = 3 -> 27 [] OTHER -> 32

\* So many polls fit into it.
Window(k) == (BaseWindow * Pause(k) + 7) \div 8

\* So many fit into the first k windows of a stall, and into all those of
\* a stall that lasts until the end is concluded.
Windows[k \in 0..MaxStall] == IF k = 0 THEN 0 ELSE Windows[k - 1] + Window(k - 1)

Patience == Windows[MaxStall]

TypeOK ==
    /\ limit \in 1..MaxLimit
    /\ feed \in Feeds
    /\ shown \in 0..Len(feed)
    /\ marker \in BOOLEAN
    /\ stage \in Stages
    /\ attempts \in 0..MaxTotal
    /\ stall \in 0..MaxStall
    /\ previous \in 0..Len(feed)
    /\ polls \in 0..(4 * BaseWindow)
    /\ verdict \in Verdicts
    /\ leads \in Seq(Places)
    /\ duplicates \in 0..MaxLimit
    /\ quiet \in 0..Patience

Init ==
    /\ limit \in 1..MaxLimit
    /\ feed \in Feeds
    /\ shown = 0
    /\ marker = FALSE
    /\ stage = "search"
    /\ attempts = 0 /\ stall = 0 /\ previous = 0 /\ polls = 0
    /\ verdict = "open"
    /\ leads = << >> /\ duplicates = 0
    /\ quiet = 0

-----------------------------------------------------------------------------
(* What the code would be with one plausible mistake in it: no action uses *)
(* these; each stands in for a definition below to show that a property    *)
(* notices.                                                                *)

\* The end marker is looked for before the cards are counted against the limit.
DecideMarkerFirst(count, tries) ==
    IF tries >= MaxTotal THEN stage' = "collect" /\ verdict' = "neither"
    ELSE IF marker THEN stage' = "collect" /\ verdict' = "end"
    ELSE IF count >= limit THEN stage' = "collect" /\ verdict' = "limit"
    ELSE stage' = "ask" /\ verdict' = verdict

\* New cards do not end a stall.
ProgressKeepsStall ==
    /\ shown > previous
    /\ stall' = stall
    /\ IF attempts >= MaxTotal THEN stage' = "collect" /\ verdict' = "neither"
       ELSE IF shown >= limit THEN stage' = "collect" /\ verdict' = "limit"
       ELSE stage' = "ask" /\ verdict' = verdict

\* The window is never over.
PollUntilProgress ==
    /\ stage = "wait" /\ shown > previous
    /\ stall' = 0 /\ previous' = shown
    /\ IF attempts >= MaxTotal THEN stage' = "collect" /\ verdict' = "neither"
       ELSE IF shown >= limit THEN stage' = "collect" /\ verdict' = "limit"
       ELSE stage' = "ask" /\ verdict' = verdict
    /\ UNCHANGED <<pageVars, attempts, polls, leadVars, quiet>>

-----------------------------------------------------------------------------
(* The page                                                                *)

Load ==
    /\ stage # "search"
    /\ shown' \in (shown + 1)..Len(feed)
    /\ quiet' = 0
    /\ UNCHANGED <<limit, feed, marker, stage, scrollVars, leadVars>>

ShowMarker ==
    /\ stage # "search"
    /\ shown = Len(feed) /\ ~marker
    /\ marker' = TRUE
    /\ UNCHANGED <<limit, feed, shown, stage, scrollVars, leadVars, quiet>>

-----------------------------------------------------------------------------
(* MapsNavigator.search() and ScrollEngine.scroll_until()                  *)

SearchDone ==
    /\ stage = "search"
    /\ stage' = "count"
    /\ UNCHANGED <<pageVars, scrollVars, leadVars, quiet>>

Conclude(v) == stage' = "collect" /\ verdict' = v

\* The head of the loop, with a count that was just made.
Decide(count, tries) ==
    \/ tries >= MaxTotal /\ Conclude("neither")
    \/ tries < MaxTotal /\ count >= limit /\ Conclude("limit")
    \/ /\ tries < MaxTotal /\ count < limit
       /\ stage' = "ask" /\ verdict' = verdict

Count ==
    /\ stage = "count"
    /\ previous' = shown
    /\ Decide(shown, attempts)
    /\ UNCHANGED <<pageVars, attempts, stall, polls, leadVars, quiet>>

AskEnd ==
    /\ stage = "ask"
    /\ IF marker THEN Conclude("end") ELSE stage' = "scroll" /\ verdict' = verdict
    /\ UNCHANGED <<pageVars, attempts, stall, previous, polls, leadVars, quiet>>

Scroll ==
    /\ stage = "scroll"
    /\ attempts' = attempts + 1
    /\ polls' = 0
    /\ stage' = "wait"
    /\ UNCHANGED <<pageVars, stall, previous, verdict, leadVars, quiet>>

\* New cards end the window at once and the stall with it.
Progress ==
    /\ shown > previous
    /\ stall' = 0
    /\ Decide(shown, attempts)

\* The window is over without a new card.
Stalled ==
    /\ shown <= previous /\ polls + 1 >= Window(stall)
    /\ stall' = stall + 1
    /\ IF stall' >= MaxStall THEN Conclude("end") ELSE Decide(shown, attempts)

KeepWaiting ==
    /\ shown <= previous /\ polls + 1 < Window(stall)
    /\ UNCHANGED <<stage, stall, verdict>>

Poll ==
    /\ stage = "wait"
    /\ Progress \/ Stalled \/ KeepWaiting
    /\ previous' = IF stage' = "wait" THEN previous ELSE shown
    /\ polls' = polls + 1
    /\ quiet' = IF quiet < Patience THEN quiet + 1 ELSE quiet
    /\ UNCHANGED <<pageVars, attempts, leadVars>>

-----------------------------------------------------------------------------
(* CardExtractor.extract_all(), the limit, deduplicate_leads()             *)

\* The cards on the page that lead to a place.
Readable == {i \in 1..shown : feed[i] # BadCard}

\* A mistake for Collected: the limit was enforced by the scrolling already.
CollectAll == Readable

\* The first of them, up to the limit.
Collected == {i \in Readable : Cardinality({k \in Readable : k <= i}) <= limit}

\* Their places, each at the first of its cards.
Deduplicated(cards) ==
    LET unique[i \in 0..shown] ==
            IF i = 0 THEN << >>
            ELSE IF i \in cards /\ feed[i] \notin ToSet(unique[i - 1])
                 THEN Append(unique[i - 1], feed[i])
                 ELSE unique[i - 1]
    IN  unique[shown]

Collect ==
    /\ stage = "collect"
    /\ leads' = Deduplicated(Collected)
    /\ duplicates' = Cardinality(Collected) - Len(leads')
    /\ stage' = "returned"
    /\ UNCHANGED <<pageVars, scrollVars, quiet>>

\* Any look at the page may raise: the run goes on without leads.
Fail ==
    /\ stage \notin {"returned", "failed"}
    /\ stage' = "failed"
    /\ UNCHANGED <<pageVars, scrollVars, leadVars, quiet>>

Ended == stage \in {"returned", "failed"}

Over == Ended /\ UNCHANGED vars

Step == SearchDone \/ Count \/ AskEnd \/ Scroll \/ Poll \/ Collect

Next == Step \/ Fail \/ (~Ended /\ (Load \/ ShowMarker)) \/ Over

Spec == Init /\ [][Next]_vars

\* Navigation, looks at the page and sleeps end; the page owes us nothing.
FairSpec == Spec /\ WF_vars(Step)
-----------------------------------------------------------------------------
Seen == {feed[i] : i \in 1..shown}

\* The number of readable cards up to the i-th.
Rank(i) == Cardinality({k \in 1..i : feed[k] # BadCard})

FirstAt(p) == CHOOSE i \in 1..Len(feed) : feed[i] = p /\ \A k \in 1..(i - 1) : feed[k] # p

(* However many cards came in behind the last look at the page: the leads  *)
(* are the places among the first readable cards, up to the limit, each    *)
(* once and in the order of the feed, and every card that was left out is  *)
(* counted.                                                                *)
Harvest ==
    stage = "returned" =>
        /\ ToSet(leads) = {p \in Seen : p # BadCard /\ Rank(FirstAt(p)) <= limit}
        /\ \A i, j \in 1..Len(leads) : i < j => FirstAt(leads[i]) < FirstAt(leads[j])
        /\ Len(leads) + duplicates <= limit

(* The verdict tells what the counts say, although the page went on in     *)
(* between: a search with enough cards counted is never reported as        *)
(* exhausted, and one that is neither full nor exhausted has used up its   *)
(* scrolls.  The last of these may have brought enough cards all the same, *)
(* which is the one way not to report a limit that was reached.  A limit   *)
(* that was reached yields as many leads as were asked for, short of those *)
(* that were duplicates or could not be read: the scroll counts these too. *)
VerdictTells ==
    /\ verdict = "end" => previous < limit /\ (marker \/ stall = MaxStall)
    /\ verdict = "neither" => attempts = MaxTotal /\ stall < MaxStall
    /\ verdict = "limit" => previous >= limit /\ attempts < MaxTotal
    /\ stage = "returned" /\ verdict = "limit" =>
        Len(leads) + duplicates + Cardinality({i \in 1..shown : feed[i] = BadCard}) >= limit

(* "a single unproductive scroll is not itself a reliable end-of-list      *)
(* signal" (lines 5-8): without the marker, the end is concluded only when *)
(* no card came for all the growing windows of MaxStall scrolls in a row.  *)
GivesUpLate ==
    [][verdict = "open" /\ verdict' = "end" /\ ~marker => quiet' >= Patience]_vars

(* Discovery always ends, whatever the page does.                          *)
DiscoveryEnds == <>Ended
=============================================================================

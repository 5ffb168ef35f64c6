------------------------- MODULE BatchStages_proofs --------------------------
(***************************************************************************)
(* Theorems about BatchStages, for every number of leads, places, pages,   *)
(* workers and tries and every time to live of the cache.                  *)
(***************************************************************************)
EXTENDS BatchStages, FiniteSetTheorems, TLAPS

(* Types, without the bound that only the tallies give to the metrics, and *)
(* with what keeps the number of tries within its own.                     *)
Shapes ==
    /\ cached \in BOOLEAN
    /\ place \in [Leads -> Places]
    /\ needed \subseteq Leads
    /\ website \in [Leads -> Websites]
    /\ links \in [Leads -> Links]
    /\ stage \in Stages
    /\ pc \in [Leads -> Controls]
    /\ attempt \in [Leads -> 0..MaxAttempts]
    /\ store \in [Places -> Entries]
    /\ metrics \in [{"total", "missing"} -> Nat]
    /\ tally \in [Tallies -> [completed : Int, failed : Int]]
    /\ since \in [Places -> [Answers -> 0..LongAgo]]
    /\ \A l \in Leads : pc[l] = "backoff" => attempt[l] < MaxAttempts

(* What a task's place says of its lead: while the first stage runs, only  *)
(* leads without a website are looked up and the others are spared; a lead *)
(* that had no website at all never gets an empty text.                    *)
Sorted ==
    /\ stage = "enriching" => \A l \in Leads :
        /\ pc[l] \notin {"fetch", "search"}
        /\ pc[l] = "spared" => website[l] = "site"
        /\ pc[l] \in {"waiting", "acquire", "browse", "backoff"} => NeedsEnrichment(l)
    /\ \A l \in needed : website[l] # "blank" /\ (stage = "enriching" => pc[l] # "spared")

(* The reverse of CacheConfirmed: an answer that is not older than TTL is  *)
(* still on record, or a later one is.                                     *)
Remembered ==
    \A p \in Places, a \in Answers :
        cached /\ since[p][a] <= TTL =>
            store[p].value \in Answers /\ store[p].left >= TTL - since[p][a]

BatchInv == Shapes /\ Sorted /\ CacheConfirmed /\ Remembered

\* What an entry is, and what becomes of it when time passes.
Aged(e) == [e EXCEPT !.left = IF @ > -1 THEN @ - 1 ELSE -1]

LEMMA EntryShape ==
    ASSUME NEW e \in Entries
    PROVE  /\ e.value \in Answers \cup {"empty"} /\ e.left \in -1..TTL
           /\ e.value = "empty" => e.left = -1
           /\ Aged(e) \in Entries /\ Aged(e).value = e.value
           /\ Aged(e).left = IF e.left > -1 THEN e.left - 1 ELSE -1
<1>1. CASE e = NoEntry
    BY <1>1, SizesAssumption DEF NoEntry, Aged, Entries
<1>2. CASE e \in [value : Answers, left : -1..TTL]
    <2>1. e.value \in Answers /\ e.left \in -1..TTL /\ e = [value |-> e.value, left |-> e.left]
        BY <1>2
    <2>2. /\ Aged(e) = [value |-> e.value, left |-> IF e.left > -1 THEN e.left - 1 ELSE -1]
          /\ (IF e.left > -1 THEN e.left - 1 ELSE -1) \in -1..TTL
        BY <2>1, SizesAssumption DEF Aged
    <2>3. QED
        BY <2>1, <2>2 DEF Entries, Answers
<1>3. QED
    BY <1>1, <1>2 DEF Entries

(* The steps of the tasks: what each of them changes.                      *)
LEMMA TakeEffect ==
    ASSUME Shapes, NEW l \in Leads, Take(l)
    PROVE  /\ stage = "enriching" /\ pc[l] = "waiting"
           /\ UNCHANGED <<cached, place, needed, links, stage, attempt, since, tally>>
           /\ \/ /\ cached /\ Served(store[place[l]])
                 /\ store[place[l]].value \in Answers /\ store[place[l]].left \in 0..TTL
                 /\ website' = [website EXCEPT ![l] = store[place[l]].value]
                 /\ pc' = [pc EXCEPT ![l] = "ended"] /\ store' = store
                 /\ metrics' = Finished(store[place[l]].value)
              \/ /\ ~(cached /\ Served(store[place[l]]))
                 /\ pc' = [pc EXCEPT ![l] = "acquire"]
                 /\ store' = [store EXCEPT ![place[l]] = NoEntry]
                 /\ UNCHANGED <<website, metrics>>
<1>1. store[place[l]] \in Entries
    BY DEF Shapes
<1>2. /\ store[place[l]].value \in Answers \cup {"empty"}
      /\ store[place[l]].left \in -1..TTL
    BY <1>1, EntryShape
<1>3. Served(store[place[l]]) => store[place[l]].value \in Answers /\ store[place[l]].left \in 0..TTL
    BY <1>2, SizesAssumption DEF Served
<1>4. website' = [website EXCEPT ![l] = store[place[l]].value] => website'[l] = store[place[l]].value
    BY DEF Shapes
<1>5. QED
    BY <1>3, <1>4 DEF Take, callVars

LEMMA MetricsShape ==
    ASSUME Shapes, NEW site
    PROVE  /\ Finished(site) \in [{"total", "missing"} -> Nat]
           /\ Finished(site)["total"] = metrics["total"] + 1
           /\ Finished(site)["missing"] = metrics["missing"] + (IF site = "none" THEN 1 ELSE 0)
    BY DEF Shapes, Finished

\* A lookup that answers, or fails for good: the latter is to the lead what
\* an answer of None would be, except for the cache and for an empty text.
LEMMA LookUpEffect ==
    ASSUME Shapes, NEW l \in Leads, LookUp(l)
    PROVE  /\ stage = "enriching" /\ pc[l] = "browse"
           /\ UNCHANGED <<cached, place, needed, links, stage, tally>>
           /\ pc' = [pc EXCEPT ![l] = "ended"] /\ attempt' = [attempt EXCEPT ![l] = 0]
           /\ \E site \in Answers :
                /\ website' = [website EXCEPT ![l] = site]
                /\ metrics' = Finished(site)
                /\ \/ /\ cached /\ store' = [store EXCEPT ![place[l]] = Stored(site)]
                      /\ since' = [since EXCEPT ![place[l]][site] = 0]
                   \/ ~cached /\ UNCHANGED <<store, since>>
    BY DEF LookUp, End, callVars, timeVars

LEMMA GiveUpEffect ==
    ASSUME Shapes, NEW l \in Leads, GiveUp(l)
    PROVE  /\ stage = "enriching" /\ pc[l] = "browse"
           /\ UNCHANGED <<cached, place, needed, website, links, stage, store, since, tally>>
           /\ pc' = [pc EXCEPT ![l] = "ended"] /\ attempt' = [attempt EXCEPT ![l] = 0]
           /\ metrics' = Finished("none")
    BY DEF GiveUp, Fail, End, callVars, leadVars, timeVars, Finished, Shapes

\* The steps of a lookup on its way to an answer.
LEMMA BrowseEffect ==
    ASSUME Shapes, NEW l \in Leads, AcquirePage(l) \/ OpenFails(l) \/ TryAgain(l)
    PROVE  /\ UNCHANGED <<cached, place, needed, website, links, stage, store, since, metrics, tally>>
           /\ attempt' \in [Leads -> 0..MaxAttempts]
           /\ \/ pc[l] = "acquire" /\ pc' = [pc EXCEPT ![l] = "browse"]
              \/ /\ pc[l] = "browse" /\ pc' = [pc EXCEPT ![l] = "backoff"]
                 /\ attempt' = attempt /\ attempt[l] < MaxAttempts
              \/ pc[l] = "backoff" /\ pc' = [pc EXCEPT ![l] = "browse"]
           /\ \A k \in Leads \ {l} : attempt'[k] = attempt[k]
<1>1. UNCHANGED <<cached, place, needed, website, links, stage, store, since, metrics, tally>>
    BY DEF AcquirePage, OpenFails, TryAgain, callVars, leadVars, timeVars
<1>2. CASE AcquirePage(l)
    BY <1>1, <1>2, SizesAssumption DEF AcquirePage, Shapes
<1>3. CASE OpenFails(l)
    BY <1>1, <1>3 DEF OpenFails, Shapes
<1>4. CASE TryAgain(l)
    <2>1. attempt[l] + 1 \in 0..MaxAttempts
        BY <1>4, SizesAssumption DEF TryAgain, Shapes
    <2>2. QED
        BY <1>1, <1>4, <2>1 DEF TryAgain, Shapes
<1>5. QED
    BY <1>2, <1>3, <1>4

LEMMA SocialEffect ==
    ASSUME Shapes, NEW l \in Leads, SocialStep(l)
    PROVE  /\ UNCHANGED <<cached, place, needed, website, stage, attempt, store, since, metrics, tally>>
           /\ links' \in [Leads -> Links]
           /\ \/ /\ stage = "discovering" /\ pc[l] = "waiting"
                 /\ \E to \in {"fetch", "search"} : pc' = [pc EXCEPT ![l] = to]
              \/ /\ pc[l] \in {"fetch", "search"}
                 /\ \E to \in {"search", "ended"} : pc' = [pc EXCEPT ![l] = to]
<1>1. links[l] \in Links /\ "none" \in Links /\ Better(links[l]) \subseteq Links
    BY DEF Shapes, Better, Links
<1>2. ASSUME NEW found \in Links, NEW to, Discover(l, found, to)
      PROVE  /\ UNCHANGED <<cached, place, needed, website, stage, attempt, store, since, metrics, tally>>
             /\ links' \in [Leads -> Links]
             /\ pc' = [pc EXCEPT ![l] = to]
    BY <1>2 DEF Discover, Shapes, callVars, timeVars
<1>3. CASE SocialTake(l)
    BY <1>1, <1>2, <1>3 DEF SocialTake
<1>4. CASE SocialFetched(l)
    BY <1>1, <1>2, <1>4 DEF SocialFetched
<1>5. CASE SocialSearched(l)
    BY <1>1, <1>2, <1>5 DEF SocialSearched
<1>6. QED
    BY <1>3, <1>4, <1>5 DEF SocialStep
-----------------------------------------------------------------------------
(* One lemma per kind of step: types, control, cache.                      *)
LEMMA TakeKeeps == ASSUME BatchInv, NEW l \in Leads, Take(l) PROVE BatchInv'
<1>1. Shapes /\ Sorted
    BY DEF BatchInv
<1>2. /\ stage = "enriching" /\ pc[l] = "waiting"
      /\ UNCHANGED <<cached, place, needed, links, stage, attempt, since, tally>>
      /\ \/ /\ cached /\ Served(store[place[l]])
            /\ store[place[l]].value \in Answers /\ store[place[l]].left \in 0..TTL
            /\ website' = [website EXCEPT ![l] = store[place[l]].value]
            /\ pc' = [pc EXCEPT ![l] = "ended"] /\ store' = store
            /\ metrics' = Finished(store[place[l]].value)
         \/ /\ ~(cached /\ Served(store[place[l]]))
            /\ pc' = [pc EXCEPT ![l] = "acquire"]
            /\ store' = [store EXCEPT ![place[l]] = NoEntry]
            /\ UNCHANGED <<website, metrics>>
    BY <1>1, TakeEffect
<1>3. place[l] \in Places
    BY <1>1 DEF Shapes
<1>4. CASE website' = [website EXCEPT ![l] = store[place[l]].value]
           /\ store[place[l]].value \in Answers
           /\ pc' = [pc EXCEPT ![l] = "ended"] /\ store' = store
           /\ metrics' = Finished(store[place[l]].value)
    <2>1. Shapes'
        BY <1>1, <1>2, <1>4, MetricsShape DEF Shapes, Controls, Websites, Answers
    <2>2. Sorted'
        BY <1>1, <1>2, <1>4 DEF Shapes, Sorted, NeedsEnrichment, Answers
    <2>3. CacheConfirmed' /\ Remembered'
        BY <1>2, <1>4 DEF BatchInv, CacheConfirmed, Remembered
    <2>4. QED
        BY <2>1, <2>2, <2>3 DEF BatchInv
<1>5. CASE /\ ~(cached /\ Served(store[place[l]]))
           /\ pc' = [pc EXCEPT ![l] = "acquire"]
           /\ store' = [store EXCEPT ![place[l]] = NoEntry]
           /\ UNCHANGED <<website, metrics>>
    <2>1. Shapes'
        <3>1. store' \in [Places -> Entries]
            BY <1>1, <1>5 DEF Shapes, Entries
        <3>2. QED
            BY <1>1, <1>2, <1>5, <3>1 DEF Shapes, Controls
    <2>2. Sorted'
        BY <1>1, <1>2, <1>5 DEF Shapes, Sorted, NeedsEnrichment
    <2>3. store'[place[l]] = NoEntry /\ \A p \in Places \ {place[l]} : store'[p] = store[p]
        BY <1>1, <1>3, <1>5 DEF Shapes
    <2>4. CacheConfirmed'
        BY <1>2, <2>3 DEF BatchInv, CacheConfirmed, NoEntry, Answers
    <2>5. ASSUME cached, NEW a \in Answers PROVE ~(since[place[l]][a] <= TTL)
        <3>1. store[place[l]] \in Entries /\ since[place[l]][a] \in 0..LongAgo
            BY <1>1, <1>3 DEF Shapes
        <3>2. store[place[l]].left \in -1..TTL
            BY <3>1, EntryShape
        <3>3. ~(store[place[l]].value # "empty" /\ store[place[l]].left >= 0)
            BY <1>5, <2>5 DEF Served
        <3>4. QED
            BY <1>3, <2>5, <3>1, <3>2, <3>3, SizesAssumption DEF BatchInv, Remembered, Answers
    <2>6. Remembered'
        BY <1>2, <2>3, <2>5 DEF BatchInv, Remembered
    <2>7. QED
        BY <2>1, <2>2, <2>4, <2>6 DEF BatchInv
<1>6. QED
    BY <1>2, <1>4, <1>5

LEMMA LookUpKeeps == ASSUME BatchInv, NEW l \in Leads, LookUp(l) PROVE BatchInv'
<1>1. Shapes /\ Sorted
    BY DEF BatchInv
<1>2. /\ stage = "enriching" /\ pc[l] = "browse"
      /\ UNCHANGED <<cached, place, needed, links, stage, tally>>
      /\ pc' = [pc EXCEPT ![l] = "ended"] /\ attempt' = [attempt EXCEPT ![l] = 0]
    BY <1>1, LookUpEffect
<1>3. PICK site \in Answers :
        /\ website' = [website EXCEPT ![l] = site]
        /\ metrics' = Finished(site)
        /\ \/ /\ cached /\ store' = [store EXCEPT ![place[l]] = Stored(site)]
              /\ since' = [since EXCEPT ![place[l]][site] = 0]
           \/ ~cached /\ UNCHANGED <<store, since>>
    BY <1>1, LookUpEffect
<1>4. Sorted'
    BY <1>1, <1>2, <1>3 DEF Shapes, Sorted, NeedsEnrichment, Answers
<1>5. /\ website' \in [Leads -> Websites] /\ metrics' \in [{"total", "missing"} -> Nat]
      /\ pc' \in [Leads -> Controls] /\ attempt' \in [Leads -> 0..MaxAttempts]
      /\ \A k \in Leads : pc'[k] = "backoff" => attempt'[k] < MaxAttempts
    BY <1>1, <1>2, <1>3, MetricsShape, SizesAssumption DEF Shapes, Websites, Answers, Controls
<1>6. CASE ~cached
    <2>1. Shapes'
        BY <1>1, <1>2, <1>3, <1>5, <1>6 DEF Shapes
    <2>2. CacheConfirmed' /\ Remembered'
        BY <1>2, <1>3, <1>6 DEF BatchInv, CacheConfirmed, Remembered
    <2>3. QED
        BY <1>4, <2>1, <2>2 DEF BatchInv
<1>7. CASE cached
    <2>1. PICK q \in Places : q = place[l]
        BY <1>1 DEF Shapes
    <2>2. /\ store' = [store EXCEPT ![q] = Stored(site)]
          /\ since' = [since EXCEPT ![q] = [since[q] EXCEPT ![site] = 0]]
        BY <1>3, <1>7, <2>1
    <2>3. since[q] \in [Answers -> 0..LongAgo] /\ store[q] \in Entries
        BY <1>1 DEF Shapes
    <2>4. /\ store'[q] = Stored(site) /\ since'[q] = [since[q] EXCEPT ![site] = 0]
          /\ \A p \in Places \ {q} : store'[p] = store[p] /\ since'[p] = since[p]
        BY <1>1, <2>2 DEF Shapes
    <2>5. /\ Stored(site) \in Entries /\ Stored(site).value = site /\ Stored(site).left = TTL
        BY SizesAssumption DEF Stored, Entries
    <2>6. /\ since'[q] \in [Answers -> 0..LongAgo] /\ since'[q][site] = 0
          /\ \A a \in Answers : since'[q][a] \in 0..LongAgo
        BY <2>3, <2>4, SizesAssumption DEF LongAgo
    <2>7. store' \in [Places -> Entries] /\ since' \in [Places -> [Answers -> 0..LongAgo]]
        BY <1>1, <2>2, <2>4, <2>5, <2>6 DEF Shapes
    <2>8. Shapes'
        BY <1>1, <1>2, <1>5, <2>7 DEF Shapes
    <2>9. CacheConfirmed'
        BY <2>4, <2>5, <2>6, SizesAssumption DEF BatchInv, CacheConfirmed
    <2>10. Remembered'
        <3>1. ASSUME NEW p \in Places, NEW a \in Answers, cached', since'[p][a] <= TTL
              PROVE  store'[p].value \in Answers /\ store'[p].left >= TTL - since'[p][a]
            <4>1. CASE p = q
                BY <2>4, <2>5, <2>6, <4>1, SizesAssumption
            <4>2. CASE p # q
                BY <1>7, <2>4, <3>1, <4>2 DEF BatchInv, Remembered
            <4>3. QED
                BY <4>1, <4>2
        <3>2. QED
            BY <3>1 DEF Remembered
    <2>11. QED
        BY <1>4, <2>8, <2>9, <2>10 DEF BatchInv
<1>8. QED
    BY <1>6, <1>7

LEMMA TaskKeeps ==
    ASSUME BatchInv, NEW l \in Leads,
           AcquirePage(l) \/ OpenFails(l) \/ TryAgain(l) \/ GiveUp(l) \/ SocialStep(l)
    PROVE  BatchInv'
<1>1. Shapes /\ Sorted
    BY DEF BatchInv
<1>2. UNCHANGED <<cached, place, needed, website, stage, store, since, tally>>
    BY <1>1, BrowseEffect, GiveUpEffect, SocialEffect
<1>3. CacheConfirmed' /\ Remembered'
    BY <1>2 DEF BatchInv, CacheConfirmed, Remembered
<1>4. CASE AcquirePage(l) \/ OpenFails(l) \/ TryAgain(l)
    <2>1. /\ UNCHANGED <<links, metrics>> /\ attempt' \in [Leads -> 0..MaxAttempts]
          /\ \/ pc[l] = "acquire" /\ pc' = [pc EXCEPT ![l] = "browse"]
             \/ /\ pc[l] = "browse" /\ pc' = [pc EXCEPT ![l] = "backoff"]
                /\ attempt' = attempt /\ attempt[l] < MaxAttempts
             \/ pc[l] = "backoff" /\ pc' = [pc EXCEPT ![l] = "browse"]
          /\ \A k \in Leads \ {l} : attempt'[k] = attempt[k]
        BY <1>1, <1>4, BrowseEffect
    <2>2. Shapes'
        BY <1>1, <1>2, <2>1 DEF Shapes, Controls
    <2>3. Sorted'
        BY <1>1, <1>2, <2>1 DEF Shapes, Sorted, NeedsEnrichment
    <2>4. QED
        BY <1>3, <2>2, <2>3 DEF BatchInv
<1>5. CASE GiveUp(l)
    <2>1. /\ links' = links /\ metrics' = Finished("none") /\ stage = "enriching"
          /\ pc' = [pc EXCEPT ![l] = "ended"] /\ attempt' = [attempt EXCEPT ![l] = 0]
        BY <1>1, <1>5, GiveUpEffect
    <2>2. Shapes'
        BY <1>1, <1>2, <2>1, MetricsShape, SizesAssumption DEF Shapes, Controls
    <2>3. Sorted'
        BY <1>1, <1>2, <2>1 DEF Shapes, Sorted, NeedsEnrichment
    <2>4. QED
        BY <1>3, <2>2, <2>3 DEF BatchInv
<1>6. CASE SocialStep(l)
    <2>1. /\ UNCHANGED <<attempt, metrics>> /\ links' \in [Leads -> Links]
          /\ \/ /\ stage = "discovering" /\ pc[l] = "waiting"
                /\ \E to \in {"fetch", "search"} : pc' = [pc EXCEPT ![l] = to]
             \/ /\ pc[l] \in {"fetch", "search"}
                /\ \E to \in {"search", "ended"} : pc' = [pc EXCEPT ![l] = to]
        BY <1>1, <1>6, SocialEffect
    <2>2. Shapes'
        BY <1>1, <1>2, <2>1 DEF Shapes, Controls
    <2>3. stage # "enriching"
        BY <1>1, <2>1 DEF Sorted
    <2>4. Sorted'
        BY <1>1, <1>2, <2>3 DEF Sorted
    <2>5. QED
        BY <1>3, <2>2, <2>4 DEF BatchInv
<1>7. QED
    BY <1>4, <1>5, <1>6

LEMMA TickKeeps == ASSUME BatchInv, Tick PROVE BatchInv'
<1>1. Shapes /\ Sorted
    BY DEF BatchInv
<1>2. /\ UNCHANGED <<cached, place, needed, website, links, stage, pc, attempt, metrics, tally>>
      /\ store' = [p \in Places |-> Aged(store[p])]
      /\ since' = [p \in Places |-> [a \in Answers |->
                    IF since[p][a] < LongAgo THEN since[p][a] + 1 ELSE LongAgo]]
    BY DEF Tick, Aged, callVars, leadVars, taskVars
<1>3. \A p \in Places :
        /\ store[p].value \in Answers \cup {"empty"} /\ store[p].left \in -1..TTL
        /\ store'[p] \in Entries /\ store'[p].value = store[p].value
        /\ store'[p].left = IF store[p].left > -1 THEN store[p].left - 1 ELSE -1
        /\ \A a \in Answers :
            /\ since[p][a] \in 0..LongAgo
            /\ since'[p][a] = IF since[p][a] < LongAgo THEN since[p][a] + 1 ELSE LongAgo
    <2>1. \A p \in Places : store[p] \in Entries
        BY <1>1 DEF Shapes
    <2>2. \A p \in Places : store'[p] = Aged(store[p])
        BY <1>2
    <2>3. \A p \in Places, a \in Answers : since[p][a] \in 0..LongAgo
        BY <1>1 DEF Shapes
    <2>4. \A p \in Places, a \in Answers :
            since'[p][a] = IF since[p][a] < LongAgo THEN since[p][a] + 1 ELSE LongAgo
        BY <1>2
    <2>5. QED
        BY <2>1, <2>2, <2>3, <2>4, EntryShape
<1>4. Shapes'
    <2>1. store' \in [Places -> Entries]
        BY <1>2, <1>3
    <2>2. since' \in [Places -> [Answers -> 0..LongAgo]]
        <3>1. \A p \in Places, a \in Answers :
                (IF since[p][a] < LongAgo THEN since[p][a] + 1 ELSE LongAgo) \in 0..LongAgo
            BY <1>3, SizesAssumption DEF LongAgo
        <3>2. QED
            BY <1>2, <3>1
    <2>3. QED
        BY <1>1, <1>2, <2>1, <2>2 DEF Shapes
<1>5. Sorted'
    BY <1>1, <1>2 DEF Sorted, NeedsEnrichment
<1>6. CacheConfirmed'
    <2>1. ASSUME NEW p \in Places, store'[p].value \in Answers, store'[p].left >= 0
          PROVE  since'[p][store'[p].value] = TTL - store'[p].left
        <3>1. store[p].left \in 1..TTL /\ store'[p].left = store[p].left - 1
            BY <1>3, <2>1, SizesAssumption
        <3>2. since[p][store[p].value] = TTL - store[p].left
            BY <1>3, <2>1, <3>1 DEF BatchInv, CacheConfirmed
        <3>3. since'[p][store[p].value] = since[p][store[p].value] + 1
            BY <1>3, <2>1, <3>1, <3>2, SizesAssumption DEF LongAgo
        <3>4. QED
            BY <1>3, <3>1, <3>2, <3>3, SizesAssumption
    <2>2. QED
        BY <2>1 DEF CacheConfirmed
<1>7. Remembered'
    <2>1. ASSUME NEW p \in Places, NEW a \in Answers, cached', since'[p][a] <= TTL
          PROVE  store'[p].value \in Answers /\ store'[p].left >= TTL - since'[p][a]
        <3>1. since[p][a] < TTL /\ since'[p][a] = since[p][a] + 1 /\ since[p][a] \in Nat
            BY <1>3, <2>1, SizesAssumption DEF LongAgo
        <3>2. store[p].value \in Answers /\ store[p].left >= TTL - since[p][a]
            BY <1>2, <2>1, <3>1, SizesAssumption DEF BatchInv, Remembered
        <3>3. store[p].left \in -1..TTL /\ store'[p].left = IF store[p].left > -1 THEN store[p].left - 1 ELSE -1
            BY <1>3
        <3>4. QED
            BY <1>3, <3>1, <3>2, <3>3, SizesAssumption
    <2>2. QED
        BY <2>1 DEF Remembered
<1>8. QED
    BY <1>4, <1>5, <1>6, <1>7 DEF BatchInv

(* Every set of leads is finite.                                           *)
LEMMA LeadsFinite ==
    ASSUME NEW S \in SUBSET Leads
    PROVE  IsFiniteSet(S) /\ Cardinality(S) \in Nat /\ Cardinality(S) <= NumLeads
<1>1. IsFiniteSet(1..NumLeads) /\ Cardinality(1..NumLeads) = NumLeads
    BY SizesAssumption, FS_Interval
<1>2. S \in SUBSET (1..NumLeads)
    BY DEF Leads
<1>3. IsFiniteSet(S) /\ Cardinality(S) <= NumLeads
    BY <1>1, <1>2, FS_Subset
<1>4. QED
    BY <1>3, FS_CardinalityType

\* The numbers of leads the stages report.
LEMMA CountsShape ==
    ASSUME NEW ls
    PROVE  With(ls) \in Nat
<1>1. {l \in Leads : ls[l] # "none"} \in SUBSET Leads
    OBVIOUS
<1>2. QED
    BY <1>1, LeadsFinite DEF With

LEMMA EnrichmentStageOverEffect ==
    ASSUME Shapes, EnrichmentStageOver
    PROVE  /\ stage = "enriching" /\ stage' = "discovering" /\ ~cached /\ TasksOver
           /\ UNCHANGED <<cached, place, needed, website, links, attempt, store, since, metrics>>
           /\ pc' = [l \in Leads |-> "waiting"]
           /\ Cardinality(needed) \in Nat
           /\ Cardinality({l \in needed : website[l] # "none"}) \in Nat
           /\ tally' \in [Tallies -> [completed : Int, failed : Int]]
           /\ tally'["website_enrichment"] =
                [completed |-> Cardinality({l \in needed : website[l] # "none"}),
                 failed |-> Cardinality(needed) - Cardinality({l \in needed : website[l] # "none"})]
<1>1. /\ Cardinality(needed) \in Nat
      /\ Cardinality({l \in needed : website[l] # "none"}) \in Nat
    <2>1. needed \in SUBSET Leads /\ {l \in needed : website[l] # "none"} \in SUBSET Leads
        BY DEF Shapes
    <2>2. QED
        BY <2>1, LeadsFinite
<1>2. /\ stage = "enriching" /\ stage' = "discovering" /\ ~cached /\ TasksOver
      /\ UNCHANGED <<cached, place, needed, website, links, attempt, store, since, metrics>>
      /\ pc' = [l \in Leads |-> "waiting"]
      /\ tally' = [tally EXCEPT !["website_enrichment"] =
            [completed |-> Cardinality({l \in needed : website[l] # "none"}),
             failed |-> Cardinality(needed) - Cardinality({l \in needed : website[l] # "none"})]]
    BY DEF EnrichmentStageOver, Tallied, callVars, leadVars, timeVars
<1>3. QED
    BY <1>1, <1>2 DEF Shapes, Tallies

LEMMA SocialStageOverEffect ==
    ASSUME Shapes, SocialStageOver
    PROVE  /\ stage = "discovering" /\ stage' = "done" /\ TasksOver
           /\ UNCHANGED <<cached, place, needed, website, pc, attempt, store, since, metrics>>
           /\ links' \in [Leads -> Links]
           /\ With(links) \in Nat /\ With(links') \in Nat
           /\ tally' \in [Tallies -> [completed : Int, failed : Int]]
           /\ tally'["website_enrichment"] = tally["website_enrichment"]
           /\ tally'["social_discovery"] =
                [completed |-> With(links), failed |-> NumLeads - With(links)]
           /\ tally'["url_selection"] =
                [completed |-> With(links'), failed |-> With(links) - With(links')]
<1>1. With(links) \in Nat /\ With(links') \in Nat
    BY CountsShape
<1>2. /\ stage = "discovering" /\ stage' = "done" /\ TasksOver
      /\ UNCHANGED <<cached, place, needed, website, pc, attempt, store, since, metrics>>
      /\ links' \in [Leads -> Links]
      /\ tally' = [tally EXCEPT
            !["social_discovery"] = [completed |-> With(links), failed |-> NumLeads - With(links)],
            !["url_selection"] = [completed |-> With(links'), failed |-> With(links) - With(links')]]
    BY DEF SocialStageOver, callVars, timeVars, Selected, Links
<1>3. QED
    BY <1>1, <1>2, SizesAssumption DEF Shapes, Tallies

LEMMA BatchReturnsEffect ==
    ASSUME BatchReturns
    PROVE  /\ stage = "enriching" /\ stage' = "done" /\ cached /\ TasksOver
           /\ UNCHANGED <<cached, place, needed, website, links, pc, attempt, store, since, metrics, tally>>
    BY DEF BatchReturns, callVars, leadVars, timeVars

LEMMA StageKeeps == ASSUME BatchInv, StageStep PROVE BatchInv'
<1>1. Shapes /\ Sorted
    BY DEF BatchInv
<1>2. CASE EnrichmentStageOver
    <2>1. Shapes'
        BY <1>1, <1>2, EnrichmentStageOverEffect DEF Shapes, Stages, Controls
    <2>2. Sorted'
        BY <1>1, <1>2, EnrichmentStageOverEffect DEF Sorted
    <2>3. CacheConfirmed' /\ Remembered'
        BY <1>1, <1>2, EnrichmentStageOverEffect DEF BatchInv, CacheConfirmed, Remembered
    <2>4. QED
        BY <2>1, <2>2, <2>3 DEF BatchInv
<1>3. CASE SocialStageOver
    <2>1. Shapes'
        BY <1>1, <1>3, SocialStageOverEffect DEF Shapes, Stages
    <2>2. Sorted'
        BY <1>1, <1>3, SocialStageOverEffect DEF Sorted
    <2>3. CacheConfirmed' /\ Remembered'
        BY <1>1, <1>3, SocialStageOverEffect DEF BatchInv, CacheConfirmed, Remembered
    <2>4. QED
        BY <2>1, <2>2, <2>3 DEF BatchInv
<1>4. CASE BatchReturns
    <2>1. Shapes'
        BY <1>1, <1>4, BatchReturnsEffect DEF Shapes, Stages
    <2>2. Sorted'
        BY <1>1, <1>4, BatchReturnsEffect DEF Sorted
    <2>3. CacheConfirmed' /\ Remembered'
        BY <1>1, <1>4, BatchReturnsEffect DEF BatchInv, CacheConfirmed, Remembered
    <2>4. QED
        BY <2>1, <2>2, <2>3 DEF BatchInv
<1>5. QED
    BY <1>2, <1>3, <1>4 DEF StageStep

LEMMA BatchInit == Init => BatchInv
<1> SUFFICES ASSUME Init PROVE BatchInv
    OBVIOUS
<1>1. store \in [Places -> Entries]
    <2>1. NoEntry \in Entries /\ [value : Answers, left : {TTL}] \subseteq Entries
        BY SizesAssumption DEF Entries
    <2>2. store \in [Places -> {NoEntry} \cup [value : Answers, left : {TTL}]]
        BY DEF Init
    <2>3. QED
        BY <2>1, <2>2
<1>2. \A p \in Places : store[p] \in Entries
    BY <1>1
<1>3. \A p \in Places, a \in Answers :
        since[p][a] = IF store[p].value = a /\ store[p].left >= 0 THEN TTL - store[p].left ELSE LongAgo
    BY DEF Init, SinceOf
<1>4. since \in [Places -> [Answers -> 0..LongAgo]]
    <2>1. \A p \in Places : store[p].left \in -1..TTL
        BY <1>2, EntryShape
    <2>2. \A p \in Places, a \in Answers :
            (IF store[p].value = a /\ store[p].left >= 0 THEN TTL - store[p].left ELSE LongAgo)
                \in 0..LongAgo
        BY <2>1, SizesAssumption DEF LongAgo
    <2>3. QED
        BY <2>2 DEF Init, SinceOf
<1>5. place \in [Leads -> Places]
    <2>1. (CHOOSE p \in Places : TRUE) \in Places
        BY SizesAssumption
    <2>2. QED
        BY <2>1 DEF Init
<1>6. pc \in [Leads -> {"waiting", "spared"}]
    BY DEF Init
<1>7. Shapes
    <2>1. links \in [Leads -> Links] /\ needed \subseteq Leads /\ attempt \in [Leads -> 0..MaxAttempts]
        BY SizesAssumption DEF Init, Links
    <2>2. /\ metrics \in [{"total", "missing"} -> Nat]
          /\ tally \in [Tallies -> [completed : Int, failed : Int]]
        BY DEF Init
    <2>3. pc \in [Leads -> Controls] /\ \A l \in Leads : pc[l] # "backoff"
        BY <1>6 DEF Controls
    <2>4. QED
        BY <1>1, <1>4, <1>5, <2>1, <2>2, <2>3 DEF Init, Shapes, Stages
<1>8. Sorted
    BY DEF Init, Sorted, NeedsEnrichment, Websites
<1>9. CacheConfirmed
    BY <1>3 DEF CacheConfirmed
<1>10. Remembered
    <2>1. \A p \in Places : store[p].left \in -1..TTL
        BY <1>2, EntryShape
    <2>2. QED
        BY <1>3, <2>1, SizesAssumption DEF Remembered, LongAgo
<1>11. QED
    BY <1>7, <1>8, <1>9, <1>10 DEF BatchInv

LEMMA BatchStep == ASSUME BatchInv, [Next]_vars PROVE BatchInv'
<1>1. CASE UNCHANGED vars
    <2>1. UNCHANGED <<cached, place, needed, website, links, stage, pc, attempt, store, metrics,
                      tally, since>>
        BY <1>1 DEF vars, callVars, leadVars, taskVars, timeVars
    <2>2. Shapes'
        BY <2>1 DEF BatchInv, Shapes
    <2>3. Sorted'
        BY <2>1 DEF BatchInv, Sorted, NeedsEnrichment
    <2>4. CacheConfirmed' /\ Remembered'
        BY <2>1 DEF BatchInv, CacheConfirmed, Remembered
    <2>5. QED
        BY <2>2, <2>3, <2>4 DEF BatchInv
<1>2. QED
    BY <1>1, TakeKeeps, LookUpKeeps, TaskKeeps, StageKeeps, TickKeeps
    DEF Next, EnrichStep, Returned

LEMMA BatchInvariant == Spec => []BatchInv
    BY BatchInit, BatchStep, PTL DEF Spec
-----------------------------------------------------------------------------
(* The cache tells of a place only what a lookup of that very place has    *)
(* answered, and no longer than TTL, whatever tasks overwrite each other's *)
(* answers.                                                                *)
THEOREM CacheTellsTruth == Spec => []CacheConfirmed
<1>1. BatchInv => CacheConfirmed
    BY DEF BatchInv
<1>2. QED
    BY <1>1, BatchInvariant, PTL

(* A lookup starts only if no answer about that place is within TTL: the   *)
(* cache forgets none too early, and None counts as an answer.             *)
THEOREM NoneLookedUpTwice == Spec => LookedUpOnlyIfUnknown
<1>1. ASSUME BatchInv, [Next]_vars, NEW l \in Leads, cached, pc[l] = "waiting", pc'[l] = "acquire",
             NEW a \in Answers
      PROVE  since[place[l]][a] > TTL
    <2>1. Shapes
        BY <1>1 DEF BatchInv
    <2>2. PICK k \in Leads : Take(k) /\ k = l
        <3>1. ASSUME NEW k \in Leads, EnrichStep(k) \/ SocialStep(k) PROVE Take(k) /\ k = l
            <4>1. CASE Take(k)
                <5>1. pc' = [pc EXCEPT ![k] = "ended"] \/ pc' = [pc EXCEPT ![k] = "acquire"]
                    BY <2>1, <4>1, TakeEffect
                <5>2. QED
                    BY <1>1, <2>1, <4>1, <5>1 DEF Shapes
            <4>2. CASE LookUp(k)
                BY <1>1, <2>1, <4>2, LookUpEffect DEF Shapes
            <4>3. CASE AcquirePage(k) \/ OpenFails(k) \/ TryAgain(k)
                BY <1>1, <2>1, <4>3, BrowseEffect DEF Shapes
            <4>4. CASE GiveUp(k)
                BY <1>1, <2>1, <4>4, GiveUpEffect DEF Shapes
            <4>5. CASE SocialStep(k)
                BY <1>1, <2>1, <4>5, SocialEffect DEF Shapes
            <4>6. QED
                BY <3>1, <4>1, <4>2, <4>3, <4>4, <4>5 DEF EnrichStep
        <3>2. CASE StageStep
            BY <1>1, <2>1, <3>2, EnrichmentStageOverEffect, SocialStageOverEffect, BatchReturnsEffect
            DEF StageStep
        <3>3. CASE Tick \/ UNCHANGED vars
            BY <1>1, <3>3 DEF Tick, vars, taskVars
        <3>4. QED
            BY <1>1, <3>1, <3>2, <3>3 DEF Next, Returned
    <2>3. ~(cached /\ Served(store[place[l]]))
        BY <1>1, <2>1, <2>2, TakeEffect DEF Shapes
    <2>4. place[l] \in Places
        BY <2>1 DEF Shapes
    <2>5. store[place[l]] \in Entries /\ since[place[l]][a] \in 0..LongAgo
        BY <2>1, <2>4 DEF Shapes
    <2>6. store[place[l]].left \in -1..TTL
        BY <2>5, EntryShape
    <2>7. ~(since[place[l]][a] <= TTL)
        BY <1>1, <2>3, <2>4, <2>5, <2>6, SizesAssumption DEF BatchInv, Remembered, Served, Answers
    <2>8. QED
        BY <2>5, <2>7, SizesAssumption DEF LongAgo
<1>2. BatchInv /\ [Next]_vars =>
        [\A l \in Leads : cached /\ pc[l] = "waiting" /\ pc'[l] = "acquire" =>
            \A a \in Answers : since[place[l]][a] > TTL]_vars
    BY <1>1
<1>3. QED
    BY <1>2, BatchInvariant, PTL DEF Spec, LookedUpOnlyIfUnknown

(* A website changes at most once, from a missing one, and with a cache    *)
(* only to what a lookup of that place answered at most TTL ago.           *)
THEOREM WebsitesConfirmed == Spec => WebsiteConfirmed
<1>1. ASSUME BatchInv, [Next]_vars, NEW l \in Leads, website'[l] # website[l]
      PROVE  /\ pc[l] # "ended" /\ website[l] \in {"none", "blank"}
             /\ cached => since'[place[l]][website'[l]] <= TTL
    <2>1. Shapes /\ Sorted
        BY <1>1 DEF BatchInv
    <2>2. Take(l) \/ LookUp(l)
        <3>1. ASSUME NEW k \in Leads, EnrichStep(k) \/ SocialStep(k) PROVE Take(l) \/ LookUp(l)
            <4>1. CASE Take(k)
                <5>1. \E site : website' = [website EXCEPT ![k] = site] \/ website' = website
                    BY <2>1, <4>1, TakeEffect
                <5>2. QED
                    BY <1>1, <2>1, <4>1, <5>1 DEF Shapes
            <4>2. CASE LookUp(k)
                <5>1. \E site : website' = [website EXCEPT ![k] = site]
                    BY <2>1, <4>2, LookUpEffect
                <5>2. QED
                    BY <1>1, <2>1, <4>2, <5>1 DEF Shapes
            <4>3. CASE AcquirePage(k) \/ OpenFails(k) \/ TryAgain(k) \/ GiveUp(k) \/ SocialStep(k)
                BY <1>1, <2>1, <4>3, BrowseEffect, GiveUpEffect, SocialEffect
            <4>4. QED
                BY <3>1, <4>1, <4>2, <4>3 DEF EnrichStep
        <3>2. CASE StageStep
            BY <1>1, <2>1, <3>2, EnrichmentStageOverEffect, SocialStageOverEffect, BatchReturnsEffect
            DEF StageStep
        <3>3. CASE Tick \/ UNCHANGED vars
            BY <1>1, <3>3 DEF Tick, vars, leadVars
        <3>4. QED
            BY <1>1, <3>1, <3>2, <3>3 DEF Next, Returned
    <2>3. /\ pc[l] # "ended" /\ website[l] \in {"none", "blank"}
        BY <2>1, <2>2, TakeEffect, LookUpEffect DEF Sorted, NeedsEnrichment
    <2>4. place[l] \in Places
        BY <2>1 DEF Shapes
    <2>5. ASSUME Take(l), cached PROVE since'[place[l]][website'[l]] <= TTL
        <3>1. /\ since' = since /\ store[place[l]].value \in Answers /\ store[place[l]].left \in 0..TTL
              /\ website' = [website EXCEPT ![l] = store[place[l]].value]
            BY <1>1, <2>1, <2>5, TakeEffect
        <3>2. website'[l] = store[place[l]].value
            BY <2>1, <3>1 DEF Shapes
        <3>3. since[place[l]][store[place[l]].value] = TTL - store[place[l]].left
            BY <1>1, <2>4, <3>1, SizesAssumption DEF BatchInv, CacheConfirmed
        <3>4. QED
            BY <3>1, <3>2, <3>3, SizesAssumption
    <2>6. ASSUME LookUp(l), cached PROVE since'[place[l]][website'[l]] <= TTL
        <3>1. PICK site \in Answers :
                /\ website' = [website EXCEPT ![l] = site]
                /\ since' = [since EXCEPT ![place[l]][site] = 0]
            BY <2>1, <2>6, LookUpEffect
        <3>2. website'[l] = site /\ since'[place[l]][site] = 0
            BY <2>1, <2>4, <3>1 DEF Shapes
        <3>3. QED
            BY <3>2, SizesAssumption
    <2>7. QED
        BY <2>2, <2>3, <2>5, <2>6
<1>2. BatchInv /\ [Next]_vars =>
        [\A l \in Leads : website'[l] # website[l] =>
            /\ pc[l] # "ended" /\ website[l] \in {"none", "blank"}
            /\ cached => since'[place[l]][website'[l]] <= TTL]_vars
    BY <1>1
<1>3. QED
    BY <1>2, BatchInvariant, PTL DEF Spec, WebsiteConfirmed
-----------------------------------------------------------------------------
(* The tallies.  The metrics count a lead when its task ends, and as one   *)
(* without a website if it then has none; the stages count once they are   *)
(* over, when no task is left.                                             *)
Unsited   == {l \in Leads : Looked(l) /\ NeedsEnrichment(l)}
EndedOnes == {l \in Leads : pc[l] = "ended"}

StageTallies ==
    /\ stage = "done" => TasksOver
    /\ stage # "enriching" /\ ~cached =>
        /\ tally["website_enrichment"].failed = Cardinality(Unsited \cap needed)
        /\ tally["website_enrichment"].completed + tally["website_enrichment"].failed
            = Cardinality(needed)
        /\ Cardinality(needed) <= metrics["total"]
    /\ stage = "done" /\ ~cached =>
        /\ tally["social_discovery"].completed + tally["social_discovery"].failed = NumLeads
        /\ tally["url_selection"].completed + tally["url_selection"].failed
            = tally["social_discovery"].completed
        /\ tally["url_selection"].completed = With(links)

LeadTallies ==
    /\ metrics["missing"] = Cardinality(Unsited)
    /\ stage = "enriching" => metrics["total"] = Cardinality(EndedOnes)
    /\ metrics["total"] <= NumLeads

TallyInv == LeadTallies /\ StageTallies

\* The end of a task of the first stage.
LEMMA EndTallies ==
    ASSUME BatchInv, TallyInv, NEW l \in Leads, NEW site,
           stage = "enriching", pc[l] # "ended", UNCHANGED <<stage, needed, cached, tally>>,
           pc' = [pc EXCEPT ![l] = "ended"], metrics' = Finished(site),
           NeedsEnrichment(l)' <=> site = "none",
           \A k \in Leads \ {l} : website'[k] = website[k]
    PROVE  TallyInv'
<1>1. Shapes
    BY DEF BatchInv
<1>2. pc'[l] = "ended" /\ \A k \in Leads \ {l} : pc'[k] = pc[k]
    BY <1>1 DEF Shapes
<1>3. EndedOnes' = EndedOnes \cup {l} /\ l \notin EndedOnes
    BY <1>2 DEF EndedOnes
<1>4. Unsited' = (IF site = "none" THEN Unsited \cup {l} ELSE Unsited) /\ l \notin Unsited
    BY <1>2 DEF Unsited, Looked, NeedsEnrichment
<1>5. /\ IsFiniteSet(Unsited) /\ Cardinality(Unsited) \in Nat
      /\ IsFiniteSet(EndedOnes) /\ Cardinality(EndedOnes) \in Nat
      /\ Cardinality(EndedOnes') <= NumLeads
    <2>1. Unsited \in SUBSET Leads /\ EndedOnes \in SUBSET Leads /\ EndedOnes' \in SUBSET Leads
        BY DEF Unsited, EndedOnes
    <2>2. QED
        BY <2>1, LeadsFinite
<1>6. Cardinality(EndedOnes') = Cardinality(EndedOnes) + 1
    BY <1>3, <1>5, FS_AddElement
<1>7. Cardinality(Unsited') = Cardinality(Unsited) + (IF site = "none" THEN 1 ELSE 0)
    <2>1. CASE site = "none"
        BY <1>4, <1>5, <2>1, FS_AddElement
    <2>2. CASE site # "none"
        BY <1>4, <1>5, <2>2
    <2>3. QED
        BY <2>1, <2>2
<1>8. /\ metrics'["total"] = metrics["total"] + 1
      /\ metrics'["missing"] = metrics["missing"] + (IF site = "none" THEN 1 ELSE 0)
    BY <1>1, MetricsShape
<1>9. LeadTallies'
    BY <1>5, <1>6, <1>7, <1>8 DEF TallyInv, LeadTallies
<1>10. StageTallies'
    BY DEF StageTallies
<1>11. QED
    BY <1>9, <1>10 DEF TallyInv

\* A step that ends no task of the first stage and leaves the stage running.
LEMMA QuietTallies ==
    ASSUME TallyInv, UNCHANGED <<stage, needed, cached, tally, metrics, website>>,
           stage = "enriching" => \A l \in Leads : pc'[l] = "ended" <=> pc[l] = "ended",
           stage = "done" => UNCHANGED <<pc, links>>
    PROVE  TallyInv'
<1>1. Unsited' = Unsited
    BY DEF Unsited, Looked, NeedsEnrichment
<1>2. stage = "enriching" => EndedOnes' = EndedOnes
    BY DEF EndedOnes
<1>3. LeadTallies'
    BY <1>1, <1>2 DEF TallyInv, LeadTallies
<1>4. StageTallies'
    BY <1>1 DEF TallyInv, StageTallies, TasksOver
<1>5. QED
    BY <1>3, <1>4 DEF TallyInv

(* A stage is over when its tasks are: the spared leads had a website, and *)
(* the needed ones, of which none was spared, have all been looked up.     *)
LEMMA StageOverTallies ==
    ASSUME BatchInv, stage = "enriching", TasksOver, stage' # "enriching", website' = website
    PROVE  /\ Unsited' = Unsited
           /\ needed \subseteq EndedOnes
<1>1. Sorted /\ needed \subseteq Leads
    BY DEF BatchInv, Shapes
<1>2. ASSUME NEW l \in Leads
      PROVE  (stage # "enriching" \/ pc[l] = "ended") /\ NeedsEnrichment(l) <=> NeedsEnrichment(l)
    BY <1>1 DEF Sorted, TasksOver, NeedsEnrichment
<1>3. Unsited' = Unsited
    BY <1>2 DEF Unsited, Looked, NeedsEnrichment
<1>4. needed \subseteq EndedOnes
    BY <1>1 DEF Sorted, TasksOver, EndedOnes
<1>5. QED
    BY <1>3, <1>4

LEMMA StageTally == ASSUME BatchInv, TallyInv, StageStep PROVE TallyInv'
<1>1. Shapes /\ Sorted /\ needed \subseteq Leads
    BY DEF BatchInv, Shapes
<1>2. CASE EnrichmentStageOver
    <2>1. /\ stage = "enriching" /\ stage' = "discovering" /\ ~cached /\ TasksOver
          /\ UNCHANGED <<cached, needed, website, metrics>>
          /\ tally'["website_enrichment"] =
                [completed |-> Cardinality({l \in needed : website[l] # "none"}),
                 failed |-> Cardinality(needed) - Cardinality({l \in needed : website[l] # "none"})]
        BY <1>1, <1>2, EnrichmentStageOverEffect
    <2>2. Unsited' = Unsited /\ needed \subseteq EndedOnes
        BY <2>1, StageOverTallies
    <2>3. LeadTallies'
        BY <2>1, <2>2 DEF TallyInv, LeadTallies
    <2> DEFINE sited == {l \in needed : website[l] # "none"}
    <2>4. /\ IsFiniteSet(needed) /\ Cardinality(needed) \in Nat /\ IsFiniteSet(EndedOnes)
          /\ IsFiniteSet(sited) /\ Cardinality(sited) \in Nat
          /\ IsFiniteSet(Unsited \cap needed) /\ Cardinality(Unsited \cap needed) \in Nat
        <3>1. /\ needed \in SUBSET Leads /\ EndedOnes \in SUBSET Leads
              /\ sited \in SUBSET Leads /\ Unsited \cap needed \in SUBSET Leads
            BY <1>1 DEF EndedOnes
        <3>2. QED
            BY <3>1, LeadsFinite
    <2>5. needed = sited \cup (Unsited \cap needed) /\ sited \cap (Unsited \cap needed) = {}
        BY <1>1, <2>1, <2>2 DEF Unsited, Looked, EndedOnes, NeedsEnrichment, Sorted, Shapes, Websites
    <2>6. Cardinality(needed) = Cardinality(sited) + Cardinality(Unsited \cap needed)
        <3>1. Cardinality(sited \cup (Unsited \cap needed))
                = Cardinality(sited) + Cardinality(Unsited \cap needed)
                    - Cardinality(sited \cap (Unsited \cap needed))
            BY <2>4, FS_Union
        <3>2. Cardinality(sited \cap (Unsited \cap needed)) = 0
            BY <2>5, FS_EmptySet
        <3> HIDE DEF sited
        <3>3. QED
            BY <2>4, <2>5, <3>1, <3>2
    <2>7. Cardinality(needed) <= metrics["total"]
        BY <2>1, <2>2, <2>4, FS_Subset DEF TallyInv, LeadTallies
    <2>8. /\ tally'["website_enrichment"].completed = Cardinality(sited)
          /\ tally'["website_enrichment"].failed = Cardinality(needed) - Cardinality(sited)
        BY <2>1
    <2> HIDE DEF sited
    <2>9. StageTallies'
        BY <2>1, <2>2, <2>4, <2>6, <2>7, <2>8 DEF StageTallies
    <2>10. QED
        BY <2>3, <2>9 DEF TallyInv
<1>3. CASE SocialStageOver
    <2>1. /\ stage = "discovering" /\ stage' = "done" /\ TasksOver
          /\ UNCHANGED <<cached, needed, website, pc, metrics>>
          /\ With(links) \in Nat /\ With(links') \in Nat
          /\ tally'["website_enrichment"] = tally["website_enrichment"]
          /\ tally'["social_discovery"] =
                [completed |-> With(links), failed |-> NumLeads - With(links)]
          /\ tally'["url_selection"] =
                [completed |-> With(links'), failed |-> With(links) - With(links')]
        BY <1>1, <1>3, SocialStageOverEffect
    <2>2. Unsited' = Unsited
        BY <2>1 DEF Unsited, Looked, NeedsEnrichment
    <2>3. LeadTallies'
        BY <2>1, <2>2 DEF TallyInv, LeadTallies
    <2>4. TasksOver'
        BY <2>1 DEF TasksOver
    <2>5. /\ tally'["social_discovery"].completed = With(links)
          /\ tally'["social_discovery"].failed = NumLeads - With(links)
          /\ tally'["url_selection"].completed = With(links')
          /\ tally'["url_selection"].failed = With(links) - With(links')
        BY <2>1
    <2>6. With(links)' = With(links')
        OBVIOUS
    <2>7. StageTallies'
        BY <2>1, <2>2, <2>4, <2>5, <2>6, SizesAssumption DEF TallyInv, StageTallies
    <2>8. QED
        BY <2>3, <2>7 DEF TallyInv
<1>4. CASE BatchReturns
    <2>1. /\ stage = "enriching" /\ stage' = "done" /\ cached /\ TasksOver
          /\ UNCHANGED <<cached, needed, website, pc, metrics>>
        BY <1>4, BatchReturnsEffect
    <2>2. Unsited' = Unsited
        BY <2>1, StageOverTallies
    <2>3. LeadTallies'
        BY <2>1, <2>2 DEF TallyInv, LeadTallies
    <2>4. StageTallies'
        BY <2>1 DEF StageTallies, TasksOver
    <2>5. QED
        BY <2>3, <2>4 DEF TallyInv
<1>5. QED
    BY <1>2, <1>3, <1>4 DEF StageStep

LEMMA TallyStep == ASSUME BatchInv, TallyInv, [Next]_vars PROVE TallyInv'
<1>1. Shapes /\ Sorted
    BY DEF BatchInv
<1>2. ASSUME NEW l \in Leads, Take(l) PROVE TallyInv'
    <2>1. /\ stage = "enriching" /\ pc[l] = "waiting"
          /\ UNCHANGED <<cached, needed, stage, tally>>
          /\ \/ /\ store[place[l]].value \in Answers
                /\ website' = [website EXCEPT ![l] = store[place[l]].value]
                /\ pc' = [pc EXCEPT ![l] = "ended"]
                /\ metrics' = Finished(store[place[l]].value)
             \/ /\ pc' = [pc EXCEPT ![l] = "acquire"]
                /\ UNCHANGED <<website, metrics>>
        BY <1>1, <1>2, TakeEffect
    <2>2. ASSUME NEW site \in Answers, website' = [website EXCEPT ![l] = site],
                 pc' = [pc EXCEPT ![l] = "ended"], metrics' = Finished(site)
          PROVE  TallyInv'
        <3>1. NeedsEnrichment(l)' <=> site = "none"
            BY <1>1, <2>2 DEF NeedsEnrichment, Shapes, Answers
        <3>2. \A k \in Leads \ {l} : website'[k] = website[k]
            BY <1>1, <2>2 DEF Shapes
        <3>3. QED
            BY <2>1, <2>2, <3>1, <3>2, EndTallies
    <2>3. CASE pc' = [pc EXCEPT ![l] = "acquire"] /\ UNCHANGED <<website, metrics>>
        <3>1. \A k \in Leads : pc'[k] = "ended" <=> pc[k] = "ended"
            BY <1>1, <2>1, <2>3 DEF Shapes
        <3>2. QED
            BY <2>1, <2>3, <3>1, QuietTallies
    <2>4. QED
        BY <2>1, <2>2, <2>3
<1>3. ASSUME NEW l \in Leads, LookUp(l) PROVE TallyInv'
    <2>1. /\ stage = "enriching" /\ pc[l] = "browse"
          /\ UNCHANGED <<cached, needed, stage, tally>>
          /\ pc' = [pc EXCEPT ![l] = "ended"]
        BY <1>1, <1>3, LookUpEffect
    <2>2. PICK site \in Answers :
            website' = [website EXCEPT ![l] = site] /\ metrics' = Finished(site)
        BY <1>1, <1>3, LookUpEffect
    <2>3. NeedsEnrichment(l)' <=> site = "none"
        BY <1>1, <2>2 DEF NeedsEnrichment, Shapes, Answers
    <2>4. \A k \in Leads \ {l} : website'[k] = website[k]
        BY <1>1, <2>2 DEF Shapes
    <2>5. QED
        BY <2>1, <2>2, <2>3, <2>4, EndTallies
<1>4. ASSUME NEW l \in Leads, GiveUp(l) PROVE TallyInv'
    <2>1. /\ stage = "enriching" /\ pc[l] = "browse"
          /\ UNCHANGED <<cached, needed, stage, tally, website>>
          /\ pc' = [pc EXCEPT ![l] = "ended"] /\ metrics' = Finished("none")
        BY <1>1, <1>4, GiveUpEffect
    <2>2. NeedsEnrichment(l)'
        BY <1>1, <2>1 DEF Sorted, NeedsEnrichment
    <2>3. QED
        BY <2>1, <2>2, EndTallies
<1>5. ASSUME NEW l \in Leads, AcquirePage(l) \/ OpenFails(l) \/ TryAgain(l) \/ SocialStep(l)
      PROVE  TallyInv'
    <2>1. /\ UNCHANGED <<stage, needed, cached, tally, metrics, website>>
          /\ \E from, to : /\ pc[l] = from /\ pc' = [pc EXCEPT ![l] = to]
                          /\ from \notin {"spared", "ended"}
                          /\ \/ from \in {"acquire", "browse", "backoff"} /\ to # "ended"
                             \/ stage # "enriching"
        BY <1>1, <1>5, BrowseEffect, SocialEffect DEF Sorted
    <2>2. stage = "enriching" => \A k \in Leads : pc'[k] = "ended" <=> pc[k] = "ended"
        BY <1>1, <2>1 DEF Shapes
    <2>3. stage # "done"
        BY <2>1 DEF TallyInv, StageTallies, TasksOver
    <2>4. QED
        BY <2>1, <2>2, <2>3, QuietTallies
<1>6. CASE Tick \/ UNCHANGED vars
    <2>1. UNCHANGED <<stage, needed, cached, tally, metrics, website, pc, links>>
        BY <1>6 DEF Tick, vars, callVars, leadVars, taskVars
    <2>2. QED
        BY <2>1, QuietTallies
<1>7. QED
    BY <1>2, <1>3, <1>4, <1>5, <1>6, StageTally DEF Next, EnrichStep, Returned

LEMMA TallyInit == Init => TallyInv
<1> SUFFICES ASSUME Init PROVE TallyInv
    OBVIOUS
<1>1. Unsited = {} /\ EndedOnes = {}
    BY DEF Init, Unsited, EndedOnes, Looked
<1>2. metrics["total"] = 0 /\ metrics["missing"] = 0 /\ stage = "enriching"
    BY DEF Init
<1>3. QED
    BY <1>1, <1>2, FS_EmptySet, SizesAssumption DEF TallyInv, LeadTallies, StageTallies

LEMMA TallyInvariant == Spec => []TallyInv
    BY TallyInit, TallyStep, BatchInvariant, PTL DEF Spec

(* The numbers of the stages and of the metrics fit together, however the  *)
(* tasks interleave and whichever of them fail.                            *)
THEOREM NumbersFit == Spec => []TalliesAgree
<1>1. BatchInv /\ TallyInv => TalliesAgree
    <2> SUFFICES ASSUME BatchInv, TallyInv PROVE TalliesAgree
        OBVIOUS
    <2>1. Unsited = {l \in Leads : Looked(l) /\ NeedsEnrichment(l)}
        BY DEF Unsited
    <2>2. QED
        BY <2>1 DEF TalliesAgree, TallyInv, LeadTallies, StageTallies, EndedOnes
<1>2. QED
    BY <1>1, BatchInvariant, TallyInvariant, PTL

(* Every variable keeps its type: no task tries more often than it may,    *)
(* and the metrics never exceed the number of leads.                       *)
THEOREM BatchTyping == Spec => []TypeOK
<1>1. BatchInv /\ TallyInv => TypeOK
    <2> SUFFICES ASSUME BatchInv, TallyInv PROVE TypeOK
        OBVIOUS
    <2>1. metrics["total"] \in 0..NumLeads
        BY SizesAssumption DEF BatchInv, Shapes, TallyInv, LeadTallies
    <2>2. metrics["missing"] \in 0..NumLeads
        <3>1. Unsited \in SUBSET Leads
            BY DEF Unsited
        <3>2. QED
            BY <3>1, LeadsFinite, SizesAssumption DEF TallyInv, LeadTallies
    <2>3. metrics \in [{"total", "missing"} -> 0..NumLeads]
        BY <2>1, <2>2 DEF BatchInv, Shapes
    <2>4. QED
        BY <2>3 DEF BatchInv, Shapes, TypeOK
<1>2. QED
    BY <1>1, BatchInvariant, TallyInvariant, PTL
-----------------------------------------------------------------------------
(* The batch implements the safety part of LeadFlow: stage by stage, every *)
(* lead goes through the phases it would go through in the stream.         *)
BatchPhase == [l \in Leads |-> IF cached THEN "waiting" ELSE PhaseOf(l)]

\* A lead's phase is that of its task in the stage that runs.
Phasing(l) ==
    /\ stage = "enriching" =>
        /\ pc[l] \in {"waiting", "spared"} => PhaseOf(l) = "waiting"
        /\ pc[l] \in {"acquire", "browse", "backoff"} => PhaseOf(l) = "enriching"
        /\ pc[l] = "ended" => PhaseOf(l) = "enriched"
    /\ stage # "enriching" =>
        /\ pc[l] = "waiting" => PhaseOf(l) = "enriched"
        /\ pc[l] \in {"fetch", "search"} => PhaseOf(l) = "discovering"
        /\ pc[l] \in {"spared", "ended"} => PhaseOf(l) = "delivered"

LEMMA PhaseInStage == ASSUME NEW l \in Leads PROVE Phasing(l) /\ Phasing(l)'
    BY DEF Phasing, PhaseOf

\* A step of a task leaves every other lead in its phase.
LEMMA OthersStay ==
    ASSUME Shapes, NEW x \in Leads, NEW to, pc' = [pc EXCEPT ![x] = to], stage' = stage
    PROVE  pc'[x] = to /\ \A l \in Leads \ {x} : PhaseOf(l)' = PhaseOf(l)
    BY DEF Shapes, PhaseOf

LEMMA BatchStays ==
    ASSUME UNCHANGED <<cached, stage>>, cached \/ \A l \in Leads : PhaseOf(l)' = PhaseOf(l)
    PROVE  UNCHANGED Flow!flowVars
<1>1. BatchPhase' = BatchPhase
    BY DEF BatchPhase
<1>2. (stage = "done")' = (stage = "done")
    OBVIOUS
<1>3. QED
    BY <1>1, <1>2 DEF Flow!flowVars, BatchPhase

LEMMA BatchMoves ==
    ASSUME ~cached, UNCHANGED <<cached, stage>>, NEW x \in Leads,
           \A l \in Leads \ {x} : PhaseOf(l)' = PhaseOf(l),
           \/ PhaseOf(x) = "waiting" /\ PhaseOf(x)' = "enriching"
           \/ PhaseOf(x) = "enriching" /\ PhaseOf(x)' = "enriched"
           \/ PhaseOf(x) = "enriched" /\ PhaseOf(x)' = "discovering"
           \/ PhaseOf(x) = "discovering" /\ PhaseOf(x)' = "delivered"
    PROVE  Flow!FlowNext
<1>1. /\ BatchPhase' = [BatchPhase EXCEPT ![x] = PhaseOf(x)']
      /\ BatchPhase[x] = PhaseOf(x)
    BY DEF BatchPhase
<1>2. (stage = "done")' = (stage = "done")
    OBVIOUS
<1>3. x \in 1..(IF cached THEN 0 ELSE NumLeads) /\ x \in Flow!Leads
    BY DEF Leads, Flow!Leads
<1>4. ASSUME NEW from, NEW to, PhaseOf(x) = from, PhaseOf(x)' = to PROVE Flow!Move(x, from, to)
    BY <1>1, <1>2, <1>3, <1>4 DEF Flow!Move, BatchPhase
<1>5. Flow!LeadStep(x)
    BY <1>4 DEF Flow!LeadStep, Flow!StartEnriching, Flow!FinishEnriching,
           Flow!StartDiscovering, Flow!Deliver
<1>6. QED
    BY <1>3, <1>5 DEF Flow!FlowNext

\* The tasks of the first stage, without a cache.
LEMMA EnrichMoves ==
    ASSUME BatchInv, ~cached, NEW l \in Leads, EnrichStep(l)
    PROVE  Flow!FlowNext \/ UNCHANGED Flow!flowVars
<1>1. Shapes
    BY DEF BatchInv
<1>3. UNCHANGED <<cached, stage>>
    BY <1>1, TakeEffect, LookUpEffect, GiveUpEffect, BrowseEffect DEF EnrichStep
<1>4. CASE Take(l)
    <2>1. stage = "enriching" /\ pc[l] = "waiting" /\ pc' = [pc EXCEPT ![l] = "acquire"]
        BY <1>1, <1>4, TakeEffect
    <2>2. pc'[l] = "acquire" /\ \A k \in Leads \ {l} : PhaseOf(k)' = PhaseOf(k)
        BY <1>1, <1>3, <2>1, OthersStay
    <2>3. PhaseOf(l) = "waiting" /\ PhaseOf(l)' = "enriching"
        BY <1>3, <2>1, <2>2, PhaseInStage DEF Phasing
    <2>4. QED
        BY <1>3, <2>2, <2>3, BatchMoves
<1>5. CASE LookUp(l) \/ GiveUp(l)
    <2>1. stage = "enriching" /\ pc[l] = "browse" /\ pc' = [pc EXCEPT ![l] = "ended"]
        BY <1>1, <1>5, LookUpEffect, GiveUpEffect
    <2>2. pc'[l] = "ended" /\ \A k \in Leads \ {l} : PhaseOf(k)' = PhaseOf(k)
        BY <1>1, <1>3, <2>1, OthersStay
    <2>3. PhaseOf(l) = "enriching" /\ PhaseOf(l)' = "enriched"
        BY <1>3, <2>1, <2>2, PhaseInStage DEF Phasing
    <2>4. QED
        BY <1>3, <2>2, <2>3, BatchMoves
<1>6. CASE AcquirePage(l) \/ OpenFails(l) \/ TryAgain(l)
    <2>1. PICK to \in {"browse", "backoff"} :
            pc[l] \in {"acquire", "browse", "backoff"} /\ pc' = [pc EXCEPT ![l] = to]
        BY <1>1, <1>6, BrowseEffect
    <2>2. pc'[l] = to /\ \A k \in Leads \ {l} : PhaseOf(k)' = PhaseOf(k)
        BY <1>1, <1>3, <2>1, OthersStay
    <2>3. PhaseOf(l)' = PhaseOf(l)
        <3>1. CASE stage = "enriching"
            BY <1>3, <2>1, <2>2, <3>1, PhaseInStage DEF Phasing
        <3>2. CASE stage # "enriching"
            BY <1>3, <2>1, <2>2, <3>2 DEF PhaseOf
        <3>3. QED
            BY <3>1, <3>2
    <2>4. QED
        BY <1>3, <2>2, <2>3, BatchStays
<1>7. QED
    BY <1>4, <1>5, <1>6 DEF EnrichStep

\* The tasks of the second stage.
LEMMA SocialMoves ==
    ASSUME BatchInv, ~cached, NEW l \in Leads, SocialStep(l)
    PROVE  Flow!FlowNext \/ UNCHANGED Flow!flowVars
<1>1. Shapes /\ Sorted
    BY DEF BatchInv
<1>3. UNCHANGED <<cached, stage>>
    BY <1>1, SocialEffect
<1>4. stage # "enriching"
    BY <1>1, SocialEffect DEF Sorted
<1>5. CASE /\ pc[l] = "waiting"
           /\ \E to \in {"fetch", "search"} : pc' = [pc EXCEPT ![l] = to]
    <2>1. PICK to \in {"fetch", "search"} : pc' = [pc EXCEPT ![l] = to]
        BY <1>5
    <2>2. pc'[l] = to /\ \A k \in Leads \ {l} : PhaseOf(k)' = PhaseOf(k)
        BY <1>1, <1>3, <2>1, OthersStay
    <2>3. PhaseOf(l) = "enriched" /\ PhaseOf(l)' = "discovering"
        BY <1>3, <1>4, <1>5, <2>2, PhaseInStage DEF Phasing
    <2>4. QED
        BY <1>3, <2>2, <2>3, BatchMoves
<1>6. CASE /\ pc[l] \in {"fetch", "search"}
           /\ \E to \in {"search", "ended"} : pc' = [pc EXCEPT ![l] = to]
    <2>1. PICK to \in {"search", "ended"} : pc' = [pc EXCEPT ![l] = to]
        BY <1>6
    <2>2. pc'[l] = to /\ \A k \in Leads \ {l} : PhaseOf(k)' = PhaseOf(k)
        BY <1>1, <1>3, <2>1, OthersStay
    <2>3. PhaseOf(l) = "discovering"
        BY <1>4, <1>6, PhaseInStage DEF Phasing
    <2>4. CASE to = "search"
        <3>1. PhaseOf(l)' = PhaseOf(l)
            BY <1>3, <1>4, <2>2, <2>3, <2>4, PhaseInStage DEF Phasing
        <3>2. QED
            BY <1>3, <2>2, <3>1, BatchStays
    <2>5. CASE to = "ended"
        <3>1. PhaseOf(l)' = "delivered"
            BY <1>3, <1>4, <2>2, <2>5, PhaseInStage DEF Phasing
        <3>2. QED
            BY <1>3, <2>2, <2>3, <3>1, BatchMoves
    <2>6. QED
        BY <2>4, <2>5
<1>7. QED
    BY <1>1, <1>5, <1>6, SocialEffect

\* The ends of the stages, without a cache.
LEMMA StageMoves ==
    ASSUME BatchInv, ~cached, StageStep
    PROVE  Flow!FlowNext \/ UNCHANGED Flow!flowVars
<1>1. Shapes
    BY DEF BatchInv
<1>3. CASE EnrichmentStageOver
    <2>1. /\ stage = "enriching" /\ stage' = "discovering" /\ cached' = cached
          /\ pc' = [k \in Leads |-> "waiting"] /\ TasksOver
        BY <1>1, <1>3, EnrichmentStageOverEffect
    <2>2. \A k \in Leads : PhaseOf(k)' = "enriched"
        BY <2>1, PhaseInStage DEF Phasing
    <2>3. \A k \in Leads : PhaseOf(k) = IF pc[k] = "spared" THEN "waiting" ELSE "enriched"
        BY <2>1, PhaseInStage DEF Phasing, TasksOver
    <2>4. PICK S \in SUBSET Leads : S = {k \in Leads : pc[k] = "spared"}
        OBVIOUS
    <2>5. (stage = "done")' = (stage = "done")
        BY <2>1
    <2>6. CASE S = {}
        <3>1. BatchPhase' = BatchPhase
            BY <2>1, <2>2, <2>3, <2>4, <2>6 DEF BatchPhase
        <3>2. QED
            BY <2>1, <2>5, <3>1 DEF Flow!flowVars, BatchPhase
    <2>7. CASE S # {}
        <3>1. PICK l \in S : TRUE
            BY <2>7
        <3>2. BatchPhase' = [k \in Leads |-> IF k \in S THEN "enriched" ELSE BatchPhase[k]]
            BY <2>1, <2>2, <2>3, <2>4 DEF BatchPhase
        <3>3. \A k \in S : BatchPhase[k] = "waiting"
            BY <2>3, <2>4 DEF BatchPhase
        <3>4. S \in SUBSET (1..(IF cached THEN 0 ELSE NumLeads))
            BY DEF Leads
        <3>5. Flow!SkipEnriching(l)
            BY <2>1, <2>5, <3>1, <3>2, <3>3, <3>4 DEF Flow!SkipEnriching, BatchPhase, Flow!Leads, Leads
        <3>6. l \in Flow!Leads
            BY <3>1 DEF Leads, Flow!Leads
        <3>7. QED
            BY <3>5, <3>6 DEF Flow!FlowNext, Flow!LeadStep
    <2>8. QED
        BY <2>6, <2>7
<1>4. CASE SocialStageOver
    <2>1. /\ stage = "discovering" /\ stage' = "done" /\ UNCHANGED <<cached, pc>> /\ TasksOver
        BY <1>1, <1>4, SocialStageOverEffect
    <2>2. \A k \in Leads : PhaseOf(k) = "delivered" /\ PhaseOf(k)' = "delivered"
        BY <2>1, PhaseInStage DEF Phasing, TasksOver
    <2>3. BatchPhase' = BatchPhase
        BY <2>1, <2>2 DEF BatchPhase
    <2>4. \A k \in 1..(IF cached THEN 0 ELSE NumLeads) : BatchPhase[k] = "delivered"
        BY <2>2 DEF BatchPhase, Leads
    <2>5. Flow!Return
        BY <2>1, <2>3, <2>4 DEF Flow!Return, BatchPhase
    <2>6. QED
        BY <2>5 DEF Flow!FlowNext
<1>5. CASE BatchReturns
    BY <1>5 DEF BatchReturns
<1>6. QED
    BY <1>3, <1>4, <1>5 DEF StageStep

LEMMA FlowStep == BatchInv /\ [Next]_vars => [Flow!FlowNext]_Flow!flowVars
<1> SUFFICES ASSUME BatchInv, [Next]_vars PROVE Flow!FlowNext \/ UNCHANGED Flow!flowVars
    OBVIOUS
<1>1. Shapes
    BY DEF BatchInv
<1>2. CASE ~cached
    <2>1. CASE Tick \/ UNCHANGED vars
        <3>1. UNCHANGED <<cached, stage, pc>>
            BY <1>2, <2>1 DEF Tick, vars, callVars, taskVars
        <3>2. \A l \in Leads : PhaseOf(l)' = PhaseOf(l)
            BY <3>1 DEF PhaseOf
        <3>3. QED
            BY <3>1, <3>2, BatchStays
    <2>2. QED
        BY <1>2, <2>1, EnrichMoves, SocialMoves, StageMoves DEF Next, Returned
<1>3. CASE cached
    <2>1. CASE StageStep
        <3>1. /\ cached' = cached /\ stage # "done" /\ stage' = "done"
            BY <1>3, <2>1 DEF StageStep, EnrichmentStageOver, BatchReturns, SocialStageOver, callVars
        <3>2. BatchPhase' = BatchPhase
            BY <1>3, <3>1 DEF BatchPhase
        <3>3. 1..(IF cached THEN 0 ELSE NumLeads) = {}
            BY <1>3
        <3>4. Flow!Return
            BY <3>1, <3>2, <3>3 DEF Flow!Return, BatchPhase
        <3>5. QED
            BY <3>4 DEF Flow!FlowNext
    <2>2. CASE ~StageStep
        <3>1. UNCHANGED <<cached, stage>>
            <4>1. ASSUME NEW l \in Leads, EnrichStep(l) \/ SocialStep(l)
                  PROVE  UNCHANGED <<cached, stage>>
                BY <1>1, <4>1, TakeEffect, LookUpEffect, GiveUpEffect, BrowseEffect, SocialEffect
                DEF EnrichStep
            <4>2. CASE Tick \/ UNCHANGED vars
                BY <4>2 DEF Tick, vars, callVars, taskVars
            <4>4. QED
                BY <2>2, <4>1, <4>2 DEF Next, Returned
        <3>2. QED
            BY <1>3, <3>1, BatchStays
    <2>3. QED
        BY <2>1, <2>2
<1>4. QED
    BY <1>2, <1>3

(* Stage by stage instead of lead by lead, a batch implements the safety   *)
(* part of LeadFlow: every lead is looked up at most once, then discovered *)
(* at most once, and the last stage returns with every lead delivered.     *)
THEOREM BatchImplementsFlow ==
    Spec => Flow!FlowInit /\ [][Flow!FlowNext]_Flow!flowVars
<1>1. Init => Flow!FlowInit
    <2> SUFFICES ASSUME Init PROVE Flow!FlowInit
        OBVIOUS
    <2>1. BatchPhase = [l \in Leads |-> "waiting"]
        <3>1. \A l \in Leads : pc[l] \in {"waiting", "spared"} /\ stage = "enriching"
            BY DEF Init
        <3>2. \A l \in Leads : PhaseOf(l) = "waiting"
            BY <3>1, PhaseInStage DEF Phasing
        <3>3. QED
            BY <3>2 DEF BatchPhase
    <2>2. (IF cached THEN 0 ELSE NumLeads) \in 0..NumLeads
        BY SizesAssumption
    <2>3. (stage = "done") = FALSE
        BY DEF Init
    <2>4. QED
        BY <2>1, <2>2, <2>3 DEF Flow!FlowInit, BatchPhase, Flow!Leads, Leads
<1>2. QED
    BY <1>1, FlowStep, BatchInvariant, PTL DEF Spec
==============================================================================

------------------------------ MODULE Selection ------------------------------
(***************************************************************************)
(* SelectionEngine.select(): of all the links that were discovered for a   *)
(* business, the best one for each platform.  What the ranking reads off a *)
(* normalized URL are its merits; the text itself only tells two URLs      *)
(* apart.                                                                  *)
(***************************************************************************)
EXTENDS Naturals, Sequences, FiniteSets, SequencesExt

CONSTANTS
    ScoreHigh, ScoreMedium, ScoreLow, ScoreNone     \* CONFIDENCE_SCORE_...

ASSUME ScoresAssumption ==
    ScoreHigh \in Nat /\ ScoreMedium \in Nat /\ ScoreLow \in Nat /\ ScoreNone \in Nat

Platforms == {"instagram", "facebook"}
Tiers     == {"none", "low", "medium", "high"}

\* The shape of a profile, the platform's own domain, no query, one segment.
Merits == {"canonical", "domain", "query", "path"}

Key(c) == <<c.platform, c.normalized_url>>

Usable(c) == c.normalized_url # "none"

-----------------------------------------------------------------------------
(* What the code would be with one plausible mistake in it: nothing uses   *)
(* these; each stands in for a definition below to show that a property    *)
(* notices.                                                                *)

\* The duplicate that was seen first stays, whatever its score.
MergeFirst(d, c) ==
    IF ~Usable(c) THEN d
    ELSE IF \E i \in 1..Len(d.kept) : Key(d.kept[i]) = Key(c)
         THEN [d EXCEPT !.duplicates = @ + 1]
         ELSE [d EXCEPT !.kept = Append(@, c)]

-----------------------------------------------------------------------------
(* rank_score()                                                            *)

confidence_score(tier) ==
    CASE tier = "high"   -> ScoreHigh
      [] tier = "medium" -> ScoreMedium
      [] tier = "low"    -> ScoreLow
      [] OTHER           -> ScoreNone

source_weight(source) ==
    CASE source \in {"json_ld", "meta"}  -> 15
      [] source \in {"footer", "header"} -> 10
      [] source = "anchor"               -> 5
      [] OTHER                           -> 0

Bonus(merits) ==
    (IF "canonical" \in merits THEN 20 ELSE 0) + (IF "domain" \in merits THEN 10 ELSE 0)
    + (IF "query" \in merits THEN 5 ELSE 0) + (IF "path" \in merits THEN 5 ELSE 0)

rank_score(c) ==
    IF Usable(c)
    THEN confidence_score(c.confidence) + source_weight(c.source) + Bonus(c.merits)
    ELSE 0

-----------------------------------------------------------------------------
(* deduplicate(): of the candidates with one key the best stays, the first *)
(* of equally good ones, at the place where the key was first seen.  Those *)
(* without a URL come out behind the others only for select() to drop them *)
(* at once: they are left out here.                                        *)
Same(kept, c) == {i \in 1..Len(kept) : Key(kept[i]) = Key(c)}

\* One turn of the loop over the candidates.
Merge(d, c) ==
    LET better(i) == i \in Same(d.kept, c) /\ rank_score(c) > rank_score(d.kept[i]) IN
    CASE ~Usable(c) -> d
      [] Usable(c) /\ Same(d.kept, c) = {} -> [d EXCEPT !.kept = Append(@, c)]
      [] OTHER ->
            [kept |-> [i \in 1..Len(d.kept) |-> IF better(i) THEN c ELSE d.kept[i]],
             duplicates |-> d.duplicates + 1]

deduplicate(cs) ==
    LET loop[i \in 0..Len(cs)] ==
            IF i = 0 THEN [kept |-> << >>, duplicates |-> 0] ELSE Merge(loop[i - 1], cs[i])
    IN  loop[Len(cs)]

\* SocialUrlRanker.rank()[0]: sorted() keeps equally good ones in order.
IsBest(cs, among, i) ==
    /\ i \in among
    /\ \A j \in among : rank_score(cs[j]) <= rank_score(cs[i])
    /\ \A j \in among : j < i => rank_score(cs[j]) < rank_score(cs[i])

Best(cs, among) == cs[CHOOSE i \in among : IsBest(cs, among, i)]

Of(cs, p) == {i \in 1..Len(cs) : Usable(cs[i]) /\ cs[i].platform = p}

select(cs) ==
    LET deduped == deduplicate(cs).kept
    IN  [p \in Platforms |->
            IF Of(deduped, p) = {} THEN "none"
            ELSE Best(deduped, Of(deduped, p)).normalized_url]

\* What select() records in SelectionMetrics.
Recorded(cs) ==
    [candidates |-> Len(cs),
     rejected   |-> Cardinality({i \in 1..Len(cs) : ~Usable(cs[i])}),
     duplicates |-> deduplicate(cs).duplicates,
     selected   |-> Cardinality({p \in Platforms : select(cs)[p] # "none"})]

-----------------------------------------------------------------------------
(* The lists of up to three candidates that the properties range over: two *)
(* URLs with and without merits and one that cannot be normalized, on both *)
(* platforms, from a good source and a poor one, in every tier.            *)
Candidates ==
    {[platform |-> p, normalized_url |-> u[1], merits |-> u[2], source |-> s, confidence |-> t] :
        p \in Platforms, s \in {"footer", "search_fallback"}, t \in {"low", "medium", "high"},
        u \in {<<"none", {}>>, <<"clean", Merits>>, <<"odd", {"domain"}>>}}

CandidateLists == BoundedSeq(Candidates, 3)

\* The places where a URL stands among the candidates of a platform.
PlacesOf(cs, p, u) == {i \in 1..Len(cs) : Key(cs[i]) = <<p, u>>}
UrlsOf(cs, p) == {cs[i].normalized_url : i \in {j \in 1..Len(cs) : cs[j].platform = p}} \ {"none"}

Beats(cs, p, u, v) ==
    LET top(w) == {i \in PlacesOf(cs, p, w) :
                      \A j \in PlacesOf(cs, p, w) : rank_score(cs[j]) <= rank_score(cs[i])}
        first(w) == {i \in PlacesOf(cs, p, w) : \A j \in PlacesOf(cs, p, w) : i <= j}
    IN  \E i \in top(u), j \in top(v), k \in first(u), l \in first(v) :
            \/ rank_score(cs[i]) > rank_score(cs[j])
            \/ rank_score(cs[i]) = rank_score(cs[j]) /\ k < l

(* "Exactly one Instagram URL and one Facebook URL -- the best-ranked,     *)
(* deduplicated candidate per platform" (engine.py lines 2-4): the URL     *)
(* whose best mention has the highest score, in a draw the one mentioned   *)
(* first, even if its best mention comes late; none only without any.      *)
ChoiceIsBest(cs) ==
    \A p \in Platforms :
        LET chosen == select(cs)[p]
            urls == UrlsOf(cs, p)
        IN  IF urls = {} THEN chosen = "none"
            ELSE chosen \in urls /\ \A u \in urls \ {chosen} : Beats(cs, p, chosen, u)

EveryChoiceBest == \A cs \in CandidateLists : ChoiceIsBest(cs)

Distinct(cs) == {Key(cs[i]) : i \in {j \in 1..Len(cs) : Usable(cs[j])}}

(* Every candidate is accounted for once in the metrics: what is neither   *)
(* rejected nor a duplicate is one of the distinct URLs, of which at most  *)
(* one per platform is selected; and rejected ones are no duplicates of    *)
(* each other.                                                             *)
RecordSums(cs) ==
    LET r == Recorded(cs)
    IN  /\ r.candidates = r.rejected + r.duplicates + Cardinality(Distinct(cs))
        /\ r.selected = Cardinality({k[1] : k \in Distinct(cs)})

EveryRecordSums == \A cs \in CandidateLists : RecordSums(cs)
=============================================================================

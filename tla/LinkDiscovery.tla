---------------------------- MODULE LinkDiscovery ----------------------------
(***************************************************************************)
(* What social discovery and selection do with one lead, seen from the     *)
(* streaming stage: at most a page fetch and then at most one round of     *)
(* searches, each of which can only improve the best link known, and at    *)
(* the end nothing but usable links.  LeadStream moves its leads this way; *)
(* SocialDiscovery shows that the two platforms of a lead add up to it.    *)
(***************************************************************************)
VARIABLES stage, best

linkVars == <<stage, best>>

Stages == {"taken", "fetching", "searching", "delivered", "cancelled"}
Best   == {"none", "rejected", "usable"}

LinkTypeOK == stage \in Stages /\ best \in Best

LinkInit == stage = "taken" /\ best = "none"

Better(found) == CASE found = "none"     -> Best
                   [] found = "rejected" -> {"rejected", "usable"}
                   [] found = "usable"   -> {"usable"}

Selected(found) == IF found = "usable" THEN "usable" ELSE "none"

\* The website is a profile, or there is nothing to fetch.
SearchAtOnce ==
    /\ stage = "taken" /\ stage' = "searching"
    /\ best' \in Best

FetchFirst ==
    /\ stage = "taken" /\ stage' = "fetching"
    /\ best' = best

\* Both links are on the page, the page cannot be read, or some are missing.
Fetched ==
    /\ stage = "fetching"
    /\ \/ stage' = "delivered" /\ \E found \in Better(best) : best' = Selected(found)
       \/ stage' = "searching" /\ best' \in Better(best)

Searched ==
    /\ stage = "searching" /\ stage' = "delivered"
    /\ \E found \in Better(best) : best' = Selected(found)

\* The task that looks after the lead is cancelled.
GiveUp ==
    /\ stage \in {"fetching", "searching"} /\ stage' = "cancelled"
    /\ best' = best

LinkStep == SearchAtOnce \/ FetchFirst \/ Fetched \/ Searched

LinkSpec == LinkInit /\ [][LinkStep \/ GiveUp]_linkVars /\ WF_linkVars(LinkStep)
=============================================================================

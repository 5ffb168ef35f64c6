------------------------------ MODULE LeadFlow ------------------------------
(***************************************************************************)
(* What PipelineOrchestrator._stream_enrichment_social_selection promises  *)
(* of every lead, whatever workers and queues lie underneath: it is looked *)
(* up at most once for its website and at most once for its social links,  *)
(* in that order, it always reaches the end, and once a graceful stop was  *)
(* requested no lookup starts any more.                                    *)
(***************************************************************************)
EXTENDS Naturals

CONSTANT MaxLeads           \* the most leads discovery hands over

Leads == 1..MaxLeads

VARIABLES
    total,                  \* the leads of this run are 1..total
    phase,                  \* how far each lead has come
    stopped,                \* a graceful stop was requested
    done                    \* the stage has returned

flowVars == <<total, phase, stopped, done>>

Phases == {"waiting", "enriching", "enriched", "discovering", "delivered"}

FlowTypeOK ==
    /\ total \in 0..MaxLeads
    /\ phase \in [Leads -> Phases]
    /\ stopped \in BOOLEAN
    /\ done \in BOOLEAN

FlowInit ==
    /\ total \in 0..MaxLeads
    /\ phase = [l \in Leads |-> "waiting"]
    /\ stopped \in BOOLEAN
    /\ done = FALSE

Move(l, from, to) ==
    /\ l \in 1..total
    /\ phase[l] = from
    /\ phase' = [phase EXCEPT ![l] = to]
    /\ UNCHANGED <<total, stopped, done>>

\* A lookup starts only while no stop was requested.
StartEnriching(l)   == ~stopped /\ Move(l, "waiting", "enriching")
FinishEnriching(l)  == Move(l, "enriching", "enriched")
StartDiscovering(l) == ~stopped /\ Move(l, "enriched", "discovering")
Deliver(l)          == Move(l, "discovering", "delivered")

\* Leads that need no lookup, or come after the stop, go on, one or several
\* of them at a time.
SkipEnriching(l) ==
    \E S \in SUBSET (1..total) :
        /\ l \in S /\ \A k \in S : phase[k] = "waiting"
        /\ phase' = [k \in Leads |-> IF k \in S THEN "enriched" ELSE phase[k]]
        /\ UNCHANGED <<total, stopped, done>>

\* Without social discovery a lead is delivered only in a stopped run.
DeliverUndiscovered(l) == stopped /\ Move(l, "enriched", "delivered")

\* The stage returns once every lead is through.
Return ==
    /\ ~done
    /\ \A l \in 1..total : phase[l] = "delivered"
    /\ done' = TRUE
    /\ UNCHANGED <<total, phase, stopped>>

Stop ==
    /\ ~stopped
    /\ stopped' = TRUE
    /\ UNCHANGED <<total, phase, done>>

LeadStep(l) ==
    \/ StartEnriching(l)
    \/ FinishEnriching(l)
    \/ SkipEnriching(l)
    \/ StartDiscovering(l)
    \/ Deliver(l)
    \/ DeliverUndiscovered(l)

FlowNext == (\E l \in Leads : LeadStep(l)) \/ Return \/ Stop

FlowSpec ==
    /\ FlowInit
    /\ [][FlowNext]_flowVars
    /\ WF_flowVars(Return)
    /\ \A l \in Leads : WF_flowVars(LeadStep(l))
=============================================================================

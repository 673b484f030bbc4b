----------------------------- MODULE LeadJourney -----------------------------
(***************************************************************************)
(* A lead's way through the system: its status and outcome                 *)
(* (LeadLifecycle), enrichment and score, its drafts, and the follow-up.   *)
(* The models share no variable.                                           *)
(***************************************************************************)
EXTENDS LeadLifecycle

CONSTANTS Pages, Businesses, Enrichers, MaxShots, MaxAnalyses,  \* Enrichment
          Tasks, Workers, MaxRequests,      \* Drafts
          followup_days, MaxDays            \* FollowUp

VARIABLES part,   \* the component that moves, in the runs that move one at a time
          site, work, disk, shots, analyses, overlapped,
          draftLead, profile, drafts, task, own, saw, requests,
          status, contacted, updated, analysed, inbound, check, found, flagged, told

\* The follow-up setting is a number of days.
ASSUME FollowUpAssumption == followup_days \in Nat /\ MaxDays \in Nat

\* What create_lead stores of a business, and a bound.
ASSUME EnrichAssumption ==
  /\ MaxShots \in Nat /\ MaxAnalyses \in Nat
  /\ \A b \in Businesses : /\ b.website \in {"none", "instagram", "social", "site"}
                           /\ b.instagram \in BOOLEAN /\ b.email \in {"none", "own"}

\* A request that generates a draft is no task.
ASSUME DraftAssumption == "request" \notin Tasks

Enrich == INSTANCE Enrichment WITH lead <- site
Queue == INSTANCE Drafts WITH lead <- draftLead
Silent == INSTANCE FollowUp

enrichVars == <<site, work, disk, shots, analyses, overlapped>>
draftVars == <<draftLead, profile, drafts, task, own, saw, requests>>
silentVars == <<status, contacted, updated, analysed, inbound, check, found, flagged, told>>

---------------------------------------------------------------------------
\* The rows, signals, drafts and checks of the component that moves keep their types.
TypesOK ==
  /\ part = "status" => TypeOK
  /\ part = "enrich" => Enrich!TypeOK
  /\ part = "queue" => Queue!TypeOK
  /\ part = "silent" => Silent!TypeOK

\* However often and by however many sessions a lead is enriched (enrich_lead), its
\* committed signals are those of one analysis, unless the session that stored them had
\* read the old ones before another session replaced them.
SignalsOfOneAnalysis == Enrich!SignalsOfOneAnalysis

\* A draft task adds no draft beside one that was active at its check
\* (run_outreach_draft_generation_workflow), through failures, retries and requests:
\* duplicates come of overlapping tasks and synchronous requests alone.
DuplicatesOverlap == part = "queue" => Queue!DuplicatesOverlap

\* task_check_followup picks no lead before followup_days have passed since its
\* contact, however old its row was when the status was set.
NotTooEarly == Silent!NotTooEarly
=============================================================================

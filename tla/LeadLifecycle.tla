--------------------------- MODULE LeadLifecycle ---------------------------
(***************************************************************************)
(* The status of leads as several sessions write it: PATCH                 *)
(* /leads/{id}/status (and the agent's tool) through update_lead_status,   *)
(* with its timeline event and outcome snapshot; the enrichment and        *)
(* scoring steps; and task_rescore_all, which scores every lead again.     *)
(* A session reads the row, works, and writes; the UPDATE locks the row,   *)
(* so from there to the commit it is one step.                             *)
(***************************************************************************)
EXTENDS Naturals, Sequences

CONSTANTS Leads,
          Patches,     \* status requests
          StepTasks,   \* enrichment or scoring steps
          Targets,     \* statuses requests ask for
          MaxWeights   \* bound: changes of the scoring weights

ASSUME Bound == MaxWeights \in Nat

VARIABLES lead,      \* rows: status, enriched_at, and the weights version of its score (0: none)
          events,    \* LeadEvent rows of type status_changed, in order
          snapshot,  \* OutcomeSnapshot rows: outcome or "none"
          session,   \* what each session read, and wants to write
          weights,   \* version of the scoring weights in force
          rescore,   \* task_rescore_all
          first      \* history: the first outcome committed

vars == <<lead, events, snapshot, session, weights, rescore, first>>

LeadStatus == {"new", "enriched", "scored", "qualified", "draft_ready", "approved", "contacted",
               "opened", "replied", "meeting", "won", "lost", "suppressed"}
Outcomes == {"won", "lost"}

ASSUME TargetsAssumption == Targets \subseteq LeadStatus
ASSUME SessionsAssumption == Patches \cap StepTasks = {}

Idle == [at |-> "idle"]
Done == [at |-> "done"]

Init ==
  /\ lead = [l \in Leads |-> [status |-> "new", enriched |-> FALSE, scored |-> 0]]
  /\ events = [l \in Leads |-> <<>>]
  /\ snapshot = [l \in Leads |-> "none"] /\ first = [l \in Leads |-> "none"]
  /\ session = [p \in Patches \cup StepTasks |-> Idle]
  /\ weights = 1
  /\ rescore = [at |-> "idle", todo |-> {}, with |-> 0]

---------------------------------------------------------------------------
(* update_lead_status.                                                     *)

PatchRead(p) ==
  /\ session[p] = Idle
  /\ \E l \in Leads, s \in Targets :
       session' = [session EXCEPT ![p] = [at |-> "read", lead |-> l, to |-> s, was |-> lead[l].status]]
  /\ UNCHANGED <<lead, events, snapshot, weights, rescore, first>>

\* Mutant of capture_outcome_snapshot: it overwrites an earlier snapshot.
capture_again(l, s) == IF s \in Outcomes THEN s ELSE snapshot[l]

\* One snapshot per lead; read after the row was locked.
capture_outcome_snapshot(l, s) == IF s \in Outcomes /\ snapshot[l] = "none" THEN s ELSE snapshot[l]

\* A status equal to the one read emits no UPDATE, no event and no log.
PatchWrite(p) ==
  /\ session[p].at = "read"
  /\ LET l == session[p].lead
         s == session[p].to
         changed == s # session[p].was IN
     /\ lead' = [lead EXCEPT ![l].status = IF changed THEN s ELSE @]
     /\ events' = [events EXCEPT ![l] = IF changed THEN Append(@, <<session[p].was, s>>) ELSE @]
     /\ snapshot' = [snapshot EXCEPT ![l] = capture_outcome_snapshot(l, s)]
     /\ first' = [first EXCEPT ![l] = IF @ = "none" /\ s \in Outcomes THEN s ELSE @]
  /\ session' = [session EXCEPT ![p] = Done]
  /\ UNCHANGED <<weights, rescore>>

\* A failed flush of the event or the snapshot is swallowed, but it leaves
\* the session unusable: the endpoint's commit raises and nothing is stored.
PatchFails(p) ==
  /\ session[p].at = "read"
  /\ session' = [session EXCEPT ![p] = Done]
  /\ UNCHANGED <<lead, events, snapshot, weights, rescore, first>>

---------------------------------------------------------------------------
(* enrich_lead and score_lead in a Celery step: no event of type           *)
(* status_changed is emitted.                                              *)

StepRead(t) ==
  /\ session[t] = Idle
  /\ \E l \in Leads, s \in {"enriched", "scored"} :
       /\ IF s = "enriched" THEN ~lead[l].enriched ELSE lead[l].scored = 0   \* the idempotency guards
       /\ session' = [session EXCEPT ![t] = [at |-> "read", lead |-> l, to |-> s, was |-> lead[l].status]]
  /\ UNCHANGED <<lead, events, snapshot, weights, rescore, first>>

\* Mutant of StepWrite: a scoring step invents a status.
StepWriteUnknown(t) ==
  /\ session[t].at = "read"
  /\ lead' = [lead EXCEPT ![session[t].lead].status = "analysed"]
  /\ session' = [session EXCEPT ![t] = Done]
  /\ UNCHANGED <<events, snapshot, weights, rescore, first>>

StepWrite(t) ==
  /\ session[t].at = "read"
  /\ LET l == session[t].lead
         s == session[t].to IN
     lead' = [lead EXCEPT ![l].status = IF s # session[t].was THEN s ELSE @,
                          ![l].enriched = @ \/ s = "enriched",
                          ![l].scored = IF s = "scored" THEN weights ELSE @]
  /\ session' = [session EXCEPT ![t] = Done]
  /\ UNCHANGED <<events, snapshot, weights, rescore, first>>

---------------------------------------------------------------------------
(* task_rescore_all.                                                       *)

ChangeWeights ==
  /\ weights <= MaxWeights
  /\ weights' = weights + 1
  /\ UNCHANGED <<lead, events, snapshot, session, rescore, first>>

\* The ids of the leads that have a score.
RescoreBegin ==
  /\ rescore.at = "idle"
  /\ rescore' = [at |-> "loop", todo |-> {l \in Leads : lead[l].scored > 0}, with |-> weights]
  /\ UNCHANGED <<lead, events, snapshot, session, weights, first>>

\* score_lead flushes in a session that is closed without a commit.
RescoreLead ==
  /\ rescore.at = "loop"
  /\ \E l \in rescore.todo : rescore' = [rescore EXCEPT !.todo = @ \ {l}]
  /\ UNCHANGED <<lead, events, snapshot, session, weights, first>>

\* Asked to stop: checked before each lead.
RescoreStop ==
  /\ rescore.at = "loop" /\ rescore.todo # {}
  /\ rescore' = [rescore EXCEPT !.at = "stopped"]
  /\ UNCHANGED <<lead, events, snapshot, session, weights, first>>

RescoreDone ==
  /\ rescore.at = "loop" /\ rescore.todo = {}
  /\ rescore' = [rescore EXCEPT !.at = "done"]
  /\ UNCHANGED <<lead, events, snapshot, session, weights, first>>

Next ==
  \/ \E p \in Patches : PatchRead(p) \/ PatchWrite(p) \/ PatchFails(p)
  \/ \E t \in StepTasks : StepRead(t) \/ StepWrite(t)
  \/ ChangeWeights \/ RescoreBegin \/ RescoreLead \/ RescoreStop \/ RescoreDone

Spec == Init /\ [][Next]_vars

---------------------------------------------------------------------------
TypeOK ==
  /\ \A l \in Leads :
       /\ lead[l].status \in LeadStatus /\ lead[l].scored \in 0..weights
       /\ snapshot[l] \in Outcomes \cup {"none"}
       /\ \A i \in DOMAIN events[l] : events[l][i] \in LeadStatus \X LeadStatus
  /\ weights \in 1..(MaxWeights + 1)
  /\ rescore.at \in {"idle", "loop", "stopped", "done"} /\ rescore.todo \subseteq Leads

(* The snapshot the learning reads is of the first outcome a lead reached, *)
(* whatever requests race for it ("one snapshot per lead").                *)
SnapshotIsFirstOutcome == \A l \in Leads : snapshot[l] = first[l]

(* A lead that is WON or LOST has its snapshot: the swallowed failure of   *)
(* the capture takes the status with it.                                   *)
OutcomeHasSnapshot == \A l \in Leads : lead[l].status \in Outcomes => snapshot[l] # "none"

(* Every outcome has its one snapshot, of the first outcome.               *)
(* (capture_outcome_snapshot)                                              *)
OutcomeSnapshots == SnapshotIsFirstOutcome /\ OutcomeHasSnapshot

(* The timeline is a history: each status event starts where the one       *)
(* before it ended and the last one ended where the lead is                *)
(* (event_service: "any observable lead transition").                      *)
TimelineChains ==
  \A l \in Leads :
    /\ \A i \in 1..(Len(events[l]) - 1) : events[l][i][2] = events[l][i + 1][1]
    /\ events[l] # <<>> => events[l][Len(events[l])][2] = lead[l].status

(* After a rescore that ran to its end under unchanged weights, every lead *)
(* it visited carries the score of those weights.                          *)
RescoreApplies ==
  rescore.at = "done" /\ rescore.with = weights =>
    \A l \in Leads : lead[l].scored \in {0, weights}
===========================================================================

------------------------------- MODULE Drafts -------------------------------
(***************************************************************************)
(* The outreach drafts of one lead: the draft task's check for an active   *)
(* draft, the e-mail and WhatsApp drafts it generates in one transaction,  *)
(* the synchronous endpoint, the beat task that dispatches new leads and   *)
(* the automation that approves and sends.  What the pipeline computed of  *)
(* the lead before (quality, contact method) is chosen at the start.       *)
(***************************************************************************)
EXTENDS Naturals, Sequences, SequencesExt, FiniteSets

CONSTANTS Tasks,        \* draft tasks that may be dispatched
          Workers,      \* draft tasks that run at the same time
          MaxRequests   \* bound on synchronous draft requests

Profiles ==
  [quality : {"high", "low"}, email : BOOLEAN, phone : BOOLEAN, suppressed : BOOLEAN,
   method : {"email", "whatsapp", "call"}, wa_enabled : BOOLEAN, approval : BOOLEAN]

VARIABLES lead,      \* the lead's status
          profile,   \* what is known of the lead, and the settings
          drafts,    \* the committed drafts in the order of their commit
          task,      \* where each task is
          own,       \* the e-mail draft of each task, 0 if none
          saw,       \* how many drafts were committed at each task's last check
          requests   \* synchronous requests so far

vars == <<lead, profile, drafts, task, own, saw, requests>>

\* The row, with who generated it and what that task's check saw.
Draft(ch, by, seen) == [channel |-> ch, status |-> "pending_review", by |-> by, saw |-> seen]
Request == "request"
Active == {d \in DOMAIN drafts : drafts[d].status \in {"pending_review", "approved"}}
Running == {t \in Tasks : task[t] \in {"checked", "drafted"}}

TypeOK ==
  /\ lead \in {"new", "enriched", "qualified", "draft_ready", "contacted"}
  /\ \A d \in DOMAIN drafts :
       /\ drafts[d].channel \in {"email", "whatsapp"}
       /\ drafts[d].status \in {"pending_review", "approved", "sent"}
  /\ own \in [Tasks -> 0..Len(drafts)] /\ saw \in [Tasks -> 0..Len(drafts)]
  /\ task \in [Tasks -> {"none", "queued", "ready", "checked", "drafted", "ok", "skipped",
                         "failed", "error", "multiple"}]

Init ==
  /\ lead = "new" /\ profile \in Profiles /\ drafts = <<>>
  /\ task = [t \in Tasks |-> "none"] /\ own = [t \in Tasks |-> 0]
  /\ saw = [t \in Tasks |-> 0] /\ requests = 0

---------------------------------------------------------------------------
\* The beat task dispatches the pipeline of a lead that is new, unless it is
\* switched off or the queues are long, which is no step here.
task_auto_process_new_leads(t) ==
  /\ lead = "new" /\ task[t] = "none"
  /\ task' = [task EXCEPT ![t] = "queued"]
  /\ UNCHANGED <<lead, profile, drafts, own, saw, requests>>

\* The steps before the draft; enrichment moves the lead on.
PipelineSteps(t) ==
  /\ task[t] = "queued" /\ task' = [task EXCEPT ![t] = "ready"]
  /\ lead' = IF lead = "new" THEN "enriched" ELSE lead
  /\ UNCHANGED <<profile, drafts, own, saw, requests>>

generate_draft_async(t) ==
  /\ task[t] = "none" /\ task' = [task EXCEPT ![t] = "ready"]
  /\ UNCHANGED <<lead, profile, drafts, own, saw, requests>>

\* Mutant of Check: only approved drafts are looked for.
CheckPending(t) ==
  /\ task[t] = "ready" /\ Cardinality(Running) < Workers
  /\ LET found == {d \in Active : drafts[d].status = "approved"} IN
     task' = [task EXCEPT ![t] =
       IF found = {} THEN "checked" ELSE IF Cardinality(found) = 1 THEN "skipped" ELSE "multiple"]
  /\ saw' = [saw EXCEPT ![t] = Len(drafts)]
  /\ UNCHANGED <<lead, profile, drafts, own, requests>>

\* The guard of the workflow; scalar_one_or_none raises on two rows.
Check(t) ==
  /\ task[t] = "ready" /\ Cardinality(Running) < Workers
  /\ task' = [task EXCEPT ![t] =
       IF Active = {} THEN "checked" ELSE IF Cardinality(Active) = 1 THEN "skipped" ELSE "multiple"]
  /\ saw' = [saw EXCEPT ![t] = Len(drafts)]
  /\ UNCHANGED <<lead, profile, drafts, own, requests>>

\* should_generate_outreach_email_draft.
wants_email == profile.quality = "high" /\ profile.email
\* generate_whatsapp_draft is tried, and may raise and be logged.
wants_whatsapp == profile.wa_enabled /\ profile.phone
preferred_whatsapp == profile.method = "whatsapp" /\ wants_whatsapp
WhatsApps(t, wanted) == IF wanted THEN {<<>>, <<Draft("whatsapp", t, saw[t])>>} ELSE {<<>>}

\* The workflow ends without an e-mail draft: the lead is marked qualified.
CommitQualified(t) ==
  /\ task[t] = "checked"
  /\ \/ /\ profile.method = "call" /\ drafts' = drafts
     \/ /\ profile.method # "call" /\ ~wants_email
        /\ \E wa \in WhatsApps(t, preferred_whatsapp) : drafts' = drafts \o wa
  /\ lead' = "qualified" /\ task' = [task EXCEPT ![t] = "skipped"]
  /\ UNCHANGED <<profile, own, saw, requests>>

\* A suppressed address: generate_outreach_draft returns nothing and the
\* WhatsApp draft of this session goes with the rollback.
Rollback(t) ==
  /\ task[t] = "checked" /\ profile.method # "call" /\ wants_email /\ profile.suppressed
  /\ task' = [task EXCEPT ![t] = "failed"]
  /\ UNCHANGED <<lead, profile, drafts, own, saw, requests>>

\* The e-mail draft and, if the settings ask for it, the WhatsApp draft are
\* committed together: the preferred one before it, or else one after it.
CommitDraft(t) ==
  /\ task[t] = "checked" /\ profile.method # "call" /\ wants_email /\ ~profile.suppressed
  /\ \E before \in WhatsApps(t, preferred_whatsapp) :
       \E after \in WhatsApps(t, wants_whatsapp /\ before = <<>>) :
         /\ drafts' = drafts \o before \o <<Draft("email", t, saw[t])>> \o after
         /\ own' = [own EXCEPT ![t] = Len(drafts) + Len(before) + 1]
  /\ lead' = "draft_ready" /\ task' = [task EXCEPT ![t] = "drafted"]
  /\ UNCHANGED <<profile, saw, requests>>

\* The model, the database or the worker fails, before the commit of the
\* drafts or after it.
GenerationError(t) ==
  /\ task[t] \in {"checked", "drafted"} /\ task' = [task EXCEPT ![t] = "error"]
  /\ UNCHANGED <<lead, profile, drafts, own, saw, requests>>

\* Celery runs a failed task again.
Retry(t) ==
  /\ task[t] \in {"error", "multiple"} /\ task' = [task EXCEPT ![t] = "ready"]
  /\ UNCHANGED <<lead, profile, drafts, own, saw, requests>>

\* run_outreach_draft_automation on the e-mail draft of this task: nothing
\* when the operator approves, else approved, and sent if sending works.
Automation(t) ==
  /\ task[t] = "drafted" /\ task' = [task EXCEPT ![t] = "ok"]
  /\ \/ /\ profile.approval \/ drafts[own[t]].status # "pending_review"
        /\ UNCHANGED <<drafts, lead>>
     \/ /\ ~profile.approval /\ drafts[own[t]].status = "pending_review"
        /\ drafts' = [drafts EXCEPT ![own[t]].status = "approved"] /\ lead' = lead
     \/ /\ ~profile.approval /\ drafts[own[t]].status = "pending_review"
        /\ drafts' = [drafts EXCEPT ![own[t]].status = "sent"] /\ lead' = "contacted"
  /\ UNCHANGED <<profile, own, saw, requests>>

\* POST /outreach/{lead_id}/draft generates without a look at other drafts.
generate_draft(ch) ==
  /\ requests < MaxRequests /\ requests' = requests + 1
  /\ IF ch = "email" THEN profile.email /\ ~profile.suppressed ELSE profile.phone
  /\ drafts' = Append(drafts, Draft(ch, Request, 0))
  /\ lead' = IF ch = "email" THEN "draft_ready" ELSE lead
  /\ UNCHANGED <<profile, task, own, saw>>

Next ==
  \/ \E t \in Tasks :
       \/ task_auto_process_new_leads(t)
       \/ PipelineSteps(t)
       \/ generate_draft_async(t)
       \/ Check(t)
       \/ CommitQualified(t)
       \/ Rollback(t)
       \/ CommitDraft(t)
       \/ GenerationError(t)
       \/ Retry(t)
       \/ Automation(t)
  \/ \E ch \in {"email", "whatsapp"} : generate_draft(ch)

Spec == Init /\ [][Next]_vars

---------------------------------------------------------------------------
(* A draft task adds no draft beside one that was active at its check, even *)
(* when it fails after its commit and is run again: of two active drafts of *)
(* one channel the later one is a synchronous request's, or was generated   *)
(* by another task that had checked before the earlier one was committed.   *)
DuplicatesOverlap ==
  \A d, e \in Active : d < e /\ drafts[d].channel = drafts[e].channel =>
    \/ drafts[e].by = Request
    \/ drafts[d].by # drafts[e].by /\ drafts[e].saw < d

(* The check for an active draft keeps a lead at one active draft per      *)
(* channel (outreach_draft_generation.py:65): not with two tasks at once.  *)
OneActivePerChannel ==
  \A d, e \in Active : drafts[d].channel = drafts[e].channel => d = e

(* A draft task that finds active drafts is skipped; it does not fail on   *)
(* them.                                                                   *)
GuardSkips == \A t \in Tasks : task[t] # "multiple"
=============================================================================

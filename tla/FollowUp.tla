------------------------------ MODULE FollowUp ------------------------------
(***************************************************************************)
(* The follow-up check: every six hours a beat task looks for contacted    *)
(* leads that went silent and writes one notification for each, all in one *)
(* transaction.  Days are counted from the contact and from the last       *)
(* change of the lead's row.  How a notification may be refused or lost in *)
(* a race is the subject of Notifications.                                 *)
(***************************************************************************)
EXTENDS Naturals, FiniteSets

CONSTANTS Leads,
          followup_days,   \* the operator's setting
          MaxDays          \* bound on the days that are counted

VARIABLES status,      \* of each lead
          contacted,   \* days since the lead became contacted
          updated,     \* days since updated_at
          analysed,    \* leads with an llm_summary
          inbound,     \* leads with an inbound message
          check,       \* the check: "none", "read", or "done" and nothing happened since
          found,       \* leads the running check will notify
          flagged,     \* dedup keys followup_needed:<lead>
          told         \* leads notified since they were last contacted

leadVars == <<status, contacted, updated, analysed, inbound>>
vars == <<leadVars, check, found, flagged, told>>

\* The statuses that matter here: not yet contacted, contacted, and two later ones.
Statuses == {"draft_ready", "contacted", "replied", "lost"}

TypeOK ==
  /\ status \in [Leads -> Statuses]
  /\ contacted \in [Leads -> 0..MaxDays] /\ updated \in [Leads -> 0..MaxDays]
  /\ {analysed, inbound, found, flagged, told} \subseteq SUBSET Leads
  /\ check \in {"none", "read", "done"} /\ (check # "read" => found = {})

Init ==
  /\ status = [l \in Leads |-> "draft_ready"]
  /\ contacted = [l \in Leads |-> 0] /\ updated = [l \in Leads |-> 0]
  /\ analysed \in SUBSET Leads
  /\ inbound = {} /\ found = {} /\ flagged = {} /\ told = {} /\ check = "none"

\* A step of somebody else: what a finished check said is no longer current.
Elsewhere ==
  /\ check' = IF check = "done" THEN "none" ELSE check
  /\ UNCHANGED <<found, flagged>>

Day ==
  /\ \A l \in Leads : updated[l] < MaxDays /\ contacted[l] < MaxDays
  /\ updated' = [l \in Leads |-> updated[l] + 1]
  /\ contacted' = [l \in Leads |-> IF status[l] = "contacted" THEN contacted[l] + 1 ELSE 0]
  /\ UNCHANGED <<status, analysed, inbound, told>> /\ Elsewhere

\* An UPDATE of the lead's row sets updated_at.
Touch(l) == updated' = [updated EXCEPT ![l] = 0]

\* Mutant of SetStatus: the status is written by a statement that leaves updated_at alone.
SetStatusOnly(l, s) ==
  /\ s # status[l] /\ status' = [status EXCEPT ![l] = s]
  /\ contacted' = [contacted EXCEPT ![l] = 0]
  /\ told' = told \ {l}
  /\ UNCHANGED <<updated, analysed, inbound>> /\ Elsewhere
\* The operator, a send, a scoring or a new draft changes the status.
SetStatus(l, s) ==
  /\ s # status[l] /\ status' = [status EXCEPT ![l] = s]
  /\ contacted' = [contacted EXCEPT ![l] = 0]
  /\ told' = told \ {l}
  /\ Touch(l) /\ UNCHANGED <<analysed, inbound>> /\ Elsewhere

\* POST /scoring/{id}/analyze writes the summary, once.
Analyse(l) ==
  /\ l \notin analysed /\ analysed' = analysed \cup {l}
  /\ Touch(l) /\ UNCHANGED <<status, contacted, inbound, told>> /\ Elsewhere

\* An inbound message is stored with its lead; one that answers a delivery
\* also advances a contacted lead, in the same transaction.
InboundStored(l, answers) ==
  /\ l \notin inbound /\ inbound' = inbound \cup {l}
  /\ IF answers /\ status[l] = "contacted"
     THEN status' = [status EXCEPT ![l] = "replied"] /\ Touch(l)
     ELSE UNCHANGED <<status, updated>>
  /\ UNCHANGED <<contacted, analysed, told>> /\ Elsewhere

find_leads_needing_followup ==
  IF followup_days = 0 THEN {}
  ELSE {l \in Leads : status[l] = "contacted" /\ updated[l] > followup_days /\ l \notin inbound}

\* The check reads its leads ...
task_check_followup ==
  /\ check # "read" /\ check' = "read" /\ found' = find_leads_needing_followup
  /\ UNCHANGED <<leadVars, flagged, told>>
\* ... adds a notification for each whose key is new, and commits once.
CheckCommit ==
  /\ check = "read" /\ check' = "done" /\ found' = {}
  /\ flagged' = flagged \cup found /\ told' = told \cup (found \ flagged)
  /\ UNCHANGED leadVars
\* The check dies or raises before its commit; its retry, or the next beat, reads again.
CheckFails ==
  check = "read" /\ check' = "none" /\ found' = {} /\ UNCHANGED <<leadVars, flagged, told>>

Next ==
  \/ \E l \in Leads :
       \/ Analyse(l)
       \/ \E s \in Statuses : SetStatus(l, s)
       \/ \E answers \in BOOLEAN : InboundStored(l, answers)
  \/ Day \/ task_check_followup \/ CheckCommit \/ CheckFails

Spec == Init /\ [][Next]_vars

---------------------------------------------------------------------------
\* A check (task_check_followup) picks no lead before more than followup_days have
\* passed since it was contacted, however old its row was when the status was set.
NotTooEarly == [][check' = "read" => \A l \in found' \ found : contacted[l] > followup_days]_vars

\* After a check every contacted lead that has been silent for more than
\* followup_days has been notified since that contact, whatever else changed its
\* row (find_leads_needing_followup compares updated_at) and however often it was
\* contacted before (the dedup key of the notification names only the lead).
NotTooLate ==
  check = "done" /\ followup_days > 0 =>
    \A l \in Leads : status[l] = "contacted" /\ l \notin inbound /\ contacted[l] > followup_days
                       => l \in told
=============================================================================

----------------------------- MODULE LeadsProofs -----------------------------
(***************************************************************************)
(* A lead's way through the system, for every set of leads, sessions and   *)
(* tasks: its status and outcome snapshot, the signals of its website, its *)
(* drafts, and the follow-up check.                                        *)
(***************************************************************************)
EXTENDS LeadJourney, FiniteSums, Integers

LEMMA SameCardinality ==
  \A S : /\ Queue!Cardinality(S) = Cardinality(S)
         /\ Enrich!Cardinality(S) = Cardinality(S)
  BY DEF Queue!Cardinality, Enrich!Cardinality, Cardinality

---------------------------------------------------------------------------
(* Status and outcome                                                      *)

Sessions == {Idle, Done} \cup [at : {"read"}, lead : Leads, to : LeadStatus, was : LeadStatus]

LeadRows == [status : LeadStatus, enriched : BOOLEAN, scored : Nat]

RowsOK ==
  /\ lead \in [Leads -> LeadRows] /\ \A l \in Leads : lead[l].scored <= weights
  /\ events \in [Leads -> Seq(LeadStatus \X LeadStatus)]
  /\ snapshot \in [Leads -> Outcomes \cup {"none"}]
  /\ first \in [Leads -> Outcomes \cup {"none"}]
  /\ session \in [Patches \cup StepTasks -> Sessions]
  /\ weights \in 1..(MaxWeights + 1)
  /\ rescore \in [at : {"idle", "loop", "stopped", "done"}, todo : SUBSET Leads, with : Nat]

(* A step task writes no outcome. *)
StepsOK == \A t \in StepTasks : session[t].at = "read" => session[t].to \in {"enriched", "scored"}

StatusInv == RowsOK /\ StepsOK /\ OutcomeSnapshots

LEMMA StatusInit == Init => StatusInv
  <1> SUFFICES ASSUME Init PROVE StatusInv
    OBVIOUS
  <1>1. RowsOK BY Bound DEF Init, RowsOK, LeadRows, Sessions, LeadStatus
  <1>2. StepsOK BY DEF Init, StepsOK, Idle
  <1>3. OutcomeSnapshots
    BY DEF Init, OutcomeSnapshots, SnapshotIsFirstOutcome, OutcomeHasSnapshot, Outcomes
  <1> QED BY <1>1, <1>2, <1>3 DEF StatusInv

(* A session that has read a lead knows it. *)
LEMMA ReadSession ==
  ASSUME RowsOK, NEW p \in Patches \cup StepTasks, session[p].at = "read"
  PROVE  session[p].lead \in Leads /\ session[p].to \in LeadStatus /\ session[p].was \in LeadStatus
  <1>1. session[p] \in Sessions BY DEF RowsOK
  <1>2. session[p] # Idle /\ session[p] # Done BY DEF Idle, Done
  <1> QED BY <1>1, <1>2 DEF Sessions

LEMMA SessionRead ==
  ASSUME StatusInv, NEW p \in Patches \cup StepTasks, NEW l \in Leads, NEW s \in LeadStatus,
         p \in StepTasks => s \in {"enriched", "scored"},
         session' = [session EXCEPT ![p] = [at |-> "read", lead |-> l, to |-> s,
                                            was |-> lead[l].status]],
         UNCHANGED <<lead, events, snapshot, weights, rescore, first>>
  PROVE  StatusInv'
  <1>1. [at |-> "read", lead |-> l, to |-> s, was |-> lead[l].status] \in Sessions
    BY DEF StatusInv, RowsOK, LeadRows, Sessions
  <1>2. RowsOK' BY <1>1 DEF StatusInv, RowsOK
  <1>3. StepsOK' BY DEF StatusInv, StepsOK, RowsOK
  <1> QED BY <1>2, <1>3
          DEF StatusInv, OutcomeSnapshots, SnapshotIsFirstOutcome, OutcomeHasSnapshot

LEMMA SessionDone ==
  ASSUME StatusInv, NEW p \in Patches \cup StepTasks, session' = [session EXCEPT ![p] = Done]
  PROVE  session' \in [Patches \cup StepTasks -> Sessions] /\ StepsOK'
  BY DEF StatusInv, RowsOK, StepsOK, Sessions, Done

LEMMA PatchWritten == ASSUME StatusInv, NEW p \in Patches, PatchWrite(p) PROVE StatusInv'
  <1> DEFINE l == session[p].lead
             s == session[p].to
             changed == s # session[p].was
             to == IF changed THEN s ELSE lead[l].status
  <1>0. session[p].at = "read" BY DEF PatchWrite
  <1>1. l \in Leads /\ s \in LeadStatus /\ session[p].was \in LeadStatus
    BY <1>0, ReadSession DEF StatusInv
  <1>2. /\ lead' = [lead EXCEPT ![l].status = to]
        /\ events' = [events EXCEPT ![l] = IF changed THEN Append(@, <<session[p].was, s>>) ELSE @]
        /\ snapshot' = [snapshot EXCEPT ![l] = capture_outcome_snapshot(l, s)]
        /\ first' = [first EXCEPT ![l] = IF @ = "none" /\ s \in Outcomes THEN s ELSE @]
        /\ UNCHANGED <<weights, rescore>>
    BY DEF PatchWrite, StatusInv, RowsOK
  <1>3. session' \in [Patches \cup StepTasks -> Sessions] /\ StepsOK'
    BY SessionDone DEF PatchWrite
  <1> HIDE DEF l, s
  <1>4. to \in LeadStatus BY <1>1 DEF StatusInv, RowsOK, LeadRows
  <1>5. lead' \in [Leads -> LeadRows] /\ \A k \in Leads : lead'[k].scored = lead[k].scored
    <2>1. lead[l] \in LeadRows BY <1>1 DEF StatusInv, RowsOK
    <2>2. /\ [lead[l] EXCEPT !.status = to] \in LeadRows
          /\ [lead[l] EXCEPT !.status = to].scored = lead[l].scored
      BY <1>4, <2>1 DEF LeadRows
    <2>3. lead' = [lead EXCEPT ![l] = [lead[l] EXCEPT !.status = to]] BY <1>1, <1>2
    <2> QED BY <1>1, <2>2, <2>3 DEF StatusInv, RowsOK
  <1>6. events' \in [Leads -> Seq(LeadStatus \X LeadStatus)]
    <2>1. <<session[p].was, s>> \in LeadStatus \X LeadStatus BY <1>1
    <2>2. Append(events[l], <<session[p].was, s>>) \in Seq(LeadStatus \X LeadStatus)
      BY <1>1, <2>1 DEF StatusInv, RowsOK
    <2> QED BY <1>1, <1>2, <2>2 DEF StatusInv, RowsOK
  <1>7. snapshot[l] = first[l]
    BY <1>1 DEF StatusInv, OutcomeSnapshots, SnapshotIsFirstOutcome
  <1>8. PICK o \in Outcomes \cup {"none"} :
           /\ snapshot' = [snapshot EXCEPT ![l] = o] /\ first' = [first EXCEPT ![l] = o]
           /\ s \in Outcomes => o # "none"
           /\ snapshot[l] # "none" => o = snapshot[l]
    <2>1. CASE snapshot[l] = "none" /\ s \in Outcomes
      BY <1>2, <1>7, <2>1 DEF capture_outcome_snapshot, Outcomes
    <2>2. CASE ~(snapshot[l] = "none" /\ s \in Outcomes)
      BY <1>1, <1>2, <1>7, <2>2 DEF capture_outcome_snapshot, StatusInv, RowsOK, Outcomes
    <2> QED BY <2>1, <2>2
  <1>9. RowsOK' BY <1>2, <1>3, <1>5, <1>6, <1>8 DEF StatusInv, RowsOK
  <1>10. SnapshotIsFirstOutcome'
    BY <1>8 DEF StatusInv, RowsOK, OutcomeSnapshots, SnapshotIsFirstOutcome
  <1>11. OutcomeHasSnapshot'
    <2>1. lead[l].status \in Outcomes => snapshot[l] # "none"
      BY <1>1 DEF StatusInv, OutcomeSnapshots, OutcomeHasSnapshot
    <2>2. lead'[l].status = to BY <1>1, <1>2 DEF StatusInv, RowsOK
    <2>3. lead'[l].status \in Outcomes => snapshot'[l] # "none"
      BY <1>1, <1>8, <2>1, <2>2 DEF StatusInv, RowsOK
    <2> QED BY <1>2, <1>8, <2>3 DEF StatusInv, RowsOK, OutcomeSnapshots, OutcomeHasSnapshot
  <1> QED BY <1>3, <1>9, <1>10, <1>11 DEF StatusInv, OutcomeSnapshots

LEMMA StepWritten == ASSUME StatusInv, NEW t \in StepTasks, StepWrite(t) PROVE StatusInv'
  <1> DEFINE l == session[t].lead
             s == session[t].to
             to == IF s # session[t].was THEN s ELSE lead[l].status
             n == IF s = "scored" THEN weights ELSE lead[l].scored
             b == lead[l].enriched \/ s = "enriched"
  <1>0. session[t].at = "read" BY DEF StepWrite
  <1>1. l \in Leads /\ s \in {"enriched", "scored"}
    BY <1>0, ReadSession DEF StatusInv, StepsOK
  <1>2. lead' = [lead EXCEPT ![l].status = to, ![l].enriched = b, ![l].scored = n]
    BY <1>1, Zenon DEF StepWrite
  <1>3. /\ session' \in [Patches \cup StepTasks -> Sessions] /\ StepsOK'
        /\ UNCHANGED <<events, snapshot, weights, rescore, first>>
    BY SessionDone DEF StepWrite
  <1>4. b \in BOOLEAN OBVIOUS
  <1> HIDE DEF l, s, b
  <1>5. to \in LeadStatus /\ n \in Nat /\ n <= weights
    BY <1>1, Bound DEF StatusInv, RowsOK, LeadRows, LeadStatus
  <1>6. PICK new \in LeadRows : /\ new.status = to /\ new.scored = n
                               /\ lead' = [lead EXCEPT ![l] = new]
    <2>1. PICK r \in LeadRows, x \in LeadStatus, y \in BOOLEAN, z \in Nat :
            r = lead[l] /\ x = to /\ y = b /\ z = n
      BY <1>1, <1>4, <1>5 DEF StatusInv, RowsOK
    <2> DEFINE new == [r EXCEPT !.status = x, !.enriched = y, !.scored = z]
    <2>2. new \in LeadRows BY DEF LeadRows
    <2>3. new.status = x /\ new.scored = z BY DEF LeadRows
    <2>4. lead' = [lead EXCEPT ![l] = new] BY <1>1, <1>2, <2>1 DEF StatusInv, RowsOK
    <2> HIDE DEF new
    <2> QED BY <2>1, <2>2, <2>3, <2>4
  <1>7. RowsOK' BY <1>1, <1>3, <1>5, <1>6 DEF StatusInv, RowsOK
  <1>8. \A k \in Leads : lead'[k].status \in Outcomes => lead[k].status \in Outcomes
    BY <1>1, <1>6 DEF StatusInv, RowsOK, Outcomes
  <1> QED BY <1>3, <1>7, <1>8
          DEF StatusInv, OutcomeSnapshots, SnapshotIsFirstOutcome, OutcomeHasSnapshot

LEMMA StatusStep == StatusInv /\ [Next]_vars => StatusInv'
  <1> SUFFICES ASSUME StatusInv, [Next]_vars PROVE StatusInv'
    OBVIOUS
  <1>1. ASSUME NEW p \in Patches, PatchRead(p) PROVE StatusInv'
    <2>1. PICK l \in Leads, s \in Targets :
            session' = [session EXCEPT ![p] = [at |-> "read", lead |-> l, to |-> s,
                                               was |-> lead[l].status]]
      BY <1>1 DEF PatchRead
    <2>2. s \in LeadStatus /\ p \notin StepTasks
      BY <2>1, TargetsAssumption, SessionsAssumption
    <2> QED BY <1>1, <2>1, <2>2, SessionRead DEF PatchRead
  <1>2. ASSUME NEW p \in Patches, PatchFails(p) PROVE StatusInv'
    BY <1>2, SessionDone
    DEF PatchFails, StatusInv, RowsOK, OutcomeSnapshots, SnapshotIsFirstOutcome, OutcomeHasSnapshot
  <1>3. ASSUME NEW t \in StepTasks, StepRead(t) PROVE StatusInv'
    <2>1. PICK l \in Leads, s \in {"enriched", "scored"} :
            session' = [session EXCEPT ![t] = [at |-> "read", lead |-> l, to |-> s,
                                               was |-> lead[l].status]]
      BY <1>3 DEF StepRead
    <2>2. s \in LeadStatus BY DEF LeadStatus
    <2> QED BY <1>3, <2>1, <2>2, SessionRead DEF StepRead
  <1>4. CASE ChangeWeights
    <2>1. weights \in Nat /\ weights' = weights + 1 /\ weights' \in 1..(MaxWeights + 1)
      BY <1>4, Bound DEF ChangeWeights, StatusInv, RowsOK
    <2>2. \A l \in Leads : lead[l].scored <= weights' BY <2>1 DEF StatusInv, RowsOK, LeadRows
    <2> QED BY <1>4, <2>1, <2>2
            DEF ChangeWeights, StatusInv, RowsOK, StepsOK, OutcomeSnapshots,
                SnapshotIsFirstOutcome, OutcomeHasSnapshot
  <1>5. CASE RescoreBegin \/ RescoreLead \/ RescoreStop \/ RescoreDone
    <2>1. rescore' \in [at : {"idle", "loop", "stopped", "done"}, todo : SUBSET Leads, with : Nat]
      <3>0. rescore \in [at : {"idle", "loop", "stopped", "done"}, todo : SUBSET Leads, with : Nat]
        BY DEF StatusInv, RowsOK
      <3>1. CASE RescoreBegin
        <4>1. weights \in Nat BY Bound DEF StatusInv, RowsOK
        <4> QED BY <3>1, <4>1 DEF RescoreBegin
      <3>2. CASE RescoreLead BY <3>0, <3>2 DEF RescoreLead
      <3>3. CASE RescoreStop \/ RescoreDone BY <3>0, <3>3 DEF RescoreStop, RescoreDone
      <3> QED BY <1>5, <3>1, <3>2, <3>3
    <2>2. UNCHANGED <<lead, events, snapshot, session, weights, first>>
      BY <1>5 DEF RescoreBegin, RescoreLead, RescoreStop, RescoreDone
    <2> QED BY <2>1, <2>2
            DEF StatusInv, RowsOK, StepsOK, OutcomeSnapshots, SnapshotIsFirstOutcome,
                OutcomeHasSnapshot
  <1>6. CASE UNCHANGED vars
    BY <1>6 DEF vars, StatusInv, RowsOK, StepsOK, OutcomeSnapshots, SnapshotIsFirstOutcome,
                OutcomeHasSnapshot
  <1> QED BY <1>1, <1>2, <1>3, <1>4, <1>5, <1>6, PatchWritten, StepWritten DEF Next

(* Leads, events, snapshots and the rescore task keep their types. *)
THEOREM StatusTypes == Spec => []TypeOK
  <1>1. StatusInv => TypeOK BY DEF StatusInv, RowsOK, LeadRows, TypeOK
  <1> QED BY <1>1, StatusInit, StatusStep, PTL DEF Spec

(* A lead that is WON or LOST has its one snapshot, and it is of the first  *)
(* outcome committed, whatever requests and pipeline steps race for the     *)
(* status.                                                                  *)
THEOREM SnapshotsTrue == Spec => []OutcomeSnapshots
  <1>1. StatusInv => OutcomeSnapshots BY DEF StatusInv
  <1> QED BY <1>1, StatusInit, StatusStep, PTL DEF Spec

---------------------------------------------------------------------------
(* The follow-up check                                                     *)

Days == followup_days \in Nat /\ MaxDays \in Nat

(* The row of a contacted lead is no older than the contact. *)
AgesOK == \A l \in Leads : status[l] = "contacted" => updated[l] <= contacted[l]

SilentInv == Silent!TypeOK /\ AgesOK

LEMMA SilentInit == Days /\ Silent!Init => SilentInv
  BY DEF Days, Silent!Init, SilentInv, Silent!TypeOK, Silent!Statuses, AgesOK

LEMMA SilentStep == Days /\ SilentInv /\ [Silent!Next]_(Silent!vars) => SilentInv'
  <1> SUFFICES ASSUME Days, SilentInv, [Silent!Next]_(Silent!vars) PROVE SilentInv'
    OBVIOUS
  <1> USE DEF Days, SilentInv, Silent!TypeOK, Silent!Statuses, AgesOK
  <1>e. Silent!Elsewhere => /\ check' \in {"none", "read", "done"}
                            /\ check' # "read" => found' = {}
                            /\ found' = found /\ flagged' = flagged
    BY DEF Silent!Elsewhere
  <1>1. ASSUME NEW l \in Leads, Silent!Analyse(l) PROVE SilentInv'
    BY <1>1, <1>e DEF Silent!Analyse, Silent!Touch
  <1>2. ASSUME NEW l \in Leads, NEW s \in Silent!Statuses, Silent!SetStatus(l, s) PROVE SilentInv'
    BY <1>2, <1>e DEF Silent!SetStatus, Silent!Touch
  <1>3. ASSUME NEW l \in Leads, NEW answers \in BOOLEAN, Silent!InboundStored(l, answers)
        PROVE  SilentInv'
    <2>1. \/ UNCHANGED <<status, updated>>
          \/ /\ status' = [status EXCEPT ![l] = "replied"]
             /\ updated' = [updated EXCEPT ![l] = 0]
      BY <1>3 DEF Silent!InboundStored, Silent!Touch
    <2> QED BY <1>3, <1>e, <2>1 DEF Silent!InboundStored
  <1>4. CASE Silent!Day
    <2>1. updated' \in [Leads -> 0..MaxDays] /\ contacted' \in [Leads -> 0..MaxDays]
      BY <1>4 DEF Silent!Day
    <2>2. AgesOK' BY <1>4 DEF Silent!Day
    <2> QED BY <1>4, <1>e, <2>1, <2>2 DEF Silent!Day
  <1>5. CASE Silent!task_check_followup
    <2>1. found' \subseteq Leads
      BY <1>5 DEF Silent!task_check_followup, Silent!find_leads_needing_followup
    <2> QED BY <1>5, <2>1 DEF Silent!task_check_followup, Silent!leadVars
  <1>6. CASE Silent!CheckCommit BY <1>6 DEF Silent!CheckCommit, Silent!leadVars
  <1>7. CASE Silent!CheckFails BY <1>7 DEF Silent!CheckFails, Silent!leadVars
  <1>8. CASE UNCHANGED Silent!vars BY <1>8 DEF Silent!vars, Silent!leadVars
  <1> QED BY <1>1, <1>2, <1>3, <1>4, <1>5, <1>6, <1>7, <1>8 DEF Silent!Next

(* Leads, counted days and the check's sets keep their types. *)
THEOREM FollowUpTypes == Silent!Spec => []Silent!TypeOK
  <1>0. Days BY FollowUpAssumption DEF Days
  <1>1. SilentInv => Silent!TypeOK BY DEF SilentInv
  <1>2. Silent!Init => SilentInv BY <1>0, SilentInit
  <1>3. SilentInv /\ [Silent!Next]_(Silent!vars) => SilentInv' BY <1>0, SilentStep
  <1> QED BY <1>1, <1>2, <1>3, PTL DEF Silent!Spec

(* task_check_followup compares updated_at with the setting, and yet picks  *)
(* no lead before more than followup_days have passed since its contact:    *)
(* every write that makes a lead contacted touches the row.                 *)
THEOREM FollowUpNotEarly == Silent!Spec => NotTooEarly
  <1>0. Days BY FollowUpAssumption DEF Days
  <1>1. Silent!Init => SilentInv BY <1>0, SilentInit
  <1>2. SilentInv /\ [Silent!Next]_(Silent!vars) => SilentInv' BY <1>0, SilentStep
  <1>3. SilentInv /\ [Silent!Next]_(Silent!vars) =>
          (check' = "read" => \A l \in found' \ found : contacted[l] > followup_days)
    <2> SUFFICES ASSUME SilentInv, [Silent!Next]_(Silent!vars), NEW l \in found' \ found
                 PROVE  contacted[l] > followup_days
      OBVIOUS
    <2>1. Silent!task_check_followup
      <3>1. Silent!Elsewhere => found' = found BY DEF Silent!Elsewhere
      <3>2. Silent!CheckCommit \/ Silent!CheckFails => found' = {}
        BY DEF Silent!CheckCommit, Silent!CheckFails
      <3>3. UNCHANGED Silent!vars => found' = found BY DEF Silent!vars
      <3> QED BY <3>1, <3>2, <3>3
              DEF Silent!Next, Silent!Analyse, Silent!SetStatus, Silent!InboundStored, Silent!Day
    <2>2. /\ l \in Leads /\ status[l] = "contacted" /\ updated[l] > followup_days
      BY <2>1 DEF Silent!task_check_followup, Silent!find_leads_needing_followup
    <2> QED BY <1>0, <2>2 DEF Days, SilentInv, Silent!TypeOK, AgesOK
  <1> QED BY <1>1, <1>2, <1>3, PTL DEF Silent!Spec, NotTooEarly, Silent!NotTooEarly

---------------------------------------------------------------------------
(* Enrichment                                                              *)

States == {"has_website", "website_error", "no_website"}
Domains == {"no_custom_domain", "has_custom_domain"}
Findings == {"slow_load", "no_ssl", "weak_seo", "outdated_website"}

(* Signals of the types T describe one analysis of a website. *)
Agree(T) ==
  /\ Cardinality(T \cap States) = 1
  /\ "has_website" \in T <=> Cardinality(T \cap Domains) = 1
  /\ "instagram_only" \in T => "no_website" \in T
  /\ T \cap {"website_error", "no_website"} # {} => T \cap Findings = {}

LEMMA NoPageAgrees ==
  ASSUME NEW T, NEW x \in {"website_error", "no_website"},
         T = {x} \/ T = {"no_website", "instagram_only"}
  PROVE  Agree(T)
  <1>1. Cardinality({}) = 0 BY FS_EmptySet
  <1>2. T \cap Domains = {} /\ "has_website" \notin T /\ T \cap Findings = {}
    BY DEF Domains, Findings
  <1>3. PICK y : T \cap States = {y} BY DEF States
  <1>4. Cardinality({y}) = 1 BY FS_Singleton
  <1> QED BY <1>1, <1>2, <1>3, <1>4 DEF Agree

LEMMA PageAgrees ==
  ASSUME NEW T, NEW d \in Domains, T \cap States = {"has_website"}, T \cap Domains = {d},
         "instagram_only" \notin T
  PROVE  Agree(T)
  <1>1. Cardinality({"has_website"}) = 1 /\ Cardinality({d}) = 1 BY FS_Singleton
  <1> QED BY <1>1 DEF Agree, States

(* What _analyze_website and its caller append for one page agrees. *)
LEMMA PageFindings ==
  ASSUME NEW l, NEW page
  PROVE  Agree({s[1] : s \in Enrich!SignalsOf(l, page)})
  <1>0. PICK S : S = Enrich!SignalsOf(l, page) OBVIOUS
  <1>a. \A x, y : <<x, y>>[1] = x OBVIOUS
  <1> DEFINE T == {s[1] : s \in S}
  <1> SUFFICES Agree(T) BY <1>0
  <1>1. CASE l.website = "none"
    <2>1. S = {<<"no_website", "">>} \/ S = {<<"no_website", "">>, <<"instagram_only", "">>}
      BY <1>0, <1>1 DEF Enrich!SignalsOf, Enrich!If, Enrich!Signal
    <2>2. T = {"no_website"} \/ T = {"no_website", "instagram_only"} BY <1>a, <2>1
    <2> HIDE DEF T
    <2> QED BY <1>1, <2>2, NoPageAgrees
  <1>2. CASE l.website # "none" /\ page.fetch # "ok"
    <2>1. PICK x \in {"website_error", "no_website"} : S = {<<x, "">>}
      BY <1>0, <1>2 DEF Enrich!SignalsOf, Enrich!If, Enrich!Signal, Enrich!_analyze_website,
                        Enrich!FailedFetch
    <2>2. T = {x} BY <1>a, <2>1
    <2> HIDE DEF T
    <2> QED BY <2>2, NoPageAgrees
  <1>3. CASE l.website # "none" /\ page.fetch = "ok"
    <2>1. PICK d, X :
            /\ d \in Domains
            /\ S = {<<"has_website", "">>, <<d, "">>} \cup X
            /\ X \subseteq {<<"slow_load", "">>, <<"no_ssl", "">>, <<"no_mobile_friendly", "">>,
                            <<"weak_seo", "title">>, <<"weak_seo", "description">>,
                            <<"no_visible_email", "">>, <<"outdated_website", "">>}
      <3> DEFINE d == IF page.freeHost THEN "no_custom_domain" ELSE "has_custom_domain"
                 A == Enrich!If(page.slow, Enrich!Signal("slow_load"))
                 B == Enrich!If(~page.https, Enrich!Signal("no_ssl"))
                 C == Enrich!If(~page.viewport, Enrich!Signal("no_mobile_friendly"))
                 D == Enrich!If(~page.title, <<"weak_seo", "title">>)
                 E == Enrich!If(~page.description, <<"weak_seo", "description">>)
                 F == Enrich!If(page.email = "none", Enrich!Signal("no_visible_email"))
                 G == Enrich!If(page.wordpress, Enrich!Signal("outdated_website"))
                 X == A \cup B \cup C \cup D \cup E \cup F \cup G
      <3>1. d \in Domains BY DEF Domains
      <3>2. /\ A \subseteq {<<"slow_load", "">>} /\ B \subseteq {<<"no_ssl", "">>}
            /\ C \subseteq {<<"no_mobile_friendly", "">>} /\ D \subseteq {<<"weak_seo", "title">>}
            /\ E \subseteq {<<"weak_seo", "description">>}
            /\ F \subseteq {<<"no_visible_email", "">>} /\ G \subseteq {<<"outdated_website", "">>}
        BY DEF Enrich!If, Enrich!Signal
      <3>3. \A x : Enrich!Signal(x) = <<x, "">> BY DEF Enrich!Signal
      <3>4. X \subseteq {<<"slow_load", "">>, <<"no_ssl", "">>, <<"no_mobile_friendly", "">>,
                        <<"weak_seo", "title">>, <<"weak_seo", "description">>,
                        <<"no_visible_email", "">>, <<"outdated_website", "">>}
        <4> HIDE DEF A, B, C, D, E, F, G
        <4> QED BY <3>2
      <3>5. Enrich!If(l.instagram /\ l.website = "none", Enrich!Signal("instagram_only")) = {}
        BY <1>3 DEF Enrich!If
      <3>6. S = {<<"has_website", "">>, <<d, "">>} \cup X
        BY <1>0, <1>3, <3>3, <3>5 DEF Enrich!SignalsOf, Enrich!_analyze_website, Enrich!FailedFetch
      <3> HIDE DEF d, X
      <3> QED BY <3>1, <3>4, <3>6
    <2>2. /\ "has_website" \in T /\ d \in T
          /\ T \subseteq {"has_website", d, "slow_load", "no_ssl", "no_mobile_friendly",
                          "weak_seo", "no_visible_email", "outdated_website"}
      <3>1. \A s \in X : s[1] \in {"slow_load", "no_ssl", "no_mobile_friendly", "weak_seo",
                                 "no_visible_email", "outdated_website"}
        <4> TAKE s \in X
        <4>1. \E y : \E x \in {"slow_load", "no_ssl", "no_mobile_friendly", "weak_seo",
                       "no_visible_email", "outdated_website"}: s = <<x, y>>
          BY <2>1
        <4> QED BY <1>a, <4>1
      <3>2. <<"has_website", "">> \in S /\ <<d, "">> \in S BY <2>1
      <3>3. "has_website" \in T /\ d \in T BY <1>a, <3>2
      <3>4. ASSUME NEW s \in S PROVE s[1] \in {"has_website", d} \/ s \in X
        BY <1>a, <2>1
      <3> QED BY <3>1, <3>3, <3>4
    <2> HIDE DEF T
    <2>3. T \cap States = {"has_website"} /\ T \cap Domains = {d} /\ "instagram_only" \notin T
      <3>1. d \in Domains BY <2>1
      <3> QED BY <2>2, <3>1 DEF States, Domains
    <2>4. d \in Domains BY <2>1
    <2> QED BY <2>3, <2>4, PageAgrees
  <1> QED BY <1>1, <1>2, <1>3

---------------------------------------------------------------------------
(* Enrichment: the rows and the score                                      *)

(* The signals enrich_lead stores: a type, for weak_seo what is missing, and *)
(* the analysis.                                                             *)
Signals == Enrich!SignalTypes \X {"", "title", "description"}
SignalRows == Signals \X (1..MaxAnalyses)

LEMMA FourFinite == \A a, b, c, d : IsFiniteSet({a, b, c, d})
  <1> SUFFICES ASSUME NEW a, NEW b, NEW c, NEW d PROVE IsFiniteSet({a, b, c, d})
    OBVIOUS
  <1>1. IsFiniteSet({a} \cup {b}) BY FS_Singleton, FS_Union
  <1>2. IsFiniteSet({c} \cup {d}) BY FS_Singleton, FS_Union
  <1>3. IsFiniteSet(({a} \cup {b}) \cup ({c} \cup {d})) BY <1>1, <1>2, FS_Union
  <1>4. ({a} \cup {b}) \cup ({c} \cup {d}) = {a, b, c, d} OBVIOUS
  <1> QED BY <1>3, <1>4

LEMMA FiniteSignals == MaxAnalyses \in Nat => IsFiniteSet(SignalRows)
  <1> SUFFICES ASSUME MaxAnalyses \in Nat PROVE IsFiniteSet(SignalRows)
    OBVIOUS
  <1> DEFINE A == {"no_website", "instagram_only", "outdated_website", "no_custom_domain"}
             B == {"no_visible_email", "no_ssl", "weak_seo", "no_mobile_friendly"}
             C == {"slow_load", "website_error", "has_website", "has_custom_domain"}
             D == {"", "title", "description", "description"}
  <1>1. IsFiniteSet(A) /\ IsFiniteSet(B) /\ IsFiniteSet(C) /\ IsFiniteSet(D) BY FourFinite
  <1>2. Enrich!SignalTypes = A \cup (B \cup C) BY DEF Enrich!SignalTypes
  <1>3. D = {"", "title", "description"} OBVIOUS
  <1> HIDE DEF A, B, C, D
  <1>4. IsFiniteSet(Enrich!SignalTypes)
    <2>1. IsFiniteSet(B \cup C) BY <1>1, FS_Union
    <2>2. IsFiniteSet(A \cup (B \cup C)) BY <1>1, <2>1, FS_Union
    <2> QED BY <1>2, <2>2
  <1>5. IsFiniteSet(Enrich!SignalTypes \X D) BY <1>1, <1>4, FS_Product
  <1>6. IsFiniteSet(1..MaxAnalyses) BY FS_Interval
  <1>7. IsFiniteSet(Signals) BY <1>3, <1>5 DEF Signals
  <1> QED BY <1>6, <1>7, FS_Product DEF SignalRows

LEMMA WeightType == \A t \in Enrich!SignalTypes : Enrich!SIGNAL_WEIGHTS[t] \in Nat
  BY DEF Enrich!SignalTypes, Enrich!SIGNAL_WEIGHTS

LEMMA WeightSum ==
  ASSUME MaxAnalyses \in Nat, NEW S \in SUBSET SignalRows
  PROVE  Enrich!MapThenSumSet(LAMBDA s : Enrich!SIGNAL_WEIGHTS[s[1][1]], S) \in Nat
  <1> DEFINE F == [s \in S |-> Enrich!SIGNAL_WEIGHTS[s[1][1]]]
             IsIt(g) == g = [t \in SUBSET S |->
                    IF t = {} THEN 0 ELSE LET x == CHOOSE x \in t : TRUE
                                          IN Enrich!SIGNAL_WEIGHTS[x[1][1]] + g[t \ {x}]]
  <1>1. IsFiniteSet(S) BY FiniteSignals, FS_Subset
  <1>2. \A s \in S : F[s] \in Nat
    <2> SUFFICES ASSUME NEW s \in S PROVE F[s] \in Nat OBVIOUS
    <2>1. s[1][1] \in Enrich!SignalTypes BY DEF SignalRows, Signals
    <2>2. F[s] = Enrich!SIGNAL_WEIGHTS[s[1][1]] OBVIOUS
    <2> HIDE DEF F
    <2> QED BY <2>1, <2>2, WeightType
  <1>3. NatOn(F, S)
    <2> HIDE DEF F
    <2> QED BY <1>2 DEF NatOn
  <1>4. \A g : IsIt(g) <=> Sums(g, F, S)
    <2> SUFFICES ASSUME NEW g PROVE IsIt(g) <=> Sums(g, F, S) OBVIOUS
    <2> DEFINE Body(t) == Enrich!SIGNAL_WEIGHTS[Choice(t)[1][1]] + g[t \ {Choice(t)}]
    <2>1. \A t \in SUBSET S : t # {} => F[Choice(t)] = Enrich!SIGNAL_WEIGHTS[Choice(t)[1][1]]
      BY ChoiceIn
    <2> HIDE DEF F
    <2>2. \A t \in SUBSET S : (IF t = {} THEN 0 ELSE Body(t)) = Value(g, F, t)
      BY <2>1 DEF Value
    <2>3. IsIt(g) <=> g = [t \in SUBSET S |-> IF t = {} THEN 0 ELSE Body(t)] BY DEF Choice
    <2>4. Sums(g, F, S) <=> g = [t \in SUBSET S |-> Value(g, F, t)] BY SumsValue
    <2> HIDE DEF Body, IsIt
    <2>5. [t \in SUBSET S |-> IF t = {} THEN 0 ELSE Body(t)] = [t \in SUBSET S |-> Value(g, F, t)]
      BY <2>2
    <2> QED BY <2>3, <2>4, <2>5
  <1>5. \E g : IsIt(g)
    <2>1. PICK g : Sums(g, F, S) BY <1>1, <1>3, SumsExists
    <2> HIDE DEF IsIt
    <2> QED BY <2>1, <1>4
  <1> DEFINE c == CHOOSE g : IsIt(g)
  <1>6. IsIt(c) BY <1>5
  <1>7. Sums(c, F, S) BY <1>4, <1>6
  <1>8. Enrich!MapThenSumSet(LAMBDA s : Enrich!SIGNAL_WEIGHTS[s[1][1]], S) = c[S]
    BY DEF Enrich!MapThenSumSet, Enrich!MapThenFoldSet
  <1> HIDE DEF c, IsIt
  <1>9. c[S] = SumOf(F, S) BY <1>1, <1>3, <1>7, SumsOne
  <1> HIDE DEF F
  <1>10. SumOf(F, S) \in Nat BY <1>1, <1>3, SumType
  <1> QED BY <1>8, <1>9, <1>10

(* compute_score adds bonuses and weights and stops at 100. *)
LEMMA ScoreRange ==
  ASSUME MaxAnalyses \in Nat, NEW l, l.signals \in SUBSET SignalRows
  PROVE  Enrich!compute_score(l) \in 0..100
  <1> DEFINE w == Enrich!MapThenSumSet(LAMBDA s : Enrich!SIGNAL_WEIGHTS[s[1][1]], l.signals)
             i == Enrich!INDUSTRY_BONUS(l.business)
             c == Enrich!COMPLETENESS_BONUSES(l)
             m == Enrich!MapsBonus(l.business)
  <1>1. w \in Nat BY WeightSum
  <1>2. i \in Nat BY DEF Enrich!INDUSTRY_BONUS
  <1>3. c \in Nat BY DEF Enrich!COMPLETENESS_BONUSES
  <1>4. m \in Nat BY DEF Enrich!MapsBonus
  <1>5. Enrich!RawScore(l) = w + i + c + m BY DEF Enrich!RawScore
  <1> HIDE DEF w, i, c, m
  <1>6. PICK r \in Nat : r = Enrich!RawScore(l) BY <1>1, <1>2, <1>3, <1>4, <1>5
  <1>7. \E x \in {100, r} : \A y \in {100, r} : x <= y
    <2>1. CASE r <= 100 BY <2>1
    <2>2. CASE ~(r <= 100) BY <2>2
    <2> QED BY <2>1, <2>2
  <1>8. Enrich!Min({100, r}) \in {100, r} /\ Enrich!Min({100, r}) <= 100
    BY <1>7 DEF Enrich!Min
  <1> QED BY <1>6, <1>8 DEF Enrich!compute_score

---------------------------------------------------------------------------
(* The rows                                                                *)

Rows ==
  [business : Businesses, website : {"none", "instagram", "social", "site"},
   instagram : BOOLEAN, email : {"none", "own", "found"}, status : {"new", "enriched", "scored"},
   score : -1..100, signals : SUBSET SignalRows, artifacts : SUBSET (1..MaxShots)]

EnrichSessions ==
  {Enrich!Closed} \cup [at : {"open", "analysed", "rated", "flushed"}, read : Rows, row : Rows,
                        stale : BOOLEAN]

(* The lead and what every session has read and would write are typed. *)
EnrichInv ==
  /\ site \in Rows
  /\ work \in [Enrichers -> EnrichSessions]
  /\ disk \subseteq 1..MaxShots /\ shots \in 0..MaxShots /\ analyses \in 0..MaxAnalyses
  /\ overlapped \in BOOLEAN

EnrichSetup ==
  /\ MaxShots \in Nat /\ MaxAnalyses \in Nat
  /\ \A b \in Businesses : /\ b.website \in {"none", "instagram", "social", "site"}
                           /\ b.instagram \in BOOLEAN /\ b.email \in {"none", "own"}

LEMMA FoundSignals == \A l, page : Enrich!SignalsOf(l, page) \in SUBSET Signals
  <1> SUFFICES ASSUME NEW l, NEW page PROVE Enrich!SignalsOf(l, page) \in SUBSET Signals
    OBVIOUS
  <1>1. ASSUME NEW c, NEW s \in Signals PROVE Enrich!If(c, s) \in SUBSET Signals
    BY DEF Enrich!If
  <1>2. \A t \in Enrich!SignalTypes : Enrich!Signal(t) \in Signals
    BY DEF Enrich!Signal, Signals
  <1>3. <<"weak_seo", "title">> \in Signals /\ <<"weak_seo", "description">> \in Signals
    BY DEF Signals, Enrich!SignalTypes
  <1>4. {"no_website", "website_error", "has_website", "no_custom_domain", "has_custom_domain",
         "slow_load", "no_ssl", "no_mobile_friendly", "no_visible_email", "outdated_website",
         "instagram_only"} \subseteq Enrich!SignalTypes
    BY DEF Enrich!SignalTypes
  <1> DEFINE host == IF page.freeHost THEN "no_custom_domain" ELSE "has_custom_domain"
  <1>5. host \in Enrich!SignalTypes BY <1>4
  <1>6. Enrich!_analyze_website(page) \in SUBSET Signals
    <2>1. {Enrich!Signal("has_website"), Enrich!Signal(host)} \in SUBSET Signals
      BY <1>2, <1>4, <1>5
    <2>2. Enrich!If(page.slow, Enrich!Signal("slow_load")) \in SUBSET Signals
      BY <1>1, <1>2, <1>4
    <2>3. Enrich!If(~page.https, Enrich!Signal("no_ssl")) \in SUBSET Signals
      BY <1>1, <1>2, <1>4
    <2>4. Enrich!If(~page.viewport, Enrich!Signal("no_mobile_friendly")) \in SUBSET Signals
      BY <1>1, <1>2, <1>4
    <2>5. Enrich!If(~page.title, <<"weak_seo", "title">>) \in SUBSET Signals
      BY <1>1, <1>3
    <2>6. Enrich!If(~page.description, <<"weak_seo", "description">>) \in SUBSET Signals
      BY <1>1, <1>3
    <2>7. Enrich!If(page.email = "none", Enrich!Signal("no_visible_email")) \in SUBSET Signals
      BY <1>1, <1>2, <1>4
    <2>8. Enrich!If(page.wordpress, Enrich!Signal("outdated_website")) \in SUBSET Signals
      BY <1>1, <1>2, <1>4
    <2>9. {Enrich!Signal("no_website")} \in SUBSET Signals
          /\ {Enrich!Signal("website_error")} \in SUBSET Signals
      BY <1>2, <1>4
    <2> HIDE DEF host
    <2> QED BY <2>1, <2>2, <2>3, <2>4, <2>5, <2>6, <2>7, <2>8, <2>9
            DEF Enrich!_analyze_website, host
  <1>7. Enrich!If(l.instagram /\ l.website = "none", Enrich!Signal("instagram_only"))
          \in SUBSET Signals
    BY <1>1, <1>2, <1>4
  <1>8. {Enrich!Signal("no_website")} \in SUBSET Signals BY <1>2, <1>4
  <1> QED BY <1>6, <1>7, <1>8 DEF Enrich!SignalsOf

LEMMA TypedResolve ==
  ASSUME NEW l \in Rows, NEW bio \in BOOLEAN PROVE Enrich!Resolve(l, bio) \in Rows
  <1>1. PICK m \in Rows : m = Enrich!ResolveSocial(l)
    <2>1. CASE l.website \notin {"instagram", "social"} BY <2>1 DEF Enrich!ResolveSocial
    <2>2. CASE l.website = "instagram"
      <3>1. Enrich!ResolveSocial(l) = [l EXCEPT !.instagram = TRUE, !.website = "none"]
        BY <2>2 DEF Enrich!ResolveSocial, Rows
      <3>2. [l EXCEPT !.instagram = TRUE, !.website = "none"] \in Rows BY DEF Rows
      <3> QED BY <3>1, <3>2
    <2>3. CASE l.website = "social"
      <3>1. PICK i \in BOOLEAN : i = l.instagram BY DEF Rows
      <3>2. Enrich!ResolveSocial(l) = [l EXCEPT !.instagram = i, !.website = "none"]
        BY <2>3, <3>1 DEF Enrich!ResolveSocial, Rows
      <3>3. [l EXCEPT !.instagram = i, !.website = "none"] \in Rows BY DEF Rows
      <3> QED BY <3>2, <3>3
    <2> QED BY <2>1, <2>2, <2>3
  <1>2. Enrich!ResolveBio(m, bio) \in Rows BY DEF Enrich!ResolveBio, Rows
  <1> QED BY <1>1, <1>2 DEF Enrich!Resolve

LEMMA StoredRows ==
  ASSUME NEW l \in Rows, NEW page, NEW n \in 1..MaxAnalyses
  PROVE  Enrich!Stored(Enrich!SignalsOf(l, page), n) \in SUBSET SignalRows
  <1>1. Enrich!SignalsOf(l, page) \in SUBSET Signals BY FoundSignals
  <1>2. ASSUME NEW S \in SUBSET Signals PROVE Enrich!Stored(S, n) \in SUBSET SignalRows
    BY DEF Enrich!Stored, SignalRows
  <1> QED BY <1>1, <1>2

LEMMA RowWithSignals ==
  ASSUME NEW l \in Rows, NEW S \in SUBSET SignalRows
  PROVE  [l EXCEPT !.signals = S] \in Rows /\ [l EXCEPT !.signals = S].signals = S
  BY DEF Rows

(* The row enrich_lead reads, and the one it writes. *)
ReadNow(l, S, A) == [l EXCEPT !.signals = S, !.artifacts = A]
EnrichedWith(l, A) == [l EXCEPT !.status = "enriched", !.artifacts = A]

LEMMA RowWithArtifacts ==
  ASSUME NEW l \in Rows, NEW S \in SUBSET SignalRows, NEW A \in SUBSET (1..MaxShots)
  PROVE  /\ ReadNow(l, S, A) \in Rows /\ ReadNow(l, S, A).signals = S
         /\ ReadNow(l, S, A).status = l.status
         /\ EnrichedWith(l, A) \in Rows /\ EnrichedWith(l, A).status = "enriched"
         /\ EnrichedWith(l, A).signals = l.signals
  BY DEF Rows, ReadNow, EnrichedWith

LEMMA TypedStore ==
  ASSUME NEW l \in Rows, NEW page, NEW n \in 1..MaxAnalyses
  PROVE  LET m == Enrich!StoreEmail(Enrich!StoreSignals(l, page, n), page) IN
         m \in Rows /\ m.signals = Enrich!Stored(Enrich!SignalsOf(l, page), n)
  <1>1. PICK S \in SUBSET SignalRows : S = Enrich!Stored(Enrich!SignalsOf(l, page), n)
    BY StoredRows
  <1>2. PICK k \in Rows : k = Enrich!StoreSignals(l, page, n) /\ k.signals = S
    <2>1. Enrich!StoreSignals(l, page, n) = [l EXCEPT !.signals = S]
      BY <1>1 DEF Enrich!StoreSignals
    <2> QED BY <2>1, RowWithSignals
  <1>3. Enrich!StoreEmail(k, page) \in Rows /\ Enrich!StoreEmail(k, page).signals = S
    BY <1>2 DEF Enrich!StoreEmail, Rows
  <1> QED BY <1>1, <1>2, <1>3

LEMMA TypedScore ==
  ASSUME MaxAnalyses \in Nat, NEW l \in Rows
  PROVE  LET m == [l EXCEPT !.score = Enrich!compute_score(l), !.status = "scored"] IN
         m \in Rows /\ m.signals = l.signals /\ m.status = "scored"
  <1>1. l.signals \in SUBSET SignalRows BY DEF Rows
  <1>2. PICK c \in -1..100 : c = Enrich!compute_score(l) BY <1>1, ScoreRange
  <1>3. /\ [l EXCEPT !.score = c, !.status = "scored"] \in Rows
        /\ [l EXCEPT !.score = c, !.status = "scored"].signals = l.signals
        /\ [l EXCEPT !.score = c, !.status = "scored"].status = "scored"
    BY DEF Rows
  <1> QED BY <1>2, <1>3

(* A flush writes the columns and rows that differ from what was read. *)
LEMMA TypedMerge ==
  ASSUME NEW now \in Rows, NEW read \in Rows, NEW row \in Rows
  PROVE  LET m == Enrich!Merged(now, read, row) IN
         /\ m \in Rows
         /\ m.signals = (now.signals \ (read.signals \ row.signals)) \cup (row.signals \ read.signals)
         /\ m.status = IF row.status # read.status THEN row.status ELSE now.status
  <1> DEFINE m == Enrich!Merged(now, read, row)
             Of(c) == IF row[c] # read[c] THEN row[c] ELSE now[c]
             With(c) == (now[c] \ (read[c] \ row[c])) \cup (row[c] \ read[c])
             C == {"business", "website", "instagram", "email", "status", "score", "signals",
                   "artifacts"}
  <1>1. m = [c \in C |-> IF c \in {"signals", "artifacts"} THEN With(c) ELSE Of(c)]
    <2>1. DOMAIN now = C BY DEF Rows
    <2> QED BY <2>1 DEF Enrich!Merged
  <1> HIDE DEF m
  <1>2. /\ m = [business |-> Of("business"), website |-> Of("website"),
                instagram |-> Of("instagram"), email |-> Of("email"), status |-> Of("status"),
                score |-> Of("score"), signals |-> With("signals"),
                artifacts |-> With("artifacts")]
    BY <1>1
  <1>3. /\ Of("business") \in Businesses
        /\ Of("website") \in {"none", "instagram", "social", "site"}
        /\ Of("instagram") \in BOOLEAN /\ Of("email") \in {"none", "own", "found"}
        /\ Of("status") \in {"new", "enriched", "scored"} /\ Of("score") \in -1..100
        /\ With("signals") \in SUBSET SignalRows /\ With("artifacts") \in SUBSET (1..MaxShots)
    BY DEF Rows
  <1>4. m \in Rows /\ m.signals = With("signals") /\ m.status = Of("status")
    <2> HIDE DEF Of, With
    <2> QED BY <1>2, <1>3 DEF Rows
  <1> QED BY <1>4 DEF m

LEMMA EnrichInit == EnrichSetup /\ Enrich!Init => EnrichInv
  <1> SUFFICES ASSUME EnrichSetup, Enrich!Init PROVE EnrichInv OBVIOUS
  <1>1. PICK b \in Businesses : site = Enrich!NewLead(b) BY DEF Enrich!Init
  <1>2. site \in Rows BY <1>1 DEF Enrich!NewLead, Rows, EnrichSetup
  <1>3. 0 \in 0..MaxShots /\ 0 \in 0..MaxAnalyses BY DEF EnrichSetup
  <1>4. overlapped \in BOOLEAN BY DEF Enrich!Init
  <1>5. work \in [Enrichers -> EnrichSessions] BY DEF Enrich!Init, EnrichSessions
  <1> QED BY <1>2, <1>3, <1>4, <1>5 DEF EnrichInv, Enrich!Init

(* A session a step leaves behind. *)
LEMMA TypedSession ==
  ASSUME NEW at \in {"open", "analysed", "rated", "flushed"}, NEW read \in Rows, NEW row \in Rows,
         NEW stale \in BOOLEAN
  PROVE  Enrich!Session(at, read, row, stale) \in EnrichSessions
  BY DEF Enrich!Session, EnrichSessions

LEMMA OpenSession ==
  ASSUME EnrichInv, NEW e \in Enrichers, work[e].at # "closed"
  PROVE  work[e] \in [at : {"open", "analysed", "rated", "flushed"}, read : Rows, row : Rows,
                      stale : BOOLEAN]
  BY DEF EnrichInv, EnrichSessions, Enrich!Closed

(* What enrich_lead leaves in its session. *)
LEMMA AnalysedSession ==
  ASSUME EnrichSetup, EnrichInv, NEW e \in Enrichers, Enrich!enrich_lead(e)
  PROVE  /\ \E read \in Rows, row \in Rows, l \in Rows, page \in Pages :
              /\ work' = [work EXCEPT ![e] = Enrich!Session("analysed", read, row, FALSE)]
              /\ read.signals = site.signals /\ row.status = "enriched"
              /\ read.status = work[e].read.status
              /\ row.signals = Enrich!Stored(Enrich!SignalsOf(l, page), analyses + 1)
         /\ shots' \in 0..MaxShots /\ disk' \subseteq 1..MaxShots /\ analyses' \in 0..MaxAnalyses
         /\ UNCHANGED <<site, overlapped>>
  <1>0. /\ MaxShots \in Nat /\ MaxAnalyses \in Nat /\ site \in Rows /\ analyses < MaxAnalyses
        /\ analyses \in Nat /\ analyses' = analyses + 1 /\ work[e].at = "open"
    BY DEF EnrichSetup, EnrichInv, Enrich!enrich_lead
  <1> DEFINE Now == [work[e].read EXCEPT !.signals = site.signals, !.artifacts = site.artifacts]
  <1>1. PICK now \in Rows : now = Now /\ now.signals = site.signals /\ now.status = work[e].read.status
    <2>1. PICK r \in Rows : r = work[e].read BY <1>0, OpenSession
    <2>2. site.signals \in SUBSET SignalRows /\ site.artifacts \in SUBSET (1..MaxShots)
      BY <1>0 DEF Rows
    <2>3. Now = ReadNow(r, site.signals, site.artifacts) BY <2>1 DEF ReadNow
    <2> HIDE DEF Now
    <2>4. Now \in Rows /\ Now.signals = site.signals /\ Now.status = r.status
      BY <2>2, <2>3, RowWithArtifacts
    <2> QED BY <2>1, <2>4
  <1>2. PICK page \in Pages, bio \in BOOLEAN, taken \in BOOLEAN,
             old \in IF site.artifacts = {} THEN {Enrich!NoShot} ELSE site.artifacts :
          LET l == Enrich!Resolve(Now, bio)
              shot == taken /\ Enrich!WantsShot(l, page) /\ shots < MaxShots IN
          /\ work' = [work EXCEPT ![e] = Enrich!Session("analysed", Now,
                       [Enrich!StoreEmail(Enrich!StoreSignals(l, page, analyses + 1), page) EXCEPT
                          !.status = "enriched",
                          !.artifacts = IF shot THEN (@ \ {old}) \cup {shots + 1} ELSE @], FALSE)]
          /\ shots' = IF shot THEN shots + 1 ELSE shots
          /\ disk' = IF shot THEN (disk \ {old}) \cup {shots + 1} ELSE disk
    BY DEF Enrich!enrich_lead
  <1>3. PICK l \in Rows : l = Enrich!Resolve(Now, bio) BY <1>1, TypedResolve
  <1>4. PICK shot \in BOOLEAN : shot <=> (taken /\ Enrich!WantsShot(l, page) /\ shots < MaxShots)
    OBVIOUS
  <1>5. PICK k \in Rows :
          /\ k = Enrich!StoreEmail(Enrich!StoreSignals(l, page, analyses + 1), page)
          /\ k.signals = Enrich!Stored(Enrich!SignalsOf(l, page), analyses + 1)
    BY <1>0, TypedStore
  <1> HIDE DEF Now
  <1>6. /\ work' = [work EXCEPT ![e] = Enrich!Session("analysed", now,
                      [k EXCEPT !.status = "enriched",
                                !.artifacts = IF shot THEN (@ \ {old}) \cup {shots + 1} ELSE @], FALSE)]
        /\ shots' = IF shot THEN shots + 1 ELSE shots
        /\ disk' = IF shot THEN (disk \ {old}) \cup {shots + 1} ELSE disk
    BY <1>1, <1>2, <1>3, <1>4, <1>5
  <1>7. shot => shots + 1 \in 1..MaxShots BY <1>0, <1>4 DEF EnrichInv
  <1>8. PICK a \in SUBSET (1..MaxShots) :
          a = IF shot THEN (k.artifacts \ {old}) \cup {shots + 1} ELSE k.artifacts
    BY <1>7 DEF Rows
  <1>10. PICK row \in Rows :
           /\ row = EnrichedWith(k, a)
           /\ row.status = "enriched" /\ row.signals = k.signals
    BY RowWithArtifacts
  <1>11. work' = [work EXCEPT ![e] = Enrich!Session("analysed", now, row, FALSE)]
    BY <1>6, <1>8, <1>10 DEF EnrichedWith
  <1>12. shots' \in 0..MaxShots /\ disk' \subseteq 1..MaxShots
    BY <1>6, <1>7 DEF EnrichInv
  <1>13. /\ analyses' \in 0..MaxAnalyses /\ UNCHANGED <<site, overlapped>>
         /\ row.signals = Enrich!Stored(Enrich!SignalsOf(l, page), analyses + 1)
    BY <1>0, <1>5, <1>10 DEF Enrich!enrich_lead
  <1> QED BY <1>1, <1>10, <1>11, <1>12, <1>13

(* What Flush, score_lead and OpenForScore leave in theirs. *)
LEMMA FlushedSession ==
  ASSUME EnrichInv, NEW e \in Enrichers, Enrich!Flush(e)
  PROVE  \E m \in Rows :
           /\ m = Enrich!Merged(site, work[e].read, work[e].row)
           /\ work' = [work EXCEPT ![e] =
                         Enrich!Session("flushed", work[e].read, m, work[e].stale)]
  <1>1. work[e].read \in Rows /\ work[e].row \in Rows BY OpenSession DEF Enrich!Flush
  <1>2. PICK m \in Rows : m = Enrich!Merged(site, work[e].read, work[e].row)
    BY <1>1, TypedMerge DEF EnrichInv
  <1> QED BY <1>2 DEF Enrich!Flush

LEMMA ScoredSession ==
  ASSUME EnrichSetup, EnrichInv, NEW e \in Enrichers, Enrich!score_lead(e)
  PROVE  \E m \in Rows :
           /\ m.signals = work[e].row.signals /\ m.status = "scored"
           /\ work' = [work EXCEPT ![e] =
                         Enrich!Session("flushed", work[e].read, m, work[e].stale)]
  <1>1. PICK row \in Rows : row = work[e].row BY OpenSession DEF Enrich!score_lead
  <1> DEFINE Scored == [row EXCEPT !.score = Enrich!compute_score(row), !.status = "scored"]
  <1>2. PICK m \in Rows : m = Scored /\ m.signals = row.signals /\ m.status = "scored"
    BY TypedScore DEF EnrichSetup
  <1>3. work' = [work EXCEPT ![e] =
                   Enrich!Session("flushed", work[e].read, Scored, work[e].stale)]
    BY <1>1 DEF Enrich!score_lead
  <1> HIDE DEF Scored
  <1> QED BY <1>1, <1>2, <1>3

LEMMA RatedSession ==
  ASSUME EnrichSetup, EnrichInv, NEW e \in Enrichers, Enrich!OpenForScore(e)
  PROVE  \E m \in Rows :
           /\ m.signals = site.signals /\ m.status = "scored"
           /\ work' = [work EXCEPT ![e] = Enrich!Session("rated", site, m, FALSE)]
  <1> DEFINE Scored == [site EXCEPT !.score = Enrich!compute_score(site), !.status = "scored"]
  <1>1. PICK m \in Rows : m = Scored /\ m.signals = site.signals /\ m.status = "scored"
    BY TypedScore DEF EnrichSetup, EnrichInv
  <1> HIDE DEF Scored
  <1>2. work' = [work EXCEPT ![e] = Enrich!Session("rated", site, Scored, FALSE)]
    BY DEF Enrich!OpenForScore, Scored
  <1> QED BY <1>1, <1>2

(* What a commit leaves of the sessions: its own is closed, the others keep *)
(* all but the mark that what they read is gone.                             *)
LEMMA CommittedSessions ==
  ASSUME EnrichInv, NEW e \in Enrichers, Enrich!Commit(e)
  PROVE  /\ work' \in [Enrichers -> EnrichSessions] /\ work'[e] = Enrich!Closed
         /\ \A o \in Enrichers \ {e} :
              \/ /\ work'[o] = work[o]
                 /\ work[o].at = "analysed" => work[e].row.signals = site.signals
              \/ /\ work[o].at = "analysed" /\ work[e].row.signals # site.signals
                 /\ work'[o] = Enrich!Session("analysed", work[o].read, work[o].row, TRUE)
  <1> DEFINE replaced == work[e].row.signals # site.signals
             New(o) == IF o = e THEN Enrich!Closed
                       ELSE IF replaced /\ work[o].at = "analysed"
                            THEN Enrich!Session("analysed", work[o].read, work[o].row, TRUE)
                            ELSE work[o]
  <1>1. work' = [o \in Enrichers |-> New(o)] BY DEF Enrich!Commit
  <1>2. ASSUME NEW o \in Enrichers \ {e}, replaced, work[o].at = "analysed"
        PROVE  /\ New(o) = Enrich!Session("analysed", work[o].read, work[o].row, TRUE)
               /\ New(o) \in EnrichSessions
    <2>1. work[o].read \in Rows /\ work[o].row \in Rows BY <1>2, OpenSession
    <2>2. New(o) = Enrich!Session("analysed", work[o].read, work[o].row, TRUE) BY <1>2
    <2> HIDE DEF New
    <2> QED BY <2>1, <2>2, TypedSession
  <1>3. ASSUME NEW o \in Enrichers \ {e}, ~(replaced /\ work[o].at = "analysed")
        PROVE  New(o) = work[o] /\ New(o) \in EnrichSessions
    BY <1>3 DEF EnrichInv
  <1>4. New(e) = Enrich!Closed /\ New(e) \in EnrichSessions BY DEF EnrichSessions
  <1> HIDE DEF New
  <1> QED BY <1>1, <1>2, <1>3, <1>4

LEMMA EnrichStep == EnrichSetup /\ EnrichInv /\ [Enrich!Next]_(Enrich!vars) => EnrichInv'
  <1> SUFFICES ASSUME EnrichSetup, EnrichInv, [Enrich!Next]_(Enrich!vars) PROVE EnrichInv' OBVIOUS
  <1>s. ASSUME NEW e \in Enrichers, NEW s \in EnrichSessions, work' = [work EXCEPT ![e] = s],
               UNCHANGED <<site, disk, shots, analyses, overlapped>>
        PROVE  EnrichInv'
    BY <1>s DEF EnrichInv
  <1>1. ASSUME NEW e \in Enrichers, Enrich!Open(e) PROVE EnrichInv'
    BY <1>1, <1>s, TypedSession DEF Enrich!Open, EnrichInv
  <1>2. ASSUME NEW e \in Enrichers, Enrich!enrich_lead(e) PROVE EnrichInv'
    <2>1. PICK s \in EnrichSessions : work' = [work EXCEPT ![e] = s]
      BY <1>2, AnalysedSession, TypedSession
    <2>2. /\ shots' \in 0..MaxShots /\ disk' \subseteq 1..MaxShots /\ analyses' \in 0..MaxAnalyses
          /\ UNCHANGED <<site, overlapped>>
      BY <1>2, AnalysedSession
    <2> QED BY <2>1, <2>2 DEF EnrichInv
  <1>3. ASSUME NEW e \in Enrichers, Enrich!OpenForScore(e) PROVE EnrichInv'
    BY <1>3, <1>s, RatedSession, TypedSession DEF Enrich!OpenForScore, EnrichInv
  <1>4. ASSUME NEW e \in Enrichers, Enrich!Flush(e) PROVE EnrichInv'
    <2>1. work[e].read \in Rows /\ work[e].stale \in BOOLEAN
      BY <1>4, OpenSession DEF Enrich!Flush
    <2>2. PICK s \in EnrichSessions : work' = [work EXCEPT ![e] = s]
      BY <1>4, <2>1, FlushedSession, TypedSession
    <2> QED BY <1>4, <1>s, <2>2 DEF Enrich!Flush
  <1>5. ASSUME NEW e \in Enrichers, Enrich!score_lead(e) PROVE EnrichInv'
    <2>1. work[e].read \in Rows /\ work[e].stale \in BOOLEAN
      BY <1>5, OpenSession DEF Enrich!score_lead
    <2>2. PICK s \in EnrichSessions : work' = [work EXCEPT ![e] = s]
      BY <1>5, <2>1, ScoredSession, TypedSession
    <2> QED BY <1>5, <1>s, <2>2 DEF Enrich!score_lead
  <1>6. ASSUME NEW e \in Enrichers, Enrich!Commit(e) PROVE EnrichInv'
    <2>1. work[e] \in [at : {"open", "analysed", "rated", "flushed"}, read : Rows, row : Rows,
                       stale : BOOLEAN]
      BY <1>6, OpenSession DEF Enrich!Commit
    <2>2. site' \in Rows /\ UNCHANGED <<disk, shots, analyses>> BY <1>6, <2>1 DEF Enrich!Commit
    <2>3. overlapped' \in BOOLEAN BY <1>6, <2>1, Zenon DEF Enrich!Commit, EnrichInv
    <2> QED BY <1>6, <2>2, <2>3, CommittedSessions DEF EnrichInv
  <1>7. ASSUME NEW e \in Enrichers, Enrich!Rollback(e) PROVE EnrichInv'
    BY <1>7, <1>s DEF Enrich!Rollback, EnrichSessions
  <1>8. CASE UNCHANGED Enrich!vars BY <1>8 DEF Enrich!vars, EnrichInv
  <1> QED BY <1>1, <1>2, <1>3, <1>4, <1>5, <1>6, <1>7, <1>8 DEF Enrich!Next

LEMMA EnrichTyped == EnrichInv => Enrich!TypeOK
  <1> SUFFICES ASSUME EnrichInv PROVE Enrich!TypeOK
    OBVIOUS
  <1>1. site.signals \in SUBSET SignalRows BY DEF EnrichInv, Rows
  <1>2. Enrich!Types(site) \subseteq Enrich!SignalTypes
    BY <1>1 DEF Enrich!Types, SignalRows, Signals
  <1> QED BY <1>2 DEF EnrichInv, Rows, Enrich!TypeOK

(* A lead's score stays within 0..100 (compute_score stops at 100), and its  *)
(* signals, status and screenshots are of the kinds the code stores.         *)
THEOREM EnrichTypes == Enrich!Spec => []Enrich!TypeOK
  <1>0. EnrichSetup BY EnrichAssumption DEF EnrichSetup
  <1>1. Enrich!Init => EnrichInv BY <1>0, EnrichInit
  <1>2. EnrichInv /\ [Enrich!Next]_(Enrich!vars) => EnrichInv' BY <1>0, EnrichStep
  <1> QED BY <1>1, <1>2, EnrichTyped, PTL DEF Enrich!Spec

---------------------------------------------------------------------------
(* One analysis                                                            *)

(* The rows S are of one analysis. *)
One(S) == (\A s, t \in S : s[2] = t[2]) /\ Agree({s[1][1] : s \in S})

LEMMA OneIsOneAnalysis == ASSUME NEW l PROVE Enrich!OneAnalysis(l) <=> One(l.signals)
  BY SameCardinality DEF Enrich!OneAnalysis, Enrich!Types, One, Agree, States, Domains, Findings

LEMMA StoredIsOne ==
  ASSUME NEW l, NEW page, NEW n PROVE One(Enrich!Stored(Enrich!SignalsOf(l, page), n))
  <1>1. PICK S : S = Enrich!SignalsOf(l, page) OBVIOUS
  <1>2. PICK T : T = Enrich!Stored(S, n) OBVIOUS
  <1>3. \A t \in T : t[2] = n /\ t[1] \in S BY <1>2 DEF Enrich!Stored
  <1>4. \A s \in S : \E t \in T : t[1] = s
    <2> TAKE s \in S
    <2>1. <<s, n>> \in T BY <1>2 DEF Enrich!Stored
    <2> QED BY <2>1
  <1>5. {t[1][1] : t \in T} = {s[1] : s \in S} BY <1>3, <1>4
  <1>6. Agree({s[1] : s \in S}) BY <1>1, PageFindings
  <1>7. One(T) BY <1>3, <1>5, <1>6 DEF One
  <1> QED BY <1>1, <1>2, <1>7

(* What a session is about to commit is of one analysis, unless another      *)
(* session's commit came after it had read the signals.                      *)
SessionInv(w, r) ==
  /\ w.at # "closed" /\ w.read.status # "new" => r.status # "new"
  /\ w.at = "analysed" => /\ w.row.status = "enriched" /\ One(w.row.signals)
                          /\ w.stale \/ w.read.signals = r.signals
                          /\ w.stale => r.status # "new"
  /\ w.at = "rated" => /\ w.row.signals = w.read.signals /\ w.row.status = "scored"
                       /\ r.status # "new"
  /\ w.at = "flushed" => /\ w.row.status # "new"
                         /\ w.stale => r.status # "new"
                         /\ \/ w.row.signals = r.signals /\ r.status # "new"
                            \/ w.stale \/ One(w.row.signals)

(* Only one session has flushed: it holds the lock of the lead's row. *)
SignalsInv ==
  /\ EnrichInv
  /\ site.status # "new" /\ ~overlapped => One(site.signals)
  /\ \A e \in Enrichers : SessionInv(work[e], site)
  /\ \A e, o \in Enrichers : work[e].at = "flushed" /\ work[o].at = "flushed" => e = o

LEMMA SignalsInit == EnrichSetup /\ Enrich!Init => SignalsInv
  <1> SUFFICES ASSUME EnrichSetup, Enrich!Init PROVE SignalsInv OBVIOUS
  <1>1. PICK b \in Businesses : site = Enrich!NewLead(b) BY DEF Enrich!Init
  <1>2. site.status = "new" BY <1>1 DEF Enrich!NewLead
  <1> QED BY <1>2, EnrichInit DEF SignalsInv, SessionInv, Enrich!Init, Enrich!Closed

(* A step of one session that leaves the lead alone. *)
LEMMA SessionSteps ==
  ASSUME SignalsInv, EnrichInv', NEW e \in Enrichers, NEW s, work' = [work EXCEPT ![e] = s],
         UNCHANGED <<site, overlapped>>, SessionInv(s, site),
         s.at = "flushed" => \A o \in Enrichers \ {e} : work[o].at # "flushed"
  PROVE  SignalsInv'
  <1>1. \A o \in Enrichers : work'[o] = IF o = e THEN s ELSE work[o] BY DEF SignalsInv, EnrichInv
  <1>2. \A o \in Enrichers : SessionInv(work'[o], site') BY <1>1 DEF SignalsInv
  <1> QED BY <1>1, <1>2 DEF SignalsInv

LEMMA SignalsFlushed ==
  ASSUME EnrichSetup, SignalsInv, EnrichInv', NEW e \in Enrichers, Enrich!Flush(e)
  PROVE  SignalsInv'
  <1>1. PICK read \in Rows, row \in Rows, st \in BOOLEAN, at \in {"analysed", "rated"} :
          work[e] = [at |-> at, read |-> read, row |-> row, stale |-> st]
    BY OpenSession DEF Enrich!Flush, SignalsInv
  <1>f. PICK m \in Rows :
          /\ m = Enrich!Merged(site, work[e].read, work[e].row)
          /\ work' = [work EXCEPT ![e] =
                        Enrich!Session("flushed", work[e].read, m, work[e].stale)]
    BY FlushedSession DEF SignalsInv
  <1> DEFINE s == [at |-> "flushed", read |-> read, row |-> m, stale |-> st]
  <1>2. m = Enrich!Merged(site, read, row) /\ work' = [work EXCEPT ![e] = s]
    <2>1. work[e].read = read /\ work[e].row = row /\ work[e].stale = st BY <1>1
    <2> QED BY <1>f, <2>1 DEF Enrich!Session
  <1>3. /\ m.signals = (site.signals \ (read.signals \ row.signals)) \cup (row.signals \ read.signals)
        /\ m.status = IF row.status # read.status THEN row.status ELSE site.status
    BY <1>2, TypedMerge DEF SignalsInv, EnrichInv
  <1>4. SessionInv(work[e], site) BY DEF SignalsInv
  <1>5. SessionInv(s, site)
    <2>1. CASE at = "analysed"
      <3>1. row.status = "enriched" /\ One(row.signals) /\ (st \/ read.signals = site.signals)
            /\ (st => site.status # "new")
        BY <1>1, <1>4, <2>1 DEF SessionInv
      <3>2. m.status # "new"
        <4>1. row.status = read.status => site.status # "new"
          BY <1>1, <1>4, <3>1 DEF SessionInv
        <4> QED BY <1>3, <3>1, <4>1
      <3>3. ~st => m.signals = row.signals BY <1>3, <3>1
      <3> QED BY <1>1, <1>2, <1>4, <3>1, <3>2, <3>3 DEF SessionInv
    <2>2. CASE at = "rated"
      <3>1. row.signals = read.signals /\ row.status = "scored" /\ site.status # "new"
        BY <1>1, <1>4, <2>2 DEF SessionInv
      <3>2. m.signals = site.signals /\ m.status # "new" BY <1>3, <3>1
      <3> QED BY <1>1, <1>2, <1>4, <3>1, <3>2 DEF SessionInv
    <2> QED BY <2>1, <2>2
  <1> QED BY <1>2, <1>5, SessionSteps DEF Enrich!Flush

LEMMA SignalsCommitted ==
  ASSUME EnrichSetup, SignalsInv, EnrichInv', NEW e \in Enrichers, Enrich!Commit(e)
  PROVE  SignalsInv'
  <1>1. PICK read \in Rows, row \in Rows, st \in BOOLEAN :
          work[e] = [at |-> "flushed", read |-> read, row |-> row, stale |-> st]
    BY OpenSession DEF Enrich!Commit, SignalsInv
  <1>2. /\ site' = row
        /\ overlapped' = IF row.signals # site.signals THEN st ELSE overlapped
    BY <1>1 DEF Enrich!Commit
  <1>3. /\ row.status # "new" /\ (st => site.status # "new")
        /\ \/ row.signals = site.signals /\ site.status # "new"
           \/ st \/ One(row.signals)
    <2>1. SessionInv(work[e], site) BY DEF SignalsInv
    <2> QED BY <1>1, <2>1 DEF SessionInv
  <1>4. ~overlapped' => One(site'.signals)
    <2>1. CASE row.signals # site.signals BY <1>2, <1>3, <2>1
    <2>2. CASE row.signals = site.signals BY <1>2, <1>3, <2>2 DEF SignalsInv
    <2> QED BY <2>1, <2>2
  <1>5. work'[e] = Enrich!Closed BY CommittedSessions DEF SignalsInv
  <1>6. \A o \in Enrichers : work'[o].at = "flushed" => work[o].at = "flushed" /\ o # e
    <2> TAKE o \in Enrichers
    <2>1. CASE o = e BY <1>5, <2>1 DEF Enrich!Closed
    <2>2. CASE o # e
      <3>1. \/ work'[o] = work[o]
            \/ work'[o] = [at |-> "analysed", read |-> work[o].read, row |-> work[o].row,
                           stale |-> TRUE]
        BY <2>2, CommittedSessions DEF SignalsInv, Enrich!Session
      <3>2. ASSUME work'[o] = [at |-> "analysed", read |-> work[o].read, row |-> work[o].row,
                               stale |-> TRUE]
            PROVE  work'[o].at # "flushed"
        BY <3>2
      <3> QED BY <2>2, <3>1, <3>2
    <2> QED BY <2>1, <2>2
  <1>7. ASSUME NEW o \in Enrichers PROVE SessionInv(work'[o], site')
    <2>1. CASE o = e BY <1>5, <2>1 DEF Enrich!Closed, SessionInv
    <2>2. CASE o # e
      <3>1. SessionInv(work[o], site) BY DEF SignalsInv
      <3>2. work[o].at # "flushed"
        BY <1>1, <2>2 DEF SignalsInv
      <3>3. \/ /\ work'[o] = work[o]
               /\ work[o].at = "analysed" => row.signals = site.signals
            \/ /\ work[o].at = "analysed"
               /\ work'[o] = [at |-> "analysed", read |-> work[o].read, row |-> work[o].row,
                              stale |-> TRUE]
        BY <1>1, <2>2, CommittedSessions DEF SignalsInv, Enrich!Session
      <3>4. site'.status # "new" BY <1>2, <1>3
      <3>5. CASE /\ work'[o] = work[o]
                 /\ work[o].at = "analysed" => site'.signals = site.signals
        BY <3>1, <3>2, <3>4, <3>5 DEF SessionInv
      <3>6. CASE /\ work[o].at = "analysed"
                 /\ work'[o] = [at |-> "analysed", read |-> work[o].read, row |-> work[o].row,
                                stale |-> TRUE]
        BY <3>1, <3>4, <3>6 DEF SessionInv
      <3> QED BY <1>2, <3>3, <3>5, <3>6
    <2> QED BY <2>1, <2>2
  <1> QED BY <1>4, <1>6, <1>7 DEF SignalsInv

LEMMA SignalsStep == EnrichSetup /\ SignalsInv /\ [Enrich!Next]_(Enrich!vars) => SignalsInv'
  <1> SUFFICES ASSUME EnrichSetup, SignalsInv, [Enrich!Next]_(Enrich!vars) PROVE SignalsInv'
    OBVIOUS
  <1>0. EnrichInv' BY EnrichStep DEF SignalsInv
  <1>1. ASSUME NEW e \in Enrichers, Enrich!Open(e) PROVE SignalsInv'
    <2>1. SessionInv(Enrich!Session("open", site, site, FALSE), site)
      BY DEF SessionInv, Enrich!Session
    <2> QED BY <1>0, <1>1, <2>1, SessionSteps DEF Enrich!Open, Enrich!Session
  <1>2. ASSUME NEW e \in Enrichers, Enrich!enrich_lead(e) PROVE SignalsInv'
    <2>1. PICK read \in Rows, row \in Rows, l \in Rows, page \in Pages :
            /\ work' = [work EXCEPT ![e] = Enrich!Session("analysed", read, row, FALSE)]
            /\ read.signals = site.signals /\ row.status = "enriched"
            /\ row.signals = Enrich!Stored(Enrich!SignalsOf(l, page), analyses + 1)
            /\ read.status # "new" => site.status # "new"
      <3>1. PICK read \in Rows, row \in Rows, l \in Rows, page \in Pages :
              /\ work' = [work EXCEPT ![e] = Enrich!Session("analysed", read, row, FALSE)]
              /\ read.signals = site.signals /\ row.status = "enriched"
              /\ read.status = work[e].read.status
              /\ row.signals = Enrich!Stored(Enrich!SignalsOf(l, page), analyses + 1)
        BY <1>2, AnalysedSession DEF SignalsInv
      <3>2. SessionInv(work[e], site) /\ work[e].at = "open"
        BY <1>2 DEF SignalsInv, Enrich!enrich_lead
      <3>3. read.status # "new" => site.status # "new" BY <3>1, <3>2 DEF SessionInv
      <3> QED BY <3>1, <3>3
    <2>2. One(row.signals) BY <2>1, StoredIsOne
    <2>3. SessionInv(Enrich!Session("analysed", read, row, FALSE), site)
      BY <2>1, <2>2 DEF SessionInv, Enrich!Session
    <2> QED BY <1>0, <1>2, <2>1, <2>3, SessionSteps DEF Enrich!enrich_lead, Enrich!Session
  <1>3. ASSUME NEW e \in Enrichers, Enrich!OpenForScore(e) PROVE SignalsInv'
    <2>1. PICK m \in Rows :
            /\ m.signals = site.signals /\ m.status = "scored"
            /\ work' = [work EXCEPT ![e] = Enrich!Session("rated", site, m, FALSE)]
      BY <1>3, RatedSession DEF SignalsInv
    <2>2. SessionInv(Enrich!Session("rated", site, m, FALSE), site)
      BY <1>3, <2>1 DEF SessionInv, Enrich!Session, Enrich!OpenForScore
    <2> QED BY <1>0, <1>3, <2>1, <2>2, SessionSteps DEF Enrich!OpenForScore, Enrich!Session
  <1>4. ASSUME NEW e \in Enrichers, Enrich!score_lead(e) PROVE SignalsInv'
    <2>0. PICK m \in Rows :
            /\ m.signals = work[e].row.signals /\ m.status = "scored"
            /\ work' = [work EXCEPT ![e] =
                          Enrich!Session("flushed", work[e].read, m, work[e].stale)]
      BY <1>4, ScoredSession DEF SignalsInv
    <2> DEFINE s == [at |-> "flushed", read |-> work[e].read, row |-> m, stale |-> work[e].stale]
    <2>1. /\ m.signals = work[e].row.signals /\ m.status = "scored"
          /\ work' = [work EXCEPT ![e] = s]
      BY <2>0 DEF Enrich!Session
    <2>2. work[e].at = "flushed" /\ SessionInv(work[e], site)
      BY <1>4 DEF Enrich!score_lead, SignalsInv
    <2>3. SessionInv(s, site) BY <2>1, <2>2 DEF SessionInv
    <2>4. \A o \in Enrichers \ {e} : work[o].at # "flushed" BY <2>2 DEF SignalsInv
    <2> QED BY <1>0, <1>4, <2>1, <2>3, <2>4, SessionSteps DEF Enrich!score_lead
  <1>5. ASSUME NEW e \in Enrichers, Enrich!Rollback(e) PROVE SignalsInv'
    <2>1. SessionInv(Enrich!Closed, site) BY DEF SessionInv, Enrich!Closed
    <2> QED BY <1>0, <1>5, <2>1, SessionSteps DEF Enrich!Rollback, Enrich!Closed
  <1>6. CASE UNCHANGED Enrich!vars BY <1>0, <1>6 DEF Enrich!vars, SignalsInv
  <1> QED BY <1>0, <1>1, <1>2, <1>3, <1>4, <1>5, <1>6, SignalsFlushed, SignalsCommitted
          DEF Enrich!Next

(* However often and by however many sessions at once a lead is enriched,    *)
(* whatever is rolled back, its committed signals are those of one analysis  *)
(* of its site, unless the session that stored them had read the old ones    *)
(* before another one replaced them (enrich_lead deletes what it has read).  *)
THEOREM OneAnalysisCommitted == Enrich!Spec => []SignalsOfOneAnalysis
  <1>0. EnrichSetup BY EnrichAssumption DEF EnrichSetup
  <1>1. SignalsInv => SignalsOfOneAnalysis
    BY OneIsOneAnalysis DEF SignalsInv, SignalsOfOneAnalysis, Enrich!SignalsOfOneAnalysis
  <1>2. Enrich!Init => SignalsInv BY <1>0, SignalsInit
  <1>3. SignalsInv /\ [Enrich!Next]_(Enrich!vars) => SignalsInv' BY <1>0, SignalsStep
  <1> QED BY <1>1, <1>2, <1>3, PTL DEF Enrich!Spec

---------------------------------------------------------------------------
(* Drafts                                                                  *)

DraftRows == [channel : {"email", "whatsapp"}, status : {"pending_review", "approved", "sent"},
              by : Tasks \cup {Queue!Request}, saw : Nat]

(* Nothing drafted is lost: drafts are only added or change their status. *)
DraftsInv ==
  /\ Queue!TypeOK /\ drafts \in Seq(DraftRows)
  /\ \A t \in Tasks : task[t] = "drafted" => own[t] # 0

(* The new drafts of b's step: at most one per channel, behind the old ones. *)
Grown(b, n) ==
  /\ \A i \in (Len(drafts) + 1)..Len(drafts') : drafts'[i].by = b /\ drafts'[i].saw = n
  /\ drafts' \in Seq(DraftRows) /\ Len(drafts) <= Len(drafts')
  /\ \A i \in 1..Len(drafts) : drafts'[i] = drafts[i]
  /\ \A i, j \in (Len(drafts) + 1)..Len(drafts') :
       drafts'[i].channel = drafts'[j].channel => i = j

LEMMA AddedDrafts ==
  ASSUME NEW s \in Seq(DraftRows), NEW t \in Tasks, NEW q \in Nat, NEW b, NEW a,
         \/ b = <<>> /\ a = <<>>
         \/ b = <<Queue!Draft("whatsapp", t, q)>> /\ a = <<>>
         \/ b = <<>> /\ a = <<Queue!Draft("whatsapp", t, q)>>
  PROVE  LET r == s \o b \o <<Queue!Draft("email", t, q)>> \o a IN
         /\ r \in Seq(DraftRows) /\ Len(s) <= Len(r)
         /\ Len(s) + Len(b) + 1 \in 1..Len(r)
         /\ \A i \in 1..Len(s) : r[i] = s[i]
         /\ \A i, j \in (Len(s) + 1)..Len(r) : r[i].channel = r[j].channel => i = j
         /\ \A i \in (Len(s) + 1)..Len(r) : r[i].by = t /\ r[i].saw = q
  <1> DEFINE w == Queue!Draft("whatsapp", t, q)
             e == Queue!Draft("email", t, q)
             r == s \o b \o <<e>> \o a
             n == Len(s)
  <1>0. /\ n \in Nat /\ w \in DraftRows /\ e \in DraftRows
        /\ w.channel = "whatsapp" /\ e.channel = "email"
        /\ w.by = t /\ w.saw = q /\ e.by = t /\ e.saw = q
    BY DEF Queue!Draft, DraftRows
  <1> HIDE DEF w, e
  <1>1. CASE b = <<>> /\ a = <<>>
    <2>1. r = s \o <<e>> BY <1>0, <1>1
    <2> HIDE DEF r
    <2>2. /\ r \in Seq(DraftRows) /\ Len(r) = n + 1
          /\ \A i \in 1..n : r[i] = s[i]
      BY <1>0, <2>1
    <2> QED BY <1>0, <1>1, <2>2 DEF r, e
  <1>2. CASE b = <<w>> /\ a = <<>>
    <2>1. r = s \o <<w, e>> BY <1>0, <1>2
    <2> HIDE DEF r
    <2>2. /\ r \in Seq(DraftRows) /\ Len(r) = n + 2
          /\ \A i \in 1..n : r[i] = s[i]
          /\ r[n + 1] = w /\ r[n + 2] = e
      BY <1>0, <2>1
    <2>3. \A i \in (n + 1)..Len(r) : i = n + 1 \/ i = n + 2 BY <1>0, <2>2
    <2> QED BY <1>0, <1>2, <2>2, <2>3 DEF r, e
  <1>3. CASE b = <<>> /\ a = <<w>>
    <2>1. r = s \o <<e, w>> BY <1>0, <1>3
    <2> HIDE DEF r
    <2>2. /\ r \in Seq(DraftRows) /\ Len(r) = n + 2
          /\ \A i \in 1..n : r[i] = s[i]
          /\ r[n + 1] = e /\ r[n + 2] = w
      BY <1>0, <2>1
    <2>3. \A i \in (n + 1)..Len(r) : i = n + 1 \/ i = n + 2 BY <1>0, <2>2
    <2> QED BY <1>0, <1>3, <2>2, <2>3 DEF r, e
  <1> QED BY <1>1, <1>2, <1>3 DEF w

LEMMA WhatsAppOnly ==
  ASSUME NEW t, NEW wanted, NEW x \in Queue!WhatsApps(t, wanted)
  PROVE  x = <<>> \/ (wanted /\ x = <<Queue!Draft("whatsapp", t, saw[t])>>)
  BY DEF Queue!WhatsApps

LEMMA CommitGrows ==
  ASSUME DraftsInv, NEW t \in Tasks, Queue!CommitDraft(t)
  PROVE  Grown(t, saw[t]) /\ own' \in [Tasks -> 0..Len(drafts')] /\ own'[t] # 0
  <1>1. PICK b \in Queue!WhatsApps(t, Queue!preferred_whatsapp) :
          \E a \in Queue!WhatsApps(t, Queue!wants_whatsapp /\ b = <<>>) :
            /\ drafts' = drafts \o b \o <<Queue!Draft("email", t, saw[t])>> \o a
            /\ own' = [own EXCEPT ![t] = Len(drafts) + Len(b) + 1]
    BY DEF Queue!CommitDraft
  <1>2. PICK a \in Queue!WhatsApps(t, Queue!wants_whatsapp /\ b = <<>>) :
          /\ drafts' = drafts \o b \o <<Queue!Draft("email", t, saw[t])>> \o a
          /\ own' = [own EXCEPT ![t] = Len(drafts) + Len(b) + 1]
    BY <1>1
  <1>3. \/ b = <<>> /\ a = <<>>
        \/ b = <<Queue!Draft("whatsapp", t, saw[t])>> /\ a = <<>>
        \/ b = <<>> /\ a = <<Queue!Draft("whatsapp", t, saw[t])>>
    BY WhatsAppOnly
  <1>4. Grown(t, saw[t]) /\ Len(drafts) + Len(b) + 1 \in 1..Len(drafts')
    <2>1. drafts \in Seq(DraftRows) BY DEF DraftsInv
    <2>2. PICK s \in Seq(DraftRows) : s = drafts BY <2>1
    <2> DEFINE r == s \o b \o <<Queue!Draft("email", t, saw[t])>> \o a
    <2>3. /\ r \in Seq(DraftRows) /\ Len(s) <= Len(r)
          /\ Len(s) + Len(b) + 1 \in 1..Len(r)
          /\ \A i \in 1..Len(s) : r[i] = s[i]
          /\ \A i, j \in (Len(s) + 1)..Len(r) : r[i].channel = r[j].channel => i = j
          /\ \A i \in (Len(s) + 1)..Len(r) : r[i].by = t /\ r[i].saw = saw[t]
      <3>1. saw[t] \in Nat BY DEF DraftsInv, Queue!TypeOK
      <3> QED BY <1>3, <3>1, AddedDrafts
    <2>4. drafts' = r BY <1>2, <2>2
    <2> HIDE DEF r
    <2> QED BY <2>2, <2>3, <2>4 DEF Grown
  <1>5. Len(drafts) \in Nat /\ Len(drafts') \in Nat /\ Len(drafts) <= Len(drafts')
    BY <1>4 DEF DraftsInv, Grown
  <1> QED BY <1>2, <1>4, <1>5 DEF DraftsInv, Queue!TypeOK

LEMMA AppendGrows ==
  ASSUME DraftsInv, NEW d \in DraftRows, drafts' = Append(drafts, d)
  PROVE  Grown(d.by, d.saw)
  <1>1. /\ drafts' \in Seq(DraftRows) /\ Len(drafts') = Len(drafts) + 1 /\ Len(drafts) \in Nat
        /\ \A i \in 1..Len(drafts) : drafts'[i] = drafts[i]
        /\ drafts'[Len(drafts) + 1] = d
    BY DEF DraftsInv
  <1>2. \A i \in (Len(drafts) + 1)..Len(drafts') : i = Len(drafts) + 1 BY <1>1
  <1> QED BY <1>1, <1>2 DEF Grown

LEMMA QualifiedGrows ==
  ASSUME DraftsInv, NEW t \in Tasks, Queue!CommitQualified(t)
  PROVE  Grown(t, saw[t]) /\ own' = own
  <1>0. saw[t] \in Nat BY DEF DraftsInv, Queue!TypeOK
  <1>1. ASSUME drafts' = drafts PROVE Grown(t, saw[t])
    <2>1. Len(drafts) \in Nat /\ drafts \in Seq(DraftRows) BY DEF DraftsInv
    <2>2. (Len(drafts) + 1)..Len(drafts) = {} BY <2>1
    <2> QED BY <1>1, <2>1, <2>2 DEF Grown
  <1>2. PICK d \in DraftRows : d = Queue!Draft("whatsapp", t, saw[t]) /\ d.by = t /\ d.saw = saw[t]
    <2> DEFINE d == Queue!Draft("whatsapp", t, saw[t])
    <2>1. d \in DraftRows /\ d.by = t /\ d.saw = saw[t] BY <1>0 DEF Queue!Draft, DraftRows
    <2> HIDE DEF d
    <2> QED BY <2>1 DEF d
  <1>3. \/ drafts' = drafts
        \/ \E x \in Queue!WhatsApps(t, Queue!preferred_whatsapp) : drafts' = drafts \o x
    BY DEF Queue!CommitQualified
  <1>4. drafts' = drafts \/ drafts' = drafts \o <<>> \/ drafts' = drafts \o <<d>>
    BY <1>2, <1>3, WhatsAppOnly
  <1>5. drafts' = drafts \/ drafts' = Append(drafts, d)
    BY <1>2, <1>4 DEF DraftsInv
  <1> QED BY <1>1, <1>2, <1>5, AppendGrows DEF Queue!CommitQualified

LEMMA RequestGrows ==
  ASSUME DraftsInv, NEW ch \in {"email", "whatsapp"}, Queue!generate_draft(ch)
  PROVE  Grown(Queue!Request, 0) /\ own' = own
  <1>1. PICK d \in DraftRows :
          d = Queue!Draft(ch, Queue!Request, 0) /\ d.by = Queue!Request /\ d.saw = 0
    <2> DEFINE d == Queue!Draft(ch, Queue!Request, 0)
    <2>1. d \in DraftRows /\ d.by = Queue!Request /\ d.saw = 0 BY DEF Queue!Draft, DraftRows
    <2> HIDE DEF d
    <2> QED BY <2>1 DEF d
  <1> QED BY <1>1, AppendGrows DEF Queue!generate_draft

(* run_outreach_draft_automation may approve or send the task's own draft. *)
LEMMA AutomationWrites ==
  ASSUME DraftsInv, NEW t \in Tasks, Queue!Automation(t)
  PROVE  /\ drafts' \in Seq(DraftRows) /\ Len(drafts') = Len(drafts)
         /\ \A i \in 1..Len(drafts) :
               /\ drafts'[i].channel = drafts[i].channel
               /\ drafts'[i].by = drafts[i].by /\ drafts'[i].saw = drafts[i].saw
               /\ drafts'[i].status = drafts[i].status \/ drafts[i].status = "pending_review"
         /\ draftLead' \in {draftLead, "contacted"} /\ own' = own
  <1>1. own[t] \in 1..Len(drafts) /\ drafts \in Seq(DraftRows)
    BY DEF Queue!Automation, DraftsInv, Queue!TypeOK
  <1>2. drafts[own[t]] \in DraftRows BY <1>1
  <1>3. ASSUME NEW x \in {"approved", "sent"}, drafts[own[t]].status = "pending_review",
               drafts' = [drafts EXCEPT ![own[t]].status = x]
        PROVE  /\ drafts' \in Seq(DraftRows) /\ Len(drafts') = Len(drafts)
               /\ \A i \in 1..Len(drafts) :
                     /\ drafts'[i].channel = drafts[i].channel
                     /\ drafts'[i].by = drafts[i].by /\ drafts'[i].saw = drafts[i].saw
                     /\ drafts'[i].status = drafts[i].status
                        \/ drafts[i].status = "pending_review"
    <2> DEFINE new == [drafts[own[t]] EXCEPT !.status = x]
    <2>1. /\ new \in DraftRows /\ new.channel = drafts[own[t]].channel
          /\ new.by = drafts[own[t]].by /\ new.saw = drafts[own[t]].saw
      BY <1>2 DEF DraftRows
    <2>2. drafts' = [drafts EXCEPT ![own[t]] = new] BY <1>1, <1>3
    <2> HIDE DEF new
    <2> QED BY <1>1, <1>3, <2>1, <2>2
  <1>4. \/ drafts' = drafts /\ draftLead' = draftLead
        \/ /\ drafts[own[t]].status = "pending_review"
           /\ drafts' = [drafts EXCEPT ![own[t]].status = "approved"] /\ draftLead' = draftLead
        \/ /\ drafts[own[t]].status = "pending_review"
           /\ drafts' = [drafts EXCEPT ![own[t]].status = "sent"] /\ draftLead' = "contacted"
    BY DEF Queue!Automation
  <1> QED BY <1>1, <1>3, <1>4 DEF Queue!Automation

LEMMA DraftsInit == Queue!Init => DraftsInv
  BY DEF Queue!Init, DraftsInv, Queue!TypeOK

LEMMA DraftsStep == DraftsInv /\ [Queue!Next]_(Queue!vars) => DraftsInv'
  <1> SUFFICES ASSUME DraftsInv, [Queue!Next]_(Queue!vars) PROVE DraftsInv'
    OBVIOUS
  <1> DEFINE TaskTypes == {"none", "queued", "ready", "checked", "drafted", "ok", "skipped",
                           "failed", "error", "multiple"}
             LeadTypes == {"new", "enriched", "qualified", "draft_ready", "contacted"}
  <1>r. ASSUME drafts' \in Seq(DraftRows), draftLead' \in LeadTypes,
               task' \in [Tasks -> TaskTypes], own' \in [Tasks -> 0..Len(drafts')],
               saw' \in [Tasks -> 0..Len(drafts')],
               \A t \in Tasks : task'[t] = "drafted" => own'[t] # 0
        PROVE  DraftsInv'
    <2>1. \A d \in DOMAIN drafts' : drafts'[d] \in DraftRows BY <1>r
    <2> QED BY <1>r, <2>1 DEF DraftsInv, Queue!TypeOK, DraftRows
  <1>g. ASSUME NEW b, NEW q, Grown(b, q)
        PROVE  /\ drafts' \in Seq(DraftRows)
               /\ own' = own => own' \in [Tasks -> 0..Len(drafts')]
               /\ saw' = saw => saw' \in [Tasks -> 0..Len(drafts')]
    <2>1. \A n \in 0..Len(drafts) : n \in 0..Len(drafts') BY <1>g DEF Grown, DraftsInv
    <2> QED BY <1>g, <2>1 DEF Grown, DraftsInv, Queue!TypeOK
  <1>1. ASSUME NEW t \in Tasks,
               \/ Queue!task_auto_process_new_leads(t) \/ Queue!PipelineSteps(t)
               \/ Queue!generate_draft_async(t) \/ Queue!Rollback(t)
               \/ Queue!GenerationError(t) \/ Queue!Retry(t)
        PROVE  DraftsInv'
    BY <1>1, <1>r
    DEF DraftsInv, Queue!TypeOK, Queue!task_auto_process_new_leads, Queue!PipelineSteps,
        Queue!generate_draft_async, Queue!Rollback, Queue!GenerationError, Queue!Retry
  <1>7. ASSUME NEW t \in Tasks, Queue!Check(t) PROVE DraftsInv'
    <2>1. Len(drafts) \in 0..Len(drafts) BY DEF DraftsInv
    <2> QED BY <1>7, <1>r, <2>1 DEF Queue!Check, DraftsInv, Queue!TypeOK
  <1>2. ASSUME NEW t \in Tasks, Queue!CommitDraft(t) PROVE DraftsInv'
    <2>1. Grown(t, saw[t]) /\ own' \in [Tasks -> 0..Len(drafts')] /\ own'[t] # 0
      BY <1>2, CommitGrows
    <2>2. \A u \in Tasks : task'[u] = "drafted" => own'[u] # 0
      BY <1>2, <2>1 DEF Queue!CommitDraft, DraftsInv, Queue!TypeOK
    <2>3. task' \in [Tasks -> TaskTypes] /\ draftLead' \in LeadTypes /\ saw' = saw
      BY <1>2 DEF Queue!CommitDraft, DraftsInv, Queue!TypeOK
    <2> QED BY <1>g, <1>r, <2>1, <2>2, <2>3
  <1>3. ASSUME NEW t \in Tasks, Queue!CommitQualified(t) PROVE DraftsInv'
    <2>1. Grown(t, saw[t]) /\ own' = own BY <1>3, QualifiedGrows
    <2>2. /\ task' \in [Tasks -> TaskTypes] /\ draftLead' \in LeadTypes /\ saw' = saw
          /\ \A u \in Tasks : task'[u] = "drafted" => task[u] = "drafted"
      BY <1>3 DEF Queue!CommitQualified, DraftsInv, Queue!TypeOK
    <2> QED BY <1>g, <1>r, <2>1, <2>2 DEF DraftsInv
  <1>4. ASSUME NEW t \in Tasks, Queue!Automation(t) PROVE DraftsInv'
    <2>1. /\ task' \in [Tasks -> TaskTypes] /\ saw' = saw
          /\ \A u \in Tasks : task'[u] = "drafted" => task[u] = "drafted"
      BY <1>4 DEF Queue!Automation, DraftsInv, Queue!TypeOK
    <2> QED BY <1>4, <1>r, <2>1, AutomationWrites DEF DraftsInv, Queue!TypeOK
  <1>5. ASSUME NEW ch \in {"email", "whatsapp"}, Queue!generate_draft(ch) PROVE DraftsInv'
    <2>1. Grown(Queue!Request, 0) /\ own' = own BY <1>5, RequestGrows
    <2>2. task' = task /\ draftLead' \in LeadTypes /\ saw' = saw
      BY <1>5 DEF Queue!generate_draft, DraftsInv, Queue!TypeOK
    <2> QED BY <1>g, <1>r, <2>1, <2>2 DEF DraftsInv, Queue!TypeOK
  <1>6. CASE UNCHANGED Queue!vars BY <1>6 DEF Queue!vars, DraftsInv, Queue!TypeOK
  <1> QED BY <1>1, <1>2, <1>3, <1>4, <1>5, <1>6, <1>7 DEF Queue!Next

(* Drafts, tasks and the index of each task's own draft keep their types. *)
THEOREM DraftTypes == Queue!Spec => []Queue!TypeOK
  <1>1. DraftsInv => Queue!TypeOK BY DEF DraftsInv
  <1> QED BY <1>1, DraftsInit, DraftsStep, PTL DEF Queue!Spec

(* What a task between its check and its end may rely on: no draft that was  *)
(* committed at its check is active, and it has committed none since.        *)
CheckedInv ==
  \A t \in Tasks : task[t] = "checked" =>
    \A d \in DOMAIN drafts : /\ d \in Queue!Active => saw[t] < d
                             /\ drafts[d].by = t => d <= saw[t]

OverlapInv == DraftsInv /\ CheckedInv /\ Queue!DuplicatesOverlap

LEMMA OverlapInit == Queue!Init => OverlapInv
  <1> SUFFICES ASSUME Queue!Init PROVE OverlapInv
    OBVIOUS
  <1> QED BY DraftsInit DEF Queue!Init, OverlapInv, CheckedInv, Queue!DuplicatesOverlap, Queue!Active

(* A commit of new drafts by b, whose check saw n drafts and none active. *)
LEMMA OverlapGrown ==
  ASSUME OverlapInv, DraftsInv', NEW b, NEW n \in Nat, Grown(b, n), saw' = saw,
         \A u \in Tasks : task'[u] = "checked" => task[u] = "checked" /\ u # b,
         \/ b = Queue!Request
         \/ \A d \in DOMAIN drafts : /\ d \in Queue!Active => n < d
                                     /\ drafts[d].by = b => d <= n
  PROVE  OverlapInv'
  <1>0. /\ Len(drafts) \in Nat /\ Len(drafts') \in Nat /\ Len(drafts) <= Len(drafts')
        /\ DOMAIN drafts = 1..Len(drafts) /\ DOMAIN drafts' = 1..Len(drafts')
        /\ \A t \in Tasks : saw[t] \in 0..Len(drafts)
    BY DEF OverlapInv, DraftsInv, Queue!TypeOK, Grown
  <1>1. \A d \in DOMAIN drafts' :
          \/ d \in DOMAIN drafts /\ drafts'[d] = drafts[d]
          \/ d \in (Len(drafts) + 1)..Len(drafts') /\ d > Len(drafts) /\ d \notin DOMAIN drafts
             /\ drafts'[d].by = b /\ drafts'[d].saw = n
    BY <1>0 DEF Grown
  <1>2. \A d \in Queue!Active' :
          /\ d \in DOMAIN drafts'
          /\ d \in DOMAIN drafts => d \in Queue!Active
    BY <1>1 DEF Queue!Active
  <1>3. CheckedInv'
    <2> SUFFICES ASSUME NEW t \in Tasks, task'[t] = "checked", NEW d \in DOMAIN drafts'
                 PROVE  /\ d \in Queue!Active' => saw[t] < d
                        /\ drafts'[d].by = t => d <= saw[t]
      BY DEF CheckedInv
    <2>1. CASE d \in DOMAIN drafts
      BY <1>1, <1>2, <2>1 DEF OverlapInv, CheckedInv
    <2>2. CASE d \notin DOMAIN drafts
      BY <1>0, <1>1, <2>2
    <2> QED BY <2>1, <2>2
  <1>4. Queue!DuplicatesOverlap'
    <2> SUFFICES ASSUME NEW d \in Queue!Active', NEW e \in Queue!Active',
                        d < e, drafts'[d].channel = drafts'[e].channel
                 PROVE  \/ drafts'[e].by = Queue!Request
                        \/ drafts'[d].by # drafts'[e].by /\ drafts'[e].saw < d
      BY DEF Queue!DuplicatesOverlap
    <2>1. CASE e \in DOMAIN drafts
      <3>1. d \in DOMAIN drafts BY <1>0, <1>2, <2>1
      <3> QED BY <1>1, <1>2, <2>1, <3>1 DEF OverlapInv, Queue!DuplicatesOverlap
    <2>2. CASE e \notin DOMAIN drafts /\ d \in DOMAIN drafts
      <3>1. drafts'[e].by = b /\ drafts'[e].saw = n BY <1>1, <1>2, <2>2
      <3>2. d \in Queue!Active /\ drafts'[d] = drafts[d] BY <1>1, <1>2, <2>2
      <3>3. d \in Nat BY <1>0, <2>2
      <3> QED BY <2>2, <3>1, <3>2, <3>3
    <2>3. CASE e \notin DOMAIN drafts /\ d \notin DOMAIN drafts
      <3>1. d \in (Len(drafts) + 1)..Len(drafts') /\ e \in (Len(drafts) + 1)..Len(drafts')
        BY <1>1, <1>2, <2>3
      <3>2. d = e BY <3>1 DEF Grown
      <3>3. d \in Nat BY <1>0, <3>1
      <3> QED BY <3>2, <3>3
    <2> QED BY <2>1, <2>2, <2>3
  <1> QED BY <1>3, <1>4 DEF OverlapInv

LEMMA OverlapStep == OverlapInv /\ [Queue!Next]_(Queue!vars) => OverlapInv'
  <1> SUFFICES ASSUME OverlapInv, [Queue!Next]_(Queue!vars) PROVE OverlapInv'
    OBVIOUS
  <1>0. DraftsInv' /\ DraftsInv BY DraftsStep DEF OverlapInv
  <1>a. ASSUME drafts' = drafts, saw' = saw,
               \A u \in Tasks : task'[u] = "checked" => task[u] = "checked"
        PROVE  OverlapInv'
    BY <1>0, <1>a DEF OverlapInv, CheckedInv, Queue!DuplicatesOverlap, Queue!Active
  <1>1. ASSUME NEW t \in Tasks,
               \/ Queue!task_auto_process_new_leads(t) \/ Queue!PipelineSteps(t)
               \/ Queue!generate_draft_async(t) \/ Queue!Rollback(t)
               \/ Queue!GenerationError(t) \/ Queue!Retry(t)
        PROVE  OverlapInv'
    <2>1. PICK x \in {"queued", "ready", "failed", "error"} : task' = [task EXCEPT ![t] = x]
      BY <1>1 DEF Queue!task_auto_process_new_leads, Queue!PipelineSteps,
                  Queue!generate_draft_async, Queue!Rollback, Queue!GenerationError, Queue!Retry
    <2>2. drafts' = drafts /\ saw' = saw
      BY <1>1 DEF Queue!task_auto_process_new_leads, Queue!PipelineSteps,
                  Queue!generate_draft_async, Queue!Rollback, Queue!GenerationError, Queue!Retry
    <2>3. \A u \in Tasks : task'[u] = "checked" => task[u] = "checked"
      BY <1>0, <2>1 DEF DraftsInv, Queue!TypeOK
    <2> QED BY <1>a, <2>2, <2>3
  <1>2. ASSUME NEW t \in Tasks, Queue!Check(t) PROVE OverlapInv'
    <2>1. drafts' = drafts /\ saw' = [saw EXCEPT ![t] = Len(drafts)] BY <1>2 DEF Queue!Check
    <2>2. PICK x \in {"checked", "skipped", "multiple"} :
            task' = [task EXCEPT ![t] = x] /\ (x = "checked" <=> Queue!Active = {})
      BY <1>2 DEF Queue!Check
    <2>3. Queue!Active' = Queue!Active BY <2>1 DEF Queue!Active
    <2>4. \A d \in DOMAIN drafts : d <= Len(drafts) BY <1>0 DEF DraftsInv
    <2>5. ASSUME NEW u \in Tasks, task'[u] = "checked", NEW d \in DOMAIN drafts
          PROVE  /\ d \in Queue!Active => saw'[u] < d
                 /\ drafts[d].by = u => d <= saw'[u]
      <3>1. CASE u = t
        BY <1>0, <2>1, <2>2, <2>4, <2>5, <3>1 DEF DraftsInv, Queue!TypeOK
      <3>2. CASE u # t
        BY <1>0, <2>1, <2>2, <2>5, <3>2 DEF DraftsInv, Queue!TypeOK, OverlapInv, CheckedInv
      <3> QED BY <3>1, <3>2
    <2>6. CheckedInv' BY <2>1, <2>3, <2>5 DEF CheckedInv
    <2>7. Queue!DuplicatesOverlap' BY <2>1, <2>3 DEF Queue!DuplicatesOverlap, OverlapInv
    <2> QED BY <1>0, <2>6, <2>7 DEF OverlapInv
  <1>3. ASSUME NEW t \in Tasks, Queue!CommitQualified(t) \/ Queue!CommitDraft(t) PROVE OverlapInv'
    <2>1. Grown(t, saw[t]) /\ saw[t] \in Nat
      BY <1>0, <1>3, CommitGrows, QualifiedGrows DEF DraftsInv, Queue!TypeOK
    <2>2. task[t] = "checked" /\ saw' = saw
      BY <1>3 DEF Queue!CommitQualified, Queue!CommitDraft
    <2>3. PICK x \in {"skipped", "drafted"} : task' = [task EXCEPT ![t] = x]
      BY <1>3 DEF Queue!CommitQualified, Queue!CommitDraft
    <2>4. \A u \in Tasks : task'[u] = "checked" => task[u] = "checked" /\ u # t
      BY <1>0, <2>3 DEF DraftsInv, Queue!TypeOK
    <2>5. \A d \in DOMAIN drafts : /\ d \in Queue!Active => saw[t] < d
                                   /\ drafts[d].by = t => d <= saw[t]
      BY <2>2 DEF OverlapInv, CheckedInv
    <2> QED BY <1>0, <2>1, <2>2, <2>4, <2>5, OverlapGrown
  <1>4. ASSUME NEW t \in Tasks, Queue!Automation(t) PROVE OverlapInv'
    <2>1. task' = [task EXCEPT ![t] = "ok"] /\ saw' = saw BY <1>4 DEF Queue!Automation
    <2>2. \A u \in Tasks : task'[u] = "checked" => task[u] = "checked"
      BY <1>0, <2>1 DEF DraftsInv, Queue!TypeOK
    <2>3. /\ Len(drafts') = Len(drafts) /\ drafts' \in Seq(DraftRows)
          /\ \A i \in 1..Len(drafts) :
                /\ drafts'[i].channel = drafts[i].channel
                /\ drafts'[i].by = drafts[i].by /\ drafts'[i].saw = drafts[i].saw
                /\ drafts'[i].status = drafts[i].status \/ drafts[i].status = "pending_review"
      BY <1>0, <1>4, AutomationWrites
    <2>4. DOMAIN drafts = 1..Len(drafts) /\ DOMAIN drafts' = 1..Len(drafts)
      BY <1>0, <2>3 DEF DraftsInv
    <2>5. Queue!Active' \subseteq Queue!Active BY <2>3, <2>4 DEF Queue!Active
    <2>6. Queue!Active \subseteq DOMAIN drafts BY DEF Queue!Active
    <2>7. CheckedInv' BY <2>1, <2>2, <2>3, <2>4, <2>5 DEF CheckedInv, OverlapInv
    <2>8. Queue!DuplicatesOverlap'
      BY <2>3, <2>4, <2>5, <2>6 DEF Queue!DuplicatesOverlap, OverlapInv
    <2> QED BY <1>0, <2>7, <2>8 DEF OverlapInv
  <1>5. ASSUME NEW ch \in {"email", "whatsapp"}, Queue!generate_draft(ch) PROVE OverlapInv'
    <2>1. Grown(Queue!Request, 0) /\ task' = task /\ saw' = saw
      BY <1>0, <1>5, RequestGrows DEF Queue!generate_draft
    <2>2. \A u \in Tasks : u # Queue!Request BY DraftAssumption DEF Queue!Request
    <2> QED BY <1>0, <2>1, <2>2, OverlapGrown
  <1>6. CASE UNCHANGED Queue!vars BY <1>6, <1>a DEF Queue!vars
  <1> QED BY <1>1, <1>2, <1>3, <1>4, <1>5, <1>6 DEF Queue!Next

(* However many draft tasks and synchronous requests run at once, and       *)
(* whatever fails before or after its commit and is run again, a task adds   *)
(* no draft beside one of its channel that was active at its check           *)
(* (outreach_draft_generation.py).                                           *)
THEOREM DraftsOnlyOverlap == Queue!Spec => []DuplicatesOverlap
  <1>1. OverlapInv => DuplicatesOverlap BY DEF OverlapInv, DuplicatesOverlap
  <1> QED BY <1>1, OverlapInit, OverlapStep, PTL DEF Queue!Spec

---------------------------------------------------------------------------
(* Every component keeps its types while the others rest. *)
THEOREM TypesCorrect == Spec /\ Enrich!Spec /\ Queue!Spec /\ Silent!Spec => []TypesOK
  <1>1. TypeOK /\ Enrich!TypeOK /\ Queue!TypeOK /\ Silent!TypeOK => TypesOK BY DEF TypesOK
  <1> QED BY <1>1, StatusTypes, EnrichTypes, DraftTypes, FollowUpTypes, PTL
=============================================================================

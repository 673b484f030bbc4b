------------------------- MODULE LeadPipelineProofs -------------------------
(***************************************************************************)
(* LeadPipeline for every number of messages in flight, faults and         *)
(* retries: type correctness, the order in which steps build on each       *)
(* other, what the row lock and the guards of the tasks protect, and that  *)
(* no key of the context is dropped before the first fault.                *)
(***************************************************************************)
EXTENDS LeadPipeline, TLAPS

(* Steps whose work the row lock serialises: no session of theirs commits   *)
(* the run while its work is not committed.                                 *)
OnceSteps == LeadSteps \cup {"brief_generation"}

(* Where a session goes on after the step's work. *)
Reports == {"report", "write", "commit"}

(* A session reads the run before it reports only without the row lock. *)
LockOK ==
    /\ lock = Nobody => row = NoRow
    /\ \A t \in Tasks :
          /\ lock = t => task[t].pc \in {"guard", "work", "report", "commit", "selfblock"}
          /\ task[t].pc \in Reports /\ task[t].result = "fail"
             => task[t].step \notin LeadSteps

(* Before the request nothing runs. *)
IdleOK == api = "idle" => lock = Nobody /\ \A t \in Tasks : task[t] = FreeSlot

(* A report of a step with its guard comes from work that was done. *)
ResultOK ==
    \A t \in Tasks :
        /\ task[t].pc \in Reports =>
              /\ task[t].step \in OnceSteps => task[t].result \in {"skip", "ok", "fail"}
              /\ task[t].step \in OnceSteps /\ task[t].result = "skip"
                 => AlreadyDone(task[t].step)
              /\ task[t].step = "analysis" => "analysis" \in lead.done
        /\ task[t].pc = "work" /\ task[t].step = "brief_review" => lead.brief # "none"

-----------------------------------------------------------------------------
(* The order of the steps                                                   *)

(* The steps that follow p, whatever lane the lead takes. *)
After(p) ==
    Steps \ ({"pipeline_dispatch", "enrichment"} \cup {p})

Settled(p) == p \in lead.done \cup lost

(* A task that has sent its successor and not committed holds the lock. *)
Sending(u, p) ==
    /\ lock = u
    /\ task[u].step = p /\ task[u].pc = "commit" /\ task[u].result = "ok"

(* The context has the key of a step only with the step's work. *)
ContextOK(p) ==
    /\ p \in run.ctx => p \in lead.done
    /\ \A t \in Tasks : p \in task[t].snap.ctx => p \in lead.done
    /\ p \in row.ctx => p \in lead.done \/ \E u \in Tasks : Sending(u, p)

(* Until the work of p is committed or lost, its successors wait for the    *)
(* row lock of the task that sent them.                                     *)
Waiting(p) ==
    ~Settled(p) =>
        /\ run.step \notin After(p) /\ row.step \notin After(p)
        /\ \A t \in Tasks : task[t].snap.step \notin After(p)
        /\ \A t \in Tasks :
              task[t].pc # "free" /\ task[t].step \in After(p) =>
                  /\ task[t].pc \in {"queued", "mark", "error"}
                  /\ \E u \in Tasks : Sending(u, p)

OrderOK(p) == ContextOK(p) /\ Waiting(p)

-----------------------------------------------------------------------------
(* What the row lock protects, as long as no UPDATE mixed two reports       *)

(* The mark mark_task_running leaves. *)
MarkOf(s) == <<"running", s, FALSE>>

(* A mark that is found already made belongs to work that is done. *)
MarksOK ==
    /\ \A s \in OnceSteps : Report(run) = MarkOf(s) => AlreadyDone(s)
    /\ \A t \in Tasks :
          /\ task[t].pc = "mark" /\ task[t].step \in OnceSteps
          /\ Report(task[t].snap) = MarkOf(task[t].step)
          => AlreadyDone(task[t].step)
    /\ \A t \in Tasks :
          lock = t =>
              /\ row.step = task[t].step
              /\ task[t].pc = "commit" /\ task[t].result = "fail" => row.err

(* Work that is not committed is done by the session with the row lock. *)
Exclusive ==
    \A t \in Tasks :
        task[t].step \in OnceSteps =>
            /\ task[t].pc = "guard" /\ ~AlreadyDone(task[t].step) => lock = t
            /\ task[t].pc = "work" => lock = t /\ ~AlreadyDone(task[t].step)
            /\ task[t].pc \in Reports /\ task[t].result = "ok" /\ task[t].step # "analysis"
               => lock = t /\ ~AlreadyDone(task[t].step)

WorksCounted == \A s \in LeadSteps : works[s] = IF s \in lead.done THEN 1 ELSE 0

(* The steps after the analysis. *)
Late == {"research", "brief_generation", "brief_review", "draft_generation"}

Approved == lead.brief = "reviewed" \/ "research" \in unsent

(* Every way to the draft leads past the reviewer, or is the low lane. *)
ApprovedOK ==
    /\ lead.draft => "analysis" \in lead.done /\ Approved
    /\ \A t \in Tasks :
          /\ task[t].pc # "free" /\ task[t].step \in Late => "analysis" \in lead.done
          /\ task[t].pc # "free" /\ task[t].step = "draft_generation"
             => (lead.high => Approved)
          /\ task[t].pc \in Reports /\ task[t].step = "brief_review" /\ task[t].result = "ok"
             => lead.brief = "reviewed"

Protected == MarksOK /\ Exclusive /\ WorksCounted /\ ApprovedOK

IInv ==
    /\ TypeOK /\ IdleOK /\ LockOK /\ ResultOK
    /\ OrderOK("enrichment") /\ OrderOK("scoring") /\ PredecessorCommitted
    /\ ~mixed => Protected

-----------------------------------------------------------------------------
(* Types                                                                    *)

LEMMA FreeTyped == FreeSlot \in Messages /\ NoRow \in Rows
  BY DEF FreeSlot, Messages, Places, Steps, Results, NoRow, Rows, ContextSteps

LEMMA MessageTyped == ASSUME NEW s \in Steps PROVE Message(s) \in Messages
  BY FreeTyped DEF Message, FreeSlot, Messages, Places

LEMMA MergeTyped ==
    ASSUME NEW a \in Rows, NEW b \in Rows, NEW c \in Rows PROVE Merge(a, b, c) \in Rows
  BY DEF Merge, Column, Rows

(* The rows that tasks report are rows. *)
LEMMA ReportedTyped ==
    ASSUME TypeOK, NEW t \in Tasks, NEW r \in Rows
    PROVE  /\ MarkTaskFailed(t, r) \in Rows /\ MarkTaskRetrying(t, r) \in Rows
           /\ Reported(t, r) \in Rows
  <1>1. task[t] \in Messages BY DEF TypeOK
  <1>2. task[t].step \in Steps BY <1>1 DEF Messages
  <1>3. AppendStepContext(t, r.ctx) \in SUBSET ContextSteps
    BY DEF AppendStepContext, Rows
  <1>4. PipelineStatus(t) \in {"skipped", "succeeded", "running"}
    BY DEF PipelineStatus
  <1>5. MarkTaskFailed(t, r) \in Rows /\ MarkTaskRetrying(t, r) \in Rows
    BY <1>2 DEF MarkTaskFailed, MarkTaskRetrying, Rows
  <1>6. MarkTaskSucceeded(t, r) \in Rows
    BY <1>2, <1>3, <1>4 DEF MarkTaskSucceeded, Rows
  <1> QED BY <1>5, <1>6 DEF Reported

RowTypeOK == run \in Rows /\ row \in Rows /\ lock \in Tasks \cup {Nobody} /\ mixed \in BOOLEAN

LEMMA ViewTyped == ASSUME TypeOK, NEW t \in Tasks PROVE View(t) \in Rows
  BY DEF TypeOK, View

LEMMA FlushTyped ==
    ASSUME TypeOK, NEW t \in Tasks, NEW a \in Rows, NEW b \in Rows, Flush(t, a, b)
    PROVE  RowTypeOK'
  <1>1. CASE UNCHANGED rowVars BY <1>1 DEF rowVars, RowTypeOK, TypeOK
  <1>2. CASE a # b /\ lock' = t /\ row' = Merge(a, b, View(t)) /\ UNCHANGED run
             /\ mixed' = (mixed \/ Report(row') # Report(b))
    <2>1. mixed' \in BOOLEAN BY <1>2, Zenon
    <2> QED BY <1>2, <2>1, ViewTyped, MergeTyped DEF RowTypeOK, TypeOK
  <1> QED BY <1>1, <1>2 DEF Flush

LEMMA UnlockTyped ==
    ASSUME TypeOK, NEW t \in Tasks, CommitRow(t) \/ RollbackRow(t)
    PROVE  RowTypeOK'
  BY ViewTyped, FreeTyped DEF CommitRow, RollbackRow, Unlock, RowTypeOK, TypeOK

(* The steps that a report sends: the next ones, or the draft in place of a *)
(* research task that could not be sent.                                    *)
Follows(t, s, notSent) ==
    \/ s \in NextSteps(t)
    \/ task[t].step = "analysis" /\ s = "draft_generation" /\ "research" \in notSent

LEMMA NextStepsTyped == ASSUME TypeOK, NEW t \in Tasks PROVE NextSteps(t) \subseteq Steps
  BY DEF NextSteps, AfterAnalysis, AfterBrief, AfterReview, Steps

(* The only research task that is sent is the one after an analysis. *)
LEMMA ResearchFollows ==
    ASSUME TypeOK, NEW t \in Tasks, "research" \in NextSteps(t) PROVE task[t].step = "analysis"
  BY DEF NextSteps, AfterAnalysis, AfterBrief, AfterReview

LEMMA ReportingTyped ==
    ASSUME TypeOK, NEW t \in Tasks
    PROVE  /\ Reporting(t) \in [Tasks -> Messages]
           /\ \A v \in Tasks \ {t} : Reporting(t)[v] = task[v]
           /\ Reporting(t)[t].step = task[t].step
           /\ Reporting(t)[t].result = task[t].result
           /\ Reporting(t)[t].snap = NoRow
           /\ Reporting(t)[t].pc \in {"selfblock", "commit"}
           /\ Reporting(t)[t].pc = "selfblock" => task[t].step = "draft_generation"
  BY FreeTyped DEF Reporting, TypeOK, Messages, Places

(* What a task leaves behind when it reports and chains. *)
LEMMA SendStep ==
    ASSUME TypeOK, NEW t \in Tasks, NEW S \in SUBSET Steps, task[t].pc # "free", Send(t, S)
    PROVE  /\ task' \in [Tasks -> Messages]
           /\ task'[t] = Reporting(t)[t]
           /\ \A v \in Tasks \ {t} :
                 task'[v] = task[v] \/ \E s \in S : task[v].pc = "free" /\ task'[v] = Message(s)
  <1>1. CASE task' = Reporting(t) BY <1>1, ReportingTyped
  <1>2. ASSUME NEW s \in S, NEW u \in Tasks, task[u].pc = "free",
               task' = [Reporting(t) EXCEPT ![u] = Message(s)]
        PROVE  /\ task' \in [Tasks -> Messages]
               /\ task'[t] = Reporting(t)[t]
               /\ \A v \in Tasks \ {t} :
                     \/ task'[v] = task[v]
                     \/ \E x \in S : task[v].pc = "free" /\ task'[v] = Message(x)
    <2>1. Message(s) \in Messages BY MessageTyped
    <2>2. u # t BY <1>2
    <2> QED BY <1>2, <2>1, <2>2, ReportingTyped
  <1> QED BY <1>1, <1>2 DEF Send

LEMMA ChainStep ==
    ASSUME TypeOK, NEW t \in Tasks, task[t].pc # "free", Chain(t)
    PROVE  /\ task' \in [Tasks -> Messages]
           /\ task'[t] = Reporting(t)[t]
           /\ unsent \subseteq unsent' /\ unsent' \subseteq Steps
           /\ faults' \in 0 .. MaxFaults
           /\ \A v \in Tasks \ {t} :
                 \/ task'[v] = task[v]
                 \/ \E s \in Steps : /\ Follows(t, s, unsent')
                                     /\ task[v].pc = "free" /\ task'[v] = Message(s)
  <1>1. CASE Send(t, NextSteps(t)) /\ UNCHANGED <<unsent, faults>>
    BY <1>1, NextStepsTyped, SendStep DEF Follows, TypeOK
  <1>2. ASSUME NEW s \in CaughtSend(t), faults < MaxFaults, Send(t, Fallback(s)),
               unsent' = unsent \cup {s}, faults' = faults + 1
        PROVE  /\ task' \in [Tasks -> Messages]
               /\ task'[t] = Reporting(t)[t]
               /\ unsent \subseteq unsent' /\ unsent' \subseteq Steps
               /\ faults' \in 0 .. MaxFaults
               /\ \A v \in Tasks \ {t} :
                     \/ task'[v] = task[v]
                     \/ \E x \in Steps : /\ Follows(t, x, unsent')
                                         /\ task[v].pc = "free" /\ task'[v] = Message(x)
    <2>1. s \in NextSteps(t) /\ s \in Steps BY NextStepsTyped DEF CaughtSend
    <2>2. Fallback(s) \in SUBSET Steps BY DEF Fallback, Steps
    <2>3. \A x \in Fallback(s) : Follows(t, x, unsent')
      BY <1>2, <2>1, ResearchFollows DEF Fallback, Follows
    <2>4. faults' \in 0 .. MaxFaults BY <1>2, BoundsAssumption DEF TypeOK
    <2> QED BY <1>2, <2>1, <2>2, <2>3, <2>4, SendStep DEF TypeOK
  <1> QED BY <1>1, <1>2 DEF Chain

LEMMA InitIInv == Init => IInv
  <1> SUFFICES ASSUME Init PROVE IInv
    OBVIOUS
  <1> USE DEF Init
  <1>1. TypeOK
    <2>1. 0 \in 0 .. MaxFaults BY BoundsAssumption
    <2> QED BY <2>1, FreeTyped DEF TypeOK
  <1>2. LockOK BY DEF LockOK, FreeSlot, Tasks, Nobody, Reports
  <1>3. ResultOK /\ IdleOK BY DEF ResultOK, IdleOK, FreeSlot, Reports
  <1>4. ASSUME NEW p PROVE OrderOK(p)
    BY DEF OrderOK, ContextOK, Waiting, Settled, After, FreeSlot, NoRow
  <1>5. MarksOK BY DEF MarksOK, Report, MarkOf, FreeSlot, NoRow, Tasks, Nobody
  <1>6. Exclusive BY DEF Exclusive, FreeSlot, Reports
  <1>7. WorksCounted /\ PredecessorCommitted BY DEF WorksCounted, PredecessorCommitted
  <1>8. ApprovedOK BY DEF ApprovedOK, FreeSlot, Reports
  <1> QED BY <1>1, <1>2, <1>3, <1>4, <1>5, <1>6, <1>7, <1>8 DEF IInv, Protected

Leads == [done : SUBSET LeadSteps, high : BOOLEAN, research : BOOLEAN,
          brief : {"none", "generated", "reviewed"}, draft : BOOLEAN]

LEMMA CommitTyped ==
    ASSUME TypeOK, NEW t \in Tasks, Commit(t)
    PROVE  lead' \in Leads /\ works' \in [LeadSteps -> Nat]
  <1>1. lead \in Leads BY DEF TypeOK, Leads
  <1>2. {"enrichment", "scoring"} \subseteq LeadSteps BY DEF LeadSteps
  <1>3. lead' \in Leads BY <1>1, <1>2 DEF Commit, Leads
  <1>4. works' \in [LeadSteps -> Nat] BY <1>2 DEF Commit, TypeOK
  <1> QED BY <1>3, <1>4

(* Type correctness is preserved by what a task does between its delivery   *)
(* and its last commit.                                                     *)
LEMMA TaskTypes == ASSUME TypeOK, NEW t \in Tasks, TaskStep(t) \/ ScoutCommit(t) PROVE TypeOK'
  <1>0. task[t] \in Messages /\ task[t].step \in Steps /\ task[t].snap \in Rows
    BY DEF TypeOK, Messages
  <1> USE <1>0
  <1> DEFINE Rest == UNCHANGED <<leadVars, chainVars, api, dlqVars, janitor, faults>>
  <1>r. ASSUME RowTypeOK', task' \in [Tasks -> Messages], Rest PROVE TypeOK'
    BY <1>r DEF TypeOK, RowTypeOK, leadVars, chainVars, dlqVars
  <1>u. ASSUME UNCHANGED rowVars PROVE RowTypeOK'
    BY <1>u DEF TypeOK, RowTypeOK, rowVars
  <1>1. CASE Deliver(t)
    <2>1. task' \in [Tasks -> Messages]
      BY <1>1 DEF Deliver, TypeOK, Messages, Places
    <2> QED BY <1>1, <2>1, <1>r, <1>u DEF Deliver
  <1>2. CASE MarkRunning(t)
    <2>1. Marked(t) \in Rows BY DEF Marked, Rows
    <2>2. RowTypeOK' BY <1>2, <2>1, FlushTyped DEF MarkRunning
    <2>3. task' \in [Tasks -> Messages]
      BY <1>2, FreeTyped DEF MarkRunning, TypeOK, Messages, Places
    <2> QED BY <1>2, <2>2, <2>3, <1>r DEF MarkRunning
  <1>3. CASE Guard(t)
    <2>1. task' \in [Tasks -> Messages]
      BY <1>3 DEF Guard, TypeOK, Messages, Places, Results
    <2> QED BY <1>3, <2>1, <1>r, <1>u DEF Guard
  <1>4. ASSUME NEW s, NEW R \in SUBSET Results, WorkEnds(t, s, R) PROVE TypeOK'
    <2>1. task' \in [Tasks -> Messages]
      <3>1. PICK r \in R : task' = [task EXCEPT ![t].pc = "report", ![t].result = r]
        BY <1>4 DEF WorkEnds
      <3> QED BY <3>1 DEF TypeOK, Messages, Places
    <2> QED BY <1>4, <2>1, <1>r, <1>u DEF WorkEnds
  <1>5. CASE DispatchWork(t) \/ EnrichWork(t) \/ ScoreWork(t) \/ ResearchWork(t)
             \/ BriefWork(t)
    <2>1. {"ok", "budget"} \in SUBSET Results /\ {"ok"} \in SUBSET Results
          /\ {"ok", "degraded"} \in SUBSET Results /\ {"ok", "fail"} \in SUBSET Results
      BY DEF Results
    <2> QED BY <1>4, <1>5, <2>1
            DEF DispatchWork, EnrichWork, ScoreWork, ResearchWork, BriefWork
  <1>6. CASE ScoutCommit(t)
    <2>1. task' \in [Tasks -> Messages] BY <1>6 DEF ScoutCommit, TypeOK, Messages
    <2> QED BY <1>6, <2>1, <1>r, UnlockTyped DEF ScoutCommit
  <1>7. ASSUME NEW r \in Results, CommitWork(t, r),
               lead' \in Leads, works' \in [LeadSteps -> Nat]
        PROVE  TypeOK'
    <2>1. task' \in [Tasks -> Messages]
      BY <1>7 DEF CommitWork, TypeOK, Messages, Places
    <2>2. RowTypeOK' BY <1>7, UnlockTyped DEF CommitWork
    <2> QED BY <1>7, <2>1, <2>2 DEF CommitWork, TypeOK, RowTypeOK, chainVars, dlqVars, Leads
  <1>8. ASSUME NEW b \in Qualities, AnalysisCommit(t, b) PROVE TypeOK'
    <2>1. b \in BOOLEAN BY BoundsAssumption
    <2>2. lead' \in Leads BY <1>8, <2>1 DEF AnalysisCommit, TypeOK, Leads, LeadSteps
    <2>3. works' \in [LeadSteps -> Nat] BY <1>8 DEF AnalysisCommit, TypeOK, LeadSteps
    <2> QED BY <1>7, <1>8, <2>2, <2>3 DEF AnalysisCommit, Results
  <1>9. ASSUME NEW b \in BOOLEAN, ReviewCommit(t, b) PROVE TypeOK'
    BY <1>7, <1>9 DEF ReviewCommit, TypeOK, Leads, Results
  <1>10. ASSUME NEW b \in BOOLEAN, DraftCommit(t, b) PROVE TypeOK'
    BY <1>7, <1>10 DEF DraftCommit, TypeOK, Leads, Results
  <1>11. ASSUME NEW b \in BOOLEAN, ResearchCommit(t, b) PROVE TypeOK'
    BY <1>7, <1>11 DEF ResearchCommit, TypeOK, Leads, Results
  <1>12. CASE DraftRollback(t)
    <2>1. task' \in [Tasks -> Messages]
      BY <1>12, FreeTyped DEF DraftRollback, TypeOK, Messages, Places, Results
    <2> QED BY <1>12, <2>1, <1>r, UnlockTyped DEF DraftRollback
  <1>13. CASE ReadRun(t)
    <2>1. task' \in [Tasks -> Messages]
      BY <1>13 DEF ReadRun, TypeOK, Messages, Places
    <2> QED BY <1>13, <2>1, <1>r, <1>u DEF ReadRun
  <1>14. CASE WriteRun(t)
    <2>1. RowTypeOK' BY <1>14, FlushTyped, ReportedTyped DEF WriteRun
    <2>2. task[t].pc # "free" BY <1>14 DEF WriteRun
    <2> QED BY <1>14, <2>1, <2>2, ChainStep
            DEF WriteRun, TypeOK, RowTypeOK, leadVars, dlqVars
  <1>15. CASE ReportRun(t)
    <2>1. row \in Rows BY DEF TypeOK
    <2>2. RowTypeOK' BY <1>15, <2>1, FlushTyped, ReportedTyped DEF ReportRun
    <2>3. task[t].pc # "free" BY <1>15 DEF ReportRun
    <2> QED BY <1>15, <2>2, <2>3, ChainStep
            DEF ReportRun, TypeOK, RowTypeOK, leadVars, dlqVars
  <1>16. CASE CommitStep(t)
    BY <1>16, CommitTyped, UnlockTyped, FreeTyped
    DEF CommitStep, Commit, TypeOK, RowTypeOK, chainVars, dlqVars, Leads
  <1>17. CASE TimeLimit(t)
    BY <1>17, UnlockTyped, FreeTyped
    DEF TimeLimit, Strike, TypeOK, RowTypeOK, leadVars, dlqVars
  <1>18. CASE TrackFailure(t)
    <2>1. run' \in Rows BY <1>18, ReportedTyped DEF TrackFailure, TypeOK
    <2>2. task' \in [Tasks -> Messages]
      <3> DEFINE m(b) == [Message(task[t].step) EXCEPT !.retries = task[t].retries + 1,
                                                       !.known = task[t].known \/ b]
      <3>1. ASSUME NEW b \in BOOLEAN PROVE m(b) \in Messages
        <4>1. (task[t].known \/ b) \in BOOLEAN BY Zenon
        <4>2. task[t].retries + 1 \in Nat BY DEF Messages
        <4> QED BY <4>1, <4>2, MessageTyped DEF Messages
      <3>2. task'[t] \in Messages /\ task' = [task EXCEPT ![t] = task'[t]]
        <4>1. (run.status # "absent" /\ task[t].step \notin UntrackedSteps) \in BOOLEAN
          OBVIOUS
        <4> QED BY <1>18, <3>1, <4>1, FreeTyped DEF TrackFailure, TypeOK
      <3> QED BY <3>2 DEF TypeOK
    <2> QED BY <1>18, <2>1, <2>2 DEF TrackFailure, TypeOK, leadVars, chainVars
  <1> QED BY <1>1, <1>2, <1>3, <1>5, <1>6, <1>8, <1>9, <1>10, <1>11, <1>12, <1>13,
             <1>14, <1>15, <1>16, <1>17, <1>18 DEF TaskStep

LEMMA RedeliveredTyped ==
    ASSUME TypeOK, NEW t \in Tasks
    PROVE  /\ Redelivered(t) \in Messages
           /\ [Redelivered(t) EXCEPT !.known = TRUE] \in Messages
           /\ [Redelivered(t) EXCEPT !.pc = "error"] \in Messages
  <1>1. task[t].step \in Steps BY DEF TypeOK, Messages
  <1> QED BY <1>1, MessageTyped DEF Redelivered, TypeOK, Messages, Places

LEMMA FaultTypes == ASSUME TypeOK, NEW t \in Tasks, Fault(t) PROVE TypeOK'
  <1>0. task[t].step \in Steps BY DEF TypeOK, Messages
  <1>1. faults < MaxFaults /\ faults' = faults + 1
    BY DEF Fault, CommitUnacked, WorkerLost, StepRaises, SoftTimeLimit
  <1>2. faults' \in 0 .. MaxFaults BY <1>1, BoundsAssumption DEF TypeOK
  <1>3. CASE CommitUnacked(t)
    BY <1>2, <1>3, CommitTyped, UnlockTyped, RedeliveredTyped
    DEF CommitUnacked, Commit, TypeOK, RowTypeOK, chainVars, dlqVars, Leads
  <1>4. ASSUME NEW slot \in Messages, Strike(t, slot) PROVE TypeOK'
    BY <1>0, <1>2, <1>4, UnlockTyped DEF Strike, TypeOK, RowTypeOK, leadVars, dlqVars
  <1> QED BY <1>3, <1>4, RedeliveredTyped, FreeTyped
          DEF Fault, WorkerLost, StepRaises, SoftTimeLimit

LEMMA TypePreserved == TypeOK /\ [Next]_vars => TypeOK'
  <1> SUFFICES ASSUME TypeOK, [Next]_vars PROVE TypeOK'
    OBVIOUS
  <1> USE DEF leadVars, chainVars, dlqVars, rowVars
  <1>1. CASE ApiSend
    <2>1. Message("pipeline_dispatch") \in Messages BY MessageTyped DEF Steps
    <2> QED BY <1>1, <2>1 DEF ApiSend, TypeOK
  <1>2. CASE ApiCommit
    <2>1. run' \in Rows BY <1>2, FreeTyped DEF ApiCommit, Rows
    <2> QED BY <1>2, <2>1 DEF ApiCommit, TypeOK
  <1>3. ASSUME NEW t \in Tasks, TaskStep(t) \/ ScoutCommit(t) PROVE TypeOK'
    BY <1>3, TaskTypes
  <1>4. ASSUME NEW t \in Tasks, Fault(t) PROVE TypeOK' BY <1>4, FaultTypes
  <1>5. CASE SweepRead BY <1>5 DEF SweepRead, TypeOK
  <1>6. CASE SweepCommit
    <2>1. AutoResumes \in BOOLEAN BY DEF AutoResumes
    <2>2. run' \in Rows BY <1>6, <2>1 DEF SweepCommit, TypeOK, Rows
    <2> QED BY <1>6, <2>2 DEF SweepCommit, TypeOK
  <1>7. CASE DrainDeadLetters BY <1>7 DEF DrainDeadLetters, TypeOK
  <1>8. CASE UNCHANGED vars BY <1>8 DEF vars, TypeOK
  <1> QED BY <1>1, <1>2, <1>3, <1>4, <1>5, <1>6, <1>7, <1>8 DEF Next

-----------------------------------------------------------------------------
(* Places, results and the row lock                                         *)

LEMMA DoneOnce ==
    ASSUME NEW s \in OnceSteps
    PROVE  AlreadyDone(s) <=> IF s = "brief_generation" THEN lead.brief # "none"
                                                       ELSE s \in lead.done
  BY DEF AlreadyDone, OnceSteps, LeadSteps

(* Nothing that was done, lost or mixed is ever taken back. *)
LEMMA Monotone ==
    ASSUME TypeOK, [Next]_vars
    PROVE  /\ lead.done \subseteq lead'.done /\ lost \subseteq lost' /\ unsent \subseteq unsent'
           /\ lead.brief # "none" => lead'.brief # "none"
           /\ mixed => mixed'
  <1> DEFINE G == /\ lead.done \subseteq lead'.done /\ lost \subseteq lost'
                  /\ unsent \subseteq unsent'
                  /\ lead.brief # "none" => lead'.brief # "none"
                  /\ mixed => mixed'
  <1> USE DEF TypeOK, leadVars, chainVars, dlqVars, rowVars
  <1>1. ASSUME NEW t \in Tasks, CommitRow(t) \/ RollbackRow(t) PROVE UNCHANGED mixed
    BY <1>1 DEF CommitRow, RollbackRow, Unlock
  <1>2. ASSUME NEW t \in Tasks, NEW a, NEW b, Flush(t, a, b) PROVE mixed => mixed'
    BY <1>2, Zenon DEF Flush
  <1>3. ASSUME NEW t \in Tasks, Chain(t) PROVE unsent \subseteq unsent'
    BY <1>3 DEF Chain
  <1>4. ASSUME NEW t \in Tasks, TaskStep(t) \/ ScoutCommit(t) PROVE G
    <2>1. CASE \/ Deliver(t) \/ Guard(t) \/ DispatchWork(t) \/ EnrichWork(t) \/ ScoreWork(t)
               \/ ResearchWork(t) \/ BriefWork(t) \/ ReadRun(t) \/ TrackFailure(t)
      BY <2>1 DEF Deliver, Guard, DispatchWork, EnrichWork, ScoreWork, ResearchWork,
                  BriefWork, WorkEnds, ReadRun, TrackFailure
    <2>2. CASE MarkRunning(t) BY <2>2, <1>2 DEF MarkRunning
    <2>3. ASSUME NEW b, \/ AnalysisCommit(t, b) \/ ReviewCommit(t, b) \/ DraftCommit(t, b)
                        \/ ResearchCommit(t, b)
          PROVE  G
      <3>1. UNCHANGED mixed /\ UNCHANGED chainVars
        BY <2>3, <1>1, Zenon
        DEF AnalysisCommit, ReviewCommit, DraftCommit, ResearchCommit, CommitWork
      <3>2. CASE AnalysisCommit(t, b) BY <3>1, <3>2 DEF AnalysisCommit
      <3>3. CASE ReviewCommit(t, b) BY <3>1, <3>3 DEF ReviewCommit
      <3>4. CASE DraftCommit(t, b) BY <3>1, <3>4 DEF DraftCommit
      <3>5. CASE ResearchCommit(t, b) BY <3>1, <3>5 DEF ResearchCommit
      <3> QED BY <2>3, <3>2, <3>3, <3>4, <3>5
    <2>4. CASE DraftRollback(t) \/ ScoutCommit(t)
      BY <2>4, <1>1 DEF DraftRollback, ScoutCommit
    <2>5. CASE WriteRun(t) \/ ReportRun(t)
      BY <2>5, <1>2, <1>3 DEF WriteRun, ReportRun
    <2>6. CASE CommitStep(t) BY <2>6, <1>1 DEF CommitStep, Commit
    <2>7. CASE TimeLimit(t) BY <2>7, <1>1 DEF TimeLimit, Strike
    <2> QED BY <1>4, <2>1, <2>2, <2>3, <2>4, <2>5, <2>6, <2>7 DEF TaskStep
  <1>5. ASSUME NEW t \in Tasks, Fault(t) PROVE G
    <2>1. CASE CommitUnacked(t) BY <2>1, <1>1 DEF CommitUnacked, Commit
    <2>2. ASSUME NEW slot, Strike(t, slot) PROVE G BY <2>2, <1>1 DEF Strike
    <2> QED BY <1>5, <2>1, <2>2 DEF Fault, WorkerLost, StepRaises, SoftTimeLimit
  <1>6. CASE ApiSend \/ ApiCommit \/ SweepRead \/ SweepCommit \/ DrainDeadLetters
    BY <1>6 DEF ApiSend, ApiCommit, SweepRead, SweepCommit, DrainDeadLetters
  <1>7. CASE UNCHANGED vars BY <1>7 DEF vars
  <1> QED BY <1>4, <1>5, <1>6, <1>7 DEF Next

LEMMA DoneStays ==
    ASSUME TypeOK, [Next]_vars, NEW s \in OnceSteps, AlreadyDone(s) PROVE AlreadyDone(s)'
  <1>1. AlreadyDone(s)' <=> IF s = "brief_generation" THEN lead'.brief # "none"
                                                     ELSE s \in lead'.done
    BY DEF AlreadyDone, OnceSteps, LeadSteps
  <1> QED BY <1>1, DoneOnce, Monotone

(* A step of one task that leaves the other slots alone, or sends messages  *)
(* to free ones.                                                            *)
OthersKept(t) ==
    \A v \in Tasks \ {t} :
        task'[v] = task[v] \/ \E s \in Steps : task[v].pc = "free" /\ task'[v] = Message(s)

LEMMA MessagePlace ==
    ASSUME NEW s \in Steps
    PROVE  /\ Message(s).pc = "queued" /\ Message(s).step = s /\ Message(s).snap = NoRow
           /\ Message(s).result = "none"
  BY DEF Message, FreeSlot

(* A slot that waits for its next delivery or for _track_failure. *)
Waits(slot, s) ==
    /\ slot.pc \in {"queued", "error"} /\ slot.step = s
    /\ slot.snap = NoRow /\ slot.result = "none"

LEMMA RedeliveredPlace ==
    ASSUME NEW t \in Tasks
    PROVE  /\ Waits(Redelivered(t), task[t].step)
           /\ Waits([Redelivered(t) EXCEPT !.known = TRUE], task[t].step)
           /\ Waits([Redelivered(t) EXCEPT !.pc = "error"], task[t].step)
  BY DEF Waits, Redelivered, Message, FreeSlot

LEMMA NobodyIsNoTask == Nobody \notin Tasks
  BY BoundsAssumption DEF Nobody, Tasks

(* Who holds the lock afterwards. *)
LEMMA FlushLock ==
    ASSUME TypeOK, LockOK, NEW t \in Tasks, NEW a, NEW b, Flush(t, a, b)
    PROVE  /\ lock' = lock \/ (lock' = t /\ lock \in {Nobody, t})
           /\ lock' = Nobody => row' = NoRow
  <1>1. CASE UNCHANGED rowVars BY <1>1 DEF rowVars, LockOK
  <1>2. CASE lock \in {Nobody, t} /\ lock' = t BY <1>2, NobodyIsNoTask
  <1> QED BY <1>1, <1>2 DEF Flush

LEMMA UnlockLock ==
    ASSUME TypeOK, LockOK, NEW t \in Tasks, CommitRow(t) \/ RollbackRow(t)
    PROVE  /\ lock' # t /\ (lock' = lock \/ (lock = t /\ lock' = Nobody))
           /\ lock' = Nobody => row' = NoRow
  BY NobodyIsNoTask DEF CommitRow, RollbackRow, Unlock, LockOK

LocalOK(t) ==
    /\ lock = t => task[t].pc \in {"guard", "work", "report", "commit", "selfblock"}
    /\ task[t].pc \in Reports =>
          /\ task[t].result = "fail" => task[t].step \notin LeadSteps
          /\ task[t].step \in OnceSteps => task[t].result \in {"skip", "ok", "fail"}
          /\ task[t].step \in OnceSteps /\ task[t].result = "skip"
             => AlreadyDone(task[t].step)
          /\ task[t].step = "analysis" => "analysis" \in lead.done
    /\ task[t].pc = "work" /\ task[t].step = "brief_review" => lead.brief # "none"

LEMMA LocalIs ==
    LockOK /\ ResultOK <=> (lock = Nobody => row = NoRow) /\ \A t \in Tasks : LocalOK(t)
  BY DEF LockOK, ResultOK, LocalOK

(* Slots that a step leaves alone stay consistent with the lock. *)
LEMMA LocalOthers ==
    ASSUME TypeOK, LockOK, ResultOK, [Next]_vars, NEW t \in Tasks, OthersKept(t),
           \A v \in Tasks \ {t} : lock' = v => lock = v
    PROVE  \A v \in Tasks \ {t} : LocalOK(v)'
  <1> SUFFICES ASSUME NEW v \in Tasks, v # t PROVE LocalOK(v)'
    OBVIOUS
  <1>1. LocalOK(v) BY LocalIs
  <1>2. CASE task'[v] = task[v]
    <2>1. task[v].step \in OnceSteps /\ AlreadyDone(task[v].step) => AlreadyDone(task[v].step)'
      BY <1>2, DoneStays
    <2> QED BY <1>1, <1>2, <2>1, Monotone DEF LocalOK
  <1>3. ASSUME NEW s \in Steps, task[v].pc = "free", task'[v] = Message(s)
        PROVE  LocalOK(v)'
    BY <1>1, <1>3, MessagePlace DEF LocalOK, Reports
  <1> QED BY <1>2, <1>3 DEF OthersKept

(* Every step of a task but its report touches its own slot only. *)
Alone(t) == \A v \in Tasks \ {t} : task'[v] = task[v]

LEMMA AloneSteps ==
    ASSUME TypeOK, NEW t \in Tasks, TaskStep(t) \/ ScoutCommit(t) \/ Fault(t),
           ~WriteRun(t), ~ReportRun(t)
    PROVE  Alone(t)
  <1> USE DEF Alone, TypeOK
  <1>1. CASE Deliver(t) \/ MarkRunning(t) \/ Guard(t) \/ ReadRun(t) \/ TrackFailure(t)
    BY <1>1 DEF Deliver, MarkRunning, Guard, ReadRun, TrackFailure
  <1>2. CASE DispatchWork(t) \/ EnrichWork(t) \/ ScoreWork(t) \/ ResearchWork(t) \/ BriefWork(t)
    BY <1>2 DEF DispatchWork, EnrichWork, ScoreWork, ResearchWork, BriefWork, WorkEnds
  <1>3. ASSUME NEW b, \/ AnalysisCommit(t, b) \/ ReviewCommit(t, b) \/ DraftCommit(t, b)
                      \/ ResearchCommit(t, b)
        PROVE  Alone(t)
    BY <1>3 DEF AnalysisCommit, ReviewCommit, DraftCommit, ResearchCommit, CommitWork
  <1>4. CASE DraftRollback(t) \/ ScoutCommit(t) BY <1>4 DEF DraftRollback, ScoutCommit
  <1>5. CASE CommitStep(t) \/ CommitUnacked(t) BY <1>5 DEF CommitStep, CommitUnacked
  <1>6. CASE TimeLimit(t) \/ WorkerLost(t) \/ StepRaises(t) \/ SoftTimeLimit(t)
    BY <1>6 DEF TimeLimit, WorkerLost, StepRaises, SoftTimeLimit, Strike
  <1> QED BY <1>1, <1>2, <1>3, <1>4, <1>5, <1>6 DEF TaskStep, Fault

LEMMA OthersSteps ==
    ASSUME TypeOK, NEW t \in Tasks, TaskStep(t) \/ ScoutCommit(t) \/ Fault(t)
    PROVE  OthersKept(t)
  <1>1. CASE WriteRun(t) \/ ReportRun(t)
    <2>1. task[t].pc # "free" /\ Chain(t) BY <1>1 DEF WriteRun, ReportRun
    <2> QED BY <2>1, ChainStep DEF OthersKept
  <1>2. CASE ~WriteRun(t) /\ ~ReportRun(t) BY <1>2, AloneSteps DEF Alone, OthersKept
  <1> QED BY <1>1, <1>2

(* The work of a task's step, and its result. *)
LEMMA LocalWork ==
    ASSUME TypeOK, LockOK, ResultOK, NEW t \in Tasks,
           TaskStep(t), [Next]_vars, task[t].pc = "work"
    PROVE  LocalOK(t)' /\ (lock' = lock \/ lock' = Nobody) /\ (lock' = Nobody => row' = NoRow)
  <1>1. LocalOK(t) BY LocalIs
  <1>2. ASSUME NEW s, NEW R, WorkEnds(t, s, R), s \in OnceSteps => R \subseteq {"ok", "fail"},
               s \in LeadSteps => R \subseteq {"ok"}, s # "analysis"
        PROVE  /\ LocalOK(t)' /\ (lock' = lock \/ lock' = Nobody)
               /\ lock' = Nobody => row' = NoRow
    <2>1. PICK r \in R : task' = [task EXCEPT ![t].pc = "report", ![t].result = r]
      BY <1>2 DEF WorkEnds
    <2>2. task[t].step = s /\ lock' = lock /\ row' = row BY <1>2 DEF WorkEnds, rowVars
    <2>3. /\ task'[t].pc = "report" /\ task'[t].result = r /\ task'[t].step = s
      BY <2>1, <2>2 DEF TypeOK, Messages
    <2> QED BY <1>2, <2>2, <2>3 DEF LocalOK, LockOK
  <1>3. CASE DispatchWork(t) \/ EnrichWork(t) \/ ScoreWork(t) \/ ResearchWork(t)
             \/ BriefWork(t)
    BY <1>2, <1>3 DEF DispatchWork, EnrichWork, ScoreWork, ResearchWork, BriefWork,
                      OnceSteps, LeadSteps
  <1>4. ASSUME NEW r, CommitWork(t, r), task[t].step \in OnceSteps => r = "ok",
               task[t].step = "analysis" => "analysis" \in lead'.done, r # "fail"
        PROVE  /\ LocalOK(t)' /\ (lock' = lock \/ lock' = Nobody)
               /\ lock' = Nobody => row' = NoRow
    <2>1. lock' # t BY <1>4, UnlockLock DEF CommitWork
    <2>2. task'[t].pc = "report" /\ task'[t].result = r /\ task'[t].step = task[t].step
      BY <1>4 DEF CommitWork, TypeOK, Messages
    <2> QED BY <1>4, <2>1, <2>2, UnlockLock DEF LocalOK, CommitWork
  <1>5. ASSUME NEW b \in Qualities, AnalysisCommit(t, b)
        PROVE  "analysis" \in lead'.done
    BY <1>5 DEF AnalysisCommit, TypeOK
  <1>6. ASSUME NEW b \in Qualities, AnalysisCommit(t, b)
        PROVE  /\ LocalOK(t)' /\ (lock' = lock \/ lock' = Nobody)
               /\ lock' = Nobody => row' = NoRow
    BY <1>4, <1>5, <1>6 DEF AnalysisCommit
  <1>7. ASSUME NEW b \in BOOLEAN, ReviewCommit(t, b) \/ DraftCommit(t, b) \/ ResearchCommit(t, b)
        PROVE  /\ LocalOK(t)' /\ (lock' = lock \/ lock' = Nobody)
               /\ lock' = Nobody => row' = NoRow
    BY <1>4, <1>7 DEF ReviewCommit, DraftCommit, ResearchCommit, OnceSteps, LeadSteps
  <1>8. CASE DraftRollback(t)
    <2>1. \/ task'[t].pc = "free"
          \/ task'[t].pc = "report" /\ task'[t].step = "draft_generation"
      BY <1>8 DEF DraftRollback, TypeOK, Messages, FreeSlot
    <2>2. lock' # t BY <1>8, UnlockLock DEF DraftRollback
    <2> QED BY <1>8, <2>1, <2>2, UnlockLock
            DEF DraftRollback, LocalOK, OnceSteps, LeadSteps, Reports
  <1>9. ~Deliver(t) /\ ~MarkRunning(t) /\ ~Guard(t) /\ ~ReadRun(t) /\ ~WriteRun(t)
        /\ ~ReportRun(t) /\ ~CommitStep(t) /\ ~TimeLimit(t) /\ ~TrackFailure(t)
    BY DEF Deliver, MarkRunning, Guard, ReadRun, WriteRun, ReportRun, CommitStep, Commit,
           TimeLimit, TrackFailure
  <1> QED BY <1>3, <1>6, <1>7, <1>8, <1>9 DEF TaskStep

LEMMA LocalTask ==
    ASSUME TypeOK, LockOK, ResultOK, NEW t \in Tasks, [Next]_vars,
           TaskStep(t) \/ ScoutCommit(t) \/ Fault(t)
    PROVE  LockOK' /\ ResultOK'
  <1> DEFINE G == /\ LocalOK(t)' /\ (lock' = lock \/ lock' = Nobody \/ lock' = t)
                  /\ lock' = Nobody => row' = NoRow
  <1>0. LocalOK(t) /\ (lock = Nobody => row = NoRow) BY LocalIs
  <1>1. ASSUME task[t].pc = "work" /\ TaskStep(t) PROVE G BY <1>1, LocalWork
  <1>2. ASSUME Deliver(t) PROVE G
    <2>1. task'[t].pc \in {"error", "mark"} BY <1>2 DEF Deliver, TypeOK, Messages
    <2> QED BY <1>0, <1>2, <2>1 DEF Deliver, rowVars, LocalOK, Reports
  <1>3. ASSUME MarkRunning(t) PROVE G
    <2>1. task'[t].pc = "guard" BY <1>3 DEF MarkRunning, TypeOK, Messages
    <2> QED BY <1>3, <2>1, FlushLock DEF MarkRunning, LocalOK, Reports
  <1>4. ASSUME Guard(t) PROVE G
    <2>1. /\ task'[t].step = task[t].step
          /\ \/ task'[t].pc = "work"
             \/ task'[t].pc = "report" /\ task'[t].result = "skip"
                /\ AlreadyDone(task[t].step)
      BY <1>4 DEF Guard, TypeOK, Messages
    <2>2. AlreadyDone(task[t].step)' = AlreadyDone(task[t].step)
      BY <1>4, <2>1 DEF Guard, leadVars, AlreadyDone
    <2>3. task[t].step = "brief_review" /\ lead.brief = "none" => AlreadyDone(task[t].step)
      BY DEF AlreadyDone, LeadSteps
    <2>4. task'[t].pc = "work" => ~AlreadyDone(task[t].step) /\ lead' = lead
      BY <1>4 DEF Guard, TypeOK, Messages, leadVars
    <2>5. task[t].step = "analysis" /\ AlreadyDone(task[t].step) => "analysis" \in lead'.done
      BY <1>4, DoneOnce DEF Guard, leadVars, OnceSteps, LeadSteps
    <2> QED BY <1>0, <1>4, <2>1, <2>2, <2>3, <2>4, <2>5 DEF Guard, rowVars, LocalOK, Reports
  <1>5. ASSUME ReadRun(t) PROVE G
    <2>1. /\ task'[t].pc = "write" /\ task'[t].step = task[t].step
          /\ task'[t].result = task[t].result /\ task[t].pc = "report"
      BY <1>5 DEF ReadRun, TypeOK, Messages
    <2>2. AlreadyDone(task[t].step)' = AlreadyDone(task[t].step) /\ lead' = lead
      BY <1>5, <2>1 DEF ReadRun, leadVars, AlreadyDone
    <2> QED BY <1>0, <1>5, <2>1, <2>2 DEF ReadRun, rowVars, LocalOK, Reports
  <1>6. ASSUME WriteRun(t) \/ ReportRun(t) PROVE G
    <2>1. Chain(t) /\ task[t].pc \in {"report", "write"} /\ UNCHANGED lead
      BY <1>6 DEF WriteRun, ReportRun, leadVars
    <2>2. /\ task'[t].pc \in {"selfblock", "commit"} /\ task'[t].step = task[t].step
          /\ task'[t].result = task[t].result
      BY <2>1, ChainStep, ReportingTyped
    <2>3. AlreadyDone(task[t].step)' = AlreadyDone(task[t].step)
      BY <2>1, <2>2 DEF AlreadyDone
    <2>4. /\ lock' = lock \/ lock' = t
          /\ lock' = Nobody => row' = NoRow
      BY <1>6, FlushLock DEF WriteRun, ReportRun
    <2> QED BY <1>0, <2>1, <2>2, <2>3, <2>4 DEF LocalOK, Reports
  <1>7. ASSUME CommitRow(t) \/ RollbackRow(t), task'[t].pc \in {"free", "queued", "error"}
        PROVE  G
    BY <1>7, UnlockLock DEF LocalOK, Reports
  <1>8. ASSUME CommitStep(t) \/ CommitUnacked(t) PROVE G
    <2>1. CommitRow(t) BY <1>8 DEF CommitStep, CommitUnacked, Commit
    <2>2. task'[t] = FreeSlot \/ task'[t] = [Redelivered(t) EXCEPT !.known = TRUE]
      BY <1>8 DEF CommitStep, CommitUnacked, TypeOK
    <2>3. task'[t] = FreeSlot \/ Waits(task'[t], task[t].step) BY <2>2, RedeliveredPlace
    <2>4. task'[t].pc \in {"free", "queued", "error"} BY <2>3 DEF Waits, FreeSlot
    <2> QED BY <1>7, <2>1, <2>4
  <1>9. ASSUME TimeLimit(t) \/ WorkerLost(t) \/ StepRaises(t) \/ SoftTimeLimit(t) PROVE G
    <2>1. RollbackRow(t)
      BY <1>9 DEF TimeLimit, WorkerLost, StepRaises, SoftTimeLimit, Strike
    <2>2. task'[t].pc \in {"free", "queued", "error"}
      <3>1. task'[t] \in {FreeSlot, Redelivered(t), [Redelivered(t) EXCEPT !.pc = "error"]}
        BY <1>9 DEF TimeLimit, WorkerLost, StepRaises, SoftTimeLimit, Strike, TypeOK
      <3>2. task'[t] = FreeSlot \/ Waits(task'[t], task[t].step) BY <3>1, RedeliveredPlace
      <3> QED BY <3>2 DEF Waits, FreeSlot
    <2> QED BY <1>7, <2>1, <2>2
  <1>10. ASSUME TrackFailure(t) PROVE G
    <2>1. task'[t].pc \in {"free", "queued"}
      BY <1>10 DEF TrackFailure, TypeOK, FreeSlot, Message
    <2> QED BY <1>0, <1>10, <2>1 DEF TrackFailure, LocalOK, Reports
  <1>11. ASSUME ScoutCommit(t) PROVE G
    <2>1. task'[t].pc = "work" BY <1>11 DEF ScoutCommit, TypeOK, Messages
    <2> QED BY <1>11, <2>1, UnlockLock DEF ScoutCommit, LocalOK, Reports
  <1>12. G
    <2>1. CASE TaskStep(t) /\ task[t].pc # "work"
      <3>1. ~DispatchWork(t) /\ ~EnrichWork(t) /\ ~ScoreWork(t) /\ ~ResearchWork(t)
            /\ ~BriefWork(t) /\ ~DraftRollback(t)
        BY <2>1 DEF DispatchWork, EnrichWork, ScoreWork, ResearchWork, BriefWork, WorkEnds,
                    DraftRollback
      <3>2. ASSUME NEW b PROVE ~AnalysisCommit(t, b) /\ ~ReviewCommit(t, b)
                               /\ ~DraftCommit(t, b) /\ ~ResearchCommit(t, b)
        BY <2>1 DEF AnalysisCommit, ReviewCommit, DraftCommit, ResearchCommit, CommitWork
      <3> QED BY <2>1, <3>1, <3>2, <1>2, <1>3, <1>4, <1>5, <1>6, <1>8, <1>9, <1>10
              DEF TaskStep
    <2> QED BY <2>1, <1>1, <1>8, <1>9, <1>11 DEF Fault
  <1> QED BY <1>12, OthersSteps, LocalOthers, LocalIs, LocalIs, NobodyIsNoTask
          DEF LockOK, ResultOK, LocalOK

LEMMA BusySteps ==
    ASSUME NEW t \in Tasks, TaskStep(t) \/ ScoutCommit(t) \/ Fault(t)
    PROVE  task[t].pc # "free" /\ UNCHANGED api
  <1>1. CASE Deliver(t) \/ MarkRunning(t) \/ Guard(t) \/ ReadRun(t) \/ TrackFailure(t)
    BY <1>1 DEF Deliver, MarkRunning, Guard, ReadRun, TrackFailure
  <1>2. CASE DispatchWork(t) \/ EnrichWork(t) \/ ScoreWork(t) \/ ResearchWork(t) \/ BriefWork(t)
    BY <1>2 DEF DispatchWork, EnrichWork, ScoreWork, ResearchWork, BriefWork, WorkEnds
  <1>3. ASSUME NEW b, \/ AnalysisCommit(t, b) \/ ReviewCommit(t, b) \/ DraftCommit(t, b)
                      \/ ResearchCommit(t, b)
        PROVE  task[t].pc # "free" /\ UNCHANGED api
    BY <1>3 DEF AnalysisCommit, ReviewCommit, DraftCommit, ResearchCommit, CommitWork
  <1>4. CASE DraftRollback(t) \/ ScoutCommit(t) BY <1>4 DEF DraftRollback, ScoutCommit
  <1>5. CASE CommitStep(t) \/ CommitUnacked(t) BY <1>5 DEF CommitStep, CommitUnacked, Commit
  <1>6. CASE TimeLimit(t) \/ WorkerLost(t) \/ StepRaises(t) \/ SoftTimeLimit(t)
    BY <1>6 DEF TimeLimit, WorkerLost, StepRaises, SoftTimeLimit, Strike, Running
  <1>7. CASE WriteRun(t) \/ ReportRun(t) BY <1>7 DEF WriteRun, ReportRun
  <1> QED BY <1>1, <1>2, <1>3, <1>4, <1>5, <1>6, <1>7 DEF TaskStep, Fault

LEMMA IdlePreserved == TypeOK /\ IdleOK /\ [Next]_vars => IdleOK'
  <1> SUFFICES ASSUME TypeOK, IdleOK, [Next]_vars, api' = "idle" PROVE IdleOK'
    BY DEF IdleOK
  <1>1. api = "idle" => UNCHANGED <<task, lock>>
    <2>1. ASSUME NEW t \in Tasks, TaskStep(t) \/ ScoutCommit(t) \/ Fault(t) PROVE api # "idle"
      BY <2>1, BusySteps DEF IdleOK, FreeSlot
    <2> QED BY <2>1 DEF Next, ApiSend, ApiCommit, SweepRead, SweepCommit, DrainDeadLetters,
                        rowVars, vars
  <1>2. api = "idle"
    BY BusySteps DEF Next, ApiSend, ApiCommit, SweepRead, SweepCommit, DrainDeadLetters, vars
  <1> QED BY <1>1, <1>2 DEF IdleOK

LEMMA LocalPreserved ==
    TypeOK /\ IdleOK /\ LockOK /\ ResultOK /\ [Next]_vars => LockOK' /\ ResultOK'
  <1> SUFFICES ASSUME TypeOK, IdleOK, LockOK, ResultOK, [Next]_vars PROVE LockOK' /\ ResultOK'
    OBVIOUS
  <1> USE DEF leadVars, chainVars, dlqVars, rowVars
  <1>1. CASE ApiSend
    <2>1. /\ lead' = lead /\ lock' = lock /\ row' = row
          /\ task' = [task EXCEPT ![1] = Message("pipeline_dispatch")]
      BY <1>1 DEF ApiSend
    <2>2. lock = Nobody /\ \A t \in Tasks : task[t].pc = "free"
      BY <1>1 DEF ApiSend, IdleOK, FreeSlot
    <2>3. \A t \in Tasks : task'[t].pc \in {"free", "queued"}
      BY <2>1, <2>2, MessagePlace DEF TypeOK, Steps
    <2> QED BY <2>1, <2>2, <2>3, NobodyIsNoTask DEF LockOK, ResultOK, Reports
  <1>2. ASSUME NEW t \in Tasks, TaskStep(t) \/ ScoutCommit(t) \/ Fault(t)
        PROVE  LockOK' /\ ResultOK'
    BY <1>2, LocalTask
  <1>3. CASE UNCHANGED <<row, lock, lead, task>>
    BY <1>3 DEF LockOK, ResultOK, AlreadyDone
  <1>4. CASE ApiCommit \/ SweepRead \/ SweepCommit \/ DrainDeadLetters
    BY <1>3, <1>4 DEF ApiCommit, SweepRead, SweepCommit, DrainDeadLetters
  <1> QED BY <1>1, <1>2, <1>3, <1>4 DEF Next, vars

-----------------------------------------------------------------------------
(* The order of the steps                                                   *)

(* A session never touches the row while another one holds its lock. *)
LEMMA LockSteps ==
    ASSUME TypeOK, LockOK, NEW t \in Tasks, TaskStep(t) \/ ScoutCommit(t) \/ Fault(t),
           NEW u \in Tasks \ {t}, lock = u
    PROVE  UNCHANGED <<run, row, lock>>
  <1>0. lock # Nobody /\ lock # t BY NobodyIsNoTask
  <1>1. ASSUME NEW a, NEW b, Flush(t, a, b) PROVE UNCHANGED <<run, row, lock>>
    BY <1>0, <1>1 DEF Flush, rowVars
  <1>2. ASSUME CommitRow(t) \/ RollbackRow(t) PROVE UNCHANGED <<run, row, lock>>
    BY <1>0, <1>2 DEF CommitRow, RollbackRow, Unlock, View
  <1>3. CASE Deliver(t) \/ Guard(t) \/ ReadRun(t)
    BY <1>3 DEF Deliver, Guard, ReadRun, rowVars
  <1>4. CASE DispatchWork(t) \/ EnrichWork(t) \/ ScoreWork(t) \/ ResearchWork(t) \/ BriefWork(t)
    BY <1>4 DEF DispatchWork, EnrichWork, ScoreWork, ResearchWork, BriefWork, WorkEnds, rowVars
  <1>5. ASSUME NEW b, \/ AnalysisCommit(t, b) \/ ReviewCommit(t, b) \/ DraftCommit(t, b)
                      \/ ResearchCommit(t, b)
        PROVE  UNCHANGED <<run, row, lock>>
    BY <1>2, <1>5 DEF AnalysisCommit, ReviewCommit, DraftCommit, ResearchCommit, CommitWork
  <1>6. CASE DraftRollback(t) \/ ScoutCommit(t) BY <1>2, <1>6 DEF DraftRollback, ScoutCommit
  <1>7. CASE CommitStep(t) \/ CommitUnacked(t)
    BY <1>2, <1>7 DEF CommitStep, CommitUnacked, Commit
  <1>8. CASE TimeLimit(t) \/ WorkerLost(t) \/ StepRaises(t) \/ SoftTimeLimit(t)
    BY <1>2, <1>8 DEF TimeLimit, WorkerLost, StepRaises, SoftTimeLimit, Strike
  <1>9. CASE MarkRunning(t) \/ WriteRun(t) \/ ReportRun(t)
    BY <1>1, <1>9 DEF MarkRunning, WriteRun, ReportRun
  <1>10. CASE TrackFailure(t) BY <1>0, <1>10 DEF TrackFailure
  <1> QED BY <1>3, <1>4, <1>5, <1>6, <1>7, <1>8, <1>9, <1>10 DEF TaskStep, Fault

(* A task that has sent a successor is at its commit until it commits or is *)
(* lost, whatever the others do.                                            *)
LEMMA SendingStays ==
    ASSUME TypeOK, LockOK, NEW t \in Tasks, TaskStep(t) \/ ScoutCommit(t) \/ Fault(t),
           NEW p, NEW u \in Tasks \ {t}, Sending(u, p)
    PROVE  Sending(u, p)'
  <1>1. lock' = u BY LockSteps DEF Sending
  <1>2. task'[u] = task[u] BY OthersSteps DEF OthersKept, Sending
  <1> QED BY <1>1, <1>2 DEF Sending

(* The order of the steps is kept by a task that sends its successors only  *)
(* from a Sending state and reports rows of steps that p does not precede.  *)
LEMMA OrderFrame ==
    ASSUME TypeOK, LockOK, [Next]_vars, NEW p, OrderOK(p), NEW t \in Tasks,
           TaskStep(t) \/ ScoutCommit(t) \/ Fault(t),
           \A v \in Tasks \ {t} :
              \/ task'[v] = task[v]
              \/ /\ task'[v].snap = NoRow /\ task'[v].pc = "queued"
                 /\ task'[v].step \in After(p)
                    => Settled(p)' \/ \E u \in Tasks : Sending(u, p)',
           task'[t].snap \in {task[t].snap, run, NoRow},
           ~Settled(p)' /\ task'[t].pc # "free" /\ task'[t].step \in After(p) =>
              /\ task[t].pc # "free" /\ task[t].step \in After(p)
              /\ task'[t].pc \in {"queued", "mark", "error"},
           Sending(t, p) => Settled(p)',
           ~Settled(p)' => run'.step \notin After(p) /\ row'.step \notin After(p),
           p \in run'.ctx => p \in lead'.done,
           p \in row'.ctx =>
              \/ p \in lead'.done
              \/ Sending(t, p)'
              \/ p \in row.ctx /\ lock # t
    PROVE  OrderOK(p)'
  <1>0. NoRow.ctx = {} /\ NoRow.step \notin After(p) BY DEF NoRow, After
  <1>1. Settled(p) => Settled(p)' BY Monotone DEF Settled
  <1>2. p \in lead.done => p \in lead'.done BY Monotone
  <1>3. ASSUME NEW u \in Tasks, Sending(u, p) PROVE Settled(p)' \/ Sending(u, p)'
    BY <1>3, SendingStays
  <1>4. ContextOK(p)'
    <2>1. \A v \in Tasks : p \in task'[v].snap.ctx => p \in lead'.done
      BY <1>0, <1>2 DEF OrderOK, ContextOK
    <2>2. p \in row'.ctx => p \in lead'.done \/ \E u \in Tasks : Sending(u, p)'
      BY <1>2, SendingStays DEF OrderOK, ContextOK, Sending
    <2> QED BY <2>1, <2>2 DEF ContextOK
  <1>5. Waiting(p)'
    <2> SUFFICES ASSUME ~Settled(p)' PROVE Waiting(p)' BY DEF Waiting
    <2>0. Waiting(p) /\ ~Settled(p) BY <1>1 DEF OrderOK
    <2>1. ASSUME NEW v \in Tasks PROVE task'[v].snap.step \notin After(p)
      BY <1>0, <2>0 DEF Waiting
    <2>2. ASSUME NEW v \in Tasks, task'[v].pc # "free", task'[v].step \in After(p)
          PROVE  /\ task'[v].pc \in {"queued", "mark", "error"}
                 /\ \E u \in Tasks : Sending(u, p)'
      <3>1. CASE task[v].pc # "free" /\ task[v].step \in After(p)
                 /\ (v = t \/ task'[v] = task[v])
        <4>1. PICK u \in Tasks : Sending(u, p) BY <2>0, <3>1 DEF Waiting
        <4>2. Sending(u, p)' BY <1>3, <4>1
        <4> QED BY <2>0, <2>2, <3>1, <4>2 DEF Waiting
      <3> QED BY <2>2, <3>1
    <2> QED BY <2>1, <2>2 DEF Waiting
  <1> QED BY <1>4, <1>5 DEF OrderOK

(* A task that waits for its predecessor's commit cannot go on. *)
LEMMA WaitingTask ==
    ASSUME NEW p, Waiting(p), ~Settled(p), NEW t \in Tasks, task[t].pc # "free",
           task[t].step \in After(p)
    PROVE  task[t].pc \in {"queued", "mark", "error"} /\ lock \notin {Nobody, t}
  <1>1. PICK u \in Tasks : Sending(u, p) BY DEF Waiting
  <1>2. task[t].pc \in {"queued", "mark", "error"} BY DEF Waiting
  <1>3. u # t /\ lock = u BY <1>1, <1>2 DEF Sending
  <1> QED BY <1>2, <1>3, NobodyIsNoTask

(* The context is never longer than what was read, but for the reporter's key. *)
LEMMA MergeColumns ==
    ASSUME NEW a, NEW b, NEW c
    PROVE  /\ Merge(a, b, c).step \in {b.step, c.step}
           /\ Merge(a, b, c).ctx \in {b.ctx, c.ctx}
           /\ b.ctx = a.ctx => Merge(a, b, c).ctx = c.ctx
  BY DEF Merge, Column

LEMMA ReportedColumns ==
    ASSUME TypeOK, NEW t \in Tasks, NEW r \in Rows
    PROVE  /\ Reported(t, r).step = task[t].step
           /\ Reported(t, r).ctx = r.ctx \/ Reported(t, r).ctx = r.ctx \cup {task[t].step}
           /\ task[t].step \in OnceSteps /\ task[t].result \in {"skip", "fail"}
              => Reported(t, r).ctx = r.ctx
           /\ task[t].step \in OnceSteps /\ task[t].result = "ok"
              => Reported(t, r).ctx = r.ctx \cup {task[t].step}
  BY DEF Reported, MarkTaskFailed, MarkTaskSucceeded, AppendStepContext, Rows, OnceSteps,
         LeadSteps, ContextSteps, Steps

Early == {"enrichment", "scoring"}

LEMMA OrderTask ==
    ASSUME TypeOK, LockOK, ResultOK, [Next]_vars, NEW p \in Early, OrderOK(p), NEW t \in Tasks,
           TaskStep(t) \/ ScoutCommit(t) \/ Fault(t), ~WriteRun(t), ~ReportRun(t)
    PROVE  OrderOK(p)'
  <1>0. /\ task[t] \in Messages /\ NoRow.ctx = {} /\ NoRow.step \notin After(p)
        /\ ContextOK(p) /\ Waiting(p) /\ FreeSlot.pc = "free" /\ FreeSlot.snap = NoRow
        /\ task[t].pc # "free"
    BY BusySteps DEF TypeOK, NoRow, After, OrderOK, FreeSlot
  <1>m. /\ Settled(p) => Settled(p)'
        /\ p \in lead.done => p \in lead'.done
    BY Monotone DEF Settled
  <1>a. Alone(t) BY AloneSteps
  <1> USE <1>0
  (* Steps that leave the row alone. *)
  <1>1. ASSUME UNCHANGED rowVars, task'[t].step = task[t].step,
               task'[t].snap \in {task[t].snap, run, NoRow},
               task[t].pc \notin {"mark", "error", "commit"},
               task[t].pc = "queued" => task'[t].pc \in {"mark", "error"}
        PROVE  OrderOK(p)'
    <2>1. run' = run /\ row' = row /\ lock' = lock BY <1>1 DEF rowVars
    <2>2. ~Sending(t, p) BY <1>1 DEF Sending
    <2>3. p \in row'.ctx => p \in lead'.done \/ (p \in row.ctx /\ lock # t)
      BY <1>m, <2>1, <2>2 DEF ContextOK, Sending
    <2>4. p \in run'.ctx => p \in lead'.done BY <1>m, <2>1 DEF ContextOK
    <2>5. ~Settled(p)' => run'.step \notin After(p) /\ row'.step \notin After(p)
      BY <1>m, <2>1 DEF Waiting
    <2>6. ~Settled(p)' /\ task'[t].step \in After(p) => task'[t].pc \in {"mark", "error"}
      BY <1>m, <1>1, WaitingTask
    <2> QED BY <1>1, <1>a, <2>2, <2>3, <2>4, <2>5, <2>6, OrderFrame DEF Alone
  (* Commits and rollbacks. *)
  <1>2. ASSUME CommitRow(t) \/ RollbackRow(t), task'[t].snap \in {task[t].snap, NoRow},
               Sending(t, p) => p \in lead'.done \/ (Settled(p)' /\ run' = run),
               \/ task'[t].pc = "free"
               \/ task'[t].step = task[t].step /\ task'[t].pc \in {"queued", "error"}
               \/ task'[t].step = task[t].step /\ task[t].pc = "work"
        PROVE  OrderOK(p)'
    <2>1. \/ lock = t /\ run' \in {run, row} /\ row' = NoRow
          \/ lock # t /\ run' = run /\ row' = row
      BY <1>2 DEF CommitRow, RollbackRow, Unlock, View
    <2>2. Sending(t, p) => Settled(p)' BY <1>2 DEF Settled
    <2>3. run' = run \/ (lock = t /\ run' = row) BY <2>1
    <2>4. p \in run'.ctx => p \in lead'.done
      BY <1>m, <1>2, <2>3 DEF ContextOK, Sending
    <2>5. p \in row'.ctx => p \in lead'.done \/ (p \in row.ctx /\ lock # t) BY <2>1
    <2>6. ~Settled(p)' => run'.step \notin After(p) /\ row'.step \notin After(p)
      BY <1>m, <2>1 DEF Waiting
    <2>7. ~Settled(p)' /\ task'[t].pc # "free" /\ task'[t].step \in After(p) =>
              task[t].step \in After(p) /\ task'[t].pc \in {"queued", "mark", "error"}
      BY <1>m, <1>2, WaitingTask
    <2> QED BY <1>2, <1>a, <2>2, <2>4, <2>5, <2>6, <2>7, OrderFrame DEF Alone
  <1>3. CASE Deliver(t)
    BY <1>1, <1>3 DEF Deliver, Messages, TypeOK
  <1>4. CASE MarkRunning(t)
    <2>1. /\ task[t].pc = "mark" /\ task'[t].pc = "guard" /\ task'[t].step = task[t].step
          /\ task'[t].snap = NoRow /\ Flush(t, task[t].snap, Marked(t)) /\ lead' = lead
      BY <1>4 DEF MarkRunning, TypeOK, Messages, leadVars
    <2>2. ~Sending(t, p) /\ lock # t BY <2>1 DEF Sending, LockOK
    <2>3. /\ Marked(t).step = task[t].step /\ Marked(t).ctx = task[t].snap.ctx
      BY DEF Marked, Messages, Rows
    <2>4. ~Settled(p)' => task[t].step \notin After(p)
      <3> SUFFICES ASSUME ~Settled(p)', task[t].step \in After(p) PROVE FALSE
        OBVIOUS
      <3>1. lock \notin {Nobody, t} BY <1>m, WaitingTask
      <3>2. task[t].snap.step # task[t].step BY <1>m DEF Waiting
      <3> QED BY <2>1, <2>3, <3>1, <3>2 DEF Flush
    <2>5. /\ run' = run
          /\ \/ row' = row
             \/ row'.step \in {task[t].step, run.step} /\ row'.ctx = run.ctx
      BY <2>1, <2>2, <2>3, MergeColumns DEF Flush, rowVars, View
    <2>6. p \in row'.ctx => p \in lead'.done \/ (p \in row.ctx /\ lock # t)
      BY <1>m, <2>2, <2>5 DEF ContextOK
    <2>7. ~Settled(p)' => run'.step \notin After(p) /\ row'.step \notin After(p)
      BY <1>m, <2>4, <2>5 DEF Waiting
    <2>8. p \in run'.ctx => p \in lead'.done BY <1>m, <2>5 DEF ContextOK
    <2> QED BY <1>a, <2>1, <2>2, <2>4, <2>6, <2>7, <2>8, OrderFrame DEF Alone
  <1>5. CASE Guard(t) BY <1>1, <1>5 DEF Guard, Messages, TypeOK
  <1>6. ASSUME NEW s, NEW R, WorkEnds(t, s, R) PROVE OrderOK(p)'
    <2>1. PICK r \in R : task' = [task EXCEPT ![t].pc = "report", ![t].result = r]
      BY <1>6 DEF WorkEnds
    <2> QED BY <1>1, <1>6, <2>1 DEF WorkEnds, Messages, TypeOK
  <1>7. CASE DispatchWork(t) \/ EnrichWork(t) \/ ScoreWork(t) \/ ResearchWork(t) \/ BriefWork(t)
    BY <1>6, <1>7 DEF DispatchWork, EnrichWork, ScoreWork, ResearchWork, BriefWork
  <1>8. CASE ReadRun(t) BY <1>1, <1>8 DEF ReadRun, Messages, TypeOK
  <1>9. CASE ScoutCommit(t)
    BY <1>2, <1>9 DEF ScoutCommit, Messages, TypeOK, Sending
  <1>10. ASSUME NEW r, CommitWork(t, r) PROVE OrderOK(p)'
    BY <1>2, <1>10 DEF CommitWork, Messages, TypeOK, Sending
  <1>11. ASSUME NEW b, \/ AnalysisCommit(t, b) \/ ReviewCommit(t, b) \/ DraftCommit(t, b)
                       \/ ResearchCommit(t, b)
         PROVE  OrderOK(p)'
    BY <1>10, <1>11 DEF AnalysisCommit, ReviewCommit, DraftCommit, ResearchCommit
  <1>12. CASE DraftRollback(t)
    BY <1>2, <1>12 DEF DraftRollback, Messages, TypeOK, Sending
  <1>13. CASE CommitStep(t) \/ CommitUnacked(t)
    <2>1. Commit(t) /\ CommitRow(t) BY <1>13 DEF CommitStep, CommitUnacked, Commit
    <2>2. task'[t] = FreeSlot \/ task'[t] = [Redelivered(t) EXCEPT !.known = TRUE]
      BY <1>13 DEF CommitStep, CommitUnacked, TypeOK
    <2>3. task'[t] = FreeSlot \/ Waits(task'[t], task[t].step) BY <2>2, RedeliveredPlace
    <2>4. Sending(t, p) => p \in lead'.done
      BY <2>1 DEF Commit, Sending, TypeOK, Early
    <2> QED BY <1>2, <2>1, <2>3, <2>4 DEF Waits, Settled
  <1>14. ASSUME NEW slot, Strike(t, slot), slot = FreeSlot \/ Waits(slot, task[t].step)
         PROVE  OrderOK(p)'
    <2>1. RollbackRow(t) /\ task'[t] = slot BY <1>14 DEF Strike, TypeOK
    <2>2. Sending(t, p) => Settled(p)' /\ run' = run
      BY <1>14, <2>1 DEF Strike, Sending, RollbackRow, Settled
    <2> QED BY <1>2, <1>14, <2>1, <2>2 DEF Waits
  <1>15. CASE TimeLimit(t) \/ WorkerLost(t) \/ StepRaises(t) \/ SoftTimeLimit(t)
    BY <1>14, <1>15, RedeliveredPlace DEF TimeLimit, WorkerLost, StepRaises, SoftTimeLimit
  <1>16. CASE TrackFailure(t)
    <2> DEFINE tracked == run.status # "absent" /\ task[t].step \notin UntrackedSteps
    <2>1. /\ task[t].pc = "error" /\ row' = row /\ lead' = lead
          /\ tracked => lock = Nobody
      BY <1>16 DEF TrackFailure, leadVars
    <2>2. \/ run' = run
          \/ tracked /\ run'.step = task[t].step /\ run'.ctx = run.ctx
      BY <1>16 DEF TrackFailure, MarkTaskFailed, MarkTaskRetrying, TypeOK, Rows
    <2>3. \/ task'[t].pc = "free" /\ task'[t].snap = NoRow
          \/ /\ task'[t].pc = "queued" /\ task'[t].snap = NoRow
             /\ task'[t].step = task[t].step
      BY <1>16 DEF TrackFailure, TypeOK, Message, FreeSlot
    <2>4. ~Settled(p)' /\ tracked => task[t].step \notin After(p)
      BY <1>m, <2>1, WaitingTask
    <2>5. ~Settled(p)' => run'.step \notin After(p) /\ row'.step \notin After(p)
      BY <1>m, <2>1, <2>2, <2>4 DEF Waiting
    <2>6. p \in run'.ctx => p \in lead'.done BY <1>m, <2>2 DEF ContextOK
    <2>7. lock # t /\ ~Sending(t, p) BY <2>1 DEF LockOK, Sending
    <2> QED BY <1>a, <2>1, <2>3, <2>5, <2>6, <2>7, OrderFrame DEF Alone
  <1> QED BY <1>3, <1>4, <1>5, <1>7, <1>8, <1>9, <1>11, <1>12, <1>13, <1>15, <1>16
          DEF TaskStep, Fault

LEMMA EarlyFollows ==
    ASSUME NEW t \in Tasks
    PROVE  /\ task[t].result \in {"fail", "budget"} => NextSteps(t) = {}
           /\ task[t].step = "pipeline_dispatch" => NextSteps(t) \subseteq {"enrichment"}
           /\ task[t].step = "enrichment" => NextSteps(t) \subseteq {"scoring"}
           /\ task[t].step = "scoring" => NextSteps(t) \subseteq {"analysis"}
  <1>1. task[t].result \in {"fail", "budget"} => NextSteps(t) = {} BY DEF NextSteps
  <1>2. CASE task[t].result \notin {"fail", "budget"}
    <2>1. ASSUME task[t].step = "pipeline_dispatch" PROVE NextSteps(t) = {"enrichment"}
      BY <1>2, <2>1 DEF NextSteps
    <2>2. ASSUME task[t].step = "enrichment" PROVE NextSteps(t) = {"scoring"}
      BY <1>2, <2>2 DEF NextSteps
    <2>3. ASSUME task[t].step = "scoring" PROVE NextSteps(t) = {"analysis"}
      BY <1>2, <2>3 DEF NextSteps
    <2> QED BY <1>2, <2>1, <2>2, <2>3
  <1> QED BY <1>1, <1>2

LEMMA OrderReport ==
    ASSUME TypeOK, LockOK, ResultOK, [Next]_vars, NEW p \in Early, OrderOK(p), NEW t \in Tasks,
           WriteRun(t) \/ ReportRun(t)
    PROVE  OrderOK(p)'
  <1>0. /\ task[t].pc \in {"report", "write"} /\ Chain(t) /\ lead' = lead /\ lost' = lost
        /\ task[t] \in Messages
    BY DEF WriteRun, ReportRun, leadVars, TypeOK
  <1>1. ContextOK(p) /\ Waiting(p) BY DEF OrderOK
  <1>2. Settled(p)' <=> Settled(p) BY <1>0 DEF Settled
  <1>3. /\ task'[t].step = task[t].step /\ task'[t].result = task[t].result
        /\ task'[t].snap = NoRow /\ task'[t].pc \in {"selfblock", "commit"}
        /\ task'[t].pc = "selfblock" => task[t].step = "draft_generation"
    BY <1>0, ChainStep, ReportingTyped
  <1>4. ~Settled(p) => task[t].step \notin After(p) BY <1>0, <1>1, WaitingTask
  (* A step that worked has its key to write, so it takes the row lock. *)
  <1>5. PICK r \in Rows : /\ Flush(t, r, Reported(t, r))
                          /\ p \in r.ctx => p \in lead.done
    <2>1. CASE WriteRun(t) BY <2>1, <1>0, <1>1 DEF WriteRun, Messages, ContextOK
    <2>2. CASE ReportRun(t)
      <3>1. p \in row.ctx => p \in lead.done
        BY <2>2, <1>1 DEF ReportRun, ContextOK, Sending
      <3> QED BY <2>2, <3>1 DEF ReportRun, TypeOK
    <2> QED BY <2>1, <2>2
  <1>6. \/ /\ Reported(t, r) = r /\ UNCHANGED <<run, row, lock>>
        \/ /\ lock' = t /\ run' = run
           /\ row'.step \in {task[t].step, View(t).step}
           /\ row'.ctx \in {Reported(t, r).ctx, View(t).ctx}
    BY <1>5, MergeColumns, ReportedColumns DEF Flush, rowVars
  <1>7. task[t].step = p /\ task[t].result = "ok" /\ p \notin lead.done => Sending(t, p)'
    <2> SUFFICES ASSUME task[t].step = p, task[t].result = "ok", p \notin lead.done
                 PROVE  Sending(t, p)'
      OBVIOUS
    <2>1. p \in OnceSteps /\ p # "draft_generation" BY DEF Early, OnceSteps, LeadSteps
    <2>2. p \notin r.ctx BY <1>5
    <2>3. Reported(t, r) # r BY <2>1, <2>2, ReportedColumns
    <2> QED BY <1>3, <1>6, <2>1, <2>3 DEF Sending
  <1>8. ~Sending(t, p) BY <1>0 DEF Sending
  <1>9. p \in row'.ctx => p \in lead'.done \/ Sending(t, p)' \/ (p \in row.ctx /\ lock # t)
    <2>1. p \in View(t).ctx => p \in lead.done
      BY <1>1, <1>8 DEF View, ContextOK, Sending
    <2>2. p \in Reported(t, r).ctx =>
             p \in lead.done \/ (task[t].step = p /\ task[t].result = "ok")
      <3>1. task[t].step = p => task[t].step \in OnceSteps BY DEF Early, OnceSteps, LeadSteps
      <3>2. task[t].step = p => task[t].result \in {"skip", "ok", "fail"}
        BY <1>0, <3>1 DEF LockOK, ResultOK, LocalOK, Reports
      <3> QED BY <1>5, <3>1, <3>2, ReportedColumns
    <2>3. p \in row.ctx /\ lock = t => p \in lead.done
      BY <1>1, <1>8 DEF ContextOK, Sending
    <2> QED BY <1>0, <1>6, <1>7, <2>1, <2>2, <2>3
  <1>10. ~Settled(p)' => run'.step \notin After(p) /\ row'.step \notin After(p)
    BY <1>1, <1>2, <1>4, <1>6 DEF Waiting, View
  <1>11. p \in run'.ctx => p \in lead'.done BY <1>0, <1>1, <1>6 DEF ContextOK
  <1>12. ASSUME NEW v \in Tasks \ {t}, task'[v] # task[v]
         PROVE  /\ task'[v].snap = NoRow /\ task'[v].pc = "queued"
                /\ task'[v].step \in After(p)
                   => Settled(p)' \/ \E u \in Tasks : Sending(u, p)'
    <2>1. PICK s \in Steps : Follows(t, s, unsent') /\ task'[v] = Message(s)
      BY <1>0, <1>12, ChainStep
    <2>2. task'[v].snap = NoRow /\ task'[v].pc = "queued" /\ task'[v].step = s
      BY <2>1, MessagePlace
    <2>3. ASSUME ~Settled(p), s \in After(p) PROVE Sending(t, p)'
      <3>1. task[t].step \in {"pipeline_dispatch", "enrichment"} \cup {p}
        BY <1>4, <2>3, <1>0 DEF After, Messages
      <3>2. task[t].step = p /\ task[t].result \notin {"fail", "budget"}
        BY <2>1, <2>3, <3>1, EarlyFollows DEF Follows, After, Early
      <3>3. task[t].result = "ok"
        <4>1. p \in OnceSteps BY DEF Early, OnceSteps, LeadSteps
        <4>2. task[t].result \in {"skip", "ok", "fail"}
              /\ (task[t].result = "skip" => AlreadyDone(p))
          BY <1>0, <3>2, <4>1 DEF ResultOK, Reports
        <4>3. ~AlreadyDone(p) BY <2>3, <4>1, DoneOnce DEF Settled, Early
        <4> QED BY <3>2, <4>2, <4>3
      <3> QED BY <1>7, <2>3, <3>2, <3>3 DEF Settled
    <2> QED BY <1>2, <2>2, <2>3
  <1>13. TaskStep(t) BY DEF TaskStep
  <1> QED BY <1>2, <1>3, <1>4, <1>8, <1>9, <1>10, <1>11, <1>12, <1>13, OrderFrame

LEMMA OrderPreserved ==
    ASSUME TypeOK, IdleOK, LockOK, ResultOK, [Next]_vars, NEW p \in Early, OrderOK(p)
    PROVE  OrderOK(p)'
  <1> USE DEF leadVars, chainVars, dlqVars, rowVars
  <1>0. NoRow.ctx = {} /\ NoRow.step \notin After(p) BY DEF NoRow, After
  <1>1. CASE ApiSend
    <2>1. /\ run' = run /\ row' = row /\ lock' = lock /\ lead' = lead /\ lost' = lost
          /\ task' = [task EXCEPT ![1] = Message("pipeline_dispatch")]
          /\ lock = Nobody
      BY <1>1 DEF ApiSend, IdleOK
    <2>2. ASSUME NEW u \in Tasks PROVE ~Sending(u, p) BY <2>1, NobodyIsNoTask DEF Sending
    <2>3. \A t \in Tasks : /\ task'[t].snap \in {task[t].snap, NoRow}
                           /\ task'[t] # task[t] => task'[t].step \notin After(p)
      BY <2>1, MessagePlace DEF TypeOK, Steps, After
    <2>4. Settled(p)' <=> Settled(p) BY <2>1 DEF Settled
    <2>5. ContextOK(p)' BY <1>0, <2>1, <2>2, <2>3 DEF OrderOK, ContextOK
    <2>6. Waiting(p)' BY <1>0, <2>1, <2>2, <2>3, <2>4 DEF OrderOK, Waiting
    <2> QED BY <2>5, <2>6 DEF OrderOK
  <1>2. ASSUME NEW t \in Tasks, TaskStep(t) \/ ScoutCommit(t) \/ Fault(t) PROVE OrderOK(p)'
    BY <1>2, OrderTask, OrderReport
  <1>3. ASSUME UNCHANGED <<row, lock, lead, lost, task>>, run'.ctx \subseteq run.ctx,
               run'.step \in {run.step, "pipeline_dispatch"}
        PROVE  OrderOK(p)'
    <2>1. \A u \in Tasks : Sending(u, p)' <=> Sending(u, p) BY <1>3 DEF Sending
    <2>2. Settled(p)' <=> Settled(p) BY <1>3 DEF Settled
    <2>3. ContextOK(p)' BY <1>3, <2>1 DEF OrderOK, ContextOK
    <2>4. Waiting(p)' BY <1>3, <2>1, <2>2 DEF OrderOK, Waiting, After
    <2> QED BY <2>3, <2>4 DEF OrderOK
  <1>4. CASE ApiCommit BY <1>3, <1>4 DEF ApiCommit, NoRow
  <1>5. CASE SweepCommit BY <1>3, <1>5 DEF SweepCommit, TypeOK, Rows
  <1>6. CASE SweepRead \/ DrainDeadLetters \/ UNCHANGED vars
    BY <1>3, <1>6 DEF SweepRead, DrainDeadLetters, vars
  <1> QED BY <1>1, <1>2, <1>4, <1>5, <1>6 DEF Next

-----------------------------------------------------------------------------
(* What the row lock protects                                               *)

MidCommit(t) ==
    \/ \E b \in BOOLEAN : \/ AnalysisCommit(t, b) \/ ReviewCommit(t, b)
                         \/ DraftCommit(t, b) \/ ResearchCommit(t, b)

(* The results of the steps change in commits only. *)
LEMMA LeadChange ==
    ASSUME [Next]_vars
    PROVE  UNCHANGED <<lead, works>> \/ \E t \in Tasks : MidCommit(t) \/ Commit(t)
  <1> USE DEF leadVars
  <1>1. ASSUME NEW t \in Tasks, TaskStep(t) \/ ScoutCommit(t) \/ Fault(t)
        PROVE  UNCHANGED <<lead, works>> \/ MidCommit(t) \/ Commit(t)
    <2>1. CASE \/ Deliver(t) \/ MarkRunning(t) \/ Guard(t) \/ ReadRun(t) \/ TrackFailure(t)
               \/ WriteRun(t) \/ ReportRun(t) \/ DraftRollback(t) \/ ScoutCommit(t)
      BY <2>1 DEF Deliver, MarkRunning, Guard, ReadRun, TrackFailure, WriteRun, ReportRun,
                  DraftRollback, ScoutCommit
    <2>2. CASE DispatchWork(t) \/ EnrichWork(t) \/ ScoreWork(t) \/ ResearchWork(t)
               \/ BriefWork(t)
      BY <2>2 DEF DispatchWork, EnrichWork, ScoreWork, ResearchWork, BriefWork, WorkEnds
    <2>3. CASE CommitStep(t) \/ CommitUnacked(t) BY <2>3 DEF CommitStep, CommitUnacked
    <2>4. CASE TimeLimit(t) \/ WorkerLost(t) \/ StepRaises(t) \/ SoftTimeLimit(t)
      BY <2>4 DEF TimeLimit, WorkerLost, StepRaises, SoftTimeLimit, Strike
    <2>5. ASSUME NEW b \in Qualities, AnalysisCommit(t, b) PROVE MidCommit(t)
      BY <2>5, BoundsAssumption DEF MidCommit
    <2>6. ASSUME NEW b \in BOOLEAN, ReviewCommit(t, b) \/ DraftCommit(t, b)
                                    \/ ResearchCommit(t, b)
          PROVE  MidCommit(t)
      BY <2>6 DEF MidCommit
    <2> QED BY <1>1, <2>1, <2>2, <2>3, <2>4, <2>5, <2>6 DEF TaskStep, Fault
  <1>2. CASE ApiSend \/ ApiCommit \/ SweepRead \/ SweepCommit \/ DrainDeadLetters
    BY <1>2 DEF ApiSend, ApiCommit, SweepRead, SweepCommit, DrainDeadLetters
  <1>3. CASE UNCHANGED vars BY <1>3 DEF vars
  <1> QED BY <1>1, <1>2, <1>3 DEF Next

(* A commit is the committing task's work. *)
LEMMA CommitChange ==
    ASSUME TypeOK, NEW t \in Tasks, Commit(t)
    PROVE  /\ task[t].pc = "commit" /\ lead'.high = lead.high /\ lead'.draft = lead.draft
           /\ IF task[t].result = "ok" /\ task[t].step \in Early
              THEN /\ lead'.done = lead.done \cup {task[t].step}
                   /\ works' = [works EXCEPT ![task[t].step] = @ + 1]
              ELSE lead'.done = lead.done /\ works' = works
           /\ lead'.brief = IF task[t].result = "ok" /\ task[t].step = "brief_generation"
                            THEN "generated" ELSE lead.brief
  BY DEF Commit, TypeOK, Early

LEMMA MidCommitChange ==
    ASSUME TypeOK, NEW t \in Tasks, MidCommit(t)
    PROVE  /\ task[t].pc = "work" /\ CommitRow(t) /\ Alone(t) /\ UNCHANGED unsent
           /\ task'[t].pc = "report" /\ task'[t].step = task[t].step
           /\ IF task[t].step = "analysis"
              THEN /\ lead'.done = lead.done \cup {"analysis"}
                   /\ works' = [works EXCEPT !["analysis"] = @ + 1]
                   /\ lead'.brief = lead.brief /\ lead'.draft = lead.draft
              ELSE /\ lead'.done = lead.done /\ works' = works /\ lead'.high = lead.high
                   /\ task[t].step \in {"research", "brief_review", "draft_generation"}
           /\ lead'.brief = lead.brief \/ lead'.brief = "reviewed"
           /\ task[t].step = "brief_review" /\ task'[t].result = "ok"
              => lead'.brief = "reviewed"
           /\ lead'.draft => lead.draft \/ (lead.high /\ task[t].step = "draft_generation")
  <1> USE DEF TypeOK, CommitWork, Messages, Alone, chainVars
  <1> PICK b \in BOOLEAN : \/ AnalysisCommit(t, b) \/ ReviewCommit(t, b)
                           \/ DraftCommit(t, b) \/ ResearchCommit(t, b)
    BY DEF MidCommit
  <1>1. CASE AnalysisCommit(t, b) BY <1>1 DEF AnalysisCommit
  <1>2. CASE ReviewCommit(t, b) BY <1>2 DEF ReviewCommit
  <1>3. CASE DraftCommit(t, b) BY <1>3 DEF DraftCommit
  <1>4. CASE ResearchCommit(t, b) BY <1>4 DEF ResearchCommit
  <1> QED BY <1>1, <1>2, <1>3, <1>4

(* Work becomes done in the session that holds the row lock. *)
LEMMA DoneByHolder ==
    ASSUME TypeOK, ResultOK, [Next]_vars, Exclusive, NEW s \in OnceSteps, ~AlreadyDone(s),
           AlreadyDone(s)'
    PROVE  \E t \in Tasks : /\ lock = t /\ task[t].step = s /\ CommitRow(t)
                            /\ \/ task[t].pc = "work"
                               \/ task[t].pc = "commit" /\ task[t].result = "ok"
  <1>1. AlreadyDone(s)' <=> IF s = "brief_generation" THEN lead'.brief # "none"
                                                     ELSE s \in lead'.done
    BY DEF AlreadyDone, OnceSteps, LeadSteps
  <1>2. PICK t \in Tasks : MidCommit(t) \/ Commit(t) BY <1>1, LeadChange, DoneOnce
  <1>3. CASE Commit(t)
    BY <1>1, <1>3, CommitChange, DoneOnce
    DEF Exclusive, Early, OnceSteps, LeadSteps, Reports, Commit
  <1>4. CASE MidCommit(t)
    <2>1. lead.brief = "none" /\ lead'.brief # "none" => task[t].step = "brief_review"
      BY <1>4 DEF MidCommit, AnalysisCommit, ReviewCommit, DraftCommit, ResearchCommit, TypeOK
    <2>2. lead.brief = "none" => lead'.brief = "none"
      BY <1>4, <2>1, MidCommitChange DEF ResultOK
    <2> QED BY <1>1, <1>4, <2>2, MidCommitChange, DoneOnce DEF Exclusive, OnceSteps, LeadSteps
  <1> QED BY <1>2, <1>3, <1>4

LEMMA WorksPreserved ==
    ASSUME TypeOK, [Next]_vars, Exclusive, WorksCounted PROVE WorksCounted'
  <1>0. {"enrichment", "scoring", "analysis"} = LeadSteps /\ LeadSteps \subseteq OnceSteps
    BY DEF LeadSteps, OnceSteps
  <1>1. CASE UNCHANGED <<lead, works>> BY <1>1 DEF WorksCounted
  <1>2. ASSUME NEW t \in Tasks, NEW s \in LeadSteps, s \notin lead.done,
               lead'.done = lead.done \cup {s}, works' = [works EXCEPT ![s] = @ + 1]
        PROVE  WorksCounted'
    BY <1>2 DEF WorksCounted, TypeOK
  <1>3. ASSUME NEW t \in Tasks, Commit(t) PROVE WorksCounted'
    <2>1. CASE task[t].result = "ok" /\ task[t].step \in Early
      <3>1. task[t].step \in LeadSteps /\ task[t].step # "analysis" /\ task[t].pc \in Reports
        BY <1>3, <2>1, CommitChange DEF Early, LeadSteps, Reports
      <3>2. task[t].step \notin lead.done
        BY <1>0, <2>1, <3>1, DoneOnce DEF Exclusive, LeadSteps
      <3> QED BY <1>2, <1>3, <2>1, <3>1, <3>2, CommitChange
    <2>2. CASE ~(task[t].result = "ok" /\ task[t].step \in Early)
      BY <1>3, <2>2, CommitChange DEF WorksCounted
    <2> QED BY <2>1, <2>2
  <1>4. ASSUME NEW t \in Tasks, MidCommit(t) PROVE WorksCounted'
    <2>1. CASE task[t].step = "analysis"
      <3>1. "analysis" \notin lead.done
        BY <1>0, <1>4, <2>1, MidCommitChange, DoneOnce DEF Exclusive
      <3> QED BY <1>0, <1>2, <1>4, <2>1, <3>1, MidCommitChange
    <2>2. CASE task[t].step # "analysis"
      BY <1>4, <2>2, MidCommitChange DEF WorksCounted
    <2> QED BY <2>1, <2>2
  <1> QED BY <1>1, <1>3, <1>4, LeadChange

(* A clean UPDATE leaves on the row what the task reports. *)
LEMMA CleanFlush ==
    ASSUME NEW t \in Tasks, NEW a, NEW b, Flush(t, a, b), ~mixed'
    PROVE  \/ a = b /\ UNCHANGED <<run, row, lock>>
           \/ /\ a # b /\ lock' = t /\ run' = run
              /\ row'.status = b.status /\ row'.step = b.step /\ row'.err = b.err
  <1>1. CASE b = a /\ UNCHANGED rowVars BY <1>1 DEF rowVars
  <1>2. CASE b # a /\ lock' = t /\ mixed' = (mixed \/ Report(row') # Report(b)) /\ run' = run
    <2>1. Report(row') = Report(b) BY <1>2, Zenon
    <2> QED BY <1>2, <2>1 DEF Report
  <1> QED BY <1>1, <1>2 DEF Flush

ExclusiveSlot(t) ==
    task[t].step \in OnceSteps =>
        /\ task[t].pc = "guard" /\ ~AlreadyDone(task[t].step) => lock = t
        /\ task[t].pc = "work" => lock = t /\ ~AlreadyDone(task[t].step)
        /\ task[t].pc \in Reports /\ task[t].result = "ok" /\ task[t].step # "analysis"
           => lock = t /\ ~AlreadyDone(task[t].step)

LEMMA ExclusiveOthers ==
    ASSUME TypeOK, LockOK, ResultOK, [Next]_vars, Exclusive, NEW t \in Tasks,
           TaskStep(t) \/ ScoutCommit(t) \/ Fault(t), NEW v \in Tasks \ {t}
    PROVE  ExclusiveSlot(v)'
  <1>1. CASE task'[v] = task[v]
    <2> SUFFICES ASSUME task[v].step \in OnceSteps PROVE ExclusiveSlot(v)'
      BY <1>1 DEF ExclusiveSlot
    <2>1. PICK s \in OnceSteps : s = task[v].step OBVIOUS
    <2>2. lock = v => lock' = v BY LockSteps
    <2>3. AlreadyDone(s) => AlreadyDone(s)' BY DoneStays
    <2>4. ASSUME lock = v, ~AlreadyDone(s) PROVE ~AlreadyDone(s)'
      <3> SUFFICES ASSUME AlreadyDone(s)' PROVE FALSE
        OBVIOUS
      <3>1. CommitRow(v) BY <2>4, DoneByHolder
      <3> QED BY <2>2, <2>4, <3>1, NobodyIsNoTask DEF CommitRow, Unlock
    <2> QED BY <1>1, <2>1, <2>2, <2>3, <2>4 DEF Exclusive, ExclusiveSlot
  <1>2. ASSUME NEW s \in Steps, task'[v] = Message(s) PROVE ExclusiveSlot(v)'
    BY <1>2, MessagePlace DEF ExclusiveSlot, Reports
  <1> QED BY <1>1, <1>2, OthersSteps DEF OthersKept

LEMMA ExclusiveActor ==
    ASSUME TypeOK, LockOK, ResultOK, [Next]_vars, ~mixed', MarksOK, Exclusive, NEW t \in Tasks,
           TaskStep(t) \/ ScoutCommit(t) \/ Fault(t)
    PROVE  ExclusiveSlot(t)'
  <1>0. task[t] \in Messages BY DEF TypeOK
  <1>1. ASSUME task'[t].pc \in {"free", "queued", "mark", "error"} PROVE ExclusiveSlot(t)'
    BY <1>1 DEF ExclusiveSlot, Reports
  <1>2. ASSUME task'[t].step \notin OnceSteps PROVE ExclusiveSlot(t)'
    BY <1>2 DEF ExclusiveSlot
  <1>3. CASE Deliver(t) BY <1>0, <1>1, <1>3 DEF Deliver, TypeOK, Messages
  <1>4. CASE MarkRunning(t)
    <2>1. /\ task[t].pc = "mark" /\ task'[t].pc = "guard" /\ task'[t].step = task[t].step
          /\ Flush(t, task[t].snap, Marked(t)) /\ lead' = lead
      BY <1>0, <1>4 DEF MarkRunning, TypeOK, Messages, leadVars
    <2>2. AlreadyDone(task[t].step)' <=> AlreadyDone(task[t].step) BY <2>1 DEF AlreadyDone
    <2>3. task[t].snap = Marked(t) => Report(task[t].snap) = MarkOf(task[t].step)
      BY <1>0 DEF Marked, Report, MarkOf, Messages, Rows
    <2> QED BY <2>1, <2>2, <2>3, CleanFlush DEF MarksOK, ExclusiveSlot, Reports
  <1>5. CASE Guard(t)
    <2>1. /\ task[t].pc = "guard" /\ task'[t].step = task[t].step /\ lock' = lock /\ lead' = lead
          /\ \/ task'[t].pc = "work" /\ ~AlreadyDone(task[t].step)
             \/ task'[t].pc = "report" /\ task'[t].result = "skip"
      BY <1>0, <1>5 DEF Guard, TypeOK, Messages, leadVars, rowVars
    <2>2. AlreadyDone(task[t].step)' <=> AlreadyDone(task[t].step) BY <2>1 DEF AlreadyDone
    <2> QED BY <2>1, <2>2 DEF Exclusive, ExclusiveSlot, Reports
  <1>6. ASSUME task[t].pc = "work", task'[t].pc = "report", task'[t].step = task[t].step,
               lock' = lock, lead' = lead
        PROVE  ExclusiveSlot(t)'
    <2>2. AlreadyDone(task[t].step)' <=> AlreadyDone(task[t].step) BY <1>6 DEF AlreadyDone
    <2> QED BY <1>6, <2>2 DEF Exclusive, ExclusiveSlot, Reports
  <1>7. ASSUME NEW s, NEW R, WorkEnds(t, s, R) PROVE ExclusiveSlot(t)'
    <2>1. PICK r \in R : task' = [task EXCEPT ![t].pc = "report", ![t].result = r]
      BY <1>7 DEF WorkEnds
    <2> QED BY <1>0, <1>6, <1>7, <2>1 DEF WorkEnds, Messages, TypeOK, rowVars, leadVars
  <1>8. CASE DispatchWork(t) \/ EnrichWork(t) \/ ScoreWork(t) \/ ResearchWork(t) \/ BriefWork(t)
    BY <1>7, <1>8 DEF DispatchWork, EnrichWork, ScoreWork, ResearchWork, BriefWork
  <1>9. CASE ScoutCommit(t)
    BY <1>0, <1>2, <1>9 DEF ScoutCommit, TypeOK, Messages, OnceSteps, LeadSteps
  <1>10. ASSUME MidCommit(t) PROVE ExclusiveSlot(t)'
    BY <1>10, MidCommitChange DEF ExclusiveSlot, OnceSteps, LeadSteps, Reports
  <1>11. CASE DraftRollback(t)
    BY <1>0, <1>1, <1>2, <1>11
    DEF DraftRollback, TypeOK, Messages, FreeSlot, OnceSteps, LeadSteps
  <1>12. ASSUME task[t].pc \in {"report", "write"}, task'[t].pc \in {"write", "commit", "selfblock"},
                task'[t].step = task[t].step, task'[t].result = task[t].result,
                lock = t => lock' = t, lead' = lead
         PROVE  ExclusiveSlot(t)'
    <2>2. AlreadyDone(task[t].step)' <=> AlreadyDone(task[t].step) BY <1>12 DEF AlreadyDone
    <2> QED BY <1>12, <2>2 DEF Exclusive, ExclusiveSlot, Reports
  <1>13. CASE ReadRun(t)
    BY <1>0, <1>12, <1>13 DEF ReadRun, TypeOK, Messages, leadVars, rowVars
  <1>14. CASE WriteRun(t) \/ ReportRun(t)
    <2>1. Chain(t) /\ task[t].pc \in {"report", "write"} /\ lead' = lead
      BY <1>14 DEF WriteRun, ReportRun, leadVars
    <2>2. /\ task'[t].pc \in {"selfblock", "commit"} /\ task'[t].step = task[t].step
          /\ task'[t].result = task[t].result
      BY <2>1, ChainStep, ReportingTyped
    <2>3. lock = t => lock' = t BY <1>14, FlushLock DEF WriteRun, ReportRun
    <2> QED BY <1>12, <2>1, <2>2, <2>3
  <1>15. CASE CommitStep(t) \/ CommitUnacked(t)
    <2>1. task'[t] = FreeSlot \/ task'[t] = [Redelivered(t) EXCEPT !.known = TRUE]
      BY <1>15 DEF CommitStep, CommitUnacked, TypeOK
    <2>2. task'[t] = FreeSlot \/ Waits(task'[t], task[t].step) BY <2>1, RedeliveredPlace
    <2> QED BY <1>1, <2>2 DEF FreeSlot, Waits
  <1>16. CASE TimeLimit(t) \/ WorkerLost(t) \/ StepRaises(t) \/ SoftTimeLimit(t)
    <2>1. task'[t] \in {FreeSlot, Redelivered(t), [Redelivered(t) EXCEPT !.pc = "error"]}
      BY <1>16 DEF TimeLimit, WorkerLost, StepRaises, SoftTimeLimit, Strike, TypeOK
    <2>2. task'[t] = FreeSlot \/ Waits(task'[t], task[t].step) BY <2>1, RedeliveredPlace
    <2> QED BY <1>1, <2>2 DEF FreeSlot, Waits
  <1>17. CASE TrackFailure(t)
    <2>1. task'[t].pc \in {"free", "queued"}
      BY <1>17 DEF TrackFailure, TypeOK, FreeSlot, Message
    <2> QED BY <1>1, <2>1
  <1>18. ASSUME NEW b \in Qualities, AnalysisCommit(t, b) PROVE MidCommit(t)
    BY <1>18, BoundsAssumption DEF MidCommit
  <1>19. ASSUME NEW b \in BOOLEAN, ReviewCommit(t, b) \/ DraftCommit(t, b) \/ ResearchCommit(t, b)
         PROVE  MidCommit(t)
    BY <1>19 DEF MidCommit
  <1> QED BY <1>3, <1>4, <1>5, <1>8, <1>9, <1>10, <1>11, <1>13, <1>14, <1>15, <1>16, <1>17,
             <1>18, <1>19 DEF TaskStep, Fault

LEMMA ExclusivePreserved ==
    ASSUME TypeOK, IdleOK, LockOK, ResultOK, [Next]_vars, ~mixed', MarksOK, Exclusive
    PROVE  Exclusive'
  <1>1. ASSUME NEW t \in Tasks, TaskStep(t) \/ ScoutCommit(t) \/ Fault(t) PROVE Exclusive'
    BY <1>1, ExclusiveOthers, ExclusiveActor DEF Exclusive, ExclusiveSlot
  <1>2. CASE ApiSend
    <2>1. \A t \in Tasks : task'[t].pc \in {"free", "queued"}
      BY <1>2, MessagePlace DEF ApiSend, IdleOK, FreeSlot, TypeOK, Steps
    <2> QED BY <2>1 DEF Exclusive, Reports
  <1>3. CASE UNCHANGED <<lead, task, lock>> BY <1>3 DEF Exclusive, AlreadyDone
  <1>4. CASE ApiCommit \/ SweepRead \/ SweepCommit \/ DrainDeadLetters
    BY <1>3, <1>4 DEF ApiCommit, SweepRead, SweepCommit, DrainDeadLetters, rowVars, leadVars
  <1> QED BY <1>1, <1>2, <1>3, <1>4 DEF Next, vars

(* The committed run changes to what the session with the lock wrote, or it *)
(* gets an error.                                                           *)
LEMMA RunChange ==
    ASSUME TypeOK, [Next]_vars
    PROVE  \/ run' = run
           \/ run'.status = "queued"
           \/ run'.err
           \/ \E t \in Tasks : /\ lock = t /\ run' = row
                               /\ Commit(t) \/ MidCommit(t) \/ ScoutCommit(t)
  <1> DEFINE G == \/ run' = run \/ run'.err
                  \/ \E t \in Tasks : /\ lock = t /\ run' = row
                                      /\ Commit(t) \/ MidCommit(t) \/ ScoutCommit(t)
  <1>1. ASSUME NEW t \in Tasks, TaskStep(t) \/ ScoutCommit(t) \/ Fault(t) PROVE G
    <2>1. CASE \/ Deliver(t) \/ MarkRunning(t) \/ Guard(t) \/ ReadRun(t) \/ WriteRun(t)
               \/ ReportRun(t)
      BY <2>1 DEF Deliver, MarkRunning, Guard, ReadRun, WriteRun, ReportRun, rowVars, Flush
    <2>2. CASE DispatchWork(t) \/ EnrichWork(t) \/ ScoreWork(t) \/ ResearchWork(t)
               \/ BriefWork(t)
      BY <2>2 DEF DispatchWork, EnrichWork, ScoreWork, ResearchWork, BriefWork, WorkEnds,
                  rowVars
    <2>3. ASSUME Commit(t) \/ MidCommit(t) \/ ScoutCommit(t) PROVE G
      <3>1. CommitRow(t) BY <2>3, MidCommitChange DEF Commit, ScoutCommit
      <3> QED BY <2>3, <3>1 DEF CommitRow, View
    <2>4. CASE \/ TimeLimit(t) \/ WorkerLost(t) \/ StepRaises(t) \/ SoftTimeLimit(t)
               \/ DraftRollback(t)
      BY <2>4 DEF TimeLimit, WorkerLost, StepRaises, SoftTimeLimit, Strike, DraftRollback,
                  RollbackRow
    <2>5. CASE TrackFailure(t)
      BY <2>5 DEF TrackFailure, MarkTaskFailed, MarkTaskRetrying, TypeOK, Rows
    <2>6. ASSUME NEW b \in Qualities, AnalysisCommit(t, b) PROVE MidCommit(t)
      BY <2>6, BoundsAssumption DEF MidCommit
    <2>7. ASSUME NEW b \in BOOLEAN, ReviewCommit(t, b) \/ DraftCommit(t, b)
                                    \/ ResearchCommit(t, b)
          PROVE  MidCommit(t)
      BY <2>7 DEF MidCommit
    <2>8. CASE CommitStep(t) \/ CommitUnacked(t) BY <2>3, <2>8 DEF CommitStep, CommitUnacked
    <2> QED BY <1>1, <2>1, <2>2, <2>3, <2>4, <2>5, <2>6, <2>7, <2>8 DEF TaskStep, Fault
  <1>2. CASE ApiCommit BY <1>2 DEF ApiCommit, NoRow
  <1>3. CASE SweepCommit
    <2>1. ~AutoResumes BY DEF AutoResumes, TaskShim
    <2> QED BY <1>3, <2>1 DEF SweepCommit, TypeOK, Rows
  <1>4. CASE ApiSend \/ SweepRead \/ DrainDeadLetters \/ UNCHANGED vars
    BY <1>4 DEF ApiSend, SweepRead, DrainDeadLetters, vars, rowVars
  <1> QED BY <1>1, <1>2, <1>3, <1>4 DEF Next

LEMMA RunMarked ==
    ASSUME TypeOK, LockOK, ResultOK, [Next]_vars, ~mixed', MarksOK, NEW s \in OnceSteps,
           Report(run') = MarkOf(s)
    PROVE  AlreadyDone(s)'
  <1>1. run'.status = "running" /\ run'.step = s /\ run'.err = FALSE BY DEF Report, MarkOf
  <1>2. CASE run' = run BY <1>2, DoneStays DEF MarksOK, Report
  <1>3. ASSUME NEW t \in Tasks, lock = t, run' = row,
               Commit(t) \/ MidCommit(t) \/ ScoutCommit(t)
        PROVE  AlreadyDone(s)'
    <2>0. AlreadyDone(s)' <=> IF s = "brief_generation" THEN lead'.brief # "none"
                                                       ELSE s \in lead'.done
      BY DEF AlreadyDone, OnceSteps, LeadSteps
    <2>1. task[t].step = s BY <1>1, <1>3 DEF MarksOK
    <2>2. CASE Commit(t)
      <3>1. task[t].pc = "commit" /\ task[t].result # "fail"
        BY <1>1, <1>3, <2>2, CommitChange DEF MarksOK
      <3>2. CASE task[t].result = "skip"
        BY <2>1, <3>1, <3>2, DoneStays DEF ResultOK, Reports
      <3>3. CASE task[t].result = "ok"
        BY <2>0, <2>1, <2>2, <3>1, <3>3, CommitChange
        DEF Early, OnceSteps, LeadSteps, ResultOK, Reports
      <3> QED BY <2>1, <3>1, <3>2, <3>3 DEF ResultOK, Reports
    <2>3. CASE MidCommit(t)
      BY <2>0, <2>1, <2>3, MidCommitChange DEF OnceSteps, LeadSteps
    <2>4. CASE ScoutCommit(t) BY <2>1, <2>4 DEF ScoutCommit, OnceSteps, LeadSteps
    <2> QED BY <1>3, <2>2, <2>3, <2>4
  <1> QED BY <1>1, <1>2, <1>3, RunChange

(* What a task may hold after its step. *)
HolderOK(t) ==
    lock = t => /\ row.step = task[t].step
                /\ task[t].pc = "commit" /\ task[t].result = "fail" => row.err

MarkSlot(t) ==
    /\ task[t].pc = "mark" /\ task[t].step \in OnceSteps
    /\ Report(task[t].snap) = MarkOf(task[t].step)
    => AlreadyDone(task[t].step)

LEMMA MarksActor ==
    ASSUME TypeOK, LockOK, ResultOK, LockOK', [Next]_vars, ~mixed', MarksOK, NEW t \in Tasks,
           TaskStep(t) \/ ScoutCommit(t) \/ Fault(t)
    PROVE  /\ MarkSlot(t)' /\ HolderOK(t)'
           /\ lock' = lock \/ lock' = t \/ lock' = Nobody
  <1> DEFINE G == /\ MarkSlot(t)' /\ HolderOK(t)'
                  /\ lock' = lock \/ lock' = t \/ lock' = Nobody
  <1>0. task[t] \in Messages /\ HolderOK(t) BY DEF TypeOK, MarksOK, HolderOK
  <1>1. ASSUME UNCHANGED rowVars, task'[t].pc \notin {"mark", "commit"},
               task'[t].step = task[t].step
        PROVE  G
    BY <1>0, <1>1 DEF MarkSlot, HolderOK, rowVars
  <1>2. ASSUME CommitRow(t) \/ RollbackRow(t), task'[t].pc # "mark" PROVE G
    BY <1>2, UnlockLock DEF MarkSlot, HolderOK
  <1>3. CASE Deliver(t)
    <2>1. /\ task'[t].pc \in {"mark", "error"} /\ task'[t].step = task[t].step
          /\ task'[t].snap = run /\ lock' = lock /\ lead' = lead /\ task[t].pc = "queued"
      BY <1>0, <1>3 DEF Deliver, TypeOK, Messages, leadVars, rowVars
    <2>2. AlreadyDone(task[t].step)' <=> AlreadyDone(task[t].step) BY <2>1 DEF AlreadyDone
    <2>3. lock # t BY <2>1 DEF LockOK
    <2>4. task[t].step \in OnceSteps /\ Report(run) = MarkOf(task[t].step)
          => AlreadyDone(task[t].step)
      BY DEF MarksOK
    <2>5. MarkSlot(t)'
      BY <2>1, <2>2, <2>4 DEF MarkSlot, Report, MarkOf
    <2> QED BY <2>1, <2>3, <2>5 DEF HolderOK
  <1>4. CASE MarkRunning(t)
    <2>1. /\ task[t].pc = "mark" /\ task'[t].pc = "guard" /\ task'[t].step = task[t].step
          /\ Flush(t, task[t].snap, Marked(t))
      BY <1>0, <1>4 DEF MarkRunning, TypeOK, Messages
    <2>2. Marked(t).step = task[t].step BY <1>0 DEF Marked, Messages, Rows
    <2>3. lock # t BY <2>1 DEF LockOK
    <2> QED BY <2>1, <2>2, <2>3, CleanFlush DEF MarkSlot, HolderOK
  <1>5. CASE Guard(t) BY <1>0, <1>1, <1>5 DEF Guard, TypeOK, Messages
  <1>6. ASSUME NEW s, NEW R, WorkEnds(t, s, R) PROVE G
    <2>1. PICK r \in R : task' = [task EXCEPT ![t].pc = "report", ![t].result = r]
      BY <1>6 DEF WorkEnds
    <2> QED BY <1>0, <1>1, <1>6, <2>1 DEF WorkEnds, TypeOK, Messages
  <1>7. CASE DispatchWork(t) \/ EnrichWork(t) \/ ScoreWork(t) \/ ResearchWork(t) \/ BriefWork(t)
    BY <1>6, <1>7 DEF DispatchWork, EnrichWork, ScoreWork, ResearchWork, BriefWork
  <1>8. CASE ReadRun(t) BY <1>0, <1>1, <1>8 DEF ReadRun, TypeOK, Messages
  <1>9. CASE ScoutCommit(t) BY <1>0, <1>2, <1>9 DEF ScoutCommit, TypeOK, Messages
  <1>10. ASSUME MidCommit(t) PROVE G BY <1>2, <1>10, MidCommitChange
  <1>11. CASE DraftRollback(t)
    BY <1>0, <1>2, <1>11 DEF DraftRollback, TypeOK, Messages, FreeSlot
  <1>12. CASE WriteRun(t) \/ ReportRun(t)
    <2>1. Chain(t) /\ task[t].pc \in {"report", "write"}
      BY <1>12 DEF WriteRun, ReportRun
    <2>2. /\ task'[t].pc \in {"selfblock", "commit"} /\ task'[t].step = task[t].step
          /\ task'[t].result = task[t].result
      BY <2>1, ChainStep, ReportingTyped
    <2>3. PICK r \in Rows : Flush(t, r, Reported(t, r)) /\ (lock = t => r = row)
      <3>1. WriteRun(t) => lock # t BY DEF WriteRun, LockOK
      <3> QED BY <1>0, <1>12, <3>1 DEF WriteRun, ReportRun, TypeOK, Messages
    <2>4. /\ Reported(t, r).step = task[t].step
          /\ task[t].result = "fail" => Reported(t, r).err
      BY DEF Reported, MarkTaskFailed, MarkTaskSucceeded, Rows
    <2>5. HolderOK(t)' BY <1>0, <2>2, <2>3, <2>4, CleanFlush DEF HolderOK
    <2> QED BY <2>2, <2>3, <2>5, FlushLock DEF MarkSlot
  <1>13. CASE CommitStep(t) \/ CommitUnacked(t)
    <2>1. task'[t] = FreeSlot \/ task'[t] = [Redelivered(t) EXCEPT !.known = TRUE]
      BY <1>13 DEF CommitStep, CommitUnacked, TypeOK
    <2>2. task'[t] = FreeSlot \/ Waits(task'[t], task[t].step) BY <2>1, RedeliveredPlace
    <2> QED BY <1>2, <1>13, <2>2 DEF FreeSlot, Waits, CommitStep, CommitUnacked, Commit
  <1>14. CASE TimeLimit(t) \/ WorkerLost(t) \/ StepRaises(t) \/ SoftTimeLimit(t)
    <2>1. /\ task'[t] \in {FreeSlot, Redelivered(t), [Redelivered(t) EXCEPT !.pc = "error"]}
          /\ RollbackRow(t)
      BY <1>14 DEF TimeLimit, WorkerLost, StepRaises, SoftTimeLimit, Strike, TypeOK
    <2>2. task'[t] = FreeSlot \/ Waits(task'[t], task[t].step) BY <2>1, RedeliveredPlace
    <2> QED BY <1>2, <2>1, <2>2 DEF FreeSlot, Waits
  <1>15. CASE TrackFailure(t)
    <2>1. task'[t].pc \in {"free", "queued"} /\ lock' = lock /\ task[t].pc = "error"
      BY <1>15 DEF TrackFailure, TypeOK, FreeSlot, Message
    <2> QED BY <2>1 DEF MarkSlot, HolderOK, LockOK
  <1>16. ASSUME NEW b \in Qualities, AnalysisCommit(t, b) PROVE MidCommit(t)
    BY <1>16, BoundsAssumption DEF MidCommit
  <1>17. ASSUME NEW b \in BOOLEAN, ReviewCommit(t, b) \/ DraftCommit(t, b) \/ ResearchCommit(t, b)
         PROVE  MidCommit(t)
    BY <1>17 DEF MidCommit
  <1> QED BY <1>3, <1>4, <1>5, <1>7, <1>8, <1>9, <1>10, <1>11, <1>12, <1>13, <1>14, <1>15,
             <1>16, <1>17 DEF TaskStep, Fault

LEMMA MarksPreserved ==
    ASSUME TypeOK, IdleOK, LockOK, ResultOK, LockOK', [Next]_vars, ~mixed', MarksOK
    PROVE  MarksOK'
  <1>0. \A s \in OnceSteps : Report(run') = MarkOf(s) => AlreadyDone(s)' BY RunMarked
  <1>1. ASSUME \A t \in Tasks : MarkSlot(t)' /\ HolderOK(t)' PROVE MarksOK'
    BY <1>0, <1>1 DEF MarksOK, MarkSlot, HolderOK, Report
  <1>2. ASSUME NEW t \in Tasks, TaskStep(t) \/ ScoutCommit(t) \/ Fault(t),
               NEW v \in Tasks \ {t}
        PROVE  MarkSlot(v)' /\ HolderOK(v)'
    <2>1. CASE task'[v] = task[v]
      <3>1. MarkSlot(v)'
        <4> SUFFICES ASSUME task[v].pc = "mark", task[v].step \in OnceSteps,
                            Report(task[v].snap) = MarkOf(task[v].step)
                     PROVE  AlreadyDone(task[v].step)'
          BY <2>1 DEF MarkSlot, Report, MarkOf
        <4>1. PICK s \in OnceSteps : s = task[v].step OBVIOUS
        <4>2. AlreadyDone(s)' BY <4>1, DoneStays DEF MarksOK
        <4> QED BY <2>1, <4>1, <4>2
      <3>2. lock' = v => lock = v BY <1>2, MarksActor, NobodyIsNoTask
      <3>3. HolderOK(v)' BY <1>2, <2>1, <3>2, LockSteps DEF HolderOK, MarksOK
      <3> QED BY <3>1, <3>3
    <2>2. ASSUME NEW s \in Steps, task'[v] = Message(s) PROVE MarkSlot(v)' /\ HolderOK(v)'
      BY <2>2, MessagePlace DEF MarkSlot, HolderOK, LockOK
    <2> QED BY <1>2, <2>1, <2>2, OthersSteps DEF OthersKept
  <1>3. ASSUME NEW t \in Tasks, TaskStep(t) \/ ScoutCommit(t) \/ Fault(t) PROVE MarksOK'
    BY <1>1, <1>2, <1>3, MarksActor
  <1>4. CASE ApiSend
    <2>1. \A t \in Tasks : task'[t].pc \in {"free", "queued"}
      BY <1>4, MessagePlace DEF ApiSend, IdleOK, FreeSlot, TypeOK, Steps
    <2> QED BY <1>1, <2>1 DEF MarkSlot, HolderOK, LockOK
  <1>5. CASE UNCHANGED <<row, lock, lead, task>>
    <2>1. \A t \in Tasks : MarkSlot(t)' /\ HolderOK(t)'
      BY <1>5 DEF MarksOK, MarkSlot, HolderOK, AlreadyDone, Report, MarkOf
    <2> QED BY <1>1, <2>1
  <1>6. CASE ApiCommit \/ SweepRead \/ SweepCommit \/ DrainDeadLetters
    BY <1>5, <1>6 DEF ApiCommit, SweepRead, SweepCommit, DrainDeadLetters, rowVars, leadVars
  <1> QED BY <1>3, <1>4, <1>5, <1>6 DEF Next, vars

(* A slot keeps its step, and a review is approved by its commit only. *)
LEMMA SlotChange ==
    ASSUME TypeOK, NEW t \in Tasks, TaskStep(t) \/ ScoutCommit(t) \/ Fault(t),
           task'[t].pc # "free"
    PROVE  /\ task'[t].step = task[t].step
           /\ task'[t].pc \in Reports /\ task'[t].step = "brief_review" /\ task'[t].result = "ok"
              => MidCommit(t) \/ (task[t].pc \in Reports /\ task[t].result = "ok")
  <1> USE DEF TypeOK, Messages
  <1>0. task[t] \in Messages OBVIOUS
  <1>1. CASE Deliver(t) \/ MarkRunning(t) BY <1>0, <1>1 DEF Deliver, MarkRunning, Reports
  <1>2. CASE Guard(t) \/ ReadRun(t) BY <1>0, <1>2 DEF Guard, ReadRun, Reports
  <1>3. ASSUME NEW s, NEW R, WorkEnds(t, s, R)
        PROVE  task'[t].step = task[t].step /\ task[t].step = s
    BY <1>0, <1>3 DEF WorkEnds
  <1>4. CASE DispatchWork(t) \/ EnrichWork(t) \/ ScoreWork(t) \/ ResearchWork(t) \/ BriefWork(t)
    BY <1>3, <1>4 DEF DispatchWork, EnrichWork, ScoreWork, ResearchWork, BriefWork
  <1>5. CASE MidCommit(t) BY <1>5, MidCommitChange
  <1>6. CASE ScoutCommit(t) \/ DraftRollback(t)
    BY <1>0, <1>6 DEF ScoutCommit, DraftRollback, FreeSlot
  <1>7. CASE WriteRun(t) \/ ReportRun(t)
    <2>1. Chain(t) /\ task[t].pc \in {"report", "write"} BY <1>7 DEF WriteRun, ReportRun
    <2> QED BY <2>1, ChainStep, ReportingTyped DEF Reports
  <1>8. ASSUME Waits(task'[t], task[t].step)
        PROVE  task'[t].step = task[t].step /\ task'[t].pc \notin Reports
    BY <1>8 DEF Waits, Reports
  <1>9. CASE CommitStep(t) \/ CommitUnacked(t)
    <2>1. task'[t] = FreeSlot \/ task'[t] = [Redelivered(t) EXCEPT !.known = TRUE]
      BY <1>9 DEF CommitStep, CommitUnacked
    <2>2. task'[t] = FreeSlot \/ Waits(task'[t], task[t].step) BY <2>1, RedeliveredPlace
    <2> QED BY <1>8, <2>2 DEF FreeSlot
  <1>10. CASE TimeLimit(t) \/ WorkerLost(t) \/ StepRaises(t) \/ SoftTimeLimit(t)
    <2>1. task'[t] \in {FreeSlot, Redelivered(t), [Redelivered(t) EXCEPT !.pc = "error"]}
      BY <1>10 DEF TimeLimit, WorkerLost, StepRaises, SoftTimeLimit, Strike
    <2>2. task'[t] = FreeSlot \/ Waits(task'[t], task[t].step) BY <2>1, RedeliveredPlace
    <2> QED BY <1>8, <2>2 DEF FreeSlot
  <1>11. CASE TrackFailure(t)
    BY <1>0, <1>11 DEF TrackFailure, Message, FreeSlot, Reports
  <1>12. ASSUME NEW b \in Qualities, AnalysisCommit(t, b) PROVE MidCommit(t)
    BY <1>12, BoundsAssumption DEF MidCommit
  <1>13. ASSUME NEW b \in BOOLEAN, ReviewCommit(t, b) \/ DraftCommit(t, b) \/ ResearchCommit(t, b)
         PROVE  MidCommit(t)
    BY <1>13 DEF MidCommit
  <1> QED BY <1>1, <1>2, <1>4, <1>5, <1>6, <1>7, <1>9, <1>10, <1>11, <1>12, <1>13
          DEF TaskStep, Fault

(* An approval stays, and so does the lane. *)
LEMMA ApprovalStays ==
    ASSUME TypeOK, [Next]_vars, Exclusive
    PROVE  /\ lead.brief = "reviewed" => lead'.brief = "reviewed"
           /\ Approved => Approved'
           /\ "analysis" \in lead.done => lead'.high = lead.high
  <1>1. ASSUME lead.brief = "reviewed" PROVE lead'.brief = "reviewed"
    <2>1. ASSUME NEW t \in Tasks, Commit(t) PROVE lead'.brief = "reviewed"
      <3>1. task[t].result = "ok" /\ task[t].step = "brief_generation" => FALSE
        BY <1>1, <2>1, CommitChange, DoneOnce DEF Exclusive, Reports, OnceSteps
      <3> QED BY <1>1, <2>1, <3>1, CommitChange
    <2>2. ASSUME NEW t \in Tasks, MidCommit(t) PROVE lead'.brief = "reviewed"
      BY <1>1, <2>2, MidCommitChange
    <2> QED BY <1>1, <2>1, <2>2, LeadChange
  <1>2. ASSUME "analysis" \in lead.done PROVE lead'.high = lead.high
    <2>1. ASSUME NEW t \in Tasks, MidCommit(t) PROVE lead'.high = lead.high
      <3>1. task[t].step # "analysis"
        BY <1>2, <2>1, MidCommitChange, DoneOnce DEF Exclusive, OnceSteps, LeadSteps
      <3> QED BY <2>1, <3>1, MidCommitChange
    <2> QED BY <2>1, CommitChange, LeadChange
  <1> QED BY <1>1, <1>2, Monotone DEF Approved

(* What leads to a draft task. *)
LEMMA DraftFollows ==
    ASSUME TypeOK, NEW t \in Tasks, NEW s, Follows(t, s, unsent')
    PROVE  /\ s \in Late => task[t].step \in Late \cup {"analysis"}
           /\ s = "draft_generation" =>
                 \/ task[t].step = "analysis" /\ ~lead.high
                 \/ "research" \in unsent'
                 \/ lead.brief = "reviewed"
                 \/ task[t].step = "brief_review" /\ task[t].result = "ok"
  <1>1. CASE task[t].result \in {"fail", "budget"}
    BY <1>1, EarlyFollows DEF Follows
  <1>2. CASE task[t].result \notin {"fail", "budget"}
    <2>1. CASE task[t].step \in {"pipeline_dispatch", "enrichment", "scoring"}
      BY <2>1, EarlyFollows DEF Follows, Late
    <2>2. CASE task[t].step = "analysis"
      BY <1>2, <2>2 DEF Follows, NextSteps, AfterAnalysis
    <2>3. CASE task[t].step = "research"
      BY <1>2, <2>3 DEF Follows, NextSteps, Late
    <2>4. CASE task[t].step = "brief_generation"
      BY <1>2, <2>4 DEF Follows, NextSteps, Late, AfterBrief
    <2>5. CASE task[t].step = "brief_review"
      BY <1>2, <2>5 DEF Follows, NextSteps, Late, AfterReview
    <2>6. CASE task[t].step = "draft_generation"
      BY <1>2, <2>6 DEF Follows, NextSteps, Late
    <2> QED BY <2>1, <2>2, <2>3, <2>4, <2>5, <2>6 DEF TypeOK, Messages, Steps
  <1> QED BY <1>1, <1>2

ApprovedSlot(t) ==
    /\ task[t].pc # "free" /\ task[t].step \in Late => "analysis" \in lead.done
    /\ task[t].pc # "free" /\ task[t].step = "draft_generation" => (lead.high => Approved)
    /\ task[t].pc \in Reports /\ task[t].step = "brief_review" /\ task[t].result = "ok"
       => lead.brief = "reviewed"

LEMMA ApprovedPreserved ==
    ASSUME TypeOK, IdleOK, ResultOK, [Next]_vars, Exclusive, ApprovedOK PROVE ApprovedOK'
  <1>0. /\ lead.draft => "analysis" \in lead.done /\ Approved
        /\ \A t \in Tasks : ApprovedSlot(t)
    BY DEF ApprovedOK, ApprovedSlot
  <1>1. lead'.draft => "analysis" \in lead'.done /\ Approved'
    <2>1. CASE lead.draft BY <1>0, <2>1, Monotone, ApprovalStays
    <2>2. ASSUME NEW t \in Tasks, MidCommit(t), lead.high, task[t].step = "draft_generation"
          PROVE  "analysis" \in lead'.done /\ Approved'
      <3>1. "analysis" \in lead.done /\ Approved
        BY <1>0, <2>2, MidCommitChange DEF ApprovedSlot, Late
      <3> QED BY <3>1, Monotone, ApprovalStays
    <2> QED BY <2>1, <2>2, MidCommitChange, CommitChange, LeadChange
  <1>2. ASSUME NEW v \in Tasks, task'[v] = task[v] PROVE ApprovedSlot(v)'
    BY <1>0, <1>2, Monotone, ApprovalStays DEF ApprovedSlot, Late
  <1>3. ASSUME NEW t \in Tasks, TaskStep(t) \/ ScoutCommit(t) \/ Fault(t) PROVE ApprovedSlot(t)'
    <2>1. task[t].pc # "free" BY <1>3, BusySteps
    <2>2. task'[t].pc # "free" => task'[t].step = task[t].step BY <1>3, SlotChange
    <2>3. ASSUME task'[t].pc \in Reports, task'[t].step = "brief_review", task'[t].result = "ok"
          PROVE  lead'.brief = "reviewed"
      <3>1. MidCommit(t) \/ (task[t].pc \in Reports /\ task[t].result = "ok")
        BY <1>3, <2>3, SlotChange DEF Reports
      <3>2. task[t].step = "brief_review" BY <2>2, <2>3 DEF Reports
      <3> QED BY <1>0, <2>3, <3>1, <3>2, MidCommitChange, ApprovalStays DEF ApprovedSlot
    <2> QED BY <1>0, <2>1, <2>2, <2>3, Monotone, ApprovalStays DEF ApprovedSlot, Late
  <1>4. ASSUME NEW t \in Tasks, TaskStep(t) \/ ScoutCommit(t) \/ Fault(t),
               NEW v \in Tasks \ {t}
        PROVE  ApprovedSlot(v)'
    <2>1. CASE task'[v] = task[v] BY <1>2, <2>1
    <2>2. CASE task'[v] # task[v]
      <3>1. /\ Chain(t) /\ task[t].pc \in {"report", "write"} /\ lead' = lead
        BY <1>4, <2>2, AloneSteps DEF WriteRun, ReportRun, leadVars, Alone
      <3>2. PICK s \in Steps : Follows(t, s, unsent') /\ task'[v] = Message(s)
        BY <2>2, <3>1, ChainStep
      <3>3. task'[v].step = s /\ task'[v].pc = "queued" BY <3>2, MessagePlace
      <3>4. task[t].step = "analysis" => "analysis" \in lead.done
        BY <3>1 DEF ResultOK, Reports
      <3>5. s \in Late => "analysis" \in lead'.done
        BY <1>0, <3>1, <3>2, <3>4, DraftFollows DEF ApprovedSlot
      <3>6. s = "draft_generation" => (lead'.high => Approved')
        BY <1>0, <3>1, <3>2, DraftFollows DEF ApprovedSlot, Approved, Reports
      <3> QED BY <3>3, <3>5, <3>6 DEF ApprovedSlot, Reports
    <2> QED BY <2>1, <2>2
  <1>5. ASSUME \A t \in Tasks : ApprovedSlot(t)' PROVE ApprovedOK'
    BY <1>1, <1>5 DEF ApprovedOK, ApprovedSlot
  <1>6. ASSUME NEW t \in Tasks, TaskStep(t) \/ ScoutCommit(t) \/ Fault(t) PROVE ApprovedOK'
    BY <1>3, <1>4, <1>5, <1>6
  <1>7. CASE ApiSend
    <2>1. ASSUME NEW t \in Tasks PROVE ApprovedSlot(t)'
      <3>1. CASE task'[t] = task[t] BY <1>2, <3>1
      <3>2. CASE task'[t] = Message("pipeline_dispatch")
        BY <3>2, MessagePlace DEF ApprovedSlot, Late, Reports, Steps
      <3> QED BY <1>7, <3>1, <3>2 DEF ApiSend, TypeOK
    <2> QED BY <1>5, <2>1
  <1>8. CASE ApiCommit \/ SweepRead \/ SweepCommit \/ DrainDeadLetters \/ UNCHANGED vars
    <2>1. task' = task BY <1>8 DEF ApiCommit, SweepRead, SweepCommit, DrainDeadLetters, vars
    <2> QED BY <1>2, <1>5, <2>1
  <1> QED BY <1>6, <1>7, <1>8 DEF Next

(* A step is done by a task whose predecessor is settled. *)
LEMMA PredecessorPreserved ==
    ASSUME TypeOK, [Next]_vars, OrderOK("enrichment"), OrderOK("scoring"), PredecessorCommitted
    PROVE  PredecessorCommitted'
  <1>1. ASSUME NEW p \in Early, OrderOK(p), NEW q \in After(p), q \in LeadSteps,
               q \notin lead.done, q \in lead'.done
        PROVE  Settled(p)
    <2>1. PICK t \in Tasks : MidCommit(t) \/ Commit(t) BY <1>1, LeadChange
    <2>2. task[t].pc \in {"work", "commit"} /\ task[t].step = q
      BY <1>1, <2>1, MidCommitChange, CommitChange
    <2> QED BY <1>1, <2>2, WaitingTask DEF OrderOK
  <1>2. Settled("enrichment") => Settled("enrichment")' BY Monotone DEF Settled
  <1>3. Settled("scoring") => Settled("scoring")' BY Monotone DEF Settled
  <1>4. "scoring" \in lead'.done => Settled("enrichment")
    BY <1>1 DEF PredecessorCommitted, Settled, Early, After, Steps, LeadSteps
  <1>5. "analysis" \in lead'.done => Settled("scoring")
    BY <1>1 DEF PredecessorCommitted, Settled, Early, After, Steps, LeadSteps
  <1> QED BY <1>2, <1>3, <1>4, <1>5 DEF PredecessorCommitted, Settled

-----------------------------------------------------------------------------
LEMMA Invariance == Spec => []IInv
  <1>1. IInv /\ [Next]_vars => IInv'
    <2> SUFFICES ASSUME IInv, [Next]_vars PROVE IInv'
      OBVIOUS
    <2>0. TypeOK /\ IdleOK /\ LockOK /\ ResultOK /\ "enrichment" \in Early /\ "scoring" \in Early
      BY DEF IInv, Early
    <2>1. TypeOK' /\ IdleOK' /\ LockOK' /\ ResultOK'
      BY <2>0, TypePreserved, IdlePreserved, LocalPreserved
    <2>2. OrderOK("enrichment")' /\ OrderOK("scoring")' /\ PredecessorCommitted'
      BY <2>0, OrderPreserved, PredecessorPreserved DEF IInv
    <2>3. ASSUME ~mixed' PROVE Protected'
      <3>1. Protected BY <2>0, <2>3, Monotone DEF IInv
      <3> QED BY <2>0, <2>1, <2>3, <3>1, MarksPreserved, ExclusivePreserved, WorksPreserved,
                 ApprovedPreserved DEF Protected
    <2> QED BY <2>1, <2>2, <2>3 DEF IInv
  <1> QED BY <1>1, InitIInv, PTL DEF Spec

(* Every reachable state of a pipeline run is well typed: whatever tasks    *)
(* crash, retry or overwrite, the run row has a status the code knows and   *)
(* no fault beyond the bound is counted.                                    *)
THEOREM TypeCorrect == Spec => []TypeOK
  <1>1. IInv => TypeOK BY DEF IInv
  <1> QED BY <1>1, Invariance, PTL

(* However many tasks, crashes and retries there are, the work of a step is *)
(* committed at most once per run until an UPDATE of some columns mixes the *)
(* reports of two tasks (the row lock of mark_task_running and the          *)
(* idempotency guards).                                                     *)
THEOREM WorkDoneOnce == Spec => []WorkOncePerRun
  <1>1. IInv => WorkOncePerRun
    BY DEF IInv, Protected, WorksCounted, WorkOncePerRun
  <1> QED BY <1>1, Invariance, PTL

(* Whatever is lost or mixed, no scoring is committed before the enrichment *)
(* and no analysis before the scoring, unless that step's transaction was   *)
(* lost after it had sent its successor.                                    *)
THEOREM StepsInOrder == Spec => []PredecessorCommitted
  <1>1. IInv => PredecessorCommitted BY DEF IInv
  <1> QED BY <1>1, Invariance, PTL

(* Until reports mix, every draft of a high quality lead rests on an        *)
(* approved brief or on a research task that could not be sent.             *)
THEOREM DraftsReviewed == Spec => []ReviewedBeforeDraft
  <1>1. IInv => ReviewedBeforeDraft
    BY DEF IInv, Protected, ApprovedOK, Approved, ReviewedBeforeDraft
  <1> QED BY <1>1, Invariance, PTL

-----------------------------------------------------------------------------
(* The time before the first fault: ContextKept.                            *)

(* A task that has not yet reported, and so has not yet sent its successor. *)
Ahead == {"queued", "mark", "guard", "work", "report", "write", "error"}

(* The place of a step in the chain, the lanes in one line. *)
Rank(s) ==
    CASE s = "pipeline_dispatch" -> 0 [] s = "enrichment" -> 1 [] s = "scoring" -> 2
      [] s = "analysis" -> 3 [] s = "research" -> 4 [] s = "brief_generation" -> 5
      [] s = "brief_review" -> 6 [] s = "draft_generation" -> 7

UpTo(r, s) == Rank(r.step) <= Rank(s)

(* Until the API has committed the run, no task gets past its delivery. *)
StartOK ==
    api # "done" => /\ run = NoRow /\ lock = Nobody /\ janitor = "idle"
                    /\ \A t \in Tasks : task[t].pc \in {"free", "queued", "error"}

(* While nothing has failed, a task has its mark still to make, ...         *)
Unmarked(t) ==
    /\ task[t].pc \in {"queued", "mark", "error"} =>
          /\ Report(run) # MarkOf(task[t].step) /\ Report(row) # MarkOf(task[t].step)
    /\ task[t].pc = "mark" => Report(task[t].snap) # MarkOf(task[t].step)

(* ... the run names no later step, and after the mark nobody else holds    *)
(* the row lock, so that nobody commits the run between its read and its    *)
(* write.                                                                   *)
CalmSlot(t) ==
    task[t].pc \in Ahead =>
        /\ UpTo(run, task[t].step) /\ UpTo(row, task[t].step)
        /\ UpTo(task[t].snap, task[t].step)
        /\ Unmarked(t)
        /\ task[t].pc \in {"guard", "work", "report", "write"} => lock \in {Nobody, t}
        /\ task[t].pc = "write" => run.ctx \subseteq task[t].snap.ctx

(* One task at a time is on its way to its report. *)
Single == \A t, u \in Tasks : task[t].pc \in Ahead /\ task[u].pc \in Ahead => t = u

RowKeeps == lock # Nobody => run.ctx \subseteq row.ctx

Calm == Single /\ RowKeeps /\ \A t \in Tasks : CalmSlot(t)

LinkedOK == StartOK /\ (faults = 0 => Calm)

-----------------------------------------------------------------------------
LEMMA RankType == \A s \in Steps : Rank(s) \in Nat /\ Rank("pipeline_dispatch") <= Rank(s)
  BY DEF Rank, Steps

LEMMA RankGrows ==
    ASSUME TypeOK, NEW t \in Tasks, NEW s \in NextSteps(t)
    PROVE  Rank(task[t].step) < Rank(s)
  BY DEF NextSteps, AfterAnalysis, AfterBrief, AfterReview, Rank

LEMMA NoRowIs ==
    /\ NoRow.step = "pipeline_dispatch" /\ NoRow.status = "absent" /\ NoRow.ctx = {}
    /\ \A s \in Steps : UpTo(NoRow, s) /\ Report(NoRow) # MarkOf(s)
  BY RankType DEF NoRow, UpTo, Report, MarkOf

(* A task that waits is delivered or has its failure tracked. *)
LEMMA WaitingSteps ==
    ASSUME NEW t \in Tasks, TaskStep(t) \/ ScoutCommit(t) \/ Fault(t),
           task[t].pc \in {"queued", "error"}
    PROVE  Deliver(t) \/ TrackFailure(t)
  <1>1. ~MarkRunning(t) /\ ~Guard(t) /\ ~ReadRun(t) /\ ~WriteRun(t) /\ ~ReportRun(t)
    BY DEF MarkRunning, Guard, ReadRun, WriteRun, ReportRun
  <1>2. /\ ~DispatchWork(t) /\ ~EnrichWork(t) /\ ~ScoreWork(t) /\ ~ResearchWork(t)
        /\ ~BriefWork(t) /\ ~DraftRollback(t) /\ ~ScoutCommit(t)
    BY DEF DispatchWork, EnrichWork, ScoreWork, ResearchWork, BriefWork, WorkEnds,
           DraftRollback, ScoutCommit
  <1>3. ASSUME NEW b PROVE ~AnalysisCommit(t, b) /\ ~ReviewCommit(t, b)
                           /\ ~DraftCommit(t, b) /\ ~ResearchCommit(t, b)
    BY DEF AnalysisCommit, ReviewCommit, DraftCommit, ResearchCommit, CommitWork
  <1>4. ~CommitStep(t) /\ ~CommitUnacked(t) BY DEF CommitStep, CommitUnacked, Commit
  <1>5. ~TimeLimit(t) /\ ~WorkerLost(t) /\ ~StepRaises(t) /\ ~SoftTimeLimit(t)
    BY DEF TimeLimit, WorkerLost, StepRaises, SoftTimeLimit, Running
  <1> QED BY <1>1, <1>2, <1>3, <1>4, <1>5 DEF TaskStep, Fault

LEMMA StartPreserved ==
    ASSUME TypeOK, IdleOK, StartOK, [Next]_vars PROVE StartOK'
  <1> SUFFICES ASSUME api' # "done" PROVE StartOK'
    BY DEF StartOK
  <1>1. ASSUME NEW t \in Tasks, TaskStep(t) \/ ScoutCommit(t) \/ Fault(t) PROVE StartOK'
    <2>1. task[t].pc # "free" /\ UNCHANGED api BY <1>1, BusySteps
    <2>2. /\ run = NoRow /\ lock = Nobody /\ janitor = "idle"
          /\ \A v \in Tasks : task[v].pc \in {"free", "queued", "error"}
      BY <2>1 DEF StartOK
    <2>3. Deliver(t) \/ TrackFailure(t) BY <1>1, <2>1, <2>2, WaitingSteps
    <2>4. task'[t].pc \in {"free", "error"}
      BY <2>2, <2>3, NoRowIs DEF Deliver, TrackFailure, TypeOK, FreeSlot, Messages
    <2>5. \A v \in Tasks \ {t} : task'[v] = task[v]
      BY <2>3 DEF Deliver, TrackFailure, TypeOK
    <2>6. UNCHANGED <<run, lock, janitor>>
      BY <2>2, <2>3, NoRowIs DEF Deliver, TrackFailure, rowVars
    <2> QED BY <2>2, <2>4, <2>5, <2>6 DEF StartOK
  <1>2. CASE ApiSend
    <2>1. /\ task' = [task EXCEPT ![1] = Message("pipeline_dispatch")]
          /\ run = NoRow /\ lock = Nobody /\ janitor = "idle"
          /\ UNCHANGED <<run, lock, janitor>> /\ \A v \in Tasks : task[v].pc = "free"
      BY <1>2 DEF ApiSend, StartOK, IdleOK, FreeSlot, rowVars
    <2>2. \A v \in Tasks : task'[v].pc \in {"free", "queued"}
      BY <2>1, MessagePlace DEF TypeOK, Steps
    <2> QED BY <2>1, <2>2 DEF StartOK
  <1>3. CASE ApiCommit BY <1>3 DEF ApiCommit
  <1>4. CASE SweepRead \/ SweepCommit
    BY <1>4, NoRowIs DEF SweepRead, SweepCommit, StartOK, ActiveStatuses
  <1>5. CASE DrainDeadLetters \/ UNCHANGED vars
    BY <1>5 DEF DrainDeadLetters, vars, rowVars, StartOK
  <1> QED BY <1>1, <1>2, <1>3, <1>4, <1>5 DEF Next

(* Faults are counted and never taken back. *)
LEMMA NoFault ==
    ASSUME TypeOK, [Next]_vars, faults' = 0
    PROVE  faults = 0 /\ \A t \in Tasks : ~Fault(t)
  <1>0. faults \in Nat BY BoundsAssumption DEF TypeOK
  <1>1. ASSUME NEW t \in Tasks, Fault(t) PROVE FALSE
    BY <1>0, <1>1 DEF Fault, CommitUnacked, WorkerLost, StepRaises, SoftTimeLimit
  <1>2. ASSUME NEW t \in Tasks, Chain(t) PROVE faults = 0
    BY <1>0, <1>2 DEF Chain
  <1>3. ASSUME NEW t \in Tasks, TaskStep(t) \/ ScoutCommit(t) PROVE faults = 0
    <2>1. CASE \/ Deliver(t) \/ MarkRunning(t) \/ Guard(t) \/ ReadRun(t) \/ TrackFailure(t)
               \/ DraftRollback(t) \/ ScoutCommit(t) \/ CommitStep(t) \/ TimeLimit(t)
      BY <2>1 DEF Deliver, MarkRunning, Guard, ReadRun, TrackFailure, DraftRollback,
                  ScoutCommit, CommitStep, TimeLimit
    <2>2. CASE DispatchWork(t) \/ EnrichWork(t) \/ ScoreWork(t) \/ ResearchWork(t)
               \/ BriefWork(t)
      BY <2>2 DEF DispatchWork, EnrichWork, ScoreWork, ResearchWork, BriefWork, WorkEnds
    <2>3. ASSUME NEW b, \/ AnalysisCommit(t, b) \/ ReviewCommit(t, b) \/ DraftCommit(t, b)
                        \/ ResearchCommit(t, b)
          PROVE  faults = 0
      BY <2>3 DEF AnalysisCommit, ReviewCommit, DraftCommit, ResearchCommit, CommitWork
    <2>4. CASE WriteRun(t) \/ ReportRun(t) BY <1>2, <2>4 DEF WriteRun, ReportRun
    <2> QED BY <1>3, <2>1, <2>2, <2>3, <2>4 DEF TaskStep
  <1>4. CASE ApiSend \/ ApiCommit \/ SweepRead \/ SweepCommit \/ DrainDeadLetters
    BY <1>1, <1>4 DEF ApiSend, ApiCommit, SweepRead, SweepCommit, DrainDeadLetters
  <1>5. CASE UNCHANGED vars BY <1>1, <1>5 DEF vars
  <1> QED BY <1>1, <1>3, <1>4, <1>5 DEF Next

(* The row a session commits or takes back. *)
LEMMA RowEnded ==
    ASSUME TypeOK, LockOK, RowKeeps, NEW t \in Tasks, CommitRow(t) \/ RollbackRow(t)
    PROVE  /\ run' \in {run, row} /\ row' \in {row, NoRow} /\ RowKeeps'
           /\ lock = t => lock' = Nobody /\ row' = NoRow
           /\ lock # t => UNCHANGED <<run, row, lock>>
           /\ run.ctx \subseteq run'.ctx
  BY NobodyIsNoTask DEF CommitRow, RollbackRow, Unlock, View, RowKeeps, LockOK

(* The steps of a task that has reported. *)
LEMMA EndSteps ==
    ASSUME NEW t \in Tasks, TaskStep(t) \/ ScoutCommit(t), task[t].pc \notin Ahead
    PROVE  CommitStep(t) \/ TimeLimit(t)
  <1> USE DEF Ahead
  <1>1. /\ ~MarkRunning(t) /\ ~Guard(t) /\ ~ReadRun(t) /\ ~WriteRun(t) /\ ~ReportRun(t)
        /\ ~Deliver(t) /\ ~TrackFailure(t)
    BY DEF MarkRunning, Guard, ReadRun, WriteRun, ReportRun, Deliver, TrackFailure
  <1>2. /\ ~DispatchWork(t) /\ ~EnrichWork(t) /\ ~ScoreWork(t) /\ ~ResearchWork(t)
        /\ ~BriefWork(t) /\ ~DraftRollback(t) /\ ~ScoutCommit(t)
    BY DEF DispatchWork, EnrichWork, ScoreWork, ResearchWork, BriefWork, WorkEnds,
           DraftRollback, ScoutCommit
  <1>3. ASSUME NEW b PROVE ~AnalysisCommit(t, b) /\ ~ReviewCommit(t, b)
                           /\ ~DraftCommit(t, b) /\ ~ResearchCommit(t, b)
    BY DEF AnalysisCommit, ReviewCommit, DraftCommit, ResearchCommit, CommitWork
  <1> QED BY <1>1, <1>2, <1>3 DEF TaskStep

LEMMA CalmEnd ==
    ASSUME TypeOK, LockOK, Calm, NEW t \in Tasks, TaskStep(t) \/ ScoutCommit(t),
           task[t].pc \notin Ahead
    PROVE  Calm' /\ run.ctx \subseteq run'.ctx
  <1>1. CommitStep(t) \/ TimeLimit(t) BY EndSteps
  <1>2. (CommitRow(t) \/ RollbackRow(t)) /\ task' = [task EXCEPT ![t] = FreeSlot]
    BY <1>1 DEF CommitStep, Commit, TimeLimit, Strike
  <1>3. task'[t].pc \notin Ahead /\ \A v \in Tasks \ {t} : task'[v] = task[v]
    BY <1>2 DEF TypeOK, FreeSlot, Ahead
  <1>4. /\ run' \in {run, row} /\ row' \in {row, NoRow} /\ RowKeeps'
        /\ lock = t => lock' = Nobody /\ row' = NoRow
        /\ lock # t => UNCHANGED <<run, row, lock>>
        /\ run.ctx \subseteq run'.ctx
    BY <1>2, RowEnded DEF Calm
  <1>5. ASSUME NEW v \in Tasks, task'[v].pc \in Ahead PROVE CalmSlot(v)'
    <2>1. task'[v] = task[v] /\ v # t /\ CalmSlot(v) /\ task[v].step \in Steps
      BY <1>3, <1>5 DEF Calm, TypeOK, Messages
    <2>2. task[v].pc \in {"guard", "work", "report", "write"} => lock # t
      BY <1>5, <2>1, NobodyIsNoTask DEF CalmSlot
    <2> QED BY <1>4, <1>5, <2>1, <2>2, NoRowIs DEF CalmSlot, Unmarked, UpTo
  <1>6. Single' BY <1>3 DEF Single, Calm
  <1>7. \A v \in Tasks : CalmSlot(v)' BY <1>5 DEF CalmSlot
  <1> QED BY <1>4, <1>6, <1>7 DEF Calm

(* A task on its way to its report. *)
LEMMA CalmActor ==
    ASSUME TypeOK, LockOK, Calm, NEW t \in Tasks, TaskStep(t) \/ ScoutCommit(t),
           task[t].pc \in Ahead, ~WriteRun(t), ~ReportRun(t)
    PROVE  CalmSlot(t)' /\ RowKeeps' /\ run.ctx \subseteq run'.ctx
  <1> DEFINE G == CalmSlot(t)' /\ RowKeeps' /\ run.ctx \subseteq run'.ctx
  <1>0. /\ task[t] \in Messages /\ task[t].step \in Steps /\ run \in Rows /\ row \in Rows
        /\ UpTo(run, task[t].step) /\ UpTo(row, task[t].step)
        /\ UpTo(task[t].snap, task[t].step) /\ Unmarked(t) /\ RowKeeps
        /\ task[t].pc \in {"guard", "work", "report", "write"} => lock \in {Nobody, t}
        /\ task[t].pc = "write" => run.ctx \subseteq task[t].snap.ctx
    BY DEF Calm, CalmSlot, TypeOK, Messages
  <1>1. ASSUME UNCHANGED rowVars, task'[t].step = task[t].step,
               task'[t].snap \in {task[t].snap, run, NoRow},
               task'[t].pc = "mark" => Report(task'[t].snap) # MarkOf(task[t].step),
               task'[t].pc \in {"queued", "mark", "error"} =>
                  task[t].pc \in {"queued", "mark", "error"},
               task'[t].pc \in {"guard", "work", "report", "write"} => lock \in {Nobody, t},
               task'[t].pc = "write" => task'[t].snap = run
        PROVE  G
    <2>1. CalmSlot(t)' BY <1>0, <1>1, NoRowIs DEF CalmSlot, Unmarked, UpTo, rowVars
    <2>2. UNCHANGED <<run, row, lock>> BY <1>1 DEF rowVars
    <2> QED BY <1>0, <2>1, <2>2 DEF RowKeeps
  <1>2. CASE Deliver(t)
    <2>1. /\ task'[t].step = task[t].step /\ task'[t].snap = run
          /\ task[t].pc = "queued" /\ task'[t].pc \in {"error", "mark"} /\ UNCHANGED rowVars
      BY <1>0, <1>2 DEF Deliver, TypeOK, Messages
    <2> QED BY <1>0, <1>1, <2>1 DEF Unmarked
  <1>3. CASE MarkRunning(t)
    <2>1. /\ task[t].pc = "mark" /\ Flush(t, task[t].snap, Marked(t))
          /\ task'[t].pc = "guard" /\ task'[t].step = task[t].step /\ task'[t].snap = NoRow
      BY <1>0, <1>3 DEF MarkRunning, TypeOK, Messages
    <2>2. task[t].snap \in Rows /\ Marked(t).step = task[t].step /\ Marked(t).ctx = task[t].snap.ctx
      BY <1>0 DEF Messages, Marked, Rows
    <2>3. Marked(t) # task[t].snap
      <3>1. Report(Marked(t)) = MarkOf(task[t].step)
        BY <2>2 DEF Marked, Report, MarkOf, Rows
      <3> QED BY <1>0, <2>1, <3>1 DEF Unmarked
    <2>4. lock' = t /\ row' = Merge(task[t].snap, Marked(t), View(t)) /\ run' = run
      BY <2>1, <2>3 DEF Flush
    <2>5. row'.step \in {task[t].step, View(t).step} /\ row'.ctx = View(t).ctx
      BY <2>2, <2>4 DEF Merge, Column
    <2>6. View(t) \in {run, row} /\ run.ctx \subseteq View(t).ctx
      BY <1>0, NobodyIsNoTask DEF View, RowKeeps
    <2>7. UpTo(row', task[t].step) BY <1>0, <2>5, <2>6, RankType DEF UpTo
    <2>8. CalmSlot(t)' BY <1>0, <2>1, <2>4, <2>7, NoRowIs DEF CalmSlot, Unmarked, UpTo
    <2> QED BY <2>4, <2>5, <2>6, <2>8 DEF RowKeeps
  <1>4. CASE Guard(t)
    <2>1. /\ task'[t].step = task[t].step /\ task'[t].snap = task[t].snap
          /\ task[t].pc = "guard" /\ task'[t].pc \in {"work", "report"} /\ UNCHANGED rowVars
      BY <1>0, <1>4 DEF Guard, TypeOK, Messages
    <2> QED BY <1>0, <1>1, <2>1
  <1>5. ASSUME NEW s, NEW R, WorkEnds(t, s, R) PROVE G
    <2>1. PICK r \in R : task' = [task EXCEPT ![t].pc = "report", ![t].result = r]
      BY <1>5 DEF WorkEnds
    <2>2. /\ task'[t].step = task[t].step /\ task'[t].snap = task[t].snap
          /\ task[t].pc = "work" /\ task'[t].pc = "report" /\ UNCHANGED rowVars
      BY <1>0, <1>5, <2>1 DEF WorkEnds, TypeOK, Messages
    <2> QED BY <1>0, <1>1, <2>2
  <1>6. CASE DispatchWork(t) \/ EnrichWork(t) \/ ScoreWork(t) \/ ResearchWork(t) \/ BriefWork(t)
    BY <1>5, <1>6 DEF DispatchWork, EnrichWork, ScoreWork, ResearchWork, BriefWork
  <1>7. ASSUME CommitRow(t) \/ RollbackRow(t), task[t].pc = "work",
               \/ task'[t].pc = "free"
               \/ /\ task'[t].pc \in {"work", "report"} /\ task'[t].step = task[t].step
                  /\ task'[t].snap = task[t].snap
        PROVE  G
    <2>1. lock \in {Nobody, t} BY <1>0, <1>7
    <2>2. /\ run' \in {run, row} /\ row' \in {row, NoRow} /\ RowKeeps' /\ lock' = Nobody
          /\ run.ctx \subseteq run'.ctx
      BY <1>0, <1>7, <2>1, RowEnded, NobodyIsNoTask
    <2>3. CalmSlot(t)'
      BY <1>0, <1>7, <2>2, NoRowIs DEF CalmSlot, Unmarked, UpTo, Ahead
    <2> QED BY <2>2, <2>3
  <1>8. CASE ScoutCommit(t)
    BY <1>0, <1>7, <1>8 DEF ScoutCommit, TypeOK, Messages
  <1>9. ASSUME NEW b, \/ AnalysisCommit(t, b) \/ ReviewCommit(t, b) \/ DraftCommit(t, b)
                      \/ ResearchCommit(t, b)
        PROVE  G
    <2>1. PICK r : CommitWork(t, r)
      BY <1>9 DEF AnalysisCommit, ReviewCommit, DraftCommit, ResearchCommit
    <2> QED BY <1>0, <1>7, <2>1 DEF CommitWork, TypeOK, Messages
  <1>10. CASE DraftRollback(t)
    BY <1>0, <1>7, <1>10 DEF DraftRollback, TypeOK, Messages, FreeSlot
  <1>11. CASE ReadRun(t)
    <2>1. /\ task'[t].step = task[t].step /\ task'[t].snap = run
          /\ task[t].pc = "report" /\ task'[t].pc = "write" /\ UNCHANGED rowVars
      BY <1>0, <1>11 DEF ReadRun, TypeOK, Messages
    <2> QED BY <1>0, <1>1, <2>1
  <1>12. CASE TrackFailure(t)
    <2>1. /\ task[t].pc = "error" /\ UNCHANGED <<row, lock>>
          /\ run' \in {run, MarkTaskFailed(t, run), MarkTaskRetrying(t, run)}
      BY <1>12 DEF TrackFailure
    <2>2. /\ run'.ctx = run.ctx /\ run'.step \in {run.step, task[t].step}
          /\ run' = run \/ run'.err
      BY <1>0, <2>1 DEF MarkTaskFailed, MarkTaskRetrying, Rows
    <2>3. Report(run') # MarkOf(task[t].step)
      BY <1>0, <2>1, <2>2 DEF Unmarked, Report, MarkOf
    <2>4. \/ task'[t].pc = "free"
          \/ task'[t].pc = "queued" /\ task'[t].step = task[t].step /\ task'[t].snap = NoRow
      BY <1>0, <1>12 DEF TrackFailure, TypeOK, FreeSlot, Message
    <2>5. CalmSlot(t)'
      BY <1>0, <2>1, <2>2, <2>3, <2>4, NoRowIs, RankType
      DEF CalmSlot, Unmarked, UpTo, Ahead
    <2> QED BY <1>0, <2>1, <2>2, <2>5 DEF RowKeeps
  <1>13. ~CommitStep(t) /\ ~TimeLimit(t) BY DEF CommitStep, Commit, TimeLimit, Ahead
  <1> QED BY <1>2, <1>3, <1>4, <1>6, <1>8, <1>9, <1>10, <1>11, <1>12, <1>13 DEF TaskStep

(* Without a fault a task sends one message at most, of a later step. *)
LEMMA SendOne ==
    ASSUME TypeOK, NEW t \in Tasks, task[t].pc # "free", Chain(t), faults' = 0
    PROVE  /\ task'[t].pc \in {"selfblock", "commit"}
           /\ \A v \in Tasks \ {t} :
                 task'[v] # task[v] => \E s \in NextSteps(t) : task'[v] = Message(s)
           /\ \A v, w \in Tasks \ {t} : task'[v] # task[v] /\ task'[w] # task[w] => v = w
  <1>1. Send(t, NextSteps(t))
    <2>1. faults \in Nat BY BoundsAssumption DEF TypeOK
    <2> QED BY <2>1 DEF Chain
  <1>2. /\ Reporting(t)[t].pc \in {"selfblock", "commit"} /\ Reporting(t) \in [Tasks -> Messages]
        /\ \A v \in Tasks \ {t} : Reporting(t)[v] = task[v]
    BY ReportingTyped
  <1>3. CASE task' = Reporting(t) BY <1>2, <1>3
  <1>4. ASSUME NEW s \in NextSteps(t), NEW u \in Tasks, task[u].pc = "free",
               task' = [Reporting(t) EXCEPT ![u] = Message(s)]
        PROVE  /\ task'[t].pc \in {"selfblock", "commit"}
               /\ \A v \in Tasks \ {t} :
                     task'[v] # task[v] => \E x \in NextSteps(t) : task'[v] = Message(x)
               /\ \A v, w \in Tasks \ {t} : task'[v] # task[v] /\ task'[w] # task[w] => v = w
    <2>1. u # t BY <1>4
    <2>2. /\ task'[t] = Reporting(t)[t] /\ task'[u] = Message(s)
          /\ \A v \in Tasks \ {t, u} : task'[v] = task[v]
      BY <1>2, <1>4, <2>1
    <2> QED BY <1>2, <2>1, <2>2
  <1> QED BY <1>1, <1>3, <1>4 DEF Send

LEMMA CalmReport ==
    ASSUME TypeOK, LockOK, Calm, faults' = 0, NEW t \in Tasks, WriteRun(t) \/ ReportRun(t)
    PROVE  Calm' /\ run.ctx \subseteq run'.ctx
  <1> DEFINE s == task[t].step
  <1>0. /\ task[t] \in Messages /\ s \in Steps /\ run \in Rows /\ row \in Rows
        /\ task[t].pc \in {"report", "write"} /\ Chain(t) /\ RowKeeps
        /\ UpTo(run, s) /\ UpTo(row, s) /\ UpTo(task[t].snap, s) /\ lock \in {Nobody, t}
        /\ task[t].pc = "write" => run.ctx \subseteq task[t].snap.ctx
    BY DEF Calm, CalmSlot, TypeOK, Messages, WriteRun, ReportRun, Ahead
  <1>1. /\ run.ctx \subseteq View(t).ctx /\ UpTo(View(t), s) /\ View(t) \in Rows
    BY <1>0, NobodyIsNoTask DEF View, RowKeeps
  <1>2. PICK read \in Rows : /\ Flush(t, read, Reported(t, read)) /\ UpTo(read, s)
                             /\ run.ctx \subseteq read.ctx
    <2>1. CASE WriteRun(t)
      <3>1. Flush(t, task[t].snap, Reported(t, task[t].snap)) /\ task[t].pc = "write"
        BY <2>1 DEF WriteRun
      <3>2. task[t].snap \in Rows BY <1>0 DEF Messages
      <3> QED BY <1>0, <3>1, <3>2
    <2>2. CASE ReportRun(t)
      <3>1. Flush(t, row, Reported(t, row)) /\ lock = t BY <2>2 DEF ReportRun
      <3> QED BY <1>0, <3>1, NobodyIsNoTask DEF RowKeeps
    <2> QED BY <2>1, <2>2
  <1>3. /\ Reported(t, read).step = s /\ read.ctx \subseteq Reported(t, read).ctx
    BY DEF Reported, MarkTaskFailed, MarkTaskSucceeded, AppendStepContext, Rows
  <1>4. run' = run /\ UpTo(row', s) /\ RowKeeps'
    <2>1. CASE UNCHANGED rowVars BY <1>0, <2>1 DEF rowVars, RowKeeps, UpTo
    <2>2. CASE lock' = t /\ row' = Merge(read, Reported(t, read), View(t)) /\ run' = run
      <3>1. /\ row'.step \in {s, View(t).step}
            /\ row'.ctx \in {Reported(t, read).ctx, View(t).ctx}
        BY <1>3, <2>2 DEF Merge, Column
      <3>2. UpTo(row', s) BY <1>1, <3>1, RankType, <1>0 DEF UpTo
      <3>3. run.ctx \subseteq row'.ctx BY <1>1, <1>2, <1>3, <3>1
      <3> QED BY <2>2, <3>2, <3>3 DEF RowKeeps
    <2> QED BY <1>2, <2>1, <2>2 DEF Flush
  <1>5. /\ task'[t].pc \in {"selfblock", "commit"}
        /\ \A v \in Tasks \ {t} :
              task'[v] # task[v] => \E x \in NextSteps(t) : task'[v] = Message(x)
        /\ \A v, w \in Tasks \ {t} : task'[v] # task[v] /\ task'[w] # task[w] => v = w
    BY <1>0, SendOne
  <1>6. \A v \in Tasks \ {t} : task[v].pc \notin Ahead
    BY <1>0 DEF Calm, Single, Ahead
  <1>7. ASSUME NEW v \in Tasks, task'[v].pc \in Ahead
        PROVE  v # t /\ task'[v] # task[v] /\ CalmSlot(v)'
    <2>1. v # t /\ task'[v] # task[v] BY <1>5, <1>6, <1>7 DEF Ahead
    <2>2. PICK x \in NextSteps(t) : task'[v] = Message(x) BY <1>5, <2>1
    <2>3. x \in Steps /\ Rank(s) < Rank(x) BY <2>2, NextStepsTyped, RankGrows
    <2>4. task'[v].pc = "queued" /\ task'[v].step = x /\ task'[v].snap = NoRow
      BY <2>2, <2>3, MessagePlace
    <2>5. row' \in Rows BY <1>2, FlushTyped, ReportedTyped DEF RowTypeOK
    <2>6. ASSUME NEW r \in Rows, UpTo(r, s) PROVE UpTo(r, x) /\ Report(r) # MarkOf(x)
      <3>1. r.step \in Steps BY DEF Rows
      <3>2. Rank(r.step) < Rank(x) BY <1>0, <2>3, <2>6, <3>1, RankType DEF UpTo
      <3>3. r.step # x BY <2>3, <3>2, RankType
      <3>4. UpTo(r, x) BY <2>3, <3>1, <3>2, RankType DEF UpTo
      <3>5. Report(r) # MarkOf(x) BY <3>3 DEF Report, MarkOf
      <3> QED BY <3>4, <3>5
    <2>7. CalmSlot(v)'
      BY <1>0, <1>4, <2>3, <2>4, <2>5, <2>6, NoRowIs DEF CalmSlot, Unmarked, UpTo
    <2> QED BY <2>1, <2>7
  <1>8. Single' BY <1>5, <1>7 DEF Single
  <1>9. \A v \in Tasks : CalmSlot(v)' BY <1>7 DEF CalmSlot
  <1> QED BY <1>4, <1>8, <1>9 DEF Calm

LEMMA CalmPreserved ==
    ASSUME TypeOK, IdleOK, LockOK, StartOK, Calm, [Next]_vars, faults' = 0
    PROVE  Calm' /\ run.ctx \subseteq run'.ctx
  <1> DEFINE G == Calm' /\ run.ctx \subseteq run'.ctx
  <1>0. \A t \in Tasks : ~Fault(t) BY NoFault
  <1>1. ASSUME NEW t \in Tasks, TaskStep(t) \/ ScoutCommit(t) PROVE G
    <2>1. CASE task[t].pc \notin Ahead BY <1>1, <2>1, CalmEnd
    <2>2. CASE WriteRun(t) \/ ReportRun(t) BY <2>2, CalmReport
    <2>3. CASE task[t].pc \in Ahead /\ ~WriteRun(t) /\ ~ReportRun(t)
      <3>1. CalmSlot(t)' /\ RowKeeps' /\ run.ctx \subseteq run'.ctx
        BY <1>1, <2>3, CalmActor
      <3>2. \A v \in Tasks \ {t} : task'[v] = task[v] /\ task[v].pc \notin Ahead
        BY <1>1, <2>3, AloneSteps DEF Alone, Calm, Single
      <3>3. Single' BY <3>2 DEF Single
      <3>4. \A v \in Tasks : CalmSlot(v)' BY <3>1, <3>2 DEF CalmSlot
      <3> QED BY <3>1, <3>3, <3>4 DEF Calm
    <2> QED BY <2>1, <2>2, <2>3
  <1>2. CASE ApiSend
    <2>1. /\ task' = [task EXCEPT ![1] = Message("pipeline_dispatch")]
          /\ run = NoRow /\ lock = Nobody /\ row = NoRow /\ UNCHANGED <<run, lock, row>>
          /\ \A v \in Tasks : task[v] = FreeSlot
      BY <1>2 DEF ApiSend, StartOK, IdleOK, LockOK, rowVars
    <2>2. \A v \in Tasks : \/ task'[v] = FreeSlot
                           \/ v = 1 /\ task'[v] = Message("pipeline_dispatch")
      BY <2>1 DEF TypeOK
    <2>3. /\ FreeSlot.pc \notin Ahead /\ "pipeline_dispatch" \in Steps
          /\ Message("pipeline_dispatch").pc = "queued"
          /\ Message("pipeline_dispatch").step = "pipeline_dispatch"
          /\ Message("pipeline_dispatch").snap = NoRow
      BY MessagePlace DEF FreeSlot, Ahead, Steps
    <2>4. \A v \in Tasks : CalmSlot(v)'
      BY <2>1, <2>2, <2>3, NoRowIs DEF CalmSlot, Unmarked, UpTo
    <2>5. Single' BY <2>2, <2>3 DEF Single
    <2> QED BY <2>1, <2>4, <2>5 DEF Calm, RowKeeps
  <1>3. ASSUME UNCHANGED <<task, row, lock>>, run'.ctx = run.ctx, run'.step = run.step,
               run'.status # "running"
        PROVE  G
    <2>1. \A s : Report(run') # MarkOf(s) BY <1>3 DEF Report, MarkOf
    <2>2. \A v \in Tasks : CalmSlot(v)' BY <1>3, <2>1 DEF Calm, CalmSlot, Unmarked, UpTo
    <2> QED BY <1>3, <2>2 DEF Calm, Single, RowKeeps
  <1>4. CASE ApiCommit
    <2>1. run = NoRow /\ UNCHANGED <<task, row, lock>> /\ run' = [NoRow EXCEPT !.status = "queued"]
      BY <1>4 DEF ApiCommit, StartOK
    <2>2. run'.ctx = run.ctx /\ run'.step = run.step /\ run'.status = "queued"
      BY <2>1 DEF NoRow
    <2> QED BY <1>3, <2>1, <2>2
  <1>5. CASE SweepCommit
    <2>1. ~AutoResumes BY DEF AutoResumes, TaskShim
    <2> QED BY <1>3, <1>5, <2>1 DEF SweepCommit, TypeOK, Rows
  <1>6. CASE SweepRead \/ DrainDeadLetters \/ UNCHANGED vars
    <2>1. UNCHANGED <<task, run, row, lock>>
      BY <1>6 DEF SweepRead, DrainDeadLetters, vars, rowVars
    <2>2. \A v \in Tasks : CalmSlot(v)' BY <2>1 DEF Calm, CalmSlot, Unmarked, UpTo, Report
    <2> QED BY <2>1, <2>2 DEF Calm, Single, RowKeeps
  <1> QED BY <1>0, <1>1, <1>2, <1>4, <1>5, <1>6 DEF Next

LEMMA LinkedInit == Init => LinkedOK
  <1> SUFFICES ASSUME Init PROVE LinkedOK
    OBVIOUS
  <1>1. /\ run = NoRow /\ row = NoRow /\ lock = Nobody /\ janitor = "idle"
        /\ \A t \in Tasks : task[t].pc = "free"
    BY DEF Init, FreeSlot
  <1>2. StartOK BY <1>1 DEF StartOK
  <1>3. Calm BY <1>1 DEF Calm, Single, RowKeeps, CalmSlot, Ahead
  <1> QED BY <1>2, <1>3 DEF LinkedOK

(* While nothing has failed, no commit drops a key of the run's context,    *)
(* although the whole column is read and written back: the chain is one     *)
(* task at a time, and its session holds the row lock or nobody does        *)
(* (append_step_context).                                                   *)
THEOREM ContextNotDropped == Spec => ContextKept
  <1>1. IInv /\ LinkedOK /\ [Next]_vars =>
           LinkedOK' /\ [faults' = 0 => run.ctx \subseteq run'.ctx]_vars
    <2> SUFFICES ASSUME IInv, LinkedOK, [Next]_vars
                 PROVE  LinkedOK' /\ (faults' = 0 => run.ctx \subseteq run'.ctx)
      OBVIOUS
    <2>1. TypeOK /\ IdleOK /\ LockOK /\ StartOK BY DEF IInv, LinkedOK
    <2>2. StartOK' BY <2>1, StartPreserved
    <2>3. ASSUME faults' = 0 PROVE Calm' /\ run.ctx \subseteq run'.ctx
      <3>1. Calm BY <2>1, <2>3, NoFault DEF LinkedOK
      <3> QED BY <2>1, <2>3, <3>1, CalmPreserved
    <2> QED BY <2>2, <2>3 DEF LinkedOK
  <1> QED BY <1>1, LinkedInit, Invariance, PTL DEF Spec, ContextKept
=============================================================================

---------------------------- MODULE LeadPipeline ----------------------------
(***************************************************************************)
(* One pipeline run of one lead: POST /leads/{id}/pipeline, the Celery     *)
(* tasks that chain to each other, the PipelineRun row they all update,    *)
(* _track_failure and its dead letters, and the janitor.                   *)
(*                                                                         *)
(* Every task opens one session.  mark_task_running reads the run row and  *)
(* UPDATEs the columns that differ, so the session holds the row lock from *)
(* there to its next commit or rollback; the tasks have no other           *)
(* synchronisation.  run is the committed row, row the version of the      *)
(* session that holds the lock.  Every task sends its successor (.delay)   *)
(* BEFORE tracked_task_step commits.                                       *)
(*                                                                         *)
(* Abstracted: what a step computes (only that it was done, and the        *)
(* outcome the chain branches on), TaskRun statuses (only whether the row  *)
(* is committed), time (a run may be stale whenever the janitor looks: a   *)
(* message may wait that long in its queue), Lead.status, the "scout"      *)
(* context key (written like "research"), notifications, and the           *)
(* automation at the end of the draft step (OutreachSend).                 *)
(*                                                                         *)
(* Tasks are slots: a slot is a message from .delay() to its end, and is   *)
(* free for another message afterwards.                                    *)
(***************************************************************************)
EXTENDS Naturals, FiniteSets

CONSTANTS
    MaxTasks,    \* bound: Celery messages in flight (a full queue delays .delay())
    MaxFaults,   \* bound: crashes and exceptions that strike
    MaxRetries,  \* max_retries of a task (1 to 3 in the code)
    Qualities    \* may the analysis find the lead high quality?

ASSUME BoundsAssumption ==
    /\ MaxTasks \in Nat \ {0} /\ MaxFaults \in Nat /\ MaxRetries \in Nat
    /\ Qualities \subseteq BOOLEAN

Tasks == 1 .. MaxTasks
Nobody == 0

Steps == {"pipeline_dispatch", "enrichment", "scoring", "analysis", "research",
          "brief_generation", "brief_review", "draft_generation"}

(* Steps whose result is a column of the lead that an idempotency guard reads. *)
LeadSteps == {"enrichment", "scoring", "analysis"}

(* Steps that append to PipelineRun.step_context_json. *)
ContextSteps == Steps \ {"pipeline_dispatch", "draft_generation"}

(* Tasks with no _track_failure: they mark the failure and do not commit. *)
UntrackedSteps == {"brief_generation", "brief_review"}

(* Mutant of ActiveStatuses: a run that was never picked up is not swept. *)
ActiveButQueued == {"running", "retrying", "stopping"}

ActiveStatuses == {"running", "queued", "retrying", "stopping"}

VARIABLES
    run,         \* the committed PipelineRun row
    row,         \* the row as the session holding its lock sees it
    lock,        \* the task whose session holds the row lock, or Nobody
    mixed,       \* has an UPDATE left a row that no task meant?
    lead,        \* committed results of the steps
    works,       \* how often the work of a lead step was committed
    lost,        \* steps whose transaction was lost after they had chained
    unsent,      \* steps that were not started because .delay() raised
    task,        \* the messages and the sessions of the workers running them
    api,         \* the request that starts the run
    dead,        \* steps with a DeadLetterTask row
    replayed,    \* dead letters whose replayed_at is set
    dispatched,  \* dead letters the drain sent again
    janitor,     \* "idle", or "read" between its SELECT and its commit
    faults       \* how many faults have struck

vars == <<run, row, lock, mixed, lead, works, lost, unsent, task, api, dead, replayed,
          dispatched, janitor, faults>>

chainVars == <<lost, unsent>>
rowVars == <<run, row, lock, mixed>>
leadVars == <<lead, works>>
dlqVars == <<dead, replayed, dispatched>>

Places == {"free", "queued", "mark", "guard", "work", "report", "write", "commit",
           "selfblock", "error"}
Results == {"none", "skip", "budget", "ok", "degraded", "rejected", "fail"}

Rows == [status : {"absent", "queued", "running", "succeeded", "failed", "skipped"},
         step : Steps, err : BOOLEAN, ctx : SUBSET ContextSteps]

NoRow == [status |-> "absent", step |-> "pipeline_dispatch", err |-> FALSE, ctx |-> {}]

(* A message: its step, task.request.retries, whether a delivery of it has  *)
(* committed its TaskRun, where its session is, the run row that session    *)
(* last read, and what the step came to.                                    *)
Messages == [pc : Places, step : Steps, retries : Nat, known : BOOLEAN,
             snap : Rows, result : Results]

FreeSlot == [pc |-> "free", step |-> "pipeline_dispatch", retries |-> 0,
             known |-> FALSE, snap |-> NoRow, result |-> "none"]

Message(s) == [FreeSlot EXCEPT !.pc = "queued", !.step = s]

Init ==
    /\ run = NoRow /\ row = NoRow /\ lock = Nobody /\ mixed = FALSE
    /\ lead = [done |-> {}, high |-> FALSE, research |-> FALSE,
               brief |-> "none", draft |-> FALSE]
    /\ works = [s \in LeadSteps |-> 0]
    /\ lost = {} /\ unsent = {}
    /\ task = [t \in Tasks |-> FreeSlot]
    /\ api = "idle"
    /\ dead = {} /\ replayed = {} /\ dispatched = {}
    /\ janitor = "idle"
    /\ faults = 0

-----------------------------------------------------------------------------
(* The run row                                                              *)

View(t) == IF lock = t THEN row ELSE run

(* SQLAlchemy writes the columns whose value differs from the one read. *)
Column(read, new, current) == IF new # read THEN new ELSE current

Merge(read, new, current) ==
    [status |-> Column(read.status, new.status, current.status),
     step   |-> Column(read.step, new.step, current.step),
     err    |-> Column(read.err, new.err, current.err),
     ctx    |-> Column(read.ctx, new.ctx, current.ctx)]

(* What a task says of the run, and an UPDATE of some of the columns of a   *)
(* row that has changed since it was read can leave otherwise.              *)
Report(r) == <<r.status, r.step, r.err>>

(* The session of t flushes new over the row it read: no UPDATE when        *)
(* nothing differs, otherwise it needs the row lock and keeps it.           *)
Flush(t, read, new) ==
    \/ /\ new = read
       /\ UNCHANGED rowVars
    \/ /\ new # read
       /\ lock \in {Nobody, t}
       /\ lock' = t
       /\ row' = Merge(read, new, View(t))
       /\ mixed' = (mixed \/ Report(row') # Report(new))
       /\ UNCHANGED run

Unlock(t) ==
    /\ lock' = IF lock = t THEN Nobody ELSE lock
    /\ row' = IF lock = t THEN NoRow ELSE row
    /\ UNCHANGED mixed

CommitRow(t) == run' = View(t) /\ Unlock(t)

RollbackRow(t) == UNCHANGED run /\ Unlock(t)

(* mark_task_running, on the row the session read. *)
Marked(t) == [task[t].snap EXCEPT !.status = "running", !.step = task[t].step,
                                  !.err = FALSE]

-----------------------------------------------------------------------------
(* POST /leads/{id}/pipeline                                                *)

(* create_pipeline_run flushes the row; the task is sent before the commit. *)
ApiSend ==
    /\ api = "idle"
    /\ api' = "sent"
    /\ task' = [task EXCEPT ![1] = Message("pipeline_dispatch")]
    /\ UNCHANGED <<rowVars, leadVars, chainVars, dlqVars, janitor, faults>>

ApiCommit ==
    /\ api = "sent"
    /\ api' = "done"
    /\ run' = [NoRow EXCEPT !.status = "queued"]
    /\ UNCHANGED <<row, lock, mixed, leadVars, chainVars, task, dlqVars, janitor, faults>>

-----------------------------------------------------------------------------
(* A task, from its delivery to its last commit                             *)

(* queue_task_run inserts the TaskRun, whose foreign key fails while the    *)
(* API has not committed; then update_pipeline_run reads the run.           *)
Deliver(t) ==
    /\ task[t].pc = "queued"
    /\ task' = [task EXCEPT
                  ![t].snap = run,
                  ![t].pc = IF run.status = "absent" THEN "error" ELSE "mark"]
    /\ UNCHANGED <<rowVars, leadVars, chainVars, api, dlqVars, janitor, faults>>

(* Mutant of MarkRunning: only the TaskRun is marked, not the run. *)
MarkRunningTaskOnly(t) ==
    /\ task[t].pc = "mark"
    /\ task' = [task EXCEPT ![t].pc = "guard", ![t].snap = NoRow]
    /\ UNCHANGED <<rowVars, leadVars, chainVars, api, dlqVars, janitor, faults>>

MarkRunning(t) ==
    /\ task[t].pc = "mark"
    /\ Flush(t, task[t].snap, Marked(t))
    /\ task' = [task EXCEPT ![t].pc = "guard", ![t].snap = NoRow]
    /\ UNCHANGED <<leadVars, chainVars, api, dlqVars, janitor, faults>>

(* Mutant of AlreadyDone: the analysis guard is missing. *)
AlreadyDoneButAnalysis(s) ==
    CASE s \in {"enrichment", "scoring"} -> s \in lead.done
      [] s = "research" -> lead.research
      [] s = "brief_generation" -> lead.brief # "none"
      [] s = "brief_review" -> lead.brief # "generated"
      [] s = "draft_generation" -> lead.draft
      [] OTHER -> FALSE

(* The idempotency guard of each task, on committed data. *)
AlreadyDone(s) ==
    CASE s \in LeadSteps -> s \in lead.done
      [] s = "research" -> lead.research
      [] s = "brief_generation" -> lead.brief # "none"
      [] s = "brief_review" -> lead.brief # "generated"
      [] s = "draft_generation" -> lead.draft
      [] OTHER -> FALSE

Guard(t) ==
    LET skip == AlreadyDone(task[t].step)
    IN  /\ task[t].pc = "guard"
        /\ task' = [task EXCEPT ![t].pc = IF skip THEN "report" ELSE "work",
                                ![t].result = IF skip THEN "skip" ELSE "none"]
        /\ UNCHANGED <<rowVars, leadVars, chainVars, api, dlqVars, janitor, faults>>

(* A step whose work is only flushed: it is committed when the task ends. *)
WorkEnds(t, s, results) ==
    /\ task[t].pc = "work" /\ task[t].step = s
    /\ \E r \in results :
          task' = [task EXCEPT ![t].pc = "report", ![t].result = r]
    /\ UNCHANGED <<rowVars, leadVars, chainVars, api, dlqVars, janitor, faults>>

(* task_full_pipeline asks the daily budget; the next four are enrich_lead, *)
(* score_lead, a research report that may be degraded, a brief that may fail. *)
DispatchWork(t) == WorkEnds(t, "pipeline_dispatch", {"ok", "budget"})
EnrichWork(t) == WorkEnds(t, "enrichment", {"ok"})
ScoreWork(t) == WorkEnds(t, "scoring", {"ok"})
ResearchWork(t) == WorkEnds(t, "research", {"ok", "degraded"})
BriefWork(t) == WorkEnds(t, "brief_generation", {"ok", "fail"})

(* The research task commits the Scout thread in the middle of its step. *)
ScoutCommit(t) ==
    /\ task[t].pc = "work" /\ task[t].step = "research"
    /\ CommitRow(t)
    /\ task' = [task EXCEPT ![t].known = TRUE]
    /\ UNCHANGED <<leadVars, chainVars, api, dlqVars, janitor, faults>>

(* A step that commits its work in the middle: its place, its result. *)
CommitWork(t, r) ==
    /\ task[t].pc = "work"
    /\ CommitRow(t)
    /\ task' = [task EXCEPT ![t].pc = "report", ![t].result = r, ![t].known = TRUE]
    /\ UNCHANGED <<chainVars, api, dlqVars, janitor, faults>>

(* The report, with Scout findings or a dossier in it, is committed at once. *)
ResearchCommit(t, completed) ==
    /\ task[t].step = "research"
    /\ CommitWork(t, IF completed THEN "ok" ELSE "degraded")
    /\ lead' = [lead EXCEPT !.research = @ \/ completed]
    /\ UNCHANGED works

(* run_lead_analysis_step. *)
AnalysisCommit(t, high) ==
    /\ task[t].step = "analysis"
    /\ CommitWork(t, "ok")
    /\ lead' = [lead EXCEPT !.done = @ \cup {"analysis"}, !.high = high]
    /\ works' = [works EXCEPT !["analysis"] = @ + 1]

(* The reviewer's verdict. *)
ReviewCommit(t, approved) ==
    /\ task[t].step = "brief_review"
    /\ CommitWork(t, IF approved THEN "ok" ELSE "rejected")
    /\ lead' = [lead EXCEPT !.brief = IF approved THEN "reviewed" ELSE @]
    /\ UNCHANGED works

(* run_outreach_draft_generation_workflow: a draft for a high quality lead  *)
(* with an address, otherwise only QUALIFIED.                               *)
DraftCommit(t, generated) ==
    /\ task[t].step = "draft_generation"
    /\ generated => lead.high
    /\ CommitWork(t, "ok")
    /\ lead' = [lead EXCEPT !.draft = @ \/ generated]
    /\ UNCHANGED works

(* No draft came back: the workflow rolls the whole session back.           *)
(* mark_task_failed then finds the TaskRun only if an earlier delivery      *)
(* committed it; if not it returns before it touches the run.               *)
DraftRollback(t) ==
    /\ task[t].pc = "work" /\ task[t].step = "draft_generation"
    /\ lead.high
    /\ RollbackRow(t)
    /\ task' = IF task[t].known
               THEN [task EXCEPT ![t].pc = "report", ![t].result = "fail"]
               ELSE [task EXCEPT ![t] = FreeSlot]
    /\ UNCHANGED <<leadVars, chainVars, api, dlqVars, janitor, faults>>

(* Mutant of AppendStepContext: the column is written with the step's key alone. *)
AppendStepContextAlone(t, ctx) ==
    IF task[t].step \in ContextSteps /\ task[t].result \in {"ok", "degraded", "rejected"}
    THEN {task[t].step} ELSE ctx

(* append_step_context: the step's own key, on the context that was read. *)
AppendStepContext(t, ctx) ==
    IF task[t].step \in ContextSteps /\ task[t].result \in {"ok", "degraded", "rejected"}
    THEN ctx \cup {task[t].step} ELSE ctx

MarkTaskFailed(t, read) ==
    [read EXCEPT !.status = "failed", !.step = task[t].step, !.err = TRUE]

MarkTaskRetrying(t, read) ==
    [read EXCEPT !.status = "running", !.step = task[t].step, !.err = TRUE]

(* Mutant of PipelineStatus: the last step has a status of its own. *)
PipelineStatusCompleted(t) ==
    CASE task[t].result = "budget" -> "skipped"
      [] task[t].step = "draft_generation" -> "completed"
      [] OTHER -> "running"

(* The pipeline_status a step passes with its success. *)
PipelineStatus(t) ==
    CASE task[t].result = "budget" -> "skipped"
      [] task[t].step = "draft_generation" -> "succeeded"
      [] OTHER -> "running"

MarkTaskSucceeded(t, read) ==
    [read EXCEPT !.status = PipelineStatus(t), !.step = task[t].step, !.err = FALSE,
                 !.ctx = AppendStepContext(t, @)]

(* tracker.fail or tracker.succeed, on the row they read. *)
Reported(t, read) ==
    IF task[t].result = "fail" THEN MarkTaskFailed(t, read) ELSE MarkTaskSucceeded(t, read)

(* The analysis decides the lane. *)
AfterAnalysis == IF lead.high THEN {"research"} ELSE {"draft_generation"}

(* A brief that was already reviewed needs no review. *)
AfterBrief(r) ==
    IF r = "skip" /\ lead.brief = "reviewed" THEN {"draft_generation"} ELSE {"brief_review"}

(* Mutant of AfterReview: the verdict is not asked. *)
AfterReviewAlways(r) == {"draft_generation"}

(* Only an approval leads on; a review with nothing to review does not. *)
AfterReview(r) == IF r = "ok" THEN {"draft_generation"} ELSE {}

(* The steps a task chains to: none or one. *)
NextSteps(t) ==
    LET s == task[t].step
        r == task[t].result
    IN  IF r \in {"fail", "budget"} THEN {}
        ELSE CASE s = "pipeline_dispatch" -> {"enrichment"}
               [] s = "enrichment" -> {"scoring"}
               [] s = "scoring" -> {"analysis"}
               [] s = "analysis" -> AfterAnalysis
               [] s = "research" -> {"brief_generation"}
               [] s = "brief_generation" -> AfterBrief(r)
               [] s = "brief_review" -> AfterReview(r)
               [] OTHER -> {}

(* A .delay() that raises is caught in three tasks: research falls back to  *)
(* the draft, what follows research or the brief is not started.  Elsewhere *)
(* the step raises (StepRaises).                                            *)
CaughtSend(t) ==
    {s \in NextSteps(t) : s = "research" \/ task[t].step \in {"research", "brief_generation"}}

Fallback(s) == IF s = "research" THEN {"draft_generation"} ELSE {}

(* A draft task updates the run again through a second session, which waits *)
(* for the row lock of the first: its own.  Every other task is about to    *)
(* commit.                                                                  *)
Reporting(t) ==
    [task EXCEPT ![t].snap = NoRow,
                 ![t].pc = IF task[t].step = "draft_generation" /\ task[t].result # "fail"
                           THEN "selfblock" ELSE "commit"]

(* Send the messages of steps (at most one), still inside the transaction. *)
Send(t, steps) ==
    \/ steps = {} /\ task' = Reporting(t)
    \/ \E s \in steps, u \in Tasks :
          /\ task[u].pc = "free"
          /\ \A v \in 1 .. u - 1 : task[v].pc # "free"
          /\ task' = [Reporting(t) EXCEPT ![u] = Message(s)]

Chain(t) ==
    \/ /\ Send(t, NextSteps(t))
       /\ UNCHANGED <<unsent, faults>>
    \/ \E s \in CaughtSend(t) :
          /\ faults < MaxFaults
          /\ Send(t, Fallback(s))
          /\ unsent' = unsent \cup {s}
          /\ faults' = faults + 1

(* Without the row lock the run is read first ... *)
ReadRun(t) ==
    /\ task[t].pc = "report"
    /\ lock # t
    /\ task' = [task EXCEPT ![t].snap = run, ![t].pc = "write"]
    /\ UNCHANGED <<rowVars, leadVars, chainVars, api, dlqVars, janitor, faults>>

(* ... and written when the lock is granted. *)
WriteRun(t) ==
    /\ task[t].pc = "write"
    /\ Flush(t, task[t].snap, Reported(t, task[t].snap))
    /\ Chain(t)
    /\ UNCHANGED <<leadVars, lost, api, dlqVars, janitor>>

(* A session that still holds the lock sees and writes its own version. *)
ReportRun(t) ==
    /\ task[t].pc = "report"
    /\ lock = t
    /\ Flush(t, row, Reported(t, row))
    /\ Chain(t)
    /\ UNCHANGED <<leadVars, lost, api, dlqVars, janitor>>

(* tracked_task_step commits the run, the TaskRun and the step's work. *)
Commit(t) ==
    LET s == task[t].step
        worked == task[t].result = "ok"
    IN  /\ task[t].pc = "commit"
        /\ CommitRow(t)
        /\ lead' = [lead EXCEPT
                       !.done = IF worked /\ s \in {"enrichment", "scoring"}
                                THEN @ \cup {s} ELSE @,
                       !.research = @ \/ (worked /\ s = "research"),
                       !.brief = IF worked /\ s = "brief_generation"
                                 THEN "generated" ELSE @]
        /\ works' = IF worked /\ s \in {"enrichment", "scoring"}
                    THEN [works EXCEPT ![s] = @ + 1] ELSE works
        /\ UNCHANGED <<chainVars, api, dlqVars, janitor>>

(* The message is acknowledged when the task has returned (acks_late). *)
CommitStep(t) ==
    /\ Commit(t)
    /\ task' = [task EXCEPT ![t] = FreeSlot]
    /\ UNCHANGED faults

-----------------------------------------------------------------------------
(* Faults                                                                   *)

Running(t) == task[t].pc \notin {"free", "queued", "error"}

Redelivered(t) == [Message(task[t].step) EXCEPT !.retries = task[t].retries,
                                                !.known = task[t].known]

(* The worker dies after the commit and before the acknowledgement. *)
CommitUnacked(t) ==
    /\ faults < MaxFaults
    /\ Commit(t)
    /\ task' = [task EXCEPT ![t] = [Redelivered(t) EXCEPT !.known = TRUE]]
    /\ faults' = faults + 1

(* The session is gone; a task that had chained leaves its successor behind. *)
Strike(t, slot) ==
    /\ RollbackRow(t)
    /\ lost' = IF task[t].pc = "commit" THEN lost \cup {task[t].step} ELSE lost
    /\ task' = [task EXCEPT ![t] = slot]
    /\ UNCHANGED <<leadVars, unsent, api, dlqVars, janitor>>

(* The worker process is lost: task_reject_on_worker_lost redelivers. *)
WorkerLost(t) ==
    /\ Running(t) /\ faults < MaxFaults
    /\ Strike(t, Redelivered(t))
    /\ faults' = faults + 1

(* The step raises. *)
StepRaises(t) ==
    /\ Running(t) /\ task[t].pc # "selfblock" /\ faults < MaxFaults
    /\ Strike(t, [Redelivered(t) EXCEPT !.pc = "error"])
    /\ faults' = faults + 1

(* SoftTimeLimitExceeded in a task that handles it: mark_task_failed in a   *)
(* session that nobody commits, and no retry.                               *)
SoftTimeLimit(t) ==
    /\ Running(t) /\ task[t].pc # "selfblock" /\ faults < MaxFaults
    /\ task[t].step \in {"analysis", "research", "draft_generation"}
    /\ Strike(t, FreeSlot)
    /\ faults' = faults + 1

(* The hard time limit kills the blocked process; unlike a lost worker the  *)
(* message is acknowledged.                                                 *)
TimeLimit(t) ==
    /\ task[t].pc = "selfblock"
    /\ Strike(t, FreeSlot)
    /\ UNCHANGED faults

(* _track_failure in a session of its own, then self.retry.  The dispatch   *)
(* task raises without a retry; while the run is not committed _track_      *)
(* failure raises as well.                                                  *)
TrackFailure(t) ==
    LET s == task[t].step
        exhausted == task[t].retries >= MaxRetries
        tracked == run.status # "absent" /\ s \notin UntrackedSteps
        again == ~exhausted /\ run.status # "absent" /\ s # "pipeline_dispatch"
    IN  /\ task[t].pc = "error"
        /\ tracked => lock = Nobody
        /\ run' = IF tracked
                  THEN IF exhausted THEN MarkTaskFailed(t, run) ELSE MarkTaskRetrying(t, run)
                  ELSE run
        /\ dead' = IF tracked /\ exhausted THEN dead \cup {s} ELSE dead
        /\ task' = [task EXCEPT
                      ![t] = IF again
                             THEN [Message(s) EXCEPT !.retries = task[t].retries + 1,
                                                     !.known = task[t].known \/ tracked]
                             ELSE FreeSlot]
        /\ UNCHANGED <<row, lock, mixed, leadVars, chainVars, api, replayed, dispatched,
                       janitor, faults>>

-----------------------------------------------------------------------------
(* The janitor                                                              *)

(* PIPELINE_STEP_CHAIN, as attribute names of app.workers.tasks. *)
StepChain ==
    [pipeline_dispatch |-> "task_enrich_lead", enrichment |-> "task_score_lead",
     scoring |-> "task_analyze_lead", analysis |-> "task_analyze_lead",
     research |-> "task_generate_brief", brief_generation |-> "task_review_brief",
     brief_review |-> "task_generate_draft", draft_generation |-> "none"]

(* The attributes app/workers/tasks.py exposes: the module is empty. *)
TaskShim == {}

(* _auto_resume_pipeline: a stale run is always retryable and has retries left. *)
AutoResumes == StepChain[run.step] \in TaskShim

(* sweep_stale_tasks selects the run, which is active and stale ... *)
SweepRead ==
    /\ janitor = "idle"
    /\ run.status \in ActiveStatuses
    /\ janitor' = "read"
    /\ UNCHANGED <<rowVars, leadVars, chainVars, task, api, dlqVars, faults>>

(* ... and its UPDATE waits for the row lock and overwrites what was        *)
(* committed since.                                                         *)
SweepCommit ==
    /\ janitor = "read"
    /\ lock = Nobody
    /\ janitor' = "idle"
    /\ run' = [run EXCEPT !.status = IF AutoResumes THEN "running" ELSE "failed",
                          !.err = ~AutoResumes]
    /\ UNCHANGED <<row, lock, mixed, leadVars, chainVars, task, api, dlqVars, faults>>

(* The task names _track_failure writes and the ones the drain replays. *)
DeadLetterName ==
    [pipeline_dispatch |-> "task_full_pipeline", enrichment |-> "task_enrich_lead",
     scoring |-> "task_score_lead", analysis |-> "task_analyze_lead",
     research |-> "task_research_lead", draft_generation |-> "task_generate_draft"]

ReplayableTasks ==
    {"app.workers.tasks.task_enrich_lead", "app.workers.tasks.task_score_lead",
     "app.workers.tasks.task_analyze_lead", "app.workers.tasks.task_research_lead",
     "app.workers.tasks.task_generate_draft",
     "app.workers.brief_tasks.task_generate_brief",
     "app.workers.brief_tasks.task_review_brief"}

(* drain_dead_letter_queue. *)
DrainDeadLetters ==
    /\ dead \ replayed # {}
    /\ replayed' = dead
    /\ dispatched' = dispatched \cup
          {s \in dead \ replayed : DeadLetterName[s] \in ReplayableTasks}
    /\ UNCHANGED <<rowVars, leadVars, chainVars, task, api, dead, janitor, faults>>

-----------------------------------------------------------------------------
TaskStep(t) ==
    \/ Deliver(t) \/ MarkRunning(t) \/ Guard(t)
    \/ DispatchWork(t) \/ EnrichWork(t) \/ ScoreWork(t) \/ ResearchWork(t)
    \/ BriefWork(t)
    \/ \E b \in Qualities : AnalysisCommit(t, b)
    \/ \E b \in BOOLEAN : ReviewCommit(t, b) \/ DraftCommit(t, b)
                            \/ ResearchCommit(t, b)
    \/ DraftRollback(t)
    \/ ReadRun(t) \/ WriteRun(t) \/ ReportRun(t) \/ CommitStep(t)
    \/ TimeLimit(t) \/ TrackFailure(t)

Fault(t) == CommitUnacked(t) \/ WorkerLost(t) \/ StepRaises(t) \/ SoftTimeLimit(t)

Next ==
    \/ ApiSend \/ ApiCommit
    \/ \E t \in Tasks : TaskStep(t) \/ ScoutCommit(t) \/ Fault(t)
    \/ SweepRead \/ SweepCommit \/ DrainDeadLetters

(* Celery delivers and runs every message, the database grants every lock,  *)
(* and beat runs the janitor every five minutes.  Nothing forces a fault.   *)
Fairness ==
    /\ WF_vars(ApiCommit)
    /\ \A t \in Tasks : WF_vars(TaskStep(t))
    /\ WF_vars(SweepRead) /\ WF_vars(SweepCommit)

Spec == Init /\ [][Next]_vars /\ Fairness

-----------------------------------------------------------------------------
TypeOK ==
    /\ run \in Rows /\ row \in Rows
    /\ lock \in Tasks \cup {Nobody} /\ mixed \in BOOLEAN
    /\ lead \in [done : SUBSET LeadSteps, high : BOOLEAN, research : BOOLEAN,
                 brief : {"none", "generated", "reviewed"}, draft : BOOLEAN]
    /\ works \in [LeadSteps -> Nat]
    /\ lost \subseteq Steps /\ unsent \subseteq Steps
    /\ task \in [Tasks -> Messages]
    /\ api \in {"idle", "sent", "done"}
    /\ dead \subseteq Steps /\ replayed \subseteq Steps /\ dispatched \subseteq Steps
    /\ janitor \in {"idle", "read"}
    /\ faults \in 0 .. MaxFaults

(* The work of a step is paid for once per run: crashes and retries make    *)
(* tasks chain twice and run side by side, and still no enrichment, scoring *)
(* or LLM analysis is committed twice (the guards of the three tasks), as   *)
(* long as no UPDATE of some of the run's columns mixed the reports of two  *)
(* tasks (mark_task_running, mark_task_succeeded): after that a task may    *)
(* find its mark already made, write nothing and work without the row lock. *)
WorkOncePerRun == ~mixed => \A s \in LeadSteps : works[s] <= 1

(* A step works on its predecessor's committed result although it is sent   *)
(* before that commit, unless the predecessor's transaction was lost        *)
(* (mark_task_running waits for the row lock of the predecessor).           *)
PredecessorCommitted ==
    /\ "scoring" \in lead.done => "enrichment" \in lead.done \cup lost
    /\ "analysis" \in lead.done => "scoring" \in lead.done \cup lost

(* A draft rests on an approved brief: whatever tasks crash, repeat or skip *)
(* along the high lane, no lead gets a draft before the reviewer's approval *)
(* is committed (task_review_brief, the skip path of task_generate_brief),  *)
(* unless the research task could not be sent (task_analyze_lead), and as   *)
(* long as no UPDATE mixed the reports of two tasks: after that two         *)
(* analyses may disagree and a second brief may replace the approved one.   *)
ReviewedBeforeDraft ==
    ~mixed /\ lead.draft => lead.brief = "reviewed" \/ "research" \in unsent

(* Every run settles: whatever is lost, blocked or late, the run ends up in *)
(* a status that is not active and stays there (the janitor's sweep).       *)
EventuallySettled == <>[](run.status \notin {"queued", "running"})

(* As long as no worker, message or step has failed, a step never drops     *)
(* what another step left for the next ones, although the whole JSON column *)
(* is read and written back by tasks, the API and the janitor               *)
(* (append_step_context).                                                   *)
ContextKept == [][faults' = 0 => run.ctx \subseteq run'.ctx]_vars

-----------------------------------------------------------------------------
(* What the repository says of the program and the code does not do         *)

(* "Each step writes under its own key, so steps never overwrite each       *)
(* other" (context_service.append_step_context).                            *)
ContextNeverOverwritten == [][run.ctx \subseteq run'.ctx]_vars

(* "hourly replay of failed pipeline tasks" (janitor/dlq.py): a dead letter *)
(* of _track_failure that the drain marks replayed was sent again.          *)
DeadLettersReplayed == replayed \subseteq dispatched

(* A run the janitor fails as stale before its last step is resumed         *)
(* (_auto_resume_pipeline, step_chain.py).                                  *)
StaleRunsResumed ==
    [][SweepCommit /\ StepChain[run.step] # "none" => run'.status = "running"]_vars

(* A draft task that reported success ends with a SUCCEEDED run             *)
(* (task_generate_draft).                                                   *)
DraftTaskSucceeds ==
    [][\A t \in Tasks :
          /\ task[t].step = "draft_generation" /\ task[t].result \in {"ok", "skip"}
          /\ task'[t].pc = "free"
          => run'.status = "succeeded"]_vars
=============================================================================

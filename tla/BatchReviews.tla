---------------------------- MODULE BatchReviews ----------------------------
(***************************************************************************)
(* The team reviews: the check of the evidence collected since the last    *)
(* completed review, the two model calls of a review in one session, and   *)
(* the weekly report.  A review lives in its task's session; what the      *)
(* database keeps is `reviews'.  Approving, rejecting and applying a       *)
(* proposal, and the janitor's sweep of stuck reviews, need a stored       *)
(* review, and no step of this system ever stores one.                     *)
(***************************************************************************)
EXTENDS Naturals, Sequences, FiniteSets

CONSTANTS Checks,         \* threshold checks, one per finished pipeline run
          Manuals,        \* reviews the operator asks for
          RunThreshold, HighThreshold, OutcomeThreshold,
          MaxEvidence,    \* bound on each counter of evidence
          MaxReports      \* bound on the runs of the weekly task

Tasks == Checks \cup Manuals

VARIABLES evidence,   \* pipeline runs that succeeded, high leads and outcomes so far
          reviews,    \* the committed reviews, in the order of creation
          task,       \* where each task is
          session,    \* the review each task has flushed and not committed
          result,     \* what each task reported last
          weekly,     \* the weekly task
          reports,    \* the committed weekly reports
          told        \* notifications of a weekly report

vars == <<evidence, reviews, task, session, result, weekly, reports, told>>
weeklyVars == <<weekly, reports, told>>

Zero == [runs |-> 0, high |-> 0, outcomes |-> 0]
NoReview == [status |-> "none", verdict |-> "none", proposals |-> "none", answered |-> FALSE,
             at |-> Zero, task |-> "none"]
Busy == {"collect", "synthesis", "review", "return"}

TypeOK ==
  /\ evidence \in [{"runs", "high", "outcomes"} -> 0..MaxEvidence]
  /\ task \in [Tasks -> {"idle", "queued", "done"} \cup Busy]
  /\ \A t \in Tasks : session[t].status \in {"none", "generating", "reviewing", "completed", "failed"}
  /\ result \in [Tasks -> {"none", "skipped", "completed", "failed", "error"}]
  /\ weekly \in {"idle", "model", "template", "notify", "ok", "failed"}
  /\ \A i \in DOMAIN reports : reports[i] \in {"model", "template"}

Init ==
  /\ evidence = Zero /\ reviews = <<>> /\ reports = <<>> /\ told = 0 /\ weekly = "idle"
  /\ task = [t \in Tasks |-> "idle"] /\ result = [t \in Tasks |-> "none"]
  /\ session = [t \in Tasks |-> NoReview]

---------------------------------------------------------------------------
\* The last step of a pipeline run, whose lead may be a high one: the run
\* succeeds and the threshold check is queued.
PipelineCompleted(t, high) ==
  /\ evidence.runs < MaxEvidence /\ task[t] = "idle"
  /\ evidence' = [evidence EXCEPT !.runs = @ + 1, !.high = @ + IF high THEN 1 ELSE 0]
  /\ task' = [task EXCEPT ![t] = "queued"]
  /\ UNCHANGED <<reviews, session, result, weeklyVars>>

OutcomeCaptured ==
  /\ evidence.outcomes < MaxEvidence /\ evidence' = [evidence EXCEPT !.outcomes = @ + 1]
  /\ UNCHANGED <<reviews, task, session, result, weeklyVars>>

\* POST /batch-reviews/generate.
trigger_batch_review(t) ==
  /\ task[t] = "idle" /\ task' = [task EXCEPT ![t] = "queued"]
  /\ UNCHANGED <<evidence, reviews, session, result, weeklyVars>>

task_generate_batch_review_manual(t) ==
  /\ task[t] = "queued" /\ task' = [task EXCEPT ![t] = "collect"]
  /\ UNCHANGED <<evidence, reviews, session, result, weeklyVars>>

\* The evidence at the last completed review.
Since ==
  LET done == {i \in DOMAIN reviews : reviews[i].status = "completed"}
  IN  IF done = {} THEN Zero ELSE reviews[CHOOSE i \in done : \A j \in done : j <= i].at

\* The conditions of check_review_threshold in their order.
check_review_threshold ==
  \/ evidence.runs - Since.runs >= RunThreshold
  \/ evidence.high - Since.high >= HighThreshold
  \/ evidence.outcomes - Since.outcomes >= OutcomeThreshold

task_check_batch_review(t, enabled) ==
  /\ task[t] = "queued"
  /\ \/ /\ enabled /\ check_review_threshold
        /\ task' = [task EXCEPT ![t] = "collect"] /\ UNCHANGED result
     \/ /\ ~(enabled /\ check_review_threshold)
        /\ task' = [task EXCEPT ![t] = "done"] /\ result' = [result EXCEPT ![t] = "skipped"]
  /\ UNCHANGED <<evidence, reviews, session, weeklyVars>>

NewReview(t) == [NoReview EXCEPT !.status = "generating", !.at = evidence, !.task = t]

\* collect_batch_data, then the record is flushed.
CreateReview(t) ==
  /\ task[t] = "collect" /\ task' = [task EXCEPT ![t] = "synthesis"]
  /\ session' = [session EXCEPT ![t] = NewReview(t)]
  /\ UNCHANGED <<evidence, reviews, result, weeklyVars>>

\* The executor's call.  A model that gives no answer yields the client's fallback,
\* which counts as parsed; an exception (no model for the role) ends the review.
Synthesis(t, parsed) ==
  /\ task[t] = "synthesis"
  /\ task' = [task EXCEPT ![t] = IF parsed THEN "review" ELSE "return"]
  /\ session' = [session EXCEPT ![t].status = IF parsed THEN "reviewing" ELSE "failed"]
  /\ UNCHANGED <<evidence, reviews, result, weeklyVars>>

\* What the reviewer's call comes to: its proposals; the client's fallback, an
\* object without proposals, so that the branch for an unparsed answer is never
\* taken; or an exception, after which the executor's proposals are used.
Verdict(answer) == IF answer = "raises" THEN "error" ELSE "validated"
Proposals(answer) == CASE answer = "reviewer" -> "adjusted"
                       [] answer = "fallback" -> "none"
                       [] answer = "raises" -> "executor"

\* The reviewer's call; the review is completed in each case.
Validation(t, answer) ==
  /\ task[t] = "review" /\ task' = [task EXCEPT ![t] = "return"]
  /\ session' = [session EXCEPT
       ![t].status = "completed", ![t].verdict = Verdict(answer),
       ![t].proposals = Proposals(answer), ![t].answered = (answer = "reviewer")]
  /\ UNCHANGED <<evidence, reviews, result, weeklyVars>>

\* The task reports the review's status and leaves `with SessionLocal()', which
\* closes the session without a commit.
Return(t) ==
  /\ task[t] = "return" /\ task' = [task EXCEPT ![t] = "done"]
  /\ result' = [result EXCEPT ![t] = session[t].status]
  /\ session' = [session EXCEPT ![t] = NoReview]
  /\ UNCHANGED <<evidence, reviews, weeklyVars>>

\* The database fails at a query or a flush: the task reports an error.
DatabaseError(t) ==
  /\ task[t] \in Busy \ {"return"} /\ task' = [task EXCEPT ![t] = "done"]
  /\ result' = [result EXCEPT ![t] = "error"] /\ session' = [session EXCEPT ![t] = NoReview]
  /\ UNCHANGED <<evidence, reviews, weeklyVars>>

\* The worker dies: the message is delivered again and the session is gone.
WorkerLost(t) ==
  /\ task[t] \in Busy /\ task' = [task EXCEPT ![t] = "queued"]
  /\ session' = [session EXCEPT ![t] = NoReview]
  /\ UNCHANGED <<evidence, reviews, result, weeklyVars>>

---------------------------------------------------------------------------
\* The weekly task: metrics and recommendations are read (a failure of the
\* latter is an empty list), and a failing model is replaced by a template.
CollectWeekly(answer) ==
  /\ weekly \in {"idle", "ok", "failed"} /\ Len(reports) < MaxReports
  /\ weekly' = answer
  /\ UNCHANGED <<evidence, reviews, task, session, result, reports, told>>

CommitReport ==
  /\ weekly \in {"model", "template"} /\ weekly' = "notify"
  /\ reports' = Append(reports, weekly)
  /\ UNCHANGED <<evidence, reviews, task, session, result, told>>

CollectFails ==
  /\ weekly \in {"model", "template"} /\ weekly' = "failed"
  /\ UNCHANGED <<evidence, reviews, task, session, result, reports, told>>

\* emit_notification is imported from notification_emitter, which has no such
\* name: the import raises, the error is logged at debug level.
NotifyOperator ==
  /\ weekly = "notify" /\ weekly' = "ok"
  /\ UNCHANGED <<evidence, reviews, task, session, result, reports, told>>

\* The worker of the weekly task dies and the task is delivered again.
WeeklyLost ==
  /\ weekly \in {"model", "template", "notify"} /\ weekly' = "idle"
  /\ UNCHANGED <<evidence, reviews, task, session, result, reports, told>>

Answers == {"reviewer", "fallback", "raises"}

Next ==
  \/ \E t \in Checks :
       \/ \E high \in BOOLEAN : PipelineCompleted(t, high)
       \/ \E enabled \in BOOLEAN : task_check_batch_review(t, enabled)
  \/ \E t \in Manuals : trigger_batch_review(t) \/ task_generate_batch_review_manual(t)
  \/ \E t \in Tasks :
       \/ CreateReview(t) \/ Return(t) \/ DatabaseError(t) \/ WorkerLost(t)
       \/ \E parsed \in BOOLEAN : Synthesis(t, parsed)
       \/ \E answer \in Answers : Validation(t, answer)
  \/ OutcomeCaptured
  \/ \E answer \in {"model", "template"} : CollectWeekly(answer)
  \/ CommitReport \/ CollectFails \/ NotifyOperator \/ WeeklyLost

Spec == Init /\ [][Next]_vars

---------------------------------------------------------------------------
\* A task that reports a completed review has left a completed review in the
\* database (the session of the task is never committed).
ReviewPersisted ==
  \A t \in Tasks : result[t] = "completed" =>
    \E i \in DOMAIN reviews : reviews[i].task = t /\ reviews[i].status = "completed"

\* A completed review whose reviewer gave no answer carries the executor's
\* proposals.
ExecutorProposalsKept ==
  \A t \in Tasks : session[t].status = "completed" /\ ~session[t].answered =>
    session[t].proposals = "executor"

\* The operator is told of each weekly report the task calls ok.
OperatorTold == weekly = "ok" => told = Len(reports)
=============================================================================

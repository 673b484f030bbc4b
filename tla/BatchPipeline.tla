--------------------------- MODULE BatchPipeline ---------------------------
(***************************************************************************)
(* The batch pipeline: POST /pipelines/batch and the scheduled crawl start *)
(* it, a Celery worker runs run_batch_pipeline_workflow, POST              *)
(* /pipelines/batch/stop asks it to stop, the janitor fails rows without   *)
(* progress.  Control state lives in two places, the TaskRun row           *)
(* (canonical) and a Redis mirror (legacy), written one after the other.   *)
(* Leads are abstracted to "not crawled yet", NEW, and past NEW.           *)
(***************************************************************************)
EXTENDS Naturals, Sequences, FiniteSets, SequencesExt

CONSTANTS Requests,   \* POST /pipelines/batch calls; each names the task it sends
          Beats,      \* tasks sent by task_scheduled_crawl
          Leads,
          MaxRounds,  \* crawl rounds without a lead (3 in the code)
          MaxStops,   \* bound: stop requests
          MaxCrashes, \* bound: worker losses
          MaxRedis    \* bound: Redis outages and key expiries

VARIABLES row,      \* committed TaskRun rows; NoRow when absent
          created,  \* tasks in the order their rows were inserted
          mirror,   \* "status" of the Redis payload, "none" without a key
          redisUp,
          request,  \* where each start request is
          stopper,  \* the row a stop request has read and will update
          worker,   \* where each task's worker is
          batch,    \* leads the current pass still has to visit
          rounds,   \* crawl_rounds
          leads,
          spent,    \* bound counters
          after,    \* history: leads begun since the stop flag was committed
          tried     \* history: did this execution begin a lead twice?

vars == <<row, created, mirror, redisUp, request, stopper, worker, batch, rounds,
          leads, spent, after, tried>>

Tasks == Requests \cup Beats
ACTIVE_TASK_RUN_STATUSES == {"queued", "running", "retrying", "stopping"}
TASK_PROGRESS_STATUSES == {"running", "retrying", "stopping", "stopped", "succeeded", "failed"}
NoRow == [status |-> "none", stop |-> FALSE]
None == "none"
Untried == [begun |-> {}, again |-> FALSE]
Idle == {"unsent", "queued", "ended"}
Mirrors == {"none", "running", "stopping", "stopped", "done", "error"}

TypeOK ==
  /\ row \in [Tasks -> [status : {"none"} \cup ACTIVE_TASK_RUN_STATUSES \cup TASK_PROGRESS_STATUSES,
                        stop : BOOLEAN]]
  /\ ToSet(created) \subseteq Tasks /\ Len(created) = Cardinality(ToSet(created))
  /\ mirror \in Mirrors /\ redisUp \in BOOLEAN
  /\ request \in [Requests -> {"idle", "checked", "sent", "answered"}]
  /\ stopper \in Tasks \cup {None}
  /\ worker \in [Tasks -> Idle \cup {"top", "crawl", "lead", "begin", "stop",
                                     "stopped", "finish", "finished"}]
  /\ batch \in [Tasks -> SUBSET Leads]
  /\ rounds \in [Tasks -> 0..MaxRounds]
  /\ leads \in [Leads -> {"absent", "new", "past"}]
  /\ spent.stops <= MaxStops /\ spent.crashes <= MaxCrashes /\ spent.redis <= MaxRedis
  /\ after \in [Tasks -> 0..2]
  /\ tried \in [Tasks -> [begun : SUBSET Leads, again : BOOLEAN]]

Init ==
  /\ row = [t \in Tasks |-> NoRow] /\ created = <<>>
  /\ mirror = "none" /\ redisUp = TRUE
  /\ request = [r \in Requests |-> "idle"] /\ stopper = None
  /\ worker = [t \in Tasks |-> "unsent"]
  /\ batch = [t \in Tasks |-> {}] /\ rounds = [t \in Tasks |-> 0]
  /\ leads \in [Leads -> {"absent", "new"}]
  /\ spent = [stops |-> 0, crashes |-> 0, redis |-> 0]
  /\ after = [t \in Tasks |-> 0] /\ tried = [t \in Tasks |-> Untried]

---------------------------------------------------------------------------
(* The two stores.                                                         *)

ActiveRows == {t \in Tasks : row[t].status \in ACTIVE_TASK_RUN_STATUSES}

\* get_scoped_task_run(active_only=True): the youngest active row.
Youngest(S) == CHOOSE t \in S : \A u \in S :
  (CHOOSE i \in DOMAIN created : created[i] = u) <= (CHOOSE i \in DOMAIN created : created[i] = t)

\* mirror_legacy_operational_state swallows a Redis error.
MirrorAs(s) == mirror' = IF redisUp THEN s ELSE mirror

\* load_legacy_operational_state_or_idle swallows it too.
LoadLegacy == IF redisUp THEN mirror ELSE "none"

\* Mutant of should_stop_operational_task: the canonical flag is not asked for.
should_stop_legacy_only(t, treatMissing) ==
  redisUp /\ (mirror = "stopping" \/ (mirror = "none" /\ treatMissing))

should_stop_operational_task(t, treatMissing) ==
  \/ row[t].stop
  \/ redisUp /\ (mirror = "stopping" \/ (mirror = "none" /\ treatMissing))

\* Mutant of RunningRow: the row of a task that starts is written afresh.
RunningRowAfresh(r) == [status |-> "running", stop |-> FALSE]

\* mark_task_running through queue_task_run: the row may be the API's or a redelivery's.
RunningRow(r) == [r EXCEPT !.status = "running"]

SetRow(t, r) ==
  /\ row' = [row EXCEPT ![t] = r]
  /\ created' = IF t \in ToSet(created) THEN created ELSE Append(created, t)

Go(t, pc) == worker' = [worker EXCEPT ![t] = pc]

\* The workflow returns, raises or is lost: its local variables are gone.
Leave(t, pc) ==
  /\ Go(t, pc)
  /\ batch' = [batch EXCEPT ![t] = {}]
  /\ rounds' = [rounds EXCEPT ![t] = 0]
  /\ tried' = [tried EXCEPT ![t] = Untried]

---------------------------------------------------------------------------
(* POST /pipelines/batch: check, send, record; three steps with nothing    *)
(* held between them.                                                      *)

StartCheck(r) ==
  /\ request[r] = "idle"
  /\ request' = [request EXCEPT ![r] =
       IF ActiveRows # {} \/ LoadLegacy \in {"running", "stopping"} THEN "answered" ELSE "checked"]
  /\ UNCHANGED <<row, created, mirror, redisUp, stopper, worker, batch, rounds, leads, spent,
                 after, tried>>

StartDelay(r) ==
  /\ request[r] = "checked"
  /\ request' = [request EXCEPT ![r] = "sent"]
  /\ Go(r, "queued")
  /\ UNCHANGED <<row, created, mirror, redisUp, stopper, batch, rounds, leads, spent, after, tried>>

\* queue_task_run keeps the state of a worker that was faster.
StartQueue(r) ==
  /\ request[r] = "sent"
  /\ request' = [request EXCEPT ![r] = "answered"]
  /\ IF row[r].status \in TASK_PROGRESS_STATUSES
       THEN UNCHANGED <<row, created>>
       ELSE SetRow(r, [row[r] EXCEPT !.status = "queued"])
  /\ UNCHANGED <<mirror, redisUp, stopper, worker, batch, rounds, leads, spent, after, tried>>

\* task_scheduled_crawl sends the task without asking whether one runs.
ScheduledDelay(b) ==
  /\ worker[b] = "unsent"
  /\ Go(b, "queued")
  /\ UNCHANGED <<row, created, mirror, redisUp, request, stopper, batch, rounds, leads, spent,
                 after, tried>>

---------------------------------------------------------------------------
(* POST /pipelines/batch/stop.                                             *)

\* request_task_stop reads the youngest active row; without one the endpoint
\* turns to the mirror, whose key is deleted when it does not say "running".
StopRead ==
  /\ stopper = None /\ spent.stops < MaxStops
  /\ spent' = [spent EXCEPT !.stops = @ + 1]
  /\ IF ActiveRows # {}
       THEN stopper' = Youngest(ActiveRows) /\ UNCHANGED mirror
       ELSE /\ UNCHANGED stopper
            /\ MirrorAs(IF LoadLegacy \in {"running", "stopping"} THEN "stopping" ELSE "none")
  /\ UNCHANGED <<row, created, redisUp, request, worker, batch, rounds, leads, after, tried>>

StopWrite ==
  /\ stopper # None
  /\ SetRow(stopper, [status |-> "stopping", stop |-> TRUE])
  /\ stopper' = None
  /\ UNCHANGED <<mirror, redisUp, request, worker, batch, rounds, leads, spent, after, tried>>

---------------------------------------------------------------------------
(* task_batch_pipeline and run_batch_pipeline_workflow.                    *)

Begin(t) ==
  /\ worker[t] = "queued"
  /\ SetRow(t, RunningRow(row[t]))
  /\ Go(t, "top")
  /\ UNCHANGED <<mirror, redisUp, request, stopper, batch, rounds, leads, spent, after, tried>>

NewLeads == {l \in Leads : leads[l] = "new"}

\* The head of the while loop: stop, take the NEW leads, crawl, or leave.
\* Whether an active, unsaturated territory exists is not modelled.
Top(t) ==
  /\ worker[t] = "top"
  /\ \/ /\ should_stop_operational_task(t, FALSE)
        /\ Go(t, "stop") /\ UNCHANGED <<batch, rounds, mirror>>
     \/ /\ ~should_stop_operational_task(t, FALSE) /\ NewLeads # {}
        /\ batch' = [batch EXCEPT ![t] = NewLeads]
        /\ rounds' = [rounds EXCEPT ![t] = 0]
        /\ MirrorAs("running") /\ Go(t, "lead")
     \/ /\ ~should_stop_operational_task(t, FALSE) /\ NewLeads = {} /\ rounds[t] < MaxRounds
        /\ rounds' = [rounds EXCEPT ![t] = @ + 1]
        /\ MirrorAs("running") /\ Go(t, "crawl") /\ UNCHANGED batch
     \/ /\ ~should_stop_operational_task(t, FALSE) /\ NewLeads = {}
        /\ Go(t, "finish") /\ UNCHANGED <<batch, rounds, mirror>>
  /\ UNCHANGED <<row, created, redisUp, request, stopper, leads, spent, after, tried>>

\* The inline crawl raises, finds nothing NEW, or finds leads.
Crawl(t) ==
  /\ worker[t] = "crawl"
  /\ MirrorAs("running")
  /\ \/ Go(t, "top") /\ UNCHANGED <<leads, batch, rounds>>
     \/ \E found \in SUBSET {l \in Leads : leads[l] = "absent"} :
          /\ leads' = [l \in Leads |-> IF l \in found THEN "new" ELSE leads[l]]
          /\ LET new == NewLeads \cup found IN
             /\ Go(t, IF new = {} THEN "finish" ELSE "lead")
             /\ batch' = [batch EXCEPT ![t] = new]
             /\ rounds' = [rounds EXCEPT ![t] = IF new = {} THEN @ ELSE 0]
  /\ UNCHANGED <<row, created, redisUp, request, stopper, spent, after, tried>>

NextLead(t) ==
  /\ worker[t] = "lead"
  /\ Go(t, IF batch[t] = {} THEN "top"
           ELSE IF should_stop_operational_task(t, TRUE) THEN "stop" ELSE "begin")
  /\ UNCHANGED <<row, created, mirror, redisUp, request, stopper, batch, rounds, leads, spent,
                 after, tried>>

\* sync_progress(current_step="enrichment") mirrors "running" over whatever is there.
BeginLead(t) ==
  /\ worker[t] = "begin"
  /\ \E l \in batch[t] :
       /\ batch' = [batch EXCEPT ![t] = @ \ {l}]
       /\ tried' = [tried EXCEPT ![t] = [begun |-> @.begun \cup {l}, again |-> @.again \/ l \in @.begun]]
       /\ leads' \in {leads, [leads EXCEPT ![l] = "past"]}   \* raised before, or passed, the commit
  /\ MirrorAs("running")
  /\ after' = [after EXCEPT ![t] = IF row[t].stop /\ @ < 2 THEN @ + 1 ELSE @]
  /\ Go(t, "lead")
  /\ UNCHANGED <<row, created, redisUp, request, stopper, rounds, spent>>

\* stop_pipeline: the mirror first, then the row.
StopMirror(t) ==
  /\ worker[t] = "stop" /\ MirrorAs("stopped") /\ Go(t, "stopped")
  /\ UNCHANGED <<row, created, redisUp, request, stopper, batch, rounds, leads, spent, after, tried>>

StopPersist(t) ==
  /\ worker[t] = "stopped" /\ Leave(t, "ended")
  /\ SetRow(t, [row[t] EXCEPT !.status = "stopped"])
  /\ UNCHANGED <<mirror, redisUp, request, stopper, leads, spent, after>>

FinishMirror(t) ==
  /\ worker[t] = "finish" /\ MirrorAs("done") /\ Go(t, "finished")
  /\ UNCHANGED <<row, created, redisUp, request, stopper, batch, rounds, leads, spent, after, tried>>

FinishPersist(t) ==
  /\ worker[t] = "finished" /\ Leave(t, "ended")
  /\ SetRow(t, [status |-> "succeeded", stop |-> FALSE])
  /\ after' = [after EXCEPT ![t] = 0]
  /\ UNCHANGED <<mirror, redisUp, request, stopper, leads, spent>>

\* An exception outside the per-lead handler; max_retries is 0.
Fail(t) ==
  /\ worker[t] \in {"top", "crawl"} /\ Leave(t, "ended")
  /\ MirrorAs("error")
  /\ SetRow(t, [row[t] EXCEPT !.status = "failed"])
  /\ UNCHANGED <<redisUp, request, stopper, leads, spent, after>>

\* acks_late and reject_on_worker_lost: a lost worker's message is delivered again.
Crash(t) ==
  /\ worker[t] \notin Idle /\ spent.crashes < MaxCrashes
  /\ spent' = [spent EXCEPT !.crashes = @ + 1]
  /\ Leave(t, "queued")
  /\ UNCHANGED <<row, created, mirror, redisUp, request, stopper, leads, after>>

---------------------------------------------------------------------------
(* The janitor and Redis.                                                  *)

\* Mutant of Swept: a row that a stop request touched is left alone.
SweptNotStopping == ACTIVE_TASK_RUN_STATUSES \ {"stopping"}

\* ACTIVE_STATUSES of the janitor.
Swept == ACTIVE_TASK_RUN_STATUSES

\* sweep_stale_tasks fails a row without an update for ten minutes, which a
\* live worker reaches too (one lead may take longer).
Sweep(t) ==
  /\ row[t].status \in Swept
  /\ SetRow(t, [row[t] EXCEPT !.status = "failed"])
  /\ UNCHANGED <<mirror, redisUp, request, stopper, worker, batch, rounds, leads, spent, after, tried>>

RedisFault ==
  /\ spent.redis < MaxRedis
  /\ spent' = [spent EXCEPT !.redis = @ + 1]
  /\ \/ mirror # "none" /\ mirror' = "none" /\ UNCHANGED redisUp    \* the key expires
     \/ redisUp' = FALSE /\ redisUp /\ UNCHANGED mirror
  /\ UNCHANGED <<row, created, request, stopper, worker, batch, rounds, leads, after, tried>>

RedisRecover ==
  /\ ~redisUp /\ redisUp' = TRUE
  /\ UNCHANGED <<row, created, mirror, request, stopper, worker, batch, rounds, leads, spent,
                 after, tried>>

---------------------------------------------------------------------------
WorkerStep(t) ==
  \/ Begin(t) \/ Top(t) \/ Crawl(t) \/ NextLead(t) \/ BeginLead(t)
  \/ StopMirror(t) \/ StopPersist(t) \/ FinishMirror(t) \/ FinishPersist(t)

Next ==
  \/ \E r \in Requests : StartCheck(r) \/ StartDelay(r) \/ StartQueue(r)
  \/ \E b \in Beats : ScheduledDelay(b)
  \/ StopRead \/ StopWrite
  \/ \E t \in Tasks : WorkerStep(t) \/ Fail(t) \/ Crash(t) \/ Sweep(t)
  \/ RedisFault \/ RedisRecover

Spec == Init /\ [][Next]_vars

\* Celery keeps running a delivered task, a request that was received is
\* carried through, and beat keeps scheduling the janitor.
Fairness ==
  /\ \A t \in Tasks : WF_vars(WorkerStep(t)) /\ WF_vars(Sweep(t))
  /\ WF_vars(StopWrite)
  /\ \A r \in Requests : WF_vars(StartDelay(r)) /\ WF_vars(StartQueue(r))

FairSpec == Spec /\ Fairness

---------------------------------------------------------------------------
(* Once a stop is committed, the batch begins at most the one lead whose   *)
(* check it had already passed (stop_batch_pipeline: "stop after the       *)
(* current lead"), across crashes, redeliveries and Redis faults.          *)
StopsAfterCurrentLead == \A t \in Tasks : after[t] <= 1

(* A task whose row carries a stop request ends, even one that would loop  *)
(* over a failing lead forever, and even when its worker is lost.          *)
StopEnds ==
  \A t \in Tasks : (row[t].stop /\ worker[t] # "unsent") ~> (worker[t] = "ended")

(* No row blocks POST /pipelines/batch for good: a row that is active      *)
(* although its task ended (request_task_stop wrote over a finished row)   *)
(* is failed by the janitor.                                               *)
StaleRowReleased ==
  \A t \in Tasks : (worker[t] = "ended" /\ t \in ActiveRows) ~> (t \notin ActiveRows)

(* Two batch pipelines never run at the same time, which is what the       *)
(* answer "ya esta corriendo" of start_batch_pipeline is for.              *)
OneBatchAtATime == \A t, u \in Tasks : worker[t] \notin Idle /\ worker[u] \notin Idle => t = u

(* One execution of the batch begins each lead at most once.  The loop     *)
(* asks for NEW leads again after each pass, and a lead whose processing   *)
(* raised is still NEW.                                                    *)
LeadTriedOnce == \A t \in Tasks : ~tried[t].again
===========================================================================

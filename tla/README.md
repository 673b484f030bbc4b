# Scouter, modelled in TLA+

Scouter finds businesses ("leads"), enriches, scores and analyses them with
LLMs, writes outreach drafts and mails them. It is a FastAPI application, a set
of Celery tasks over Redis and a PostgreSQL database that everything shares
through SQLAlchemy sessions. This directory holds TLA+ models of its core, the
TLC configurations that check them on small instances, and proofs for TLAPS.

What makes the program hard is not its arithmetic but its transactions. All
coordination between HTTP requests, Celery tasks and the periodic sweeps goes
through database rows; sessions are created with `autoflush=False,
expire_on_commit=False` (`app/db/session.py`), are closed and never committed by
`get_db`, and messages are redelivered after a crash (`task_acks_late`,
`task_reject_on_worker_lost`). Every model here keeps committed state and
per-session state apart.

## 1. Inventory

| Component | State | Operations | Interacts through | What makes it correct |
|---|---|---|---|---|
| Outreach sending (`services/outreach`, `workflows/outreach_draft_generation.py`, `api/v1/outreach.py`) | `OutreachDraft`, `OutreachDelivery`, `OutboundConversation`, lead status | generate, auto-approve, review, send, record outcome | SMTP server; a partial unique index on deliveries | one mail per draft; SENT means mailed; verdicts and outcomes persist |
| Drafts of a lead and the auto pipeline beat task | active drafts per channel | check, generate, automate, dispatch new leads | several tasks and a REST request per lead | no draft beside an active one, but for overlapping tasks |
| Lead pipeline tasks (`workers/pipeline_tasks.py`, `research_tasks.py`, `brief_tasks.py`) | lead columns, reports, briefs, drafts | dispatch, enrich, score, analyse, research, brief, review, draft | each task `.delay()`s the next; the `PipelineRun` row | work done once; a step builds on its predecessor; no draft around the review; runs end |
| Task tracking (`services/pipeline/task_tracking_service.py`) | `PipelineRun`, `TaskRun` | create, mark running/succeeded/retrying/failed, stop | the session of the calling task | a status says what happened |
| Pipeline context (`context_service.py`) | `PipelineRun.step_context_json` | append, read | read-modify-write of one JSON column | no step loses another's key |
| Janitor (`workers/janitor/`) | none of its own | stale sweep, auto-resume, dead letter drain, territory sweep | Celery beat; the same rows | every run ends; what failed is retried or resumed |
| Operational tasks (`operational_task_service.py`, `workflows/batch_pipeline.py`, rescore, crawl) | scoped `TaskRun`, legacy Redis status | start, stop, progress | REST, Redis, worker | one batch at a time; a stop request stops it |
| Territory crawl (`workflows/territory_crawl.py`, `crawlers/`) | `Territory` statistics, leads | crawl cities, filter, deduplicate, saturate | janitor, overlapping crawls | a business is stored once; what is reported is stored; saturation ends |
| Leads and scoring (`services/leads`, `scoring/`) | `Lead`, signals, screenshot, events, outcome snapshot | enrich, score, rescore, change status | pipeline steps, REST, the agent, several at once | signals of one analysis; a snapshot of the first outcome |
| Follow-up (`followup_service.py`) | `updated_at`, dedup keys | periodic check | everything that touches a lead | neither too early nor too late |
| Reply assistant (`services/inbox/reply_*`) | reply draft, review, `ReplyAssistantSend` | generate, edit, review, send | SMTP server, Celery review task | one mail per reply; a rejected text is not sent, but for mixed verdicts |
| Inbound mail (`inbound_mail_service.py`, `thread_matcher.py`) | messages, threads | list, deduplicate, match, classify | IMAP, deliveries, leads | every mail stored, once, at the surest lead |
| Closer (`closer_service.py`, `ai_office_service.py`) | one conversation's message list | reply, send, take over | LLM, WhatsApp | answers follow their question; a takeover holds |
| Notifications | `Notification` with `dedup_key` | emit, dispatch, mark | the caller's session, three channels | one row per event; the caller keeps its work |
| Mote agent (`agent/`) | conversations, messages, tool calls | turns with a tool loop | LLM, the tool registry | nothing irrevocable without a confirmation; what tools did is recorded |
| Operational settings | one row | PATCH, runtime mode | concurrent requests | no lost update |
| Credentials and setup | credential rows, test results, `SECRET_KEY` | store, encrypt, test, checklist, webhook registration | SMTP, Telegram, Kapso | what is shown is true |
| Batch reviews and weekly report | reviews, reports | threshold check, synthesis, validation, commit | LLM | reviews and reports are kept |
| Outcome analysis | outcome snapshots, corrections | rates, advice | leads | advice follows the win rates in spite of rounding |
| Growth cycle | territories, decision log, snapshots | decide, apply, log, snapshot | LLM, operator's edits | an added city stays and is logged; snapshots are all stored or none |
| LLM client and cost gate | invocation rows | call, retry, parse, repair, record; sum of costs | Ollama | a fallback is marked; the budget holds |
| Scout agent, dashboards, scripts | little | loops around external services, queries | | outside (section 7) |

`PROJECT.json` lists the components with their sources and, under `hazards`,
the places where interleavings, crashes, redelivery, stale reads or forgotten
commits bite hardest.

## 2. Modules

| Module | What it is |
|---|---|
| `OutreachSend` | sending an approved draft by e-mail: every caller of `send_draft`, crashes, lost SMTP replies |
| `MailOnce` | the abstract promise: one slot per draft |
| `OutreachSendProofs` | proofs about `OutreachSend`, among them that it implements `MailOnce` |
| `LeadPipeline` | one pipeline run of one lead: eight Celery tasks, the run row, faults, `_track_failure`, the janitor |
| `Drafts` | the drafts of one lead: draft tasks, the synchronous request, the beat task, automation |
| `Enrichment`, `LeadLifecycle`, `FollowUp` | a lead's analysis and score; its status as several sessions write it; the silent-lead check |
| `BatchPipeline`, `TerritoryCrawl` | long-running operational tasks with stop requests, Redis mirror, janitor |
| `ReplyAssistant`, `InboundMail`, `ThreadMatch`, `Closer` | conversations: assisted replies, reading the mailbox, matching, WhatsApp |
| `Notifications`, `AgentTools`, `MoteAgent`, `OperationalSettings`, `Credentials` | what the operator works with |
| `BatchReviews`, `OutcomeAnalysis`, `Growth`, `LLMClient` | background work and the model's client |
| `Conversations`, `LeadJourney`, `Office`, `Background` | compositions of the modules above, with the properties of their runs, see 2.8 |
| `MCOutreachSend`, `MCLeadPipeline` | small instances of one module each |
| `MCConversations`, `MCLeads`, `MCOffice`, `MCBackground` | small instances of the compositions |
| `MCProgress` | small instances of three modules for their liveness |
| `LeadPipelineProofs` | proofs about `LeadPipeline` |
| `ConversationProofs`, `LeadsProofs`, `OfficeProofs`, `BackgroundProofs` | proofs about the compositions |
| `FiniteSums` | lemmas about sums over finite sets, for the counts and weights in the other proofs |

Operators that start with the comment "Mutant of" are not part of a
specification: each is the form a definition would take with a plausible bug,
used to show that a property notices it.

### 2.1 OutreachSend

Variables are committed database state (`draft`, `lead`, `delivery`, `conv`,
`suppressed`), the mail server's view (`accepted`), the position of each request
(`pc`, `req`), and what callers were told (`answer`, `review`). What a session
has flushed but not committed is implied by `pc[s]` and vanishes with it.

Three kinds of request reach `send_draft`, and they differ in who commits after
it: the REST endpoint (nobody), the batch pipeline (nobody), and
`task_generate_draft` (`tracked_task_step`). `GenerateDraft`, `LeaveForReview`,
`AutoApprove` and `AutoSendDraft` are `run_outreach_draft_automation`;
`SendCheck`/`SendRefused` are the checks of `send_draft`, which lock nothing;
`InsertDelivery`/`InsertConflict` are the committed insert of the SENDING row and
the partial unique index; `SmtpAccept`, `SmtpReject`, `SmtpReplyLost` are the
dialogue; `MarkFailed` and the `Finish...` actions are what each caller does with
the outcome. `Crash` strikes anywhere. The five minute cooldown is `Elapse`: a
row becomes old at any time after it is written.

Abstracted: texts, provider settings (a request may be refused for them at any
time), notifications, logs. A draft's lead is its own. `rejected` is not a
committed draft status here because no committing caller writes it.

### 2.2 MailOnce

Per draft one slot that is free, busy or sent. An attempt occupies it, hands over
at most one message, then settles or releases it. An attempt that never ends
keeps the slot: the code prefers no mail to two, and indeed a SENDING row left by
a crash is never recovered on this path. `ReplyAssistant` implements `MailOnce` too, with a
flushed row in the place of a committed one: there the slot is released by the commit of a
FAILED row, and also when the session dies, which is why a mail may go unrecorded.

### 2.3 LeadPipeline

`run` is the committed `PipelineRun` row, `row` the version of the session that
holds its row lock, `lock` that session. `task` holds the messages in flight; a
slot is reused when its message is acknowledged. `mixed` is history: SQLAlchemy
UPDATEs only the columns that differ from the row the session read, so an UPDATE
over a row that changed in between can leave a combination of status, step and
error that no task meant; `mixed` says that this has happened. The path of a task is

    queued -> mark -> guard -> work -> report (-> write) -> commit

* `Deliver` and `MarkRunning`: `mark_task_running` reads the run and UPDATEs the
  columns that differ. This UPDATE takes the row lock, which is held until the
  session's next commit; it is the only thing that orders the tasks of a run. If no column
  differs there is no UPDATE and no lock, and `Flush` says so.
* `Guard`: the idempotency guards, on committed data.
* `DispatchWork`, `EnrichWork`, `ScoreWork`, `ResearchWork`, `BriefWork` only flush
  their result; `ScoutCommit`, `ResearchCommit`, `AnalysisCommit`, `ReviewCommit`,
  `DraftCommit` commit in the middle of the step and so release the row lock.
* `ReportRun` (lock still held) or `ReadRun`, `WriteRun` (lock lost): context and
  status are written, and the successor is sent (`Chain`) inside the transaction.
  A `.delay()` that raises is caught in three places (`CaughtSend`, `Fallback`).
* `CommitStep`: `tracked_task_step` commits; the message is acknowledged.
* A draft task ends in `selfblock`: it updates the run through a second session
  that waits for the lock of the first, until `TimeLimit`.

Faults, bounded by `MaxFaults`: the worker dies anywhere (`WorkerLost`) or between
commit and acknowledgement (`CommitUnacked`), both of which redeliver; the step
raises (`StepRaises`, then `TrackFailure` with retry or dead letter); the soft
limit (`SoftTimeLimit`, whose failure mark is not committed); the broker refuses a
message. `SweepRead`/`SweepCommit` are the janitor: a run may be stale whenever it
looks, because a message may wait longer than the threshold in its queue; its
UPDATE waits for the lock and overwrites what was committed since.
`DrainDeadLetters` is the hourly drain.

Abstracted: what steps compute, TaskRun statuses other than "the row is
committed", finished_at, time, notifications, the order of `.delay()` and the
flush of the status inside one transaction (other sessions see neither before the
commit except through the message), and other runs of the same lead. The manual
resume endpoint changes nothing in this code base (it looks its task up in the
same empty module as the janitor and answers 500), so it is no action.

### 2.4 Leads

* `Drafts`: `Check` reads the active drafts (`scalar_one_or_none`, which raises on
  two), `CommitDraft` stores the e-mail and WhatsApp drafts of one transaction,
  `Rollback` is the refused e-mail that takes the WhatsApp draft with it,
  `Automation` approves or sends, `Retry` is Celery's. `Workers` says how many
  draft tasks the llm worker runs at a time (the compose file says two);
  `generate_draft` is the synchronous endpoint. A draft remembers who wrote it (`by`) and
  how many drafts there were at its check (`saw`).
* `Enrichment`: `lead` is the committed row, `work[e]` what session `e` has read of it
  and would write; several sessions are open at once (the general worker runs three tasks,
  a lead may be dispatched twice). `Open` reads the row and, unlocked, its signals;
  `enrich_lead` deletes the signals the session has read and adds those of its analysis;
  `Flush` writes the columns that differ from what was read over the row as it is now, and
  takes its lock (`Merged`); `OpenForScore` and `score_lead` are the scoring step. `Commit`
  is the Celery step's, `Rollback` that of an error and of the REST endpoints.
  `overlapped` is history: the session that stored the signals had read the old ones before
  another session replaced them (`stale`). A page and a
  business are records of the facts `enrichment_service.py` and `rules.py` look at;
  `compute_score` is the sum of the weights with the caps of the code. The
  screenshot file is on `disk` at once, whatever becomes of the transaction.
* `LeadLifecycle`: a session reads the row (`PatchRead`, `StepRead`) and writes
  later (`PatchWrite`, `PatchFails`, `StepWrite`), with the event and
  `capture_outcome_snapshot`; `task_rescore_all` scores and is closed uncommitted.
* `FollowUp`: days since the contact and since `updated_at` of each lead, the check
  between its query and its commit, and everything that touches the row.

### 2.5 Operational tasks

* `BatchPipeline`: `row` is the canonical `TaskRun`, `mirror` the Redis payload, written one
  after the other. `StartCheck`/`StartDelay`/`StartQueue` are the endpoint's look,
  send and insert, `StopRead`/`StopWrite` the stop endpoint, `WorkerStep` the loop of
  `run_batch_pipeline_workflow` (crawl if no lead, per-lead stop check, progress,
  end), `Crash` a lost worker whose message is delivered again, `Sweep` the janitor,
  `RedisFault` an outage or the expiry of the key.
* `TerritoryCrawl`: `City` takes the filtered listing, `Lookup`, `Create`
  (create_lead's own look-up, which may return the lead another crawl has committed
  meanwhile, and then counts as created) and `Insert` (with the IntegrityError that leaves
  the session unusable) one business; `before` is the crawls that had ended when this one
  began. `Finish` the saturation
  arithmetic in the order the code has it; `Age` and the sweep move time.

### 2.6 Conversations and the operator's side

* `ReplyAssistant`: draft, review and sends are committed rows, a clock stamps texts
  and verdicts. A review request resets the row, its task reads, asks the model and writes
  a verdict later; several run at once, and each UPDATE carries the columns that differ
  from what its session read (`Changed`, `Updated`), so two of them may leave a row that is
  neither's: `mixed` says that this has happened, `ruling` is the last verdict as it was
  meant. A send reads, inserts under the unique index, talks to SMTP and commits once, at
  the end; so a crash forgets an attempt whose mail is out.
* `InboundMail`: each sync lists the newest `SyncLimit` mails, and per mail looks up
  the dedupe key, inserts, commits and classifies; a classification is only flushed.
* `ThreadMatch`: `match_delivery`, `ThreadKey` and `Merge` are functions of a mail's
  headers; deliveries, replies and mails arrive in any order. By subject it looks at the
  `LookedAt` newest mails to the address (ten in the code), and only at those of the last 30
  days: `Age` lets the oldest deliveries leave that window.
* `Closer`: a reply request keeps the message list it read before the model call
  and writes it whole; sending checks the takeover first.
* `Notifications`: a caller works, emits and commits; `create_notification`'s dedup
  guard, rate limit, flush under the unique index (with the rollback of a lost
  race), the dispatch before the commit, the janitor's alarms, status requests.
* `AgentTools` is the registry with what each tool does: read, flush, commit, hand
  something to the outside, or flush and alert the operator before the commit
  ("alerts": `classify_inbound_message` and `generate_commercial_brief`, through
  create_notification); `left` is what has left the process. `MoteAgent` is `run_agent_turn`: stream, tool calls in order, confirmation, the
  commit in the middle and at the end, crash, audit.
* `OperationalSettings`: SQLAlchemy writes the attributes that differ from what the
  session read (`Written`); the singleton may be inserted twice.
* `Credentials`: a secret is a sequence of its value and the keys it was encrypted
  with, so `decrypt_safe` and `encrypt_if_needed` are what they do; a test reads the
  configuration, connects, and records its outcome later; readiness is computed as
  in `setup_service.py`.

### 2.7 Background

* `BatchReviews`: a review lives in its task's session until a commit that the code
  does not make; the weekly report commits and then notifies.
* `OutcomeAnalysis`: `Rates` is what Python's `round(x, 2)` may yield, as a percentage: the
  nearest, and for a half either neighbour, as the double decides; so does a difference of
  exactly the threshold. The queries of one report are read as one: a snapshot committed
  between them would move the rates by that one snapshot.
* `Growth`: state, decision, update and log entry are steps of one transaction;
  the operator and the crawl change territories in between (`grown` is what cycles added and
  nobody has taken out). A snapshot task takes one territory after the other in one
  transaction; a query that fails aborts it in PostgreSQL (`MetricsFail`), the handler goes
  on, every later territory fails too, and the commit stores nothing.
* `LLMClient`: a call with retries, parse, repair or fallback, its record, and the
  sum of recorded costs in `task_full_pipeline`.

### 2.8 Groups

`Conversations` (ReplyAssistant, InboundMail, ThreadMatch, Closer), `LeadJourney`
(LeadLifecycle, FollowUp, Enrichment, Drafts), `Office` (MoteAgent, Notifications,
OperationalSettings, Credentials) and `Background` (Growth, BatchPipeline,
TerritoryCrawl, BatchReviews, OutcomeAnalysis, LLMClient) put components side by
side: they extend one module, declare the variables of the others, instantiate
those, and define the properties the runs check and the proof modules prove. The
components of one group share no variable, so a joint behaviour is an interleaving of
behaviours of the parts and a property of one part depends on its own moves
only: the MC modules give the constants values and let one part move (`part`, chosen
initially) while the others rest in one initial state. `TypesOK` names the type
invariant of the part that moves. Where two sets of bounds ask different questions
(two turns at once, and one long turn) the MC module has a second instance of the
component, or restricts its steps to two races in turn (`SendsRace`, `ReviewsRace`). `MCProgress` does the same for liveness.

Where components do interact in the code, the interaction is inside a module: the
janitor and the tasks in `LeadPipeline` and `BatchPipeline`, senders and reviewers in
`ReplyAssistant`, the emitter and its caller in `Notifications`.

## 3. Runs

| Run | Shows |
|---|---|
| `outreach_send` | three requests of any kind race for one draft: `NoDoubleSend`, `SentMeansMailed`, and the refinement `ImplementsMailOnce` |
| `lead_pipeline` | low lane with one fault: `WorkOncePerRun`, `PredecessorCommitted`, `ContextKept` (no step's key is lost while nothing fails), and `EventuallySettled` |
| `progress` | liveness with crashes and Redis faults: `EveryMailStored` (unless the limit of newer mails arrives first), `StopEnds`, `StaleRowReleased`, `SaturationClears` |
| `conversations` | `OneReplyUnlessUnrecorded` (a second mail only after an attempt that left no record), `ClearedOnlyByMixedReviews` (a rejected text passes the gate only over a row two writers have mixed), `ReplyLoggedOnce`, `MatchIsSurest` and `ThreadLeadIsDeliveryLead`, `AnswerFollowsQuestion`, `TakeoverSticks` |
| `lead_pipeline_high` | high lane (research, brief and review before the draft) with two faults: `ReviewedBeforeDraft` |
| `leads` | `OutcomeSnapshots`, `SignalsOfOneAnalysis` (unless analyses overlapped), `DuplicatesOverlap` (two active drafts of a channel come of overlapping tasks or a request, never of a retry), `NotTooEarly` |
| `office` | `ToolsAccountable` (without a confirmation only alerts leave, each of a change that is or is to be committed unless its turn crashed; no committed change of a tool without its record), `NotifiedOnce`, `WorkLostToRaceOnly`, `OthersKept`, `ShownIsTrue` |
| `background` | `GrownCitiesKept`, `SnapshotsAllOrNone`, `StopsAfterCurrentLead` with a second batch beside it, `CreatedTwiceOverlaps` (only overlapping crawls report one business), `AdviceEarned` (within a point of its threshold, either way), `FallbackMarked` |
| `outreach_rest_persist` | violated: a send answered "sent" is not committed |
| `outreach_suppression` | violated: a lead suppressed after generation is mailed |
| `pipeline_draft_blocks` | violated: the draft task blocks on its own row lock, so no run ends `succeeded` |
| `closer_takeover` | violated: Mote sends after the operator took over |

The violated runs each check one statement the repository makes (quoted in
`PROJECT.json` under `findings`) against what the code does; section 6 has the
other promises that TLC refutes.

`NoDoubleSend` needs care: two messages of one draft may both be taken if the
server's reply to the first was lost, since that attempt is recorded FAILED. The
property says this is the only way. `PredecessorCommitted` likewise excepts
predecessors whose transaction was lost after they had chained (`lost`), and
`ReviewedBeforeDraft` leads for which the research task could not be sent
(`unsent`): there the code deliberately goes straight to the draft. `WorkOncePerRun` and
`ReviewedBeforeDraft` are stated up to the first mixed UPDATE (`mixed`): with
`MaxTasks = 3` and `MaxFaults = 2` TLC shows why. When the janitor and `_track_failure`
commit the run between another task's read of it and its UPDATE, the row left can be
exactly the one that `mark_task_running` of the retried enrichment is about to write; it
then changes no column, emits no UPDATE, takes no lock, and the step is worked beside a
second delivery of the same step. The runs with one fault never met this; the attempt to
find an inductive invariant did. `OneReplyUnlessUnrecorded`
allows one mail more per attempt of which no row was kept (`Unrecorded`), and
`WorkLostToRaceOnly` says what the caller of a notification may lose and why.

Four properties of the groups are about races the code does not exclude: two reviews of one
answer, two enrichments of a lead, two draft tasks, two crawls. What the code or its documents
promise fails in each of them (`RejectedTextNotCleared`, `OldSignalsCleared`,
`OneActivePerChannel`, `CreatedOnce`, section 6). The runs contain these races, and the
properties say what is left: nothing but such a race breaks the promise - no crash, retry,
rollback or sequence of requests that do not overlap.

### Bounds

* `outreach_send`: one draft (drafts share no state), three requests, so that two
  race while a third comes later; failure limit 2, so that the limit and the
  cooldown are both met.
* `lead_pipeline`: three messages in flight. Each fault adds at most one copy of
  the chain, so two copies and one spare slot; with four slots (838,021 states)
  TLC finds no error either. A task waits to chain while all slots are taken:
  `MaxTasks` is a bound on the queue, and with fewer slots a chain may stall.
  `MaxRetries` is 1 (the code has 1 to 3): the first failure retries, the second
  writes the dead letter.
* `lead_pipeline_high`: two messages in flight and two faults (safety only, so a
  stalled chain does no harm).
* `progress`: the beat's sync and a requested one with three mails and a limit of two,
  so that the limit is exceeded and a sync dies on a mail the other has stored; one batch
  request with two stop requests, one crash and one Redis fault; two crawls of two cities,
  one with a business abroad and more businesses than the target.
* `conversations`: two sends beside one review, or two reviews beside one send that asks at
  the gate, with three clock ticks; two syncs (beat and
  REST) with one crash; three deliveries to one address, two of them with one subject, of which
  a search looks at two, with three mails, one reference each, and one assisted reply; three reply and two send requests of the closer.
* `leads`: two leads, two status requests and one step; two sessions that enrich or score one
  lead, with three analyses and one screenshot, pages that cannot be fetched, with few or with
  all but one fault, and the businesses at the corners of `compute_score`; three draft tasks, two
  at a time as in the compose file, beside one synchronous request; two leads followed up over
  three days with a wait of one.
* `office`: two turns with one call each, one of which alerts and one of which needs a
  confirmation; one turn of two loops with two calls each, an unknown tool among them;
  two racing callers of three kinds of event, and one caller of every kind with the
  janitor and a status request; three settings requests; SMTP and WhatsApp, the
  Telegram bot and the two integration keys as three instances of `Credentials`.
* `background`: two territories, two cycles, one edit and one retry; a batch request
  beside a batch of the beat; two overlapping crawls; one threshold check and one manual
  review; three weekly reports; four outcomes in two industries with up to two copies of a signal
  per lead and three corrections of two categories, and up to eight outcomes that differ in
  their signals or in their industry only: with seven, respectively eight, rounding does turn
  an advice, and `AdviceEarned` fails if any of its four bounds is moved by a point;
  two calls of two attempts each.

Deadlock checking is off: settled runs and finished requests stop.

### Fairness

`LeadPipeline` assumes weak fairness of the commit of the API request, of the steps
of each task (Celery delivers every queued message, the hard limit ends a blocked
one), and of the janitor (beat runs it every five minutes). No fairness on faults,
on the intermediate Scout commit, or on the dead letter drain. A task that waits
for the row lock is disabled while it waits; weak fairness is enough because the
holder always moves on.

`InboundMail`: weak fairness of a running sync and of the beat task's start, strong
fairness of the listing, since the mailbox may be unreachable now and then but not
for ever. `BatchPipeline`: workers, the janitor's sweep and requests already received
move on (weak); no fairness on Redis recovering. `TerritoryCrawl`: time passes, the
sweep is scheduled, workers run (weak).

## 4. Proofs

Every safety invariant and action property that a passing run checks, and the refinement of
`MailOnce` by `OutreachSend`, is also a theorem: TLC shows it on the instance of the run,
TLAPS for every value of the constants. (`ReplyIsMailedOnce` is a theorem without a run; TLC
finds no error with `ImplementsMailOnce` as `PROPERTY` of `ReplyAssistant` with three send
requests, no review and `MaxTime = 3`.) A theorem about a component that a group instantiates speaks of
that instance (`Notes!Spec => []NotifiedOnce`); `TypesCorrect` of each group puts the
components' type theorems together into the `TypesOK` of its run.

### Hypotheses

Constants carry assumptions where they are declared: the bounds are numbers, followed by
what the code fixes (`LeadOf` gives each delivery a lead; the cities of a crawl are places
the listing knows). TLC evaluates all of them. A theorem that needs more says so in
its statement:

| Hypothesis | Theorems | What it says |
|---|---|---|
| `Emitters` | notifications | callers emit the kinds of `notification_emitter.py`, the rate guard lets one through |
| `NoteBounds`, `Setup`, `Attempts`, `BoundedEvidence`, `BatchBounds` | type theorems and some others of the module | the model's bounds are numbers, channels, keys and severities those of the code |
| `"web" \in ChatChannels` | `MoteTypes` | the channel a web turn opens is a channel |
| `AdviceWorld` | `AdviceIsEarned` | finitely many signals and industries; copies of a signal and outcomes are bounded by numbers, any; a group has a member |
| `Window \in Nat` | `AdviceIsEarned` | the window of corrections is a length |

### OutreachSendProofs

`NoDoubleSendHolds`, `SentMeansMailedHolds` and `Refinement`. The inductive invariant
`IInv` adds to the type invariant two things the safety
properties do not say by themselves. `PlaceOK` ties a request's place to its
delivery row and to the mail server: before the insert there is no row, during the
dialogue the row is SENDING and the message not yet taken, a request without a row
was never taken, a SENT row was. `OneActive` is what the partial unique index
guarantees: two active rows of one draft are the same row. `NoDoubleSend` then
follows: two taken messages have rows, and if neither is FAILED both are active.
`SentMeansMailed` is a conjunct because `FinishAccepted` establishes it and the
other actions must not lower a SENT delivery, which `PlaceOK` excludes.

The refinement maps a draft's rows to its slot (SENT, else busy if one is SENDING,
else free) and `taken` to "an active row's message was taken". Each action is a
step of `MailOnce` (InsertDelivery occupies, SmtpAccept and SmtpReplyLost hand over,
MarkFailed releases, a committed FinishAccepted settles) or leaves both unchanged.

### LeadPipelineProofs

`WorkDoneOnce`, `StepsInOrder` and `DraftsReviewed` hold for any number of tasks, retries and
faults. Three layers of the invariant `IInv`:

* `LockOK` and `ResultOK` say in which places a session can hold the row lock and which
  results its place allows; they hold whatever happens.
* `OrderOK(p)`: until the work of `p` is committed or lost, every successor waits in front
  of the row lock of the task that sent it (`Sending`), and neither the run row nor any
  copy of it names a later step. `StepsInOrder` follows without any exception for mixed rows.
* `Protected`, as long as no UPDATE has mixed two reports: a mark that is found already made
  belongs to work that is done (`MarksOK`), so a task that works holds the row lock
  (`Exclusive`), so the guard it passed is still true when it commits (`WorksCounted`), and
  every way to the draft leads past the reviewer (`ApprovedOK`).

The proof needed `mixed`: without it the invariant is not inductive, and TLC confirmed that
the unrestricted property fails (section 3).

`ContextNotDropped` has an invariant of its own, `LinkedOK`, about the time before the first
fault: the chain is one task at a time (`Single`), the run names no step after that task's
(`UpTo`), so its mark differs from every row it can read (`Unmarked`) and it takes the row
lock; after that nobody else can commit the run between its read and its write.

### ConversationProofs

* `OneAnswer` counts: each mail taken is that of the one row the unique index allows, or of an
  attempt that left no row. `ReplyIsMailedOnce` is the refinement of `MailOnce`: a request
  that holds a row holds the slot alone (`HoldersAlone`), and each change of the rows and the
  mail server is one of four steps of the slot (`SlotSteps`). `RejectedStaysBlocked` rests on the order of the time stamps
  and on the row saying what the last verdict did while no writers have mixed their columns
  (`StampsOK`), since the gate compares nothing else.
* `LoggedOnce`: at most one sync at a time has flushed a mail's row and not committed it
  (`OneInserter`, the unique `dedupe_key`), and then no row of that mail is stored (`InHandOK`).
* `AnswersInPlace` and `TakeoverFinal`: whichever list a request read and wherever it
  commits, each list it read, and so each it may write, has every answer behind its question.
* `SurestMatch` goes through `match_delivery` rung by rung; on the last one the newest delivery
  with the subject is found unless `LookedAt` newer ones lie above it (`Crowded`); `ThreadsAgree` through
  `ThreadKey`.

### LeadsProofs

* `SnapshotsTrue`: a session that read a lead as open may find it closed when it writes; the
  unique snapshot row is what makes the first outcome stay.
* `OneAnalysisCommitted`: a flushed session holds the lock of the row, so there is one of them
  (`SignalsInv`); its row has the signals of one analysis or it has read signals that were
  replaced since.
* `TypesCorrect` contains that `compute_score` stays within 0..100 (`ScoreRange`); the sum of the
  weights is bounded one signal type at a time (`WeightSum`).
* `DraftsOnlyOverlap`: while a task waits for the model, every active draft is newer than its
  check, and none of its own drafts is (`CheckedInv`).
* `FollowUpNotEarly`: the row of a contacted lead is never older than the contact.

### OfficeProofs

* `ToolsAccounted`: a turn's session holds a tool's change only together with its record and
  message, and all three are committed or rolled back together; a tool whose effect leaves
  the process asks for a confirmation unless it only alerts, and then its change is in the
  session until it is committed.
* `OneRowPerEvent`, `WorkLostToKey`: of the callers with an uncommitted row at most one has a
  given key, and nobody has committed that key (`OneHolder`, `OwnOK`: the unique index); a
  caller about to commit has its event noted by a committed row or its own (`NotedOK`); lost
  work has a committed key to answer for it (`WorkOK`). An event's key is determined by its
  type and source (`EventKeys`).
* `OtherSettingsKept`: a request writes only columns it named or that differ from what it read.
* `CredentialsShownTrue`: stored secrets are `None` or end in a plain text (`SecretOK`),
  so that each answer about them can be traced to a test or a key.

### BackgroundProofs

* `CitiesKept`: every city that cycles have added is in the log, in its territory, and in the
  list a cycle has read and will write (`Kept`). `SnapshotsAllStored`: in a transaction that is
  not aborted every territory that is done has its flushed snapshot, and an aborted one has none
  (`Counted`).
* `StopsSoon`: a lead begun since the stop was committed is one, and the worker that began it
  cannot begin another before it looks at the row (`StopCounted`).
* `EachCreatedOnce`: a business that a crawl is about to count was not stored when the crawl
  looked it up, so no crawl that had ended before could have counted it (`Apart`).
* `FallbacksMarked`: a call that still waits for an answer has not used its fallback (`Fresh`).
* `AdviceIsEarned` is arithmetic. The code compares rates rounded to a hundredth, so the proof
  bounds the rounding (`RateNear`, `RateApart`) and shows that it moves the difference of two
  rates by one point at most (`GroupApart`), which is the point by which the advice may miss
  its threshold. Counts over snapshots are folds;
  `FiniteSums` proves what such a sum does when an element is added, removed or selected.

### Means

Induction over finite sets or numbers is replaced by a smallest counterexample
(`SmallestNat`, and `SubsetInduction`, which takes a set where a library theorem
takes a predicate). `Cardinality` of an instantiated module is a definition of its own to the
prover; `SameCardinality` identifies the two.

## 5. Only model-checked

* Liveness: `EventuallySettled`, `EveryMailStored`, `StopEnds`, `StaleRowReleased`,
  `SaturationClears`. Fairness and ENABLED are out of the prover's reach.
* What `SelectSeq` keeps of a listing: the prover has no definition of it, so
  `CrawlAssumption` states that a listing is a sequence of places, and TLC evaluates it.
* What `match_delivery`, `compute_score`, `Rates` and the saturation arithmetic compute is
  compared with worked-out values only on the inputs of the runs; the theorems state
  orders and bounds of the results.
* The runs that end in a violation, and everything in section 6.

## 6. Promises the code breaks

Statements of the repository's comments, docstrings, tests and documents that TLC
refutes, each a definition of the module named. The ones marked * are runs of the
project; the others are reproduced with a configuration of the module (or, for
`OutreachSend` and `LeadPipeline`, of its MC module) with `SPECIFICATION Spec` and the
definition as `INVARIANT`, or as `PROPERTY` where it is an action formula, and sets
of one to three elements for the constants. Where a definition also holds in a
passing run, the row says under which constants it fails.

| Definition | Module | Where, what happens, and what is said |
|---|---|---|
| `FailedAttemptsBounded` | `OutreachSend` | With more requests than the limit. `app/services/outreach/mail_service.py:183`: send_draft counts FAILED deliveries and inserts the next one later, with nothing held in between; requests that all read the count before the others failed insert one after another as each slot frees, so a draft collects more than the limit. The comment at src/app/services/outreach/mail_service.py:182 says 'CC-7: Rate limit re-sends — max 3 failed attempts per draft, 5min cooldown'. |
| `RestSendPersists` * | `OutreachSend` | `app/api/v1/outreach.py:111`: POST /outreach/drafts/{id}/send calls send_draft, which flushes SENT rows (mail_service.py:276-294), and returns; neither the endpoint nor get_db (src/app/db/session.py:20-25) commits, so SENT is rolled back after the mail is out. tests/test_api_mail.py:104 'test_send_draft_success_persists_delivery_and_updates_state' asserts 'refreshed_draft.status == DraftStatus.SENT' (it shares one session with the app, so it cannot see this). |
| `ApprovalPersists` | `OutreachSend` | `app/api/v1/outreach.py:142`: POST /outreach/drafts/{id}/review only flushes (outreach_service.review_draft) and the request's session is closed without a commit, so the verdict is lost. src/app/api/v1/outreach.py:141 says 'Human-in-the-loop: approve or reject an outreach draft.' |
| `ConversationSentMeansMailed` | `OutreachSend` | `app/services/outreach/auto_send_service.py:198`: send_draft returns the FAILED delivery instead of raising (mail_service.py:248-274) and _send_email marks the conversation SENT without looking at it. src/app/models/outbound_conversation.py:4 says a conversation 'tracks the initial outreach, any replies, and the conversation state for operator visibility'. |
| `SuppressionCheckedAtSend` * | `OutreachSend` | `app/services/outreach/outreach_service.py:44`: is_suppressed is asked only when a draft is generated; send_draft never asks. src/docs/audits/repo-deep-audit.md:208 says 'Suppression at send time (app/services/outreach/outreach_service.py:44): is_suppressed(db, email=lead.email) sí se chequea antes de enviar'. |
| `ContextNeverOverwritten` | `LeadPipeline` | `app/services/pipeline/context_service.py:48`: append_step_context reads the whole JSON column, adds one key and writes the column back; the analysis task does this after its own commit released the row lock, so a redelivered scoring task can commit in between and its key is overwritten. The docstring at src/app/services/pipeline/context_service.py:32 says 'Each step writes under its own key, so steps never overwrite each other.' |
| `DeadLettersReplayed` | `LeadPipeline` | `app/workers/janitor/dlq.py:22`: _track_failure writes short names ('task_enrich_lead', src/app/workers/pipeline_tasks.py:129), the drain replays only dotted ones ('app.workers.tasks.task_enrich_lead') and stamps every other entry replayed_at. src/app/workers/janitor/dlq.py:1 says 'Dead Letter Queue drain — hourly replay of failed pipeline tasks.' |
| `StaleRunsResumed` | `LeadPipeline` | `app/workers/janitor/stale.py:77`: _auto_resume_pipeline looks the next task up with getattr(app.workers.tasks, name), and src/app/workers/tasks.py is empty ('DEPRECATED — this file is empty', line 3), so it always returns False. src/app/workflows/step_chain.py:15 says the values 'are the task attribute names exposed on the `app.workers.tasks` shim module'. |
| `DraftTaskSucceeds` * | `LeadPipeline` | `app/workers/pipeline_tasks.py:500`: tracker.succeed flushes an UPDATE of the run row; before that transaction commits, update_pipeline_run flushes an UPDATE of the same row through a second session (lines 499-510) and waits for the first. src/docs/archive/reports/pipeline-closure-report-2026-04-02.md:44 says 'Solo `task_generate_draft` marca pipeline como finished/succeeded — es siempre el ultimo paso en ambos paths'. |
| `ShownDraftStored` | `ReplyAssistant` | `app/api/v1/replies.py:51`: create_or_refresh_reply_draft returns what generate_reply_assistant_draft flushed (reply_response_service.py:167) and its session is closed without a commit, so the text shown to the user, and the deletion of the old review, are rolled back. tests/test_api_reply_assistant.py:131 'test_generate_reply_assistant_draft_persists_result' asserts 'saved is not None' at line 164 (it shares one session with the app, so it cannot see this). |
| `RejectedTextNotCleared` | `ReplyAssistant` | With two reviews. `app/services/inbox/reply_draft_review_service.py:151`: Two reviews of one draft run side by side (two requests; the worker of the reviewer queue takes two tasks, src/docker-compose.yml:98) and each UPDATE carries the columns that differ from what its session read: a verdict over a pending row, whose should_edit is True already, does not carry should_edit, so over the row of a milder verdict it leaves status and reviewed_at of the one and should_edit False of the other, and the text it wants edited may be sent. src/app/services/inbox/reply_send_service.py:294 refuses a send with 'Reply draft review recommends editing before sending.' |
| `SyncSurvivesDuplicate` | `InboundMail` | `app/services/inbox/inbound_mail_service.py:283`: The unique dedupe_key is violated by the db.flush() at line 283, which is outside the try around db.commit() at 314-319, so the error leaves sync_inbound_messages and the rest of the listing is not handled. docs/operations/security-backlog.md:180 says 'CC-2 / HIGH / Inbound sync crash on duplicate / IntegrityError catch with rollback in `_persist_inbound_message()`'. |
| `AutoClassified` | `InboundMail` | With `AlwaysClassify = TRUE`. `app/workers/inbox_tasks.py:29`: task_sync_inbound_mail closes its session after sync_inbound_messages without a commit; a classification is only flushed (reply_classification_service.py:142) and stored by the commit of a later new mail, so the last one stays PENDING for good. docs/audits/repo-deep-audit.md:41 gives the step's output as 'InboundMessage / classification_label' and rates it 'Sólida'. |
| `OnlyContactedAdvances` | `InboundMail` | `app/services/inbox/inbound_mail_service.py:306`: The lead's status is read and written without a lock or a condition in the UPDATE, so a status set meanwhile is overwritten. The comment at app/services/inbox/inbound_mail_service.py:301 says 'Auto-advance lead from CONTACTED to REPLIED on inbound match'. |
| `ShownClassificationStored` | `InboundMail` | `app/api/v1/mail.py:74`: classify_pending_messages and classify_message return what classify_inbound_message flushed; neither commits, nor does get_db. tests/test_api_inbound_classification.py:136 'test_classify_pending_endpoint_and_filter' then asserts 'len(filtered.json()) == 2' for classification_status=classified (one session shared with the app). |
| `OneBatchAtATime` | `BatchPipeline` | `app/api/v1/pipelines.py:178`: start_batch_pipeline looks for an active TaskRun, then sends the task, then inserts the row, with nothing held in between (and task_scheduled_crawl sends a batch without looking, crawl_tasks.py:134). docs/archive/audits/scouter-full-repo-deep-audit.md:479 says 'Two simultaneous batch pipelines could interfere (mitigated by operational task service)'. |
| `LeadTriedOnce` | `BatchPipeline` | `app/workflows/batch_pipeline.py:89`: The per-lead handler counts the error and goes on; the lead's flushed status is rolled back, so the while loop's next query finds it NEW again, without a limit. src/app/workflows/lead_pipeline.py:108 says 'Batch intentionally stays inline here so it can preserve aggregate progress, stop handling, and per-lead error tolerance'. |
| `BadSiteBeatsNoSite` | `Enrichment` | `app/scoring/rules.py:36`: NO_VISIBLE_EMAIL weighs 8, SLOW_LOAD and WEAK_SEO 10 each, NO_WEBSITE 12, so a site with one of these faults scores less than none. tests/test_scoring.py:146 says 'A lead with a bad website should outscore a lead with no website, same context.' |
| `OldSignalsCleared` | `Enrichment` | With two enrichers. `app/services/leads/enrichment_service.py:283`: enrich_lead deletes the signals it reads from lead.signals without a lock and inserts its own; of two sessions that both read the old ones (a lead dispatched twice, src/docker-compose.yml:70 runs three enrichment tasks at a time) each deletes those only, and the lead keeps the signals of both analyses. The comment at app/services/leads/enrichment_service.py:282 says 'Store signals (clear old ones first)'. |
| `DiskHoldsArtifact` | `Enrichment` | `app/services/leads/enrichment_service.py:251`: The old screenshot is unlinked and the new one written before the transaction is decided, and POST /enrichment/{id} never commits. The comment at app/services/leads/enrichment_service.py:240 says 'Remove previous screenshot artifact to avoid disk bloat'. |
| `SaturatedAfterTwo` | `TerritoryCrawl` | `app/workflows/territory_crawl.py:267`: last_dup_ratio is assigned the new ratio at line 267 and compared at 269, so the previous crawl never counts. src/app/workers/janitor/territory.py:3 says 'Territories flip is_saturated=True when two consecutive crawls hit dup_ratio>0.8'. |
| `CreatedOnce` | `TerritoryCrawl` | `app/workflows/territory_crawl.py:251`: A crawl that finds no lead by its own look-up calls create_lead, which looks the hash up again (src/app/services/leads/lead_service.py:50-53) and returns the lead another crawl has committed meanwhile; the crawl counts that as created, so leads_created of the two adds up to more than was stored. src/app/services/leads/lead_service.py:52 logs this case as 'duplicate_lead_skipped'. |
| `SkippedAreDuplicates` | `TerritoryCrawl` | `app/workflows/territory_crawl.py:252`: The except clause counts any error as a duplicate and does not roll back, so after one IntegrityError every later query of that city's session raises (PendingRollbackError) and its leads are skipped. docs/archive/audits/scouter-full-repo-deep-audit.md:276 says '`dedup_hash` on Lead for idempotent ingestion'. |
| `TimelineChains` | `LeadLifecycle` | `app/services/leads/lead_service.py:151`: Only update_lead_status emits status_changed, with the status it read before locking the row; enrich_lead, score_lead and the senders assign lead.status directly. src/app/services/leads/event_service.py:3 says 'Callers should invoke emit_lead_event for any observable lead transition (status change, ...)'. |
| `RescoreApplies` | `LeadLifecycle` | `app/workers/batch_tasks.py:166`: task_rescore_all calls score_lead in a session it closes without a commit, so every score it computes is rolled back. src/app/api/v1/scoring.py:34 (rescore_all_leads) says 'Re-score all leads. Useful after scoring weight changes.' |
| `WorkKept` | `Notifications` | `app/services/notifications/notification_service.py:99`: create_notification answers the IntegrityError of a lost race with db.rollback() on the caller's session, so the caller's flushed work is undone and its later commit stores nothing. src/app/services/notifications/notification_emitter.py:4 says 'Each function is safe to call (catches all exceptions to avoid breaking the caller).' |
| `AlertedOnce` | `Notifications` | `app/services/notifications/notification_service.py:104`: WhatsApp, Telegram and Slack are called between the flush and the caller's commit, so a rolled-back notification has alerted already and its retry alerts again. src/app/services/notifications/notification_service.py:3 says 'Supports deduplication, rate limiting, and multi-channel delivery (in-app + WhatsApp + Telegram).' |
| `AlarmKept` | `Notifications` | `app/workers/janitor/orchestrator.py:171`: on_repeated_failures is called after db.commit() and nothing commits again, so the alarm is rolled back with the session. docs/plans/autonomous-pipeline-plan.md:51 says 'En janitor `sweep_stale_tasks` (cuando marca N+ tasks como failed en un ciclo): emitir notificación CRITICAL'. |
| `StatusStored` | `Notifications` | `app/api/v1/notifications.py:71`: patch_notif and bulk_action only flush, and get_db closes the session without a commit, so no notification is ever marked read, acknowledged or resolved. src/app/services/notifications/notification_service.py:226 says 'Bulk mark notifications. Returns count affected.' |
| `ShownIsStored` | `MoteAgent` | `app/agent/core.py:446`: ToolResult is yielded after a flush and before the commit of line 455, so a result the user has seen (and the change it reports) is rolled back when a later tool of the response breaks the session or the stream ends. src/app/agent/core.py:245 says of the record 'Persist a tool call record.' |
| `AlertsTrue` | `MoteAgent` | `app/services/notifications/notification_service.py:104`: classify_inbound_message needs no confirmation and emits a notification (src/app/services/inbox/reply_classification_service.py:145-152) whose alerts leave before the turn's commit; a turn that dies in between has announced a classification that was never stored. With the row its dedup_key is gone, so the next attempt alerts again; src/app/services/notifications/notification_service.py:3 says 'Supports deduplication, rate limiting, and multi-channel delivery (in-app + WhatsApp + Telegram).' |
| `ConfirmedRuns` | `MoteAgent` | `app/agent/core.py:416`: A call that needs confirmation is stored as pending and nothing under src/app reads pending calls, so a yes never executes it. src/app/agent/core.py:415 says '(confirmation flow handled separately via API)' and src/app/agent/channel_router.py:105 tells the user 'Respondé SI para confirmar o NO para cancelar.' |
| `AuditStored` | `MoteAgent` | `app/api/v1/telegram.py:90`: webhook_inbound flushes the audit rows after the agent's last commit and get_db closes the session without one. src/app/services/comms/telegram_audit.py:1 says 'append-only compliance log for all conversations'. |
| `ClientMessagesKept` | `Closer` | `app/services/outreach/closer_service.py:152`: conversation.messages_json is assigned the list read before the model was asked plus two messages, so of two concurrent reply requests the second to commit drops the client's message and answer of the first. src/app/services/outreach/closer_service.py:106 says '# Record client message'. |
| `TakeoverShown` | `Closer` | `app/services/outreach/closer_service.py:158`: A reply that was waiting for the model when the operator took over sets status back to replied or meeting; operator_took_over stays true. src/app/services/outreach/auto_send_service.py:224 says 'Mark a conversation as taken over by the operator.' |
| `NoSendAfterTakeover` * | `Closer` | `app/services/dashboard/ai_office_service.py:299`: send_closer_reply checks operator_took_over, then sends without a lock, so a takeover committed in between does not stop the message. src/app/services/dashboard/ai_office_service.py:281 says 'Operator took over — Mote cannot send'. |
| `ModeAtomic` | `OperationalSettings` | `app/services/settings/operational_settings_service.py:94`: A mode request assigns every toggle, but an attribute that already had the preset's value when the row was read is not in the UPDATE; a PATCH committed in between stays, under the new mode. src/app/services/settings/operational_settings_service.py:131 says 'Apply a runtime mode preset, setting multiple toggles atomically.' |
| `ModeMeansToggles` | `OperationalSettings` | `app/models/settings.py:103`: A new row has runtime_mode 'safe' with auto_classify_inbound and reply_assistant_enabled on, and a PATCH of a toggle leaves runtime_mode as it was. src/docs/archive/reports/implementation-report-2026-04-02.md:81 says 'safe (todo manual)'. |
| `ReadyMeansTested` | `Credentials` | `app/services/outreach/mail_credentials_service.py:56`: update_credentials does not reset smtp_last_test_ok, and a test in flight writes its outcome over newer credentials, so ready_to_send stays true for a configuration nobody tested. src/app/api/v1/settings/credentials.py:58 says 'Persists the test outcome (smtp_last_test_at/ok/error) so the setup' checklist 'reflects the latest state'. |
| `UnavailableSurfaced` | `Credentials` | `app/services/settings/setup_status_service.py:63`: The WhatsApp step looks at the stored column, not at what decrypt_safe returns, so an undecryptable key leaves the step complete. src/app/core/crypto.py:73 says 'callers must treat None as "credential unavailable" and surface it.' |
| `RegistrationWorks` | `Credentials` | `app/api/v1/settings/messaging.py:116`: creds.bot_token goes into the Telegram URL as stored, encrypted, so the registration of every bot saved through the API is refused. src/app/api/v1/settings/messaging.py:107 says 'Register the webhook URL with Telegram Bot API and auto-generate a secret.' |
| `WebhookUsable` | `Credentials` | `app/api/v1/settings/messaging.py:138`: Telegram is given the plain secret and update_credentials stores it encrypted; webhook_inbound compares Telegram's header with the stored column, so every update is refused. src/app/api/v1/telegram.py:50 says 'Receive Telegram updates, process via Hermes 3 agent, send response.' |
| `OneActivePerChannel` | `Drafts` | With `Workers = 2`. `app/workflows/outreach_draft_generation.py:65`: The check reads and the draft is committed after the model call, with no lock or unique index; the llm worker runs two tasks at a time (src/docker-compose.yml:98), so two tasks of one lead, dispatched by two ticks or requests, both write a draft. src/docs/archive/roadmaps/scouter-pipeline-gap-closure-plan.md:200 says 'Idempotency guard existente previene draft duplicado'. |
| `GuardSkips` | `Drafts` | `app/workflows/outreach_draft_generation.py:70`: One task may commit an e-mail and a WhatsApp draft, both PENDING_REVIEW; scalar_one_or_none then raises MultipleResultsFound in each later draft task of the lead and in its retries. src/docs/archive/audits/scouter-pipeline-runtime-audit.md:406 says 'skip si draft existente pending/approved'. |
| `WeightByLeads` | `OutcomeAnalysis` | With `MaxCopies = 2`. `app/services/pipeline/outcome_analysis_service.py:54`: analyze_signal_correlations counts occurrences in signals_json, and enrichment stores weak_seo twice for a page with neither title nor description (src/app/services/leads/enrichment_service.py:146,148), so such a lead counts twice and the signal can be advised a weight its leads' win rate does not support. src/app/services/pipeline/outcome_analysis_service.py:118 says 'Compares signal win rates to identify which signals deserve more/less weight.' |
| `ReviewPersisted` | `BatchReviews` | `app/workers/batch_review_tasks.py:32`: generate_batch_review only flushes and neither task commits, so closing the session discards the review and its proposals; the evidence is never reset and every later check runs both models again. src/app/services/pipeline/batch_review_service.py:3-4 says 'runs Executor synthesis + Reviewer validation, and persists results with improvement proposals.' |
| `ExecutorProposalsKept` | `BatchReviews` | `app/services/pipeline/batch_review_service.py:309`: validate_batch_review_structured passes a fallback_factory, so invoke_structured always returns a parsed object: an unavailable reviewer gives verdict 'validated' with an empty list of proposals, and the branch that keeps the executor's proposals is never taken. src/app/services/pipeline/batch_review_service.py:326 says '# Fallback: use Executor's proposals directly'. |
| `OperatorTold` | `BatchReviews` | `app/workers/weekly_tasks.py:62`: task_weekly_report imports emit_notification from notification_emitter, which does not define it; the ImportError is swallowed at debug level. src/app/workers/weekly_tasks.py:60 says '# Notify operator'. |
| `GrowthAppends` | `Growth` | `app/services/growth/growth_service.py:134`: execute_growth_decision reads the list of cities without a lock and writes the whole list, so a city that a PATCH committed in between is lost. src/app/services/growth/growth_service.py:106 says '`expand`: append new_cities to the specified territory's city list'. |
| `SnapshotsHonest` | `Growth` | `app/workers/growth_tasks.py:44`: When the metrics query of one territory fails in PostgreSQL the exception is caught and the loop goes on, but the transaction is aborted: the snapshots flushed before it are gone, each later territory fails too, and db.commit() at line 52 stores nothing without raising, while the task answers ok with snapshots_created counting the flushed ones. src/app/workers/growth_tasks.py:23 says 'Take performance snapshots for all active territories.' |
| `CycleDecides` | `Growth` | `app/services/growth/growth_service.py:78`: get_growth_state reads entry["city"], but get_uncovered_cities returns entries with the key "name" (src/app/services/growth/adjacency.py:247), so the cycle raises KeyError whenever a known city is uncovered and fails after its retries. src/app/workers/growth_tasks.py:84-86 says 'When it runs, the Growth Agent chooses between geographic expansion, niche shift, or source diversification, and the system applies the decision automatically.' |
| `DecisionLogged` | `Growth` | `app/services/growth/growth_service.py:122`: The error of db.get for an id that is no UUID is caught, but PostgreSQL has aborted the transaction, so the log entry's insert raises and the decision is never logged. src/app/services/growth/growth_service.py:11 says 'Every decision is logged to `growth_decision_logs` for later auditing and learning.' |
| `BudgetHolds` | `LLMClient` | `app/llm/client.py:437`: invoke_text and invoke_structured do not hand the completion's token counts to _record_public_invocation, so usd_cost_estimated is NULL in every row and today's sum is 0: a positive budget never stops a dispatch. src/app/models/settings.py:120-121 says 'If sum of usd_cost_estimated across llm_invocations for today exceeds this value, pipeline dispatch stops', and src/app/models/llm_invocation.py:55 says 'Cost tracking — populated from Ollama response eval counts'. |
| `NotTooLate` | `FollowUp` | `app/services/outreach/followup_service.py:39`: The wait is measured from updated_at, which every UPDATE of the row resets (a late analysis writes llm_summary), and the dedup key of an earlier contact silences every later one: a lead silent for more than followup_days is not flagged. src/app/models/settings.py:125-126 says 'days to wait after CONTACTED before flagging a lead that hasn't responded. Beat task task_check_followup honors this value', and src/docs/roadmaps/post-hardening-plan.md:219 'Setting `followup_days` respetado (no se dispara antes ni después)'. |

Weaker statements that do hold stand beside several of them in the runs: `ContextKept`
beside `ContextNeverOverwritten`, `WorkLostToRaceOnly` beside `WorkKept`,
`ToolsAccountable` beside `ShownIsStored`, `TakeoverSticks` beside
`TakeoverShown`, `OthersKept` beside `ModeAtomic`, `ClearedOnlyByMixedReviews` beside `RejectedTextNotCleared`,
`SignalsOfOneAnalysis` beside `OldSignalsCleared`, `DuplicatesOverlap` beside
`OneActivePerChannel`, `CreatedTwiceOverlaps` beside `CreatedOnce`, `ToolsAccountable` beside
`AlertsTrue` too, `SnapshotsAllOrNone` beside `SnapshotsHonest`, `GrownCitiesKept` beside
`GrowthAppends`, `AdviceEarned` beside `WeightByLeads`.

## 7. Not modelled

* The Scout research agent and its browser: its result is an outcome of the research step.
* External services (LLMs, IMAP, SMTP, WhatsApp, Telegram, Kapso, Slack, Google Places)
  beyond what their answer does to the caller.
* Dashboards, the user interface, statistics and list endpoints: read-only queries.
* Migrations, scripts and deployment; the indexes the models rely on come from `app/models`.
* Approving, rejecting and applying the proposals of a batch review, and the sweep of
  stuck reviews: they need a stored review, and no step of the system stores one
  (`ReviewPersisted`).
* The janitor's zombie and research report sweeps, which mark rows nobody works on.
* Suppression by domain or phone, deletion of drafts, and the CRUD of single rows.
* Prompts, wording, logging, and the size limits of context and history.

## 8. Plan

Proofs to come:

1. Abstract specifications, in the manner of `MailOnce`, with the refinement proved: a keyed
   event log (`Notifications`), the step chain of a run (`LeadPipeline` up to the first
   mixed UPDATE).
2. `DeadLettersReplayed` and the other weaker facts that hold beside a broken promise, for
   those of section 6 where a run has none yet.

Models to come: WhatsApp drafts and the edit of a draft's text in `OutreachSend`; two
runs that share a lead, as a composition of `LeadPipeline` with `Drafts`.

------------------------------ MODULE LLMClient ------------------------------
(***************************************************************************)
(* The client of the language model and the daily budget: a call posts to  *)
(* Ollama with retries, parses or repairs the answer or takes the caller's *)
(* fallback, and writes an invocation row; task_full_pipeline sums the     *)
(* costs of today's rows before it dispatches a lead.                      *)
(***************************************************************************)
EXTENDS Naturals, Sequences, FiniteSets, FiniteSetsExt

CONSTANTS Calls,        \* invocations, which may overlap
          MaxAttempts,  \* OLLAMA_MAX_RETRIES
          Budgets,      \* what daily_usd_budget may be, besides NULL
          MaxRuns       \* bound on pipelines

VARIABLES call,        \* the calls
          rows,        \* today's rows of llm_invocations
          spent,       \* history: what the answers recorded today cost, a unit each
          budget,      \* the operator's setting, {} for NULL
          dispatched,  \* pipelines that were started
          skipped      \* pipelines the budget stopped

vars == <<call, rows, spent, budget, dispatched, skipped>>

Statuses == {"succeeded", "degraded", "fallback", "parse_failed", "failed"}
Idle == [pc |-> "idle", structured |-> FALSE, fallback |-> FALSE, attempt |-> 0, status |-> "none",
         source |-> "none", fallback_used |-> FALSE, degraded |-> FALSE, parse_valid |-> FALSE,
         tokens |-> 0]

TypeOK ==
  /\ \A c \in Calls :
       /\ call[c].pc \in {"idle", "post", "record", "done", "raised"}
       /\ call[c].attempt \in 0..MaxAttempts
       /\ call[c].status \in Statuses \cup {"none"}
       /\ call[c].source \in {"none", "model", "repaired", "fallback"}
  /\ \A i \in DOMAIN rows : rows[i].status \in Statuses /\ rows[i].cost \subseteq Nat
  /\ budget \subseteq Budgets

Init ==
  /\ call = [c \in Calls |-> Idle] /\ rows = <<>> /\ spent = 0
  /\ budget \in {{}} \cup {{b} : b \in Budgets} /\ dispatched = 0 /\ skipped = 0

---------------------------------------------------------------------------
\* A caller asks for text or for a structure, with or without a fallback.  No
\* model for the role raises before anything is recorded.
Invoke(c, structured, fallback, configured) ==
  /\ call[c].pc = "idle"
  /\ call' = [call EXCEPT ![c] = [Idle EXCEPT
       !.pc = IF configured THEN "post" ELSE "raised", !.attempt = IF configured THEN 1 ELSE 0,
       !.structured = structured, !.fallback = fallback]]
  /\ UNCHANGED <<rows, spent, budget, dispatched, skipped>>

\* The result of a call that got no usable answer; tokens if Ollama answered.
Fallback(r, answered) ==
  [r EXCEPT !.pc = "record", !.tokens = answered,
     !.status = IF r.fallback THEN "fallback" ELSE IF answered > 0 THEN "parse_failed" ELSE "failed",
     !.source = IF r.fallback THEN "fallback" ELSE "none",
     !.fallback_used = r.fallback,
     !.degraded = r.fallback \/ answered > 0,
     !.parse_valid = r.fallback /\ ~r.structured]

\* Timeouts, connection errors and 5xx; neither 4xx nor an empty answer.
_is_retryable(reply) == reply \in {"timeout", "server_error"}

\* _chat_completion raises something to retry before the last attempt.
Retry(c, reply) ==
  /\ call[c].pc = "post" /\ _is_retryable(reply) /\ call[c].attempt < MaxAttempts
  /\ call' = [call EXCEPT ![c].attempt = @ + 1]
  /\ UNCHANGED <<rows, spent, budget, dispatched, skipped>>

\* It raises for good; an empty answer is an error too.
GiveUp(c, reply) ==
  /\ call[c].pc = "post" /\ (call[c].attempt = MaxAttempts \/ ~_is_retryable(reply))
  /\ call' = [call EXCEPT ![c] = Fallback(@, 0)]
  /\ UNCHANGED <<rows, spent, budget, dispatched, skipped>>

\* Mutant of Parse: the fallback is handed on as if it were a repaired answer.
ParseRepairsAll(r, text) ==
  IF ~r.structured \/ text = "json"
  THEN [r EXCEPT !.pc = "record", !.tokens = 1, !.status = "succeeded", !.source = "model",
                 !.parse_valid = TRUE]
  ELSE IF text = "wrapped_json" \/ r.fallback
  THEN [r EXCEPT !.pc = "record", !.tokens = 1, !.status = "degraded", !.degraded = TRUE,
                 !.source = IF text = "wrapped_json" THEN "repaired" ELSE "fallback",
                 !.parse_valid = TRUE]
  ELSE Fallback(r, 1)

\* invoke_text takes any text; invoke_structured validates it, else extracts the
\* JSON in it, else takes the fallback.
Parse(r, text) ==
  IF ~r.structured \/ text = "json"
  THEN [r EXCEPT !.pc = "record", !.tokens = 1, !.status = "succeeded", !.source = "model",
                 !.parse_valid = TRUE]
  ELSE IF text = "wrapped_json"
  THEN [r EXCEPT !.pc = "record", !.tokens = 1, !.status = "degraded", !.source = "repaired",
                 !.degraded = TRUE, !.parse_valid = TRUE]
  ELSE Fallback(r, 1)

Answer(c, text) ==
  /\ call[c].pc = "post" /\ call' = [call EXCEPT ![c] = Parse(@, text)]
  /\ UNCHANGED <<rows, spent, budget, dispatched, skipped>>

\* _record_public_invocation gets no token counts from either caller, so the
\* cost it stores is NULL.
usd_cost_estimated(r) == {}
Row(r) == [status |-> r.status, fallback_used |-> r.fallback_used, degraded |-> r.degraded,
           parse_valid |-> r.parse_valid, cost |-> usd_cost_estimated(r)]

\* The row is committed in a session of its own; a failure is logged only.
Record(c, stored) ==
  /\ call[c].pc = "record" /\ call' = [call EXCEPT ![c].pc = "done"]
  /\ IF stored THEN rows' = Append(rows, Row(call[c])) /\ spent' = spent + call[c].tokens
     ELSE UNCHANGED <<rows, spent>>
  /\ UNCHANGED <<budget, dispatched, skipped>>

---------------------------------------------------------------------------
\* The sum ignores NULLs.
get_today_cost_usd == MapThenSumSet(LAMBDA i : SumSet(rows[i].cost), DOMAIN rows)
check_daily_budget == \A b \in budget : get_today_cost_usd < b

task_full_pipeline ==
  /\ dispatched + skipped < MaxRuns
  /\ \/ check_daily_budget /\ dispatched' = dispatched + 1 /\ UNCHANGED skipped
     \/ ~check_daily_budget /\ skipped' = skipped + 1 /\ UNCHANGED dispatched
  /\ UNCHANGED <<call, rows, spent, budget>>

\* Midnight UTC: the rows so far are no longer today's.
NewDay ==
  /\ rows # <<>> /\ rows' = <<>> /\ spent' = 0
  /\ UNCHANGED <<call, budget, dispatched, skipped>>

Failures == {"timeout", "server_error", "client_error", "empty"}
Texts == {"json", "wrapped_json", "other"}

Next ==
  \/ \E c \in Calls :
       \/ \E structured, fallback, configured \in BOOLEAN : Invoke(c, structured, fallback, configured)
       \/ \E reply \in Failures : Retry(c, reply) \/ GiveUp(c, reply)
       \/ \E text \in Texts : Answer(c, text)
       \/ \E stored \in BOOLEAN : Record(c, stored)
  \/ task_full_pipeline \/ NewDay

Spec == Init /\ [][Next]_vars

---------------------------------------------------------------------------
\* What the caller gets from its own fallback is reported and recorded as such,
\* on each of the paths of invoke_text and invoke_structured that lead to it, and
\* what the model said, repaired or not, never is.
FallbackMarked ==
  \A c \in Calls : call[c].pc \in {"record", "done"} =>
    /\ call[c].fallback_used <=> call[c].source = "fallback"
    /\ call[c].status = "succeeded" => call[c].source = "model"
    /\ call[c].source = "none" => ~call[c].parse_valid

\* task_full_pipeline dispatches no pipeline once the answers recorded today have
\* cost the operator's budget.
BudgetHolds == [][dispatched' > dispatched => \A b \in budget : spent < b]_vars
=============================================================================

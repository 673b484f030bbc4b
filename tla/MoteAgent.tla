----------------------------- MODULE MoteAgent -----------------------------
(***************************************************************************)
(* The Mote agent: run_agent_turn (agent/core.py) driven by POST           *)
(* /chat/conversations/{id}/messages (SSE, channel "web") and by the       *)
(* Telegram and WhatsApp webhooks through handle_channel_message.  A turn  *)
(* saves the user's message, asks the model, executes the tools it calls,  *)
(* and asks again.  Texts are left out; what is kept of a message is its   *)
(* role and its turn.                                                      *)
(***************************************************************************)
EXTENDS Naturals, Sequences, FiniteSets, SequencesExt, AgentTools

CONSTANTS Turns,      \* user messages sent to the agent
          ChatChannels, \* "web" and the webhooks' channels
          MaxConvs,   \* bound: conversations
          Callable,   \* tool names the model may ask for (one may be unknown)
          MaxLoops,   \* MAX_TOOL_LOOPS
          MaxCalls    \* bound: tool calls in one response

ASSUME Bounds == MaxConvs \in Nat /\ MaxLoops \in Nat \ {0} /\ MaxCalls \in Nat \ {0}

VARIABLES convs,     \* conversations: [channel, active], in creation order
          messages,  \* committed messages of all conversations
          calls,     \* committed tool_calls rows
          effects,   \* committed changes made by tools
          left,      \* history: tool runs of which something left the process
          turn,      \* each turn: where it is and its uncommitted session
          seen,      \* history: tool results the user has been shown
          audit      \* channel audit rows: committed, and claimed in the log

vars == <<convs, messages, calls, effects, left, turn, seen, audit>>

Clean == [msgs |-> <<>>, calls |-> {}, effects |-> {}]

\* loop numbers the responses; todo holds the calls of the response still to
\* be executed; pending says that every call so far waits for confirmation.
Fresh == [pc |-> "idle", channel |-> "web", conv |-> 0, answers |-> {}, loop |-> 0,
          todo |-> <<>>, pending |-> TRUE, tx |-> Clean]

Ended == {"complete", "error", "crashed"}
Call(t, n, tool, status) ==
  [turn |-> t, loop |-> turn[t].loop, n |-> n, tool |-> tool, status |-> status]

TypeOK ==
  /\ \A i \in DOMAIN convs : convs[i].channel \in ChatChannels /\ convs[i].active \in BOOLEAN
  /\ \A i \in DOMAIN messages : /\ messages[i].role \in {"user", "assistant", "tool"}
                                /\ messages[i].conv \in DOMAIN convs
  /\ \A c \in calls : c.status \in {"pending", "completed", "failed"}
  /\ \A t \in Turns : /\ turn[t].pc \in {"idle", "ask", "exec", "done", "audit"} \cup Ended
                      /\ turn[t].loop \in 0..MaxLoops /\ Len(turn[t].todo) <= MaxCalls
                      /\ turn[t].conv \in {0} \cup DOMAIN convs
  /\ effects \cup left \subseteq [turn : Turns, loop : 0..MaxLoops, tool : Callable]
  /\ audit.stored \subseteq audit.logged /\ audit.logged \subseteq Turns

Init ==
  /\ convs = <<>>
  /\ messages = <<>> /\ calls = {} /\ effects = {} /\ left = {}
  /\ turn = [t \in Turns |-> Fresh]
  /\ seen = {} /\ audit = [stored |-> {}, logged |-> {}]

---------------------------------------------------------------------------
(* The session of a turn.                                                  *)

\* db.commit(): everything flushed so far, by this turn, becomes visible.
Commit(tx) ==
  /\ messages' = messages \o tx.msgs
  /\ calls' = calls \cup tx.calls
  /\ effects' = effects \cup tx.effects

Uncommitted == UNCHANGED <<messages, calls, effects>>

_save_message(tx, t, role) ==
  [tx EXCEPT !.msgs = Append(@, [turn |-> t, role |-> role, conv |-> turn[t].conv])]

_save_tool_call(tx, call) == [tx EXCEPT !.calls = @ \cup {call}]

---------------------------------------------------------------------------
(* Receiving a message.                                                    *)

\* POST /chat/conversations
CreateConversation ==
  /\ Len(convs) < MaxConvs
  /\ convs' = Append(convs, [channel |-> "web", active |-> TRUE])
  /\ UNCHANGED <<messages, calls, effects, left, turn, seen, audit>>

DeleteConversation(i) ==
  /\ convs[i].active
  /\ convs' = [convs EXCEPT ![i].active = FALSE]
  /\ UNCHANGED <<messages, calls, effects, left, turn, seen, audit>>

\* _find_or_create_conversation for telegram and whatsapp: an active
\* conversation of any channel, or a new one, which is committed.
FindConversation(channel) ==
  LET active == {i \in DOMAIN convs : convs[i].active} IN
  IF active # {} THEN {<<i, convs>> : i \in active}
  ELSE {<<Len(convs) + 1, Append(convs, [channel |-> channel, active |-> TRUE])>>}

\* The user's message is committed before the model is asked.  answers holds
\* the pending calls the user says yes to.
Receive(t, channel) ==
  /\ turn[t].pc = "idle"
  /\ \E place \in IF channel = "web" THEN {<<i, convs>> : i \in DOMAIN convs} ELSE FindConversation(channel) :
     \E yes \in {{}, {c \in calls : c.status = "pending"}} :
       /\ convs' = place[2]
       /\ turn' = [turn EXCEPT ![t] =
            [Fresh EXCEPT !.pc = "ask", !.channel = channel, !.conv = place[1], !.answers = yes]]
       /\ messages' = Append(messages, [turn |-> t, role |-> "user", conv |-> place[1]])
  /\ UNCHANGED <<calls, effects, left, seen, audit>>

---------------------------------------------------------------------------
(* One iteration of the tool loop.                                         *)

\* Ollama cannot be reached, times out, or answers nothing.
StreamError(t) ==
  /\ turn[t].pc = "ask" /\ turn[t].loop < MaxLoops
  /\ turn' = [turn EXCEPT ![t].pc = IF turn[t].channel = "web" THEN "error" ELSE "audit"]
  /\ UNCHANGED <<convs, messages, calls, effects, left, seen, audit>>

\* A response without a tool call, or with none that parses, ends the turn.
Answer(t) ==
  /\ turn[t].pc = "ask" /\ turn[t].loop < MaxLoops
  /\ Commit(_save_message(turn[t].tx, t, "assistant"))
  /\ turn' = [turn EXCEPT ![t].pc = IF turn[t].channel = "web" THEN "complete" ELSE "audit",
                          ![t].tx = Clean]
  /\ UNCHANGED <<convs, left, seen, audit>>

\* parse_tool_calls keeps the calls that parse, in order.
AskTools(t, names) ==
  /\ turn[t].pc = "ask" /\ turn[t].loop < MaxLoops
  /\ turn' = [turn EXCEPT ![t].pc = "exec", ![t].loop = @ + 1, ![t].todo = names,
                          ![t].pending = TRUE,
                          ![t].tx = _save_message(@, t, "assistant")]
  /\ UNCHANGED <<convs, messages, calls, effects, left, seen, audit>>

Next1(t) == Head(turn[t].todo)
CallNo(t) == MaxCalls - Len(turn[t].todo)

NeedsConfirmation(name) == \E tool \in get(name) : tool.confirm

\* A tool that needs confirmation is recorded as pending, and committed with
\* whatever the turn had flushed before; the handler is not called.
Confirmation(t) ==
  /\ turn[t].pc = "exec" /\ turn[t].todo # <<>> /\ NeedsConfirmation(Next1(t))
  /\ Commit(_save_tool_call(turn[t].tx, Call(t, CallNo(t), Next1(t), "pending")))
  /\ turn' = [turn EXCEPT ![t].todo = Tail(@), ![t].tx = Clean]
  /\ UNCHANGED <<convs, left, seen, audit>>

Writing == {"flush", "alerts"}

\* Mutant of ToolRuns: the effect is written in a session of its own.
ToolRunsApart(t) ==
  LET name == Next1(t)
      done == [turn |-> t, loop |-> turn[t].loop, tool |-> name] IN
  /\ turn[t].pc = "exec" /\ turn[t].todo # <<>> /\ ~NeedsConfirmation(name)
  /\ \E tool \in get(name) :
       /\ effects' = IF tool.effect \in Writing THEN effects \cup {done} ELSE effects
       /\ left' = left
  /\ turn' = [turn EXCEPT ![t].todo = Tail(@), ![t].pending = FALSE,
                          ![t].tx = _save_tool_call(@, Call(t, CallNo(t), name, "completed"))]
  /\ seen' = seen \cup {Call(t, CallNo(t), name, "completed")}
  /\ UNCHANGED <<convs, messages, calls, audit>>

\* _execute_tool succeeds: the handler's changes and its record are flushed,
\* the result is shown.  An alert leaves before the commit, or the guards and
\* thresholds of create_notification hold it back.
ToolRuns(t) ==
  LET name == Next1(t)
      done == [turn |-> t, loop |-> turn[t].loop, tool |-> name] IN
  /\ turn[t].pc = "exec" /\ turn[t].todo # <<>> /\ ~NeedsConfirmation(name)
  /\ \E tool \in get(name) :
       /\ \/ tool.effect # "leaves" /\ left' = left
          \/ tool.effect \in {"leaves", "alerts"} /\ left' = left \cup {done}
       /\ turn' = [turn EXCEPT ![t].todo = Tail(@), ![t].pending = FALSE,
            ![t].tx = LET tx == _save_tool_call(@, Call(t, CallNo(t), name, "completed")) IN
                      IF tool.effect \in Writing THEN [tx EXCEPT !.effects = @ \cup {done}] ELSE tx]
  /\ seen' = seen \cup {Call(t, CallNo(t), name, "completed")}
  /\ Uncommitted /\ UNCHANGED <<convs, audit>>

\* An unknown tool, invalid arguments, or a handler that raises.
ToolFails(t) ==
  LET call == Call(t, CallNo(t), Next1(t), "failed") IN
  /\ turn[t].pc = "exec" /\ turn[t].todo # <<>> /\ ~NeedsConfirmation(Next1(t))
  /\ turn' = [turn EXCEPT ![t].todo = Tail(@), ![t].pending = FALSE,
                          ![t].tx = _save_tool_call(@, call)]
  /\ seen' = seen \cup {call}
  /\ Uncommitted /\ UNCHANGED <<convs, left, audit>>

\* All calls of the response were executed: commit, and ask again.  (The code
\* commits twice, with nothing but the insert of the "tool" message between.)
LoopAgain(t) ==
  /\ turn[t].pc = "exec" /\ turn[t].todo = <<>> /\ ~turn[t].pending
  /\ Commit(_save_message(turn[t].tx, t, "tool"))
  /\ turn' = [turn EXCEPT ![t].pc = "ask", ![t].tx = Clean]
  /\ UNCHANGED <<convs, left, seen, audit>>

\* Mutant of StopPending: the loop goes on although every call is pending.
StopPendingGoesOn(t) ==
  /\ turn[t].pc = "exec" /\ turn[t].todo = <<>> /\ turn[t].pending
  /\ Commit(turn[t].tx)
  /\ turn' = [turn EXCEPT ![t].pc = "ask", ![t].loop = MaxLoops + 1, ![t].tx = Clean]
  /\ UNCHANGED <<convs, left, seen, audit>>

\* Every call waits for confirmation: the turn ends.
StopPending(t) ==
  /\ turn[t].pc = "exec" /\ turn[t].todo = <<>> /\ turn[t].pending
  /\ Commit(turn[t].tx)
  /\ turn' = [turn EXCEPT ![t].pc = IF turn[t].channel = "web" THEN "complete" ELSE "audit",
                          ![t].tx = Clean]
  /\ UNCHANGED <<convs, left, seen, audit>>

\* MAX_TOOL_LOOPS responses asked for tools.
LoopLimit(t) ==
  /\ turn[t].pc = "ask" /\ turn[t].loop = MaxLoops
  /\ turn' = [turn EXCEPT ![t].pc = IF turn[t].channel = "web" THEN "error" ELSE "audit"]
  /\ UNCHANGED <<convs, messages, calls, effects, left, seen, audit>>

\* A handler's flush fails in the database, so the next use of the session
\* raises; the client of the stream goes away; the process ends.
Crash(t) ==
  /\ turn[t].pc \in {"ask", "exec"}
  /\ turn' = [turn EXCEPT ![t].pc = "crashed", ![t].tx = Clean, ![t].todo = <<>>]
  /\ UNCHANGED <<convs, messages, calls, effects, left, seen, audit>>

\* A webhook whose secret and feature flag have passed flushes two audit rows and sends the response; nothing
\* commits the session after that.
Audit(t) ==
  /\ turn[t].pc = "audit"
  /\ audit' = [audit EXCEPT !.logged = @ \cup {t}]
  /\ turn' = [turn EXCEPT ![t].pc = "complete"]
  /\ UNCHANGED <<convs, messages, calls, effects, left, seen>>

---------------------------------------------------------------------------
TurnStep(t) ==
  \/ StreamError(t) \/ Answer(t)
  \/ \E k \in 1..MaxCalls : \E names \in [1..k -> Callable] : AskTools(t, names)
  \/ Confirmation(t) \/ ToolRuns(t) \/ ToolFails(t) \/ LoopAgain(t) \/ StopPending(t)
  \/ LoopLimit(t) \/ Audit(t)

Next ==
  \/ CreateConversation
  \/ \E i \in DOMAIN convs : DeleteConversation(i)
  \/ \E t \in Turns : (\E c \in ChatChannels : Receive(t, c)) \/ TurnStep(t) \/ Crash(t)

Spec == Init /\ [][Next]_vars

---------------------------------------------------------------------------
(* What leaves without a confirmation is at most an alert to the operator: *)
(* no Celery message, mail or message to a lead because the model asked    *)
(* for a tool.                                                             *)
OnlyAlertsLeave == \A e \in left : \E tool \in get(e.tool) : tool.effect = "alerts"

(* An alert that left tells of a change that is committed, or that its     *)
(* turn is still to commit: only a turn that crashed in between leaves the *)
(* operator with an alert of something that was rolled back.               *)
AlertsBacked ==
  \A e \in left : \/ e \in effects
                  \/ e \in turn[e.turn].tx.effects
                  \/ turn[e.turn].pc = "crashed"

(* The record of tool calls is complete: a change made by a tool is in the *)
(* database only together with its completed tool_calls row, through       *)
(* failing tools, lost streams and the commits in the middle of a turn.    *)
EffectsRecorded ==
  \A e \in effects : \E c \in calls :
    c.turn = e.turn /\ c.loop = e.loop /\ c.tool = e.tool /\ c.status = "completed"

(* Every record of a tool call belongs to a stored assistant message of    *)
(* its turn, one message per response.                                     *)
CallsHaveMessage ==
  \A c \in calls :
    Cardinality({i \in DOMAIN messages :
                   messages[i].turn = c.turn /\ messages[i].role = "assistant"}) >= c.loop

(* What tools do is confirmed where it must be, and recorded               *)
(* (run_agent_turn, _execute_tool).                                        *)
ToolsAccountable == OnlyAlertsLeave /\ AlertsBacked /\ EffectsRecorded /\ CallsHaveMessage

(* An alert tells of a committed change once its turn has ended.           *)
AlertsTrue == \A e \in left : turn[e.turn].pc \in Ended => e \in effects

(* A tool result the user was shown is in the database once the turn has   *)
(* ended.                                                                  *)
ShownIsStored ==
  \A c \in seen : turn[c.turn].pc \in Ended => c \in calls

(* A call the user said yes to is executed by the end of that turn.        *)
ConfirmedRuns ==
  \A t \in Turns : turn[t].pc = "complete" =>
    \A c \in turn[t].answers : \E d \in calls : d.tool = c.tool /\ d.status = "completed"

(* Every exchange on Telegram or WhatsApp is in the audit log.             *)
AuditStored == audit.logged \subseteq audit.stored
=============================================================================

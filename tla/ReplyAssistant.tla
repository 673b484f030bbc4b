--------------------------- MODULE ReplyAssistant ---------------------------
(***************************************************************************)
(* The reply assistant for one inbound message: the draft answer an LLM    *)
(* writes, the edits a human makes, the reviewer's second opinion, and the *)
(* mail that is finally sent.  uq_reply_assistant_drafts_inbound_message   *)
(* allows one draft per message, so messages do not interact.              *)
(*                                                                         *)
(* draft, review and sends are COMMITTED rows.  A REST request has one     *)
(* session, commits where its endpoint calls db.commit() and loses the     *)
(* rest: POST draft-response never commits, POST .../send commits once,    *)
(* after the SMTP dialogue.  A clock stamps texts, edits and verdicts.     *)
(* A session's UPDATE carries the columns that differ from what it read    *)
(* (SQLAlchemy), so writers of one review row may mix their columns.       *)
(*                                                                         *)
(* Abstracted: the words (a text is the instant it was written), recipient *)
(* and subject checks (a send may be refused for them), logs, toggles.     *)
(***************************************************************************)
EXTENDS Naturals, FiniteSets

CONSTANTS
    Senders,    \* POST /replies/{id}/draft-response/send requests
    Reviews,    \* POST /replies/{id}/draft-response/review requests and their tasks
    MaxTime     \* bound: clock ticks (texts written and verdicts stamped)

ASSUME MaxTimeAssumption == MaxTime \in Nat
ASSUME SendersAssumption == IsFiniteSet(Senders)

VARIABLES
    now,        \* the clock
    draft,      \* the ReplyAssistantDraft row: its text and edited_at
    review,     \* the ReplyAssistantReview row; `of' is the text its words are about
    shown,      \* the text POST draft-response answered with last
    sends,      \* ReplyAssistantSend.status of the row each sender committed
    accepted,   \* the text of each sender's mail the server took
    pc, seen,   \* where each sender is, and the text it read
    rpc, task,  \* where each review request and its Celery task are
    read,       \* the text each review task gave to the reviewer model
    asked,      \* the review row each review request has read ...
    begun,      \* ... and the one its task has read or inserted
    ruling,     \* history: the last verdict no reset or failure has withdrawn
    mixed       \* history: an UPDATE of the review met another row than was read

reviewVars == <<review, rpc, task, read, asked, begun, ruling, mixed>>
sendVars == <<sends, accepted, pc, seen>>
vars == <<now, draft, review, shown, sends, accepted, pc, seen, rpc, task, read,
          asked, begun, ruling, mixed>>

Times == 0 .. MaxTime
NoDraft == [text |-> 0, edited |-> 0]
NoReview == [status |-> "none", edit |-> FALSE, at |-> 0, of |-> 0]
ReviewRows == [status : {"none", "pending", "reviewed", "failed"},
               edit : BOOLEAN, at : Times, of : Times]
NoRuling == [of |-> 0, edit |-> FALSE]
SendStatus == {"none", "sent", "failed"}

TypeOK ==
    /\ now \in Times
    /\ draft \in [text : Times, edited : Times]
    /\ review \in ReviewRows
    /\ shown \in Times
    /\ sends \in [Senders -> SendStatus]
    /\ accepted \in [Senders -> Times]
    /\ pc \in [Senders -> {"idle", "insert", "smtp", "accepted", "error",
                           "done", "refused", "lost"}]
    /\ seen \in [Senders -> Times]
    /\ rpc \in [Reviews -> {"idle", "dispatched", "insert", "update", "done", "conflict"}]
    /\ task \in [Reviews -> {"none", "queued", "inserting", "running", "retry",
                             "reinserting", "rerunning", "done", "dead"}]
    /\ read \in [Reviews -> Times]
    /\ asked \in [Reviews -> ReviewRows] /\ begun \in [Reviews -> ReviewRows]
    /\ ruling \in [of : Times, edit : BOOLEAN] /\ mixed \in BOOLEAN

Init ==
    /\ now = 0
    /\ draft = NoDraft
    /\ review = NoReview
    /\ shown = 0
    /\ sends = [s \in Senders |-> "none"]
    /\ accepted = [s \in Senders |-> 0]
    /\ pc = [s \in Senders |-> "idle"]
    /\ seen = [s \in Senders |-> 0]
    /\ rpc = [r \in Reviews |-> "idle"]
    /\ task = [r \in Reviews |-> "none"]
    /\ read = [r \in Reviews |-> 0]
    /\ asked = [r \in Reviews |-> NoReview] /\ begun = [r \in Reviews |-> NoReview]
    /\ ruling = NoRuling /\ mixed = FALSE

Exists == draft.text # 0
Sent == \E s \in Senders : sends[s] = "sent"
Tick == now < MaxTime /\ now' = now + 1

-----------------------------------------------------------------------------
(* The draft                                                                *)

(* _apply_generated_reply_draft: a new text nobody has edited yet. *)
GeneratedDraft(t) == [text |-> t, edited |-> 0]

(* dispatch_classification of a new message with an actionable label: the   *)
(* generated draft is flushed and the sync's next commit stores it.  (If no *)
(* commit follows it is lost, which is a stutter.)                          *)
GenerateInSync ==
    /\ ~Exists
    /\ Tick
    /\ draft' = GeneratedDraft(now')
    /\ UNCHANGED <<shown, sendVars, reviewVars>>

(* POST draft-response: generate_reply_assistant_draft flushes the new text *)
(* and the deletion of the old review, answers with the draft and closes    *)
(* the session, which rolls both back; refused when the draft was sent.     *)
create_or_refresh_reply_draft ==
    /\ ~Sent
    /\ Tick
    /\ shown' = now'
    /\ UNCHANGED <<draft, sendVars, reviewVars>>

(* PATCH draft-response: new text, edited_at, commit; sent or not. *)
update_reply_assistant_draft ==
    /\ Exists
    /\ Tick
    /\ draft' = [text |-> now', edited |-> now']
    /\ UNCHANGED <<shown, sendVars, reviewVars>>

-----------------------------------------------------------------------------
(* The review                                                               *)

(* Mutant of PendingReview: the enum's name instead of its value. *)
PendingReviewByName == [status |-> "PENDING", edit |-> TRUE, at |-> 0, of |-> 0]

(* The row ensure_reply_assistant_review_pending writes. *)
PendingReview == [status |-> "pending", edit |-> TRUE, at |-> 0, of |-> 0]

(* An UPDATE of row by a session that has read `from' and set it to `to'. *)
Changed(row, from, to) == IF to # from THEN to ELSE row
Updated(row, from, to) ==
    [status |-> Changed(row.status, from.status, to.status),
     edit |-> Changed(row.edit, from.edit, to.edit),
     at |-> Changed(row.at, from.at, to.at),
     of |-> Changed(row.of, from.of, to.of)]

(* POST .../review hands the task to Celery before it writes anything. *)
DispatchReview(r) ==
    /\ rpc[r] = "idle"
    /\ Exists
    /\ rpc' = [rpc EXCEPT ![r] = "dispatched"]
    /\ task' = [task EXCEPT ![r] = "queued"]
    /\ UNCHANGED <<now, draft, shown, sendVars, review, read, asked, begun, ruling, mixed>>

Running(r) == task[r] \in {"running", "rerunning"}

(* A task holds a flushed, uncommitted review row: it found none. *)
InsertedByTask == review = NoReview /\ \E r \in Reviews : Running(r)

(* ensure_reply_assistant_review_pending looks for the draft's review. *)
EnsureRead(r) ==
    /\ rpc[r] = "dispatched"
    /\ rpc' = [rpc EXCEPT ![r] = IF review = NoReview THEN "insert" ELSE "update"]
    /\ asked' = [asked EXCEPT ![r] = review]
    /\ UNCHANGED <<now, draft, shown, sendVars, review, task, read, begun, ruling, mixed>>

(* It resets what it found, or inserts a row; the unique index makes the    *)
(* INSERT wait for a task's and, if a row was committed meanwhile, fail:    *)
(* the request answers 500.                                                 *)
EnsurePending(r) ==
    /\ \/ rpc[r] = "update"
       \/ rpc[r] = "insert" /\ ~InsertedByTask
    /\ IF rpc[r] = "insert" /\ review # NoReview
         THEN /\ rpc' = [rpc EXCEPT ![r] = "conflict"]
              /\ UNCHANGED <<review, ruling, mixed>>
         ELSE /\ rpc' = [rpc EXCEPT ![r] = "done"]
              /\ review' = IF rpc[r] = "insert" THEN PendingReview
                                                ELSE Updated(review, asked[r], PendingReview)
              /\ mixed' = (mixed \/ review # asked[r])
              /\ ruling' = NoRuling
    /\ UNCHANGED <<now, draft, shown, sendVars, task, read, asked, begun>>

(* task_review_reply_assistant_draft reads the draft for the reviewer model *)
(* and looks for the draft's review.                                        *)
TaskRead(r) ==
    /\ task[r] \in {"queued", "retry"}
    /\ task' = [task EXCEPT ![r] =
                   CASE @ = "queued" -> IF review = NoReview THEN "inserting" ELSE "running"
                     [] @ = "retry" -> IF review = NoReview THEN "reinserting" ELSE "rerunning"]
    /\ read' = [read EXCEPT ![r] = draft.text]
    /\ begun' = [begun EXCEPT ![r] = review]
    /\ UNCHANGED <<now, draft, shown, sendVars, review, rpc, asked, ruling, mixed>>

(* A task whose attempt raised is tried once more, then it is dead. *)
Retried(state) == IF state \in {"inserting", "running"} THEN "retry" ELSE "dead"

(* It found no row and flushes a pending one, which waits for a task's and  *)
(* fails if a row was committed meanwhile.                                  *)
TaskInsert(r) ==
    /\ task[r] \in {"inserting", "reinserting"}
    /\ ~InsertedByTask
    /\ IF review # NoReview
         THEN task' = [task EXCEPT ![r] = Retried(@)] /\ UNCHANGED begun
         ELSE /\ task' = [task EXCEPT ![r] = IF @ = "inserting" THEN "running" ELSE "rerunning"]
              /\ begun' = [begun EXCEPT ![r] = PendingReview]
    /\ UNCHANGED <<now, draft, shown, sendVars, review, rpc, read, asked, ruling, mixed>>

(* The task's UPDATE, of the committed row or of the one it has inserted. *)
TaskWrites(r, row) ==
    LET met == IF review = NoReview THEN begun[r] ELSE review
    IN  /\ review' = Updated(met, begun[r], row)
        /\ mixed' = (mixed \/ met # begun[r])

(* The verdict is stamped with the time it is written, not the time of the  *)
(* text it is about; tracked_task_step commits.                             *)
TaskVerdict(r, edit) ==
    /\ Running(r)
    /\ Tick
    /\ TaskWrites(r, [status |-> "reviewed", edit |-> edit, at |-> now', of |-> read[r]])
    /\ ruling' = [of |-> read[r], edit |-> edit]
    /\ task' = [task EXCEPT ![r] = "done"]
    /\ UNCHANGED <<draft, shown, sendVars, rpc, read, asked, begun>>

(* Generation is switched off: the review row is marked FAILED, committed. *)
TaskDisabled(r) ==
    /\ Running(r)
    /\ TaskWrites(r, [status |-> "failed", edit |-> begun[r].edit, at |-> 0, of |-> begun[r].of])
    /\ ruling' = NoRuling
    /\ task' = [task EXCEPT ![r] = "done"]
    /\ UNCHANGED <<now, draft, shown, sendVars, rpc, read, asked, begun>>

(* The model call raises: failure_db marks the row FAILED but is closed     *)
(* without a commit, so nothing changes.                                    *)
TaskFails(r) ==
    /\ Running(r)
    /\ task' = [task EXCEPT ![r] = Retried(@)]
    /\ UNCHANGED <<now, draft, shown, sendVars, review, rpc, read, asked, begun, ruling, mixed>>

-----------------------------------------------------------------------------
(* Sending                                                                  *)

(* Mutant of SendBlocked: any edit, however old, answers the reviewer. *)
SendBlockedUnlessEdited ==
    \/ Sent
    \/ review.status = "pending"
    \/ review.edit /\ review.at # 0 /\ draft.edited = 0

(* _compute_send_blocked_reason over the rows just read.  A committed row   *)
(* is never SENDING, so its 5 minute recovery has nothing to recover.       *)
SendBlocked ==
    \/ Sent
    \/ review.status = "pending"
    \/ review.edit /\ review.at # 0 /\ draft.edited <= review.at

(* send_reply_assistant_draft reads the draft, its review and its sends. *)
SendRead(s) ==
    /\ pc[s] = "idle"
    /\ Exists
    /\ pc' = [pc EXCEPT ![s] = IF SendBlocked THEN "refused" ELSE "insert"]
    /\ seen' = [seen EXCEPT ![s] = draft.text]
    /\ UNCHANGED <<now, draft, shown, sends, accepted, reviewVars>>

(* Requests holding an uncommitted row that was flushed as SENDING; what    *)
(* they make of it, FAILED included, nobody sees before they commit.        *)
Active == {s \in Senders : pc[s] \in {"smtp", "accepted", "error"}}

(* Mutant of SendInsert: no unique index, the flush always succeeds. *)
SendInsertUnchecked(s) ==
    /\ pc[s] = "insert"
    /\ pc' = [pc EXCEPT ![s] = "smtp"]
    /\ UNCHANGED <<now, draft, shown, sends, accepted, seen, reviewVars>>

(* The SENDING row is flushed: the partial unique index makes it wait for a *)
(* concurrent row of the draft to be committed or rolled back, and fail if  *)
(* it is committed as SENT.                                                 *)
SendInsert(s) ==
    /\ pc[s] = "insert"
    /\ Active = {}
    /\ pc' = [pc EXCEPT ![s] = IF Sent THEN "refused" ELSE "smtp"]
    /\ UNCHANGED <<now, draft, shown, sends, accepted, seen, reviewVars>>

SmtpAccepts(s) ==
    /\ pc[s] = "smtp"
    /\ accepted' = [accepted EXCEPT ![s] = seen[s]]
    /\ pc' = [pc EXCEPT ![s] = "accepted"]
    /\ UNCHANGED <<now, draft, shown, sends, seen, reviewVars>>

(* MailProviderError: refused by the server, or (took) raised after DATA. *)
SmtpFails(s, took) ==
    /\ pc[s] = "smtp"
    /\ accepted' = [accepted EXCEPT ![s] = IF took THEN seen[s] ELSE 0]
    /\ pc' = [pc EXCEPT ![s] = "error"]
    /\ UNCHANGED <<now, draft, shown, sends, seen, reviewVars>>

(* The endpoint's one db.commit(). *)
SendCommit(s) ==
    /\ pc[s] \in {"accepted", "error"}
    /\ sends' = [sends EXCEPT ![s] = IF pc[s] = "accepted" THEN "sent" ELSE "failed"]
    /\ pc' = [pc EXCEPT ![s] = "done"]
    /\ UNCHANGED <<now, draft, shown, accepted, seen, reviewVars>>

(* The API process dies, or a provider raises something else than           *)
(* MailProviderError: the SENDING row goes with the session.                *)
SendLost(s) ==
    /\ pc[s] \in {"insert", "smtp", "accepted", "error"}
    /\ pc' = [pc EXCEPT ![s] = "lost"]
    /\ UNCHANGED <<now, draft, shown, sends, accepted, seen, reviewVars>>

-----------------------------------------------------------------------------

Next ==
    \/ GenerateInSync
    \/ create_or_refresh_reply_draft
    \/ update_reply_assistant_draft
    \/ \E r \in Reviews :
        \/ DispatchReview(r)
        \/ EnsureRead(r)
        \/ EnsurePending(r)
        \/ TaskRead(r)
        \/ TaskInsert(r)
        \/ \E edit \in BOOLEAN : TaskVerdict(r, edit)
        \/ TaskDisabled(r)
        \/ TaskFails(r)
    \/ \E s \in Senders :
        \/ SendRead(s)
        \/ SendInsert(s)
        \/ SmtpAccepts(s)
        \/ \E took \in BOOLEAN : SmtpFails(s, took)
        \/ SendCommit(s)
        \/ SendLost(s)

Spec == Init /\ [][Next]_vars

-----------------------------------------------------------------------------
(* Properties                                                               *)

(* Senders whose mail left although no SENT row will record it. *)
Unrecorded == {s \in Senders : accepted[s] # 0 /\ (pc[s] \in {"error", "lost"} \/ sends[s] = "failed")}

(* The lead gets one answer: concurrent send requests are serialised by the *)
(* partial unique index, so a second mail needs a first one whose row was   *)
(* lost with its session or marked FAILED although the server took it.      *)
OneReplyUnlessUnrecorded ==
    Cardinality({s \in Senders : accepted[s] # 0}) <= 1 + Cardinality(Unrecorded)

(* The state of MailOnce that the rows of the draft stand for. *)
slotOf == [d \in {"reply"} |-> IF Sent THEN "sent" ELSE IF Active # {} THEN "busy" ELSE "free"]
takenOf == [d \in {"reply"} |-> Sent \/ \E s \in Active : accepted[s] # 0]

Abstract == INSTANCE MailOnce WITH Drafts <- {"reply"}, slot <- slotOf, taken <- takenOf

(* The reply's draft is one slot, as a draft of OutreachSend is: a request  *)
(* occupies it with its flushed row, hands over at most one message, and    *)
(* either settles it for good or releases it, by its commit or by its death *)
(* (send_reply_assistant_draft).                                            *)
ImplementsMailOnce == Abstract!Spec

(* A send request gets past the review gate with the very text the last     *)
(* verdict wants edited only after reviews of the draft have mixed their    *)
(* columns, although the gate compares edited_at with reviewed_at and never *)
(* the text with the one reviewed.                                          *)
ClearedOnlyByMixedReviews ==
    [][\A s \in Senders :
          pc[s] = "idle" /\ pc'[s] = "insert" /\ ruling.edit /\ ruling.of = seen'[s]
             => mixed]_vars

(* It never does. *)
RejectedTextNotCleared ==
    [][\A s \in Senders :
          pc[s] = "idle" /\ pc'[s] = "insert" => ~(ruling.edit /\ ruling.of = seen'[s])]_vars

(* What POST draft-response returns is stored: its text is, or was before   *)
(* a later write, the text of the draft row.                                *)
ShownDraftStored ==
    draft.text >= shown

=============================================================================

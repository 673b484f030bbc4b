---------------------------- MODULE OutreachSend ----------------------------
(***************************************************************************)
(* Sending an approved outreach draft by e-mail.                           *)
(*                                                                         *)
(* Three kinds of request reach mail_service.send_draft:                   *)
(*   "rest"  POST /outreach/drafts/{id}/send (api/v1/outreach.py);         *)
(*   "batch" the batch pipeline, which generates the draft, lets           *)
(*           run_outreach_draft_automation approve and send it, and closes *)
(*           its session without a further commit;                         *)
(*   "task"  the Celery task task_generate_draft, the same automation in a *)
(*           session that tracked_task_step commits when the step ends.    *)
(*                                                                         *)
(* The variables draft, lead, delivery, conv and suppressed are COMMITTED  *)
(* database state.  What a session has flushed but not committed is known  *)
(* from pc[s] and disappears with the session (get_db and SessionLocal()   *)
(* close, they never commit).  A delivery row is named by the request that *)
(* inserted it: a request inserts at most one.                             *)
(*                                                                         *)
(* Abstracted: subject and body, provider settings and recipient address   *)
(* (a request may be refused for them at any time), logs, notifications.   *)
(***************************************************************************)
EXTENDS Naturals, FiniteSets

CONSTANTS
    Drafts,      \* outreach drafts, each of a lead of its own
    Senders,     \* requests: REST calls, batch iterations, Celery tasks
    MaxFailed    \* failed deliveries after which send_draft refuses (3)

ASSUME MaxFailedAssumption == MaxFailed \in Nat \ {0}

VARIABLES
    draft,       \* OutreachDraft.status of each draft, "absent" before it exists
    lead,        \* Lead.status of the draft's lead
    suppressed,  \* drafts whose lead's address is on the suppression list
    delivery,    \* OutreachDelivery.status of the row each request inserted
    aged,        \* requests whose delivery row is older than the 5 min cooldown
    conv,        \* OutboundConversation.status of the draft's conversation
    accepted,    \* requests whose message the mail server took (the real world)
    pc,          \* where each request is
    req,         \* the request: its kind and its draft
    answer,      \* what a REST caller was told
    review       \* the last verdict POST /drafts/{id}/review acknowledged

vars == <<draft, lead, suppressed, delivery, aged, conv, accepted, pc, req,
          answer, review>>

Kinds == {"rest", "batch", "task"}

DraftStatus == {"absent", "pending_review", "approved", "sent"}
OutreachDeliveryStatus == {"none", "sending", "sent", "failed"}
ConversationStatus == {"none", "draft_ready", "sent", "closed"}
Places == {"idle", "automate", "autosend", "check", "insert", "smtp",
           "accepted", "error", "failed", "refused", "done"}

NoRequest == [kind |-> "none", draft |-> "none"]
Requests == [kind : Kinds, draft : Drafts] \cup {NoRequest}

(* Deliveries of draft d that have status st. *)
DeliveriesOf(d, st) == {s \in Senders : req[s].draft = d /\ delivery[s] = st}

(* Mutant of ActiveOrSent: the index predicate forgets status 'sending'. *)
SentOnly(d) == DeliveriesOf(d, "sent")

(* Rows covered by the partial unique index on outreach_deliveries. *)
ActiveOrSent(d) == DeliveriesOf(d, "sending") \cup DeliveriesOf(d, "sent")

(* The request runs run_outreach_draft_automation, so it tracks a conversation. *)
Automated(s) == req[s].kind # "rest"

(* Only the Celery task's session is committed after send_draft returns. *)
CommitsAtEnd(s) == req[s].kind = "task"

Init ==
    /\ draft = [d \in Drafts |-> "absent"]
    /\ lead = [d \in Drafts |-> "new"]
    /\ suppressed = {}
    /\ delivery = [s \in Senders |-> "none"]
    /\ aged = {}
    /\ conv = [d \in Drafts |-> "none"]
    /\ accepted = {}
    /\ pc = [s \in Senders |-> "idle"]
    /\ req = [s \in Senders |-> NoRequest]
    /\ answer = [s \in Senders |-> "none"]
    /\ review = [d \in Drafts |-> "none"]

Goto(s, place) == pc' = [pc EXCEPT ![s] = place]

-----------------------------------------------------------------------------
(* Draft generation and its automation                                      *)

(* generate_outreach_draft under the workflow's commit; a suppressed lead   *)
(* gets no draft.                                                           *)
GenerateDraft(s, d, k) ==
    /\ pc[s] = "idle"
    /\ k # "rest"
    /\ draft[d] = "absent"
    /\ d \notin suppressed
    /\ draft' = [draft EXCEPT ![d] = "pending_review"]
    /\ lead' = [lead EXCEPT ![d] = "draft_ready"]
    /\ req' = [req EXCEPT ![s] = [kind |-> k, draft |-> d]]
    /\ Goto(s, "automate")
    /\ UNCHANGED <<suppressed, delivery, aged, conv, accepted, answer, review>>

(* require_approved_drafts is set: the draft waits for a human. *)
LeaveForReview(s) ==
    /\ pc[s] = "automate"
    /\ Goto(s, "done")
    /\ UNCHANGED <<draft, lead, suppressed, delivery, aged, conv, accepted,
                   req, answer, review>>

(* Mutant of AutoApprove: a status the enum does not have. *)
AutoApproveUnknownStatus(s) ==
    /\ pc[s] = "automate"
    /\ draft' = [draft EXCEPT ![req[s].draft] = "auto_approved"]
    /\ Goto(s, "autosend")
    /\ UNCHANGED <<lead, suppressed, delivery, aged, conv, accepted, req,
                   answer, review>>

(* Otherwise the automation approves and commits, then auto-sends. *)
AutoApprove(s) ==
    /\ pc[s] = "automate"
    /\ draft' = [draft EXCEPT ![req[s].draft] = "approved"]
    /\ Goto(s, "autosend")
    /\ UNCHANGED <<lead, suppressed, delivery, aged, conv, accepted, req,
                   answer, review>>

(* auto_send_draft, then _send_email flushes a DRAFT_READY conversation.    *)
(* A draft is automated once, so no conversation for it can exist yet.      *)
AutoSendDraft(s) ==
    /\ pc[s] = "autosend"
    /\ Goto(s, "check")
    /\ UNCHANGED <<draft, lead, suppressed, delivery, aged, conv, accepted,
                   req, answer, review>>

(* POST /outreach/drafts/{id}/send arrives. *)
RestSend(s, d) ==
    /\ pc[s] = "idle"
    /\ draft[d] # "absent"
    /\ req' = [req EXCEPT ![s] = [kind |-> "rest", draft |-> d]]
    /\ Goto(s, "check")
    /\ UNCHANGED <<draft, lead, suppressed, delivery, aged, conv, accepted,
                   answer, review>>

-----------------------------------------------------------------------------
(* mail_service.send_draft                                                  *)

(* Status, failure budget and cooldown are read; nothing is locked. *)
CheckPasses(s) ==
    LET d == req[s].draft
        failed == DeliveriesOf(d, "failed")
    IN  /\ draft[d] = "approved"
        /\ Cardinality(failed) < MaxFailed
        /\ failed \subseteq aged

SendCheck(s) ==
    /\ pc[s] = "check"
    /\ CheckPasses(s)
    /\ Goto(s, "insert")
    /\ UNCHANGED <<draft, lead, suppressed, delivery, aged, conv, accepted,
                   req, answer, review>>

(* Any of send_draft's refusals: mail disabled or misconfigured, no         *)
(* recipient, not approved, budget spent, cooldown running.                 *)
SendRefused(s) ==
    /\ pc[s] = "check"
    /\ Goto(s, "refused")
    /\ UNCHANGED <<draft, lead, suppressed, delivery, aged, conv, accepted,
                   req, answer, review>>

(* Mutant of InsertDelivery: no unique index refuses the row. *)
InsertDeliveryUnguarded(s) ==
    /\ pc[s] = "insert"
    /\ delivery' = [delivery EXCEPT ![s] = "sending"]
    /\ conv' = IF Automated(s)
               THEN [conv EXCEPT ![req[s].draft] = "draft_ready"] ELSE conv
    /\ Goto(s, "smtp")
    /\ UNCHANGED <<draft, lead, suppressed, aged, accepted, req, answer, review>>

(* The SENDING row is committed before the SMTP dialogue; an automated      *)
(* request's flushed conversation is committed with it.                     *)
InsertDelivery(s) ==
    /\ pc[s] = "insert"
    /\ ActiveOrSent(req[s].draft) = {}
    /\ delivery' = [delivery EXCEPT ![s] = "sending"]
    /\ conv' = IF Automated(s)
               THEN [conv EXCEPT ![req[s].draft] = "draft_ready"] ELSE conv
    /\ Goto(s, "smtp")
    /\ UNCHANGED <<draft, lead, suppressed, aged, accepted, req, answer, review>>

(* The partial unique index refuses the row: IntegrityError, rollback (the  *)
(* flushed conversation goes with it), DraftAlreadySentError.               *)
InsertConflict(s) ==
    /\ pc[s] = "insert"
    /\ ActiveOrSent(req[s].draft) # {}
    /\ Goto(s, "done")
    /\ answer' = [answer EXCEPT ![s] = IF Automated(s) THEN @ ELSE "refused"]
    /\ UNCHANGED <<draft, lead, suppressed, delivery, aged, conv, accepted,
                   req, review>>

(* The server takes the message and its reply arrives. *)
SmtpAccept(s) ==
    /\ pc[s] = "smtp"
    /\ accepted' = accepted \cup {s}
    /\ Goto(s, "accepted")
    /\ UNCHANGED <<draft, lead, suppressed, delivery, aged, conv, req, answer,
                   review>>

(* Mutant of SmtpReject: the provider swallows the error and returns a result. *)
SmtpRejectSwallowed(s) ==
    /\ pc[s] = "smtp"
    /\ Goto(s, "accepted")
    /\ UNCHANGED <<draft, lead, suppressed, delivery, aged, conv, accepted,
                   req, answer, review>>

(* OSError or SMTPException: MailProviderError, and the message was not taken. *)
SmtpReject(s) ==
    /\ pc[s] = "smtp"
    /\ Goto(s, "error")
    /\ UNCHANGED <<draft, lead, suppressed, delivery, aged, conv, accepted,
                   req, answer, review>>

(* The server took the message but its reply was lost (a timeout after      *)
(* DATA): the provider raises the same MailProviderError.                   *)
SmtpReplyLost(s) ==
    /\ pc[s] = "smtp"
    /\ accepted' = accepted \cup {s}
    /\ Goto(s, "error")
    /\ UNCHANGED <<draft, lead, suppressed, delivery, aged, conv, req, answer,
                   review>>

(* The handler of MailProviderError commits FAILED and RETURNS the row. *)
MarkFailed(s) ==
    /\ pc[s] = "error"
    /\ delivery' = [delivery EXCEPT ![s] = "failed"]
    /\ Goto(s, "failed")
    /\ UNCHANGED <<draft, lead, suppressed, aged, conv, accepted, req, answer,
                   review>>

-----------------------------------------------------------------------------
(* What the caller does with the outcome                                    *)

(* send_draft flushed SENT rows; they survive only if the session commits.  *)
FinishAccepted(s) ==
    LET d == req[s].draft
    IN  /\ pc[s] = "accepted"
        /\ Goto(s, "done")
        /\ IF CommitsAtEnd(s)
           THEN /\ delivery' = [delivery EXCEPT ![s] = "sent"]
                /\ draft' = [draft EXCEPT ![d] = "sent"]
                /\ lead' = [lead EXCEPT ![d] = "contacted"]
                /\ conv' = [conv EXCEPT ![d] = "sent"]
           ELSE UNCHANGED <<delivery, draft, lead, conv>>
        /\ answer' = [answer EXCEPT ![s] = IF Automated(s) THEN @ ELSE "sent"]
        /\ UNCHANGED <<suppressed, aged, accepted, req, review>>

(* _send_email ignores the FAILED row send_draft returned and flushes a     *)
(* SENT conversation; a REST caller receives the FAILED row.                *)
FinishFailed(s) ==
    /\ pc[s] = "failed"
    /\ Goto(s, "done")
    /\ conv' = IF CommitsAtEnd(s)
               THEN [conv EXCEPT ![req[s].draft] = "sent"] ELSE conv
    /\ answer' = [answer EXCEPT ![s] = IF Automated(s) THEN @ ELSE "failed"]
    /\ UNCHANGED <<draft, lead, suppressed, delivery, aged, accepted, req, review>>

(* _send_email closes the conversation when send_draft raised. *)
FinishRefused(s) ==
    /\ pc[s] = "refused"
    /\ Goto(s, "done")
    /\ conv' = IF CommitsAtEnd(s)
               THEN [conv EXCEPT ![req[s].draft] = "closed"] ELSE conv
    /\ answer' = [answer EXCEPT ![s] = IF Automated(s) THEN @ ELSE "refused"]
    /\ UNCHANGED <<draft, lead, suppressed, delivery, aged, accepted, req, review>>

(* The process dies, or the task is killed at its hard time limit: whatever *)
(* the session had flushed is rolled back.  A redelivered task finds the    *)
(* draft and skips, so it is not a new request.                             *)
Crash(s) ==
    /\ pc[s] \notin {"idle", "done"}
    /\ Goto(s, "done")
    /\ UNCHANGED <<draft, lead, suppressed, delivery, aged, conv, accepted,
                   req, answer, review>>

-----------------------------------------------------------------------------
(* The surroundings                                                         *)

(* Five minutes pass since the row of request s was created. *)
Elapse(s) ==
    /\ delivery[s] # "none"
    /\ s \notin aged
    /\ aged' = aged \cup {s}
    /\ UNCHANGED <<draft, lead, suppressed, delivery, conv, accepted, pc, req,
                   answer, review>>

(* POST /drafts/{id}/review answers with the new status, and get_db closes  *)
(* the session: update_draft only flushed.                                  *)
ReviewDraft(d, verdict) ==
    /\ draft[d] # "absent"
    /\ review[d] # verdict
    /\ review' = [review EXCEPT ![d] = verdict]
    /\ UNCHANGED <<draft, lead, suppressed, delivery, aged, conv, accepted, pc,
                   req, answer>>

(* POST /suppression commits an entry for the lead's address. *)
Suppress(d) ==
    /\ d \notin suppressed
    /\ suppressed' = suppressed \cup {d}
    /\ UNCHANGED <<draft, lead, delivery, aged, conv, accepted, pc, req, answer,
                   review>>

(* DELETE /suppression/{id}. *)
Unsuppress(d) ==
    /\ d \in suppressed
    /\ suppressed' = suppressed \ {d}
    /\ UNCHANGED <<draft, lead, delivery, aged, conv, accepted, pc, req, answer,
                   review>>

-----------------------------------------------------------------------------
SendStep(s) ==
    \/ LeaveForReview(s) \/ AutoApprove(s) \/ AutoSendDraft(s)
    \/ SendCheck(s) \/ SendRefused(s)
    \/ InsertDelivery(s) \/ InsertConflict(s)
    \/ SmtpAccept(s) \/ SmtpReject(s) \/ SmtpReplyLost(s) \/ MarkFailed(s)
    \/ FinishAccepted(s) \/ FinishFailed(s) \/ FinishRefused(s)

Next ==
    \/ \E s \in Senders :
          \/ SendStep(s)
          \/ Crash(s)
          \/ Elapse(s)
          \/ \E d \in Drafts : RestSend(s, d)
          \/ \E d \in Drafts, k \in Kinds : GenerateDraft(s, d, k)
    \/ \E d \in Drafts :
          \/ \E v \in {"approved", "rejected"} : ReviewDraft(d, v)
          \/ Suppress(d)
          \/ Unsuppress(d)

Spec == Init /\ [][Next]_vars

-----------------------------------------------------------------------------
TypeOK ==
    /\ draft \in [Drafts -> DraftStatus]
    /\ lead \in [Drafts -> {"new", "draft_ready", "contacted"}]
    /\ suppressed \subseteq Drafts
    /\ delivery \in [Senders -> OutreachDeliveryStatus]
    /\ aged \subseteq Senders
    /\ conv \in [Drafts -> ConversationStatus]
    /\ accepted \subseteq Senders
    /\ pc \in [Senders -> Places]
    /\ req \in [Senders -> Requests]
    /\ answer \in [Senders -> {"none", "sent", "failed", "refused"}]
    /\ review \in [Drafts -> {"none", "approved", "rejected"}]

(* CC-1, no double send: of two messages of one draft that the mail server  *)
(* took, at least one is recorded FAILED (its reply was lost).  Without a   *)
(* lost reply a draft is mailed at most once, whatever requests race and    *)
(* wherever they crash (mail_service.send_draft, the partial unique index). *)
NoDoubleSend ==
    \A s1, s2 \in accepted :
        s1 # s2 /\ req[s1].draft = req[s2].draft
        => "failed" \in {delivery[s1], delivery[s2]}

(* A committed SENT draft is not a claim: the lead is CONTACTED and exactly *)
(* the delivery that is SENT was taken by the mail server                   *)
(* (send_draft's flush of delivery, draft and lead in one transaction).     *)
SentMeansMailed ==
    \A d \in Drafts :
        draft[d] = "sent" =>
            /\ lead[d] = "contacted"
            /\ \E s \in accepted : req[s].draft = d /\ delivery[s] = "sent"

(* The state of MailOnce that a database state stands for. *)
slotOf == [d \in Drafts |-> IF DeliveriesOf(d, "sent") # {} THEN "sent"
                            ELSE IF DeliveriesOf(d, "sending") # {} THEN "busy"
                            ELSE "free"]
takenOf == [d \in Drafts |-> accepted \cap ActiveOrSent(d) # {}]

Abstract == INSTANCE MailOnce WITH slot <- slotOf, taken <- takenOf

(* The committed delivery rows and the mail server implement one slot per   *)
(* draft: an attempt hands over at most one message, only a taken message   *)
(* is settled as SENT, a SENT draft is never attempted again, and a crashed *)
(* or uncommitted attempt keeps the slot (send_draft, all its callers).     *)
ImplementsMailOnce == Abstract!Spec

-----------------------------------------------------------------------------
(* What the repository says of the program and the code does not do         *)

(* "max 3 failed attempts per draft" (mail_service.py, CC-7). *)
FailedAttemptsBounded ==
    \A d \in Drafts : Cardinality(DeliveriesOf(d, "failed")) <= MaxFailed

(* A REST send that was answered "sent" is persisted: delivery and draft    *)
(* are SENT (tests/test_api_mail.py).                                       *)
RestSendPersists ==
    \A s \in Senders :
        answer[s] = "sent" => delivery[s] = "sent" /\ draft[req[s].draft] = "sent"

(* "Human-in-the-loop: approve or reject an outreach draft": an             *)
(* acknowledged approval takes the draft out of PENDING_REVIEW.             *)
ApprovalPersists ==
    \A d \in Drafts : review[d] = "approved" => draft[d] # "pending_review"

(* A SENT conversation is one whose message the mail server took. *)
ConversationSentMeansMailed ==
    \A d \in Drafts :
        conv[d] = "sent" => \E s \in accepted : req[s].draft = d

(* Suppression is checked before sending: a request for a suppressed lead   *)
(* does not get past send_draft's checks.                                   *)
SuppressionCheckedAtSend ==
    [][\A s \in Senders :
          pc[s] = "check" /\ pc'[s] = "insert" => req[s].draft \notin suppressed]_vars
=============================================================================

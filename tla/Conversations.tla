---------------------------- MODULE Conversations ----------------------------
(***************************************************************************)
(* Conversations with leads: the assisted reply (ReplyAssistant), the      *)
(* mailbox, the matching of its mails, and the closer, side by side.  In   *)
(* the models they share no variable.                                      *)
(***************************************************************************)
EXTENDS ReplyAssistant, Sequences

CONSTANTS
  Syncs, BeatSyncs, SyncLimit, MaxMail, MaxCrashes, AlwaysClassify,  \* InboundMail
  Leads, LeadOf, TopicOf, Topics, LookedAt, MaxMails, MaxRefs, MaxReplies,  \* ThreadMatch
  Replies, Sends                                                     \* Closer

VARIABLES
  part,   \* the component that moves, in the runs that move one at a time
  mailbox, store, replies, lead, syncPc, todo, cur, leadSeen, unsaved, classified, crashes,
  delivered, aged, replySends, threads, messages,
  convo, reply, send, sent

\* The mailbox and its syncs, as in InboundMail.
ASSUME MailAssumption ==
  /\ SyncLimit \in Nat \ {0} /\ MaxMail \in Nat /\ BeatSyncs \subseteq Syncs
  /\ MaxCrashes \in Nat /\ AlwaysClassify \in BOOLEAN

\* Each delivery (OutreachDelivery.lead_id) is some lead's, and has a recipient and
\* a subject.
ASSUME MatchAssumption ==
  /\ LeadOf \in Seq(Leads) /\ MaxReplies \in Nat /\ LookedAt \in Nat /\ MaxRefs \in Nat
  /\ TopicOf \in [DOMAIN LeadOf -> Topics]
  /\ \A t \in Topics : t = [to |-> t.to, subject |-> t.subject] /\ t.to # "none"

Mail == INSTANCE InboundMail WITH pc <- syncPc, shown <- classified
Match == INSTANCE ThreadMatch WITH sent <- delivered
Talk == INSTANCE Closer

mailVars == <<mailbox, store, replies, lead, syncPc, todo, cur, leadSeen, unsaved, classified, crashes>>
matchVars == <<delivered, aged, replySends, threads, messages>>
talkVars == <<convo, reply, send, sent>>

---------------------------------------------------------------------------
\* The rows and requests of the component that moves keep their types.
TypesOK ==
  /\ part \in {"reply", "review"} => TypeOK
  /\ part = "mail" => Mail!TypeOK
  /\ part = "match" => Match!TypeOK
  /\ part = "talk" => Talk!TypeOK

\* One mail is one message and one REPLIED log row, however many syncs fetch it.
ReplyLoggedOnce == Mail!ReplyLoggedOnce

\* match_delivery finds the surest delivery there is: by its answer headers before
\* its references, and by sender and subject only then, the newest of the last 30 days
\* - unless LookedAt newer mails to that address keep it out of sight.
MatchIsSurest == part = "match" => Match!MatchIsSurest

\* A thread (resolve_thread) that names a delivery names that delivery's lead.
ThreadLeadIsDeliveryLead == Match!ThreadLeadIsDeliveryLead

\* generate_closer_response: an answer of the closer stands right after the client's
\* message it answers.
AnswerFollowsQuestion == Talk!AnswerFollowsQuestion

\* No request undoes the operator's takeover (operator_takeover).
TakeoverSticks == Talk!TakeoverSticks
=============================================================================

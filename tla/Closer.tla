------------------------------- MODULE Closer -------------------------------
(***************************************************************************)
(* One outbound conversation in closer mode: POST .../reply                *)
(* (generate_closer_response), POST .../send-reply (send_closer_reply) and *)
(* POST .../takeover (operator_takeover).  A reply request reads the row,  *)
(* waits for the model, and writes the messages it read plus two.  The     *)
(* columns it does not assign keep what other requests have committed.     *)
(***************************************************************************)
EXTENDS Naturals, Sequences, SequencesExt

CONSTANTS Replies,   \* reply requests, each with its client's message
          Sends      \* send-reply requests

VARIABLES convo,     \* the committed row: status, took, messages
          reply,     \* each reply request: where it is and the row it read
          send,      \* each send request: where it is and the text it read
          sent       \* texts handed to WhatsApp: [text, after], after says
                     \* whether the takeover had been committed by then

vars == <<convo, reply, send, sent>>

Statuses == {"sent", "replied", "meeting", "operator_took_over"}
Intents == {"meeting", "objection", "other"}

Client(r) == [role |-> "client", of |-> r]
Mote(r) == [role |-> "mote", of |-> r]
First == "first"        \* the opening mail, the text of no reply

\* Every intent but "meeting" leaves the conversation as replied.
StatusFor(intent) == IF intent = "meeting" THEN "meeting" ELSE "replied"

TypeOK ==
  /\ convo.status \in Statuses /\ convo.took \in BOOLEAN
  /\ convo.messages \in Seq([role : {"client", "mote"}, of : Replies \cup {First}])
  /\ \A r \in Replies : reply[r].pc \in {"idle", "llm", "ok", "refused", "error"}
  /\ \A s \in Sends : send[s].pc \in {"idle", "sending", "ok", "refused", "error"}

\* _send_email has sent the draft and stored it as the first message.
Init ==
  /\ convo = [status |-> "sent", took |-> FALSE, messages |-> <<Mote(First)>>]
  /\ reply = [r \in Replies |-> [pc |-> "idle", read |-> <<>>]]
  /\ send = [s \in Sends |-> [pc |-> "idle", text |-> First]]
  /\ sent = <<>>

---------------------------------------------------------------------------
(* POST /conversations/{id}/reply                                          *)

ReplyBegin(r) ==
  /\ reply[r].pc = "idle"
  /\ reply' = [reply EXCEPT ![r] = IF convo.took THEN [pc |-> "refused", read |-> <<>>]
                                   ELSE [pc |-> "llm", read |-> convo.messages]]
  /\ UNCHANGED <<convo, send, sent>>

\* Mutant of ReplyCommit: the whole row is written back as it was read.
ReplyCommitRow(r, intent) ==
  /\ reply[r].pc = "llm"
  /\ convo' = [status |-> StatusFor(intent), took |-> FALSE,
               messages |-> reply[r].read \o <<Client(r), Mote(r)>>]
  /\ reply' = [reply EXCEPT ![r].pc = "ok"]
  /\ UNCHANGED <<send, sent>>

\* Mutant of ReplyCommit: the client's message goes to the front of the list.
ReplyCommitFront(r, intent) ==
  /\ reply[r].pc = "llm"
  /\ convo' = [convo EXCEPT !.status = StatusFor(intent),
                            !.messages = <<Client(r)>> \o reply[r].read \o <<Mote(r)>>]
  /\ reply' = [reply EXCEPT ![r].pc = "ok"]
  /\ UNCHANGED <<send, sent>>

\* The model has answered, perhaps with nothing: both messages and the status
\* are assigned and committed.
ReplyCommit(r, intent) ==
  /\ reply[r].pc = "llm"
  /\ convo' = [convo EXCEPT !.status = StatusFor(intent),
                            !.messages = reply[r].read \o <<Client(r), Mote(r)>>]
  /\ reply' = [reply EXCEPT ![r].pc = "ok"]
  /\ UNCHANGED <<send, sent>>

\* The model, or the commit, raises: nothing is stored.
ReplyError(r) ==
  /\ reply[r].pc = "llm"
  /\ reply' = [reply EXCEPT ![r].pc = "error"]
  /\ UNCHANGED <<convo, send, sent>>

---------------------------------------------------------------------------
(* POST /conversations/{id}/send-reply                                     *)

LatestText == Last(SelectSeq(convo.messages, LAMBDA m : m.role = "mote")).of

SendBegin(s) ==
  /\ send[s].pc = "idle"
  /\ send' = [send EXCEPT ![s] = IF convo.took THEN [pc |-> "refused", text |-> First]
                                 ELSE [pc |-> "sending", text |-> LatestText]]
  /\ UNCHANGED <<convo, reply, sent>>

\* send_message_to_phone: the provider takes the message, or it does not.
SendDeliver(s) ==
  /\ send[s].pc = "sending"
  /\ sent' = Append(sent, [text |-> send[s].text, after |-> convo.took])
  /\ send' = [send EXCEPT ![s].pc = "ok"]
  /\ UNCHANGED <<convo, reply>>

SendError(s) ==
  /\ send[s].pc = "sending"
  /\ send' = [send EXCEPT ![s].pc = "error"]
  /\ UNCHANGED <<convo, reply, sent>>

---------------------------------------------------------------------------
(* POST /conversations/{id}/takeover                                       *)

Takeover ==
  /\ convo' = [convo EXCEPT !.took = TRUE, !.status = "operator_took_over"]
  /\ UNCHANGED <<reply, send, sent>>

Next ==
  \/ \E r \in Replies : \/ ReplyBegin(r) \/ ReplyError(r)
                        \/ \E intent \in Intents : ReplyCommit(r, intent)
  \/ \E s \in Sends : SendBegin(s) \/ SendDeliver(s) \/ SendError(s)
  \/ Takeover

Spec == Init /\ [][Next]_vars

---------------------------------------------------------------------------
(* A takeover is never undone: no request that read the conversation       *)
(* before it gives Mote the conversation back.                             *)
TakeoverSticks == [][convo.took => convo'.took]_vars

(* In the stored conversation each answer of Mote stands directly after    *)
(* the client's message it answers, whatever requests run at once: the     *)
(* model is given the last ten messages as the history.                    *)
AnswerFollowsQuestion ==
  \A i \in DOMAIN convo.messages : LET m == convo.messages[i] IN
    m.role = "mote" /\ m.of # First => i > 1 /\ convo.messages[i - 1] = Client(m.of)

(* A client's message whose reply request succeeded is in the record.      *)
ClientMessagesKept ==
  \A r \in Replies : reply[r].pc = "ok" => Contains(convo.messages, Client(r))

(* A conversation the operator has taken over says so in its status.       *)
TakeoverShown == convo.took => convo.status = "operator_took_over"

(* Mote sends nothing once the operator has taken over.                    *)
NoSendAfterTakeover == \A i \in DOMAIN sent : ~sent[i].after
=============================================================================

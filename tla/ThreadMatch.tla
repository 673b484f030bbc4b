----------------------------- MODULE ThreadMatch -----------------------------
(***************************************************************************)
(* Linking an inbound mail to the outreach it answers (thread_matcher.py): *)
(* match_delivery finds a delivery or an assisted reply by In-Reply-To, by *)
(* References, or by sender and subject; resolve_thread files the mail in  *)
(* a thread and merges what the match says of it.                          *)
(*                                                                         *)
(* Message ids, addresses and subjects are compared after normalisation    *)
(* (mail_helpers.py), so they are model values; a topic is an address and  *)
(* a subject.  Deliveries are numbered in the order they were sent, which  *)
(* is the order in which they grow older than the 30 days of the search    *)
(* by subject.                                                             *)
(* A mail read by IMAP has a UID, so every mail has an external thread id. *)
(***************************************************************************)
EXTENDS Naturals, Sequences, SequencesExt, FiniteSets, FiniteSetsExt

CONSTANTS
    Leads,        \* leads with a delivery
    LeadOf,       \* the lead of each delivery, by number
    TopicOf,      \* the recipient (to) and subject of each delivery
    Topics,       \* recipients and subjects
    LookedAt,     \* deliveries a search by subject looks at (10)
    MaxMails,     \* bound: inbound mails
    MaxRefs,      \* bound: References of a mail
    MaxReplies    \* bound: assisted replies sent

Deliveries == DOMAIN LeadOf

VARIABLES
    sent,         \* deliveries 1 .. sent are SENT
    aged,         \* deliveries 1 .. aged were sent over 30 days ago
    replySends,   \* ReplyAssistantSend rows: their thread and lead
    threads,      \* EmailThread rows by thread key
    messages      \* InboundMessage rows: their thread key and lead

vars == <<sent, aged, replySends, threads, messages>>

None == "none"
DeliveryId(d) == <<"delivery", d>>
ReplyId(k) == <<"reply", k>>
UnknownId == <<"unknown", 0>>
OwnId == <<"own", Len(messages) + 1>>

NoTopic == [to |-> None, subject |-> None]

MessageIds == {DeliveryId(d) : d \in Deliveries}
    \cup {ReplyId(k) : k \in 1 .. MaxReplies} \cup {UnknownId}

(* A mail: its In-Reply-To, its References and, if the subject has a reply  *)
(* prefix, its sender and subject.                                          *)
Payloads == [irt : {<<>>} \cup {<<i>> : i \in MessageIds},
             refs : BoundedSeq(MessageIds, MaxRefs),
             topic : Topics \cup {NoTopic}]

NoMatch == [delivery |-> 0, reply |-> 0, conf |-> 0]

Init ==
    /\ sent = 0
    /\ aged = 0
    /\ replySends = <<>>
    /\ threads = [k \in {} |-> None]
    /\ messages = <<>>

-----------------------------------------------------------------------------
(* match_delivery                                                           *)

(* _find_delivery_by_message_ids: the first id that is a delivery's. *)
FindDelivery(ids) ==
    LET known == {i \in DOMAIN ids : \E d \in 1 .. sent : ids[i] = DeliveryId(d)}
    IN  IF known = {} THEN 0 ELSE ids[Min(known)][2]

(* _find_reply_send_by_message_ids: the first id that is a sent reply's. *)
FindReply(ids) ==
    LET known == {i \in DOMAIN ids : \E k \in DOMAIN replySends : ids[i] = ReplyId(k)}
    IN  IF known = {} THEN 0 ELSE ids[Min(known)][2]

(* _find_delivery_by_subject_fallback reads the newest deliveries of the    *)
(* last 30 days to the mail's sender, LookedAt of them at most ...          *)
LookedThrough(to) ==
    LET recent == {d \in aged + 1 .. sent : TopicOf[d].to = to}
    IN  {d \in recent : Cardinality({e \in recent : e > d}) < LookedAt}

(* ... and takes the first of them that has the subject.                    *)
FindBySubject(topic) ==
    Max({0} \cup {d \in LookedThrough(topic.to) : TopicOf[d].subject = topic.subject})

ByIds(ids, conf) ==
    IF FindDelivery(ids) # 0 THEN [delivery |-> FindDelivery(ids), reply |-> 0, conf |-> conf]
    ELSE IF FindReply(ids) # 0 THEN [delivery |-> 0, reply |-> FindReply(ids), conf |-> conf]
    ELSE NoMatch

(* Mutant of match_delivery: References are looked at before In-Reply-To. *)
match_delivery_swapped(p) ==
    IF ByIds(p.refs, 9) # NoMatch THEN ByIds(p.refs, 9)
    ELSE IF ByIds(p.irt, 10) # NoMatch THEN ByIds(p.irt, 10)
    ELSE [NoMatch EXCEPT !.delivery = FindBySubject(p.topic),
                         !.conf = IF FindBySubject(p.topic) = 0 THEN 0 ELSE 3]

(* Confidence in tenths: 10 In-Reply-To, 9 References, 3 subject, 0 none. *)
match_delivery(p) ==
    IF ByIds(p.irt, 10) # NoMatch THEN ByIds(p.irt, 10)
    ELSE IF ByIds(p.refs, 9) # NoMatch THEN ByIds(p.refs, 9)
    ELSE [NoMatch EXCEPT !.delivery = FindBySubject(p.topic),
                         !.conf = IF FindBySubject(p.topic) = 0 THEN 0 ELSE 3]

MatchLead(match) ==
    IF match.delivery # 0 THEN LeadOf[match.delivery]
    ELSE IF match.reply # 0 THEN replySends[match.reply].lead ELSE None

-----------------------------------------------------------------------------
(* resolve_thread                                                           *)

ExternalThreadId(p) ==
    IF p.irt # <<>> THEN p.irt[1] ELSE IF p.refs # <<>> THEN p.refs[1] ELSE OwnId

(* Mutant of ThreadKey: the external thread id wins over the delivery. *)
ThreadKeyByHeader(p, match) ==
    IF match.reply # 0 THEN replySends[match.reply].thread
    ELSE <<"message", ExternalThreadId(p)>>

(* The thread of the answered reply, else _build_thread_key. *)
ThreadKey(p, match) ==
    IF match.reply # 0 THEN replySends[match.reply].thread
    ELSE IF match.delivery # 0 THEN <<"delivery", match.delivery>>
    ELSE <<"message", ExternalThreadId(p)>>

(* _merge_thread_match: a match at least as sure as the thread's replaces   *)
(* it; a reply's match leaves the delivery alone.                           *)
Merge(thread, match) ==
    IF match.conf < thread.conf THEN thread
    ELSE IF match.delivery # 0
      THEN [lead |-> MatchLead(match), delivery |-> match.delivery, conf |-> match.conf]
    ELSE IF match.reply # 0
      THEN [thread EXCEPT !.lead = MatchLead(match), !.conf = match.conf]
    ELSE thread

(* The EmailThread row resolve_thread inserts. *)
NewThread(match) ==
    [lead |-> MatchLead(match), delivery |-> match.delivery, conf |-> match.conf]

-----------------------------------------------------------------------------

SendDelivery ==
    /\ sent < Len(LeadOf)
    /\ sent' = sent + 1
    /\ UNCHANGED <<aged, replySends, threads, messages>>

(* 30 days have passed since the oldest of the deliveries not aged yet. *)
Age ==
    /\ aged < sent
    /\ aged' = aged + 1
    /\ UNCHANGED <<sent, replySends, threads, messages>>

(* The assistant's answer to message n, filed under the message's thread. *)
SendReply(n) ==
    /\ Len(replySends) < MaxReplies
    /\ replySends' = Append(replySends, messages[n])
    /\ UNCHANGED <<sent, aged, threads, messages>>

(* _persist_inbound_message of a new mail. *)
Receive(p) ==
    LET match == match_delivery(p)
        key == ThreadKey(p, match)
        thread == IF key \in DOMAIN threads THEN Merge(threads[key], match) ELSE NewThread(match)
    IN  /\ Len(messages) < MaxMails
        /\ threads' = [k \in DOMAIN threads \cup {key} |->
                          IF k = key THEN thread ELSE threads[k]]
        /\ messages' = Append(messages, [thread |-> key, lead |-> MatchLead(match)])
        /\ UNCHANGED <<sent, aged, replySends>>

Next ==
    \/ SendDelivery
    \/ Age
    \/ \E n \in DOMAIN messages : SendReply(n)
    \/ \E p \in Payloads : Receive(p)

Spec == Init /\ [][Next]_vars

-----------------------------------------------------------------------------
(* Properties                                                               *)

TypeOK ==
    /\ sent \in 0 .. Len(LeadOf)
    /\ aged \in 0 .. sent
    /\ \A k \in DOMAIN threads :
          threads[k] \in [lead : Leads \cup {None}, delivery : 0 .. Len(LeadOf), conf : {0, 3, 9, 10}]
    /\ \A n \in DOMAIN messages :
          messages[n].thread \in DOMAIN threads /\ messages[n].lead \in Leads \cup {None}
    /\ \A k \in DOMAIN replySends : replySends[k].thread \in DOMAIN threads

(* Reference: what a mail names in its headers, and how sure each is. *)
Candidates(p) ==
    {[delivery |-> d, reply |-> 0, conf |-> c] : d \in 1 .. sent, c \in {10, 9, 3}}
    \cup {[delivery |-> 0, reply |-> k, conf |-> c] : k \in DOMAIN replySends, c \in {10, 9}}

Supported(p, m) ==
    LET id == IF m.delivery # 0 THEN DeliveryId(m.delivery) ELSE ReplyId(m.reply)
    IN  \/ m.conf = 10 /\ p.irt = <<id>>
        \/ m.conf = 9 /\ Contains(p.refs, id)
        \/ m.conf = 3 /\ TopicOf[m.delivery] = p.topic /\ m.delivery > aged

(* Out of sight of a search by subject: as many newer deliveries to the     *)
(* same address as the search looks at.                                     *)
Crowded(d) ==
    Cardinality({e \in d + 1 .. sent : TopicOf[e].to = TopicOf[d].to}) >= LookedAt

(* match_delivery returns a candidate the headers support, none they        *)
(* support is surer - a subject never outvotes a message id - and among     *)
(* those of the same subject none is newer.  It returns nothing only when   *)
(* nothing is supported, or only subjects are and the newest delivery with  *)
(* the subject is crowded out.                                              *)
MatchIsSurest ==
    \A p \in Payloads :
        LET all == {m \in Candidates(p) : Supported(p, m)}
            found == match_delivery(p)
        IN  \/ /\ found \in all
               /\ \A m \in all : m.conf <= found.conf
               /\ found.conf = 3 => \A m \in all : m.delivery <= found.delivery
            \/ /\ found = NoMatch
               /\ \A m \in all : m.conf = 3 /\ Crowded(m.delivery)

(* A thread's lead is the lead of the thread's delivery, although a match   *)
(* through an assisted reply rewrites only the first.                       *)
ThreadLeadIsDeliveryLead ==
    \A k \in DOMAIN threads :
        threads[k].delivery # 0 => threads[k].lead = LeadOf[threads[k].delivery]

=============================================================================

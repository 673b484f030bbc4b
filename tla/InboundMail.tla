---------------------------- MODULE InboundMail ----------------------------
(***************************************************************************)
(* Reading the IMAP mailbox: the beat task task_sync_inbound_mail and      *)
(* POST /mail/inbound/sync run sync_inbound_messages concurrently.         *)
(*                                                                         *)
(* A sync lists the newest SyncLimit mails and handles them one by one:    *)
(* look the dedupe key up, insert the message, commit, classify.  The      *)
(* session is one for the whole sync, and the only commit is the one after *)
(* an insert (plus a last one in the endpoint), so a classification is     *)
(* stored by the commit of a LATER mail.  unsaved[p] is that classification *)
(* while it is only flushed.                                               *)
(*                                                                         *)
(* Mail n is the n-th of the mailbox; all mails answer one lead's outreach *)
(* (match_delivery is modelled in ThreadMatch).  store, lead and replies   *)
(* are committed.                                                          *)
(***************************************************************************)
EXTENDS Naturals, Sequences, SequencesExt

CONSTANTS
    Syncs,        \* concurrent runs of sync_inbound_messages
    BeatSyncs,    \* those started by the beat task; the others are REST calls
    SyncLimit,    \* MAIL_INBOUND_SYNC_LIMIT
    MaxMail,      \* bound: mails that arrive
    MaxCrashes,   \* bound: workers or API processes killed
    AlwaysClassify \* auto_classify_inbound is never switched off

ASSUME SyncLimitAssumption ==
    SyncLimit \in Nat \ {0} /\ MaxMail \in Nat /\ BeatSyncs \subseteq Syncs
    /\ MaxCrashes \in Nat /\ AlwaysClassify \in BOOLEAN

VARIABLES
    mailbox,      \* number of mails on the server
    store,        \* classification_status of each mail's InboundMessage row
    replies,      \* OutreachLog REPLIED rows of each mail
    lead,         \* Lead.status
    pc, todo, cur,\* where each sync is, the mails left, the mail in hand
    leadSeen,     \* Lead.status as the sync read it
    unsaved,      \* a flushed classification the session has not committed
    shown,        \* the mail POST classify or classify-pending last called classified
    crashes

vars == <<mailbox, store, replies, lead, pc, todo, cur, leadSeen, unsaved,
          shown, crashes>>

Mails == 1 .. MaxMail
Nothing == [mail |-> 0, status |-> "none"]
ClassificationStatus == {"absent", "pending", "classified", "failed"}
Flushed == [mail : Mails, status : {"classified", "failed"}]

TypeOK ==
    /\ mailbox \in 0 .. MaxMail
    /\ store \in [Mails -> ClassificationStatus]
    /\ replies \in [Mails -> Nat]
    /\ lead \in {"contacted", "replied", "won"}
    /\ pc \in [Syncs -> {"idle", "list", "next", "insert", "commit", "classify", "crashed"}]
    /\ todo \in [Syncs -> Seq(Mails)]
    /\ cur \in [Syncs -> 0 .. MaxMail]
    /\ leadSeen \in [Syncs -> {"none", "contacted", "replied", "won"}]
    /\ unsaved \in [Syncs -> Flushed \cup {Nothing}]
    /\ shown \in 0 .. MaxMail
    /\ crashes \in 0 .. MaxCrashes

Init ==
    /\ mailbox = 0
    /\ store = [n \in Mails |-> "absent"]
    /\ replies = [n \in Mails |-> 0]
    /\ lead = "contacted"
    /\ pc = [p \in Syncs |-> "idle"]
    /\ todo = [p \in Syncs |-> <<>>]
    /\ cur = [p \in Syncs |-> 0]
    /\ leadSeen = [p \in Syncs |-> "none"]
    /\ unsaved = [p \in Syncs |-> Nothing]
    /\ shown = 0
    /\ crashes = 0

Goto(p, place) == pc' = [pc EXCEPT ![p] = place]

(* The rows of st once session p commits its flushed classification. *)
Committed(p, st) ==
    IF unsaved[p] = Nothing THEN st ELSE [st EXCEPT ![unsaved[p].mail] = unsaved[p].status]

(* The session is closed: what it had not committed is rolled back. *)
EndSession(p, place) ==
    /\ Goto(p, place)
    /\ todo' = [todo EXCEPT ![p] = <<>>]
    /\ cur' = [cur EXCEPT ![p] = 0]
    /\ leadSeen' = [leadSeen EXCEPT ![p] = "none"]
    /\ unsaved' = [unsaved EXCEPT ![p] = Nothing]

-----------------------------------------------------------------------------
(* The world                                                                *)

MailArrives ==
    /\ mailbox < MaxMail
    /\ mailbox' = mailbox + 1
    /\ UNCHANGED <<store, replies, lead, pc, todo, cur, leadSeen, unsaved, shown, crashes>>

(* PATCH /leads/{id}/status: the operator closes the lead. *)
CloseLead ==
    /\ lead # "won"
    /\ lead' = "won"
    /\ UNCHANGED <<mailbox, store, replies, pc, todo, cur, leadSeen, unsaved, shown, crashes>>

-----------------------------------------------------------------------------
(* sync_inbound_messages                                                    *)

Start(p) ==
    /\ pc[p] = "idle"
    /\ Goto(p, "list")
    /\ UNCHANGED <<mailbox, store, replies, lead, todo, cur, leadSeen, unsaved, shown, crashes>>

(* Mutant of Listed: uids[:limit] instead of uids[-limit:]. *)
ListedOldest == Reverse([i \in 1 .. (IF mailbox > SyncLimit THEN SyncLimit ELSE mailbox) |-> i])

(* IMAPInboundMailProvider.list_messages: the last SyncLimit UIDs, newest   *)
(* first, whatever was synced before.                                       *)
Listed ==
    LET uids == [i \in 1 .. mailbox |-> i]
        first == IF mailbox > SyncLimit THEN mailbox - SyncLimit + 1 ELSE 1
    IN  Reverse(SubSeq(uids, first, mailbox))

ListMessages(p) ==
    /\ pc[p] = "list"
    /\ todo' = [todo EXCEPT ![p] = Listed]
    /\ Goto(p, "next")
    /\ UNCHANGED <<mailbox, store, replies, lead, cur, leadSeen, unsaved, shown, crashes>>

(* InboundMailProviderError: the FAILED run is flushed, the error re-raised *)
(* and the session closed; the task retries later.                          *)
ListFails(p) ==
    /\ pc[p] = "list"
    /\ EndSession(p, "idle")
    /\ UNCHANGED <<mailbox, store, replies, lead, shown, crashes>>

(* _persist_inbound_message looks for the dedupe key (provider and UID). *)
Lookup(p) ==
    /\ pc[p] = "next"
    /\ todo[p] # <<>>
    /\ todo' = [todo EXCEPT ![p] = Tail(@)]
    /\ cur' = [cur EXCEPT ![p] = Head(todo[p])]
    /\ Goto(p, IF store[Head(todo[p])] = "absent" THEN "insert" ELSE "next")
    /\ UNCHANGED <<mailbox, store, replies, lead, leadSeen, unsaved, shown, crashes>>

(* Mutant of Insert: no unique constraint on dedupe_key. *)
InsertUnchecked(p) ==
    /\ pc[p] = "insert"
    /\ Goto(p, "commit")
    /\ leadSeen' = [leadSeen EXCEPT ![p] = lead]
    /\ UNCHANGED <<mailbox, store, replies, lead, todo, cur, unsaved, shown, crashes>>

(* db.flush() of the new row, which waits for a concurrent one with the     *)
(* same key and raises IntegrityError if that one was committed: only       *)
(* db.commit() is inside the try, so the whole sync dies.  The lead is      *)
(* read right after the flush.                                              *)
Insert(p) ==
    /\ pc[p] = "insert"
    /\ \A q \in Syncs \ {p} : ~(pc[q] = "commit" /\ cur[q] = cur[p])
    /\ IF store[cur[p]] = "absent"
         THEN /\ Goto(p, "commit")
              /\ leadSeen' = [leadSeen EXCEPT ![p] = lead]
              /\ UNCHANGED <<todo, cur, unsaved>>
         ELSE EndSession(p, "crashed")
    /\ UNCHANGED <<mailbox, store, replies, lead, shown, crashes>>

(* The commit stores the message, its log row, the lead advanced from what  *)
(* was read, and the classification of the mail before.                     *)
Commit(p) ==
    /\ pc[p] = "commit"
    /\ store' = Committed(p, [store EXCEPT ![cur[p]] = "pending"])
    /\ replies' = [replies EXCEPT ![cur[p]] = @ + 1]
    /\ lead' = IF leadSeen[p] = "contacted" THEN "replied" ELSE lead
    /\ unsaved' = [unsaved EXCEPT ![p] = Nothing]
    /\ leadSeen' = [leadSeen EXCEPT ![p] = "none"]
    /\ Goto(p, "classify")
    /\ UNCHANGED <<mailbox, todo, cur, shown, crashes>>

(* dispatch_classification with auto_classify_inbound off. *)
SkipClassify(p) ==
    /\ pc[p] = "classify"
    /\ ~AlwaysClassify
    /\ Goto(p, "next")
    /\ UNCHANGED <<mailbox, store, replies, lead, todo, cur, leadSeen, unsaved, shown, crashes>>

(* classify_inbound_message claims the PENDING row, asks the model and      *)
(* flushes CLASSIFIED, or FAILED when that raises.                          *)
Classify(p, status) ==
    /\ pc[p] = "classify"
    /\ unsaved' = [unsaved EXCEPT ![p] = [mail |-> cur[p], status |-> status]]
    /\ Goto(p, "next")
    /\ UNCHANGED <<mailbox, store, replies, lead, todo, cur, leadSeen, shown, crashes>>

(* No mail left: the endpoint commits, the task returns "ok" and closes its *)
(* session as it is.                                                        *)
Finish(p) ==
    /\ pc[p] = "next"
    /\ todo[p] = <<>>
    /\ store' = IF p \in BeatSyncs THEN store ELSE Committed(p, store)
    /\ EndSession(p, "idle")
    /\ UNCHANGED <<mailbox, replies, lead, shown, crashes>>

(* autoretry, or the caller asking again. *)
Retry(p) ==
    /\ pc[p] = "crashed"
    /\ EndSession(p, "idle")
    /\ UNCHANGED <<mailbox, store, replies, lead, shown, crashes>>

(* The process is killed. *)
Crash(p) ==
    /\ pc[p] \notin {"idle", "crashed"}
    /\ crashes < MaxCrashes
    /\ crashes' = crashes + 1
    /\ EndSession(p, "idle")
    /\ UNCHANGED <<mailbox, store, replies, lead, shown>>

(* POST /messages/{id}/classify and /classify-pending classify PENDING rows, *)
(* answer with the result and close the session without a commit.           *)
ClassifyRest(n) ==
    /\ store[n] = "pending"
    /\ \A p \in Syncs : unsaved[p].mail # n      \* the claim waits for the row lock
    /\ shown' = n
    /\ UNCHANGED <<mailbox, store, replies, lead, pc, todo, cur, leadSeen, unsaved, crashes>>

SyncStep(p) ==
    \/ Start(p) \/ ListMessages(p) \/ Lookup(p) \/ Insert(p) \/ Commit(p)
    \/ SkipClassify(p) \/ \E status \in {"classified", "failed"} : Classify(p, status)
    \/ Finish(p) \/ Retry(p)

Next ==
    \/ MailArrives
    \/ CloseLead
    \/ \E n \in Mails : ClassifyRest(n)
    \/ \E p \in Syncs : SyncStep(p) \/ ListFails(p) \/ Crash(p)

Spec == Init /\ [][Next]_vars

(* A running sync goes on; beat starts the task every 15 minutes; the       *)
(* mailbox is not unreachable for ever.                                     *)
Fairness ==
    /\ \A p \in Syncs : WF_vars(pc[p] # "idle" /\ SyncStep(p))
    /\ \A p \in BeatSyncs : WF_vars(Start(p)) /\ SF_vars(ListMessages(p))

FairSpec == Spec /\ Fairness

-----------------------------------------------------------------------------
(* Properties                                                               *)

(* One mail is one message and one REPLIED log row, however many syncs      *)
(* fetched it at the same time: only the unique dedupe_key stands between.  *)
ReplyLoggedOnce ==
    \A n \in Mails : replies[n] = IF store[n] = "absent" THEN 0 ELSE 1

(* Every mail gets into the database, through crashes, lost races and an    *)
(* unreachable server, unless SyncLimit newer ones arrive first: a sync     *)
(* lists the newest ones only and keeps no position.                        *)
EveryMailStored ==
    \A n \in Mails : mailbox >= n ~> (store[n] # "absent" \/ mailbox >= n + SyncLimit)

(* A duplicate is counted as deduplicated; it does not kill the sync. *)
SyncSurvivesDuplicate == \A p \in Syncs : pc[p] # "crashed"

(* An auto-classified message ends up classified, or failed. *)
AutoClassified ==
    \A n \in Mails : store[n] = "pending" ~> store[n] \in {"classified", "failed"}

(* Only a CONTACTED lead is advanced to REPLIED. *)
OnlyContactedAdvances ==
    [][lead' = "replied" /\ lead' # lead => lead = "contacted"]_vars

(* What the classify endpoints answered is what later reads return. *)
ShownClassificationStored == shown # 0 => store[shown] # "pending"

=============================================================================

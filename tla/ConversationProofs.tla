------------------------- MODULE ConversationProofs -------------------------
(***************************************************************************)
(* Conversations with leads, for every set of requests and every number of *)
(* texts, mails and syncs: the assisted reply, the mailbox, the closer,    *)
(* and the matching of inbound mails to threads.                           *)
(***************************************************************************)
EXTENDS Conversations, FiniteSetTheorems, WellFoundedInduction, TLAPS

---------------------------------------------------------------------------
(* The assisted reply                                                      *)

(* A request has the unique index's entry for the draft: it has a flushed   *)
(* row that is not decided, or one committed as SENT.                       *)
Holds(s) == s \in Active \/ sends[s] = "sent"

(* What a request's place says of its committed row and of its mail. *)
PlaceOK ==
    \A s \in Senders :
        /\ accepted[s] # 0 => pc[s] \in {"accepted", "error", "done", "lost"}
        /\ pc[s] = "done" <=> sends[s] # "none"

(* The partial unique index on the draft's sends. *)
OneHolder == \A s1, s2 \in Senders : Holds(s1) /\ Holds(s2) => s1 = s2

SendInv == TypeOK /\ PlaceOK /\ OneHolder

(* The review row is younger than the last verdict's text and wants an edit. *)
RulingKept == review.edit /\ review.at # 0 /\ ruling.of <= review.at

(* Texts and edits bear the time they were written at, and while no two     *)
(* writers have mixed their columns, the row says what the last verdict did. *)
StampsOK ==
    /\ draft.edited <= draft.text /\ draft.text <= now
    /\ \A r \in Reviews : read[r] <= now
    /\ mixed \/ (ruling.edit => RulingKept)

-----------------------------------------------------------------------------
LEMMA InitInv == Init => SendInv /\ StampsOK
  <1> SUFFICES ASSUME Init PROVE SendInv /\ StampsOK
    OBVIOUS
  <1>1. NoReview \in ReviewRows /\ NoRuling \in [of : Times, edit : BOOLEAN] /\ 0 \in Times
    BY MaxTimeAssumption DEF NoReview, NoRuling, ReviewRows, Times
  <1>2. draft = [text |-> 0, edited |-> 0] /\ now = 0 BY DEF Init, NoDraft
  <1>3. TypeOK
    <2>1. mixed \in BOOLEAN BY DEF Init
    <2>2. draft \in [text : Times, edited : Times] BY <1>1, <1>2
    <2>3. /\ now \in Times /\ shown \in Times /\ review \in ReviewRows
          /\ ruling \in [of : Times, edit : BOOLEAN]
          /\ read \in [Reviews -> Times]
          /\ asked \in [Reviews -> ReviewRows] /\ begun \in [Reviews -> ReviewRows]
      BY <1>1, <1>2 DEF Init
    <2> QED BY <1>1, <2>1, <2>2, <2>3 DEF Init, TypeOK, SendStatus
  <1>4. PlaceOK /\ OneHolder BY DEF Init, PlaceOK, OneHolder, Holds, Active
  <1>5. ~ruling.edit BY DEF Init, NoRuling
  <1>6. StampsOK BY <1>2, <1>5 DEF Init, StampsOK
  <1> QED BY <1>3, <1>4, <1>6 DEF SendInv

(* An UPDATE yields a row, and over the row that was read the one intended. *)
LEMMA UpdatedRow ==
    ASSUME NEW row \in ReviewRows, NEW from \in ReviewRows, NEW to \in ReviewRows
    PROVE  /\ Updated(row, from, to) \in ReviewRows
           /\ row = from => Updated(row, from, to) = to
  BY DEF Updated, Changed, ReviewRows

(* What the review's writers intend. *)
LEMMA IntendedRows ==
    ASSUME TypeOK, NEW r \in Reviews
    PROVE  /\ NoReview \in ReviewRows /\ PendingReview \in ReviewRows
           /\ [status |-> "failed", edit |-> begun[r].edit, at |-> 0, of |-> begun[r].of]
                 \in ReviewRows
           /\ \A edit \in BOOLEAN : Tick =>
                 [status |-> "reviewed", edit |-> edit, at |-> now', of |-> read[r]] \in ReviewRows
  <1>0. begun[r] \in ReviewRows /\ read[r] \in Times /\ 0 \in Times
    BY MaxTimeAssumption DEF TypeOK, Times
  <1>1. NoReview \in ReviewRows /\ PendingReview \in ReviewRows
    BY <1>0 DEF ReviewRows, NoReview, PendingReview
  <1>2. [status |-> "failed", edit |-> begun[r].edit, at |-> 0, of |-> begun[r].of]
          \in ReviewRows
    BY <1>0 DEF ReviewRows
  <1>3. Tick => now' \in Times BY MaxTimeAssumption DEF Tick, TypeOK, Times
  <1>4. \A edit \in BOOLEAN : Tick =>
           [status |-> "reviewed", edit |-> edit, at |-> now', of |-> read[r]] \in ReviewRows
    BY <1>0, <1>3 DEF ReviewRows
  <1> QED BY <1>1, <1>2, <1>4

LEMMA TaskWritesRow ==
    ASSUME TypeOK, NEW r \in Reviews, NEW row \in ReviewRows, TaskWrites(r, row)
    PROVE  review' \in ReviewRows /\ mixed' \in BOOLEAN /\ (mixed' \/ (~mixed /\ review' = row))
  <1> DEFINE met == IF review = NoReview THEN begun[r] ELSE review
  <1>1. met \in ReviewRows /\ begun[r] \in ReviewRows BY DEF TypeOK
  <1>2. review' = Updated(met, begun[r], row) /\ mixed' = (mixed \/ met # begun[r])
    BY DEF TaskWrites
  <1> HIDE DEF met
  <1>3. mixed \in BOOLEAN BY DEF TypeOK
  <1>4. review' \in ReviewRows BY <1>1, <1>2, UpdatedRow
  <1>5. CASE met = begun[r]
    <2>1. review' = row BY <1>1, <1>2, <1>5, UpdatedRow
    <2>2. mixed' = mixed BY <1>2, <1>3, <1>5
    <2> QED BY <1>3, <1>4, <2>1, <2>2
  <1>6. CASE met # begun[r]
    <2>1. mixed' = TRUE BY <1>2, <1>6
    <2> QED BY <1>4, <2>1
  <1> QED BY <1>5, <1>6

(* The steps of a review request and of its task. *)
ReviewMoves(r) ==
    \/ DispatchReview(r) \/ EnsureRead(r) \/ EnsurePending(r) \/ TaskRead(r) \/ TaskInsert(r)
    \/ \E edit \in BOOLEAN : TaskVerdict(r, edit)
    \/ TaskDisabled(r) \/ TaskFails(r)

LEMMA ReviewMovesOnly ==
    ASSUME NEW r \in Reviews, ReviewMoves(r)
    PROVE  UNCHANGED <<draft, shown, sends, accepted, pc, seen>>
  BY DEF ReviewMoves, DispatchReview, EnsureRead, EnsurePending, TaskRead, TaskInsert, TaskVerdict,
         TaskDisabled, TaskFails, sendVars

LEMMA TypeStep == TypeOK /\ [Next]_vars => TypeOK'
  <1> SUFFICES ASSUME TypeOK, [Next]_vars PROVE TypeOK'
    OBVIOUS
  <1> USE MaxTimeAssumption DEF TypeOK, SendStatus, sendVars, reviewVars
  <1>0. Tick => now' \in Times /\ now' # 0 BY DEF Tick, Times
  <1>1. CASE GenerateInSync
    BY <1>0, <1>1 DEF GenerateInSync, GeneratedDraft, Times
  <1>2. CASE create_or_refresh_reply_draft BY <1>0, <1>2 DEF create_or_refresh_reply_draft
  <1>3. CASE update_reply_assistant_draft BY <1>0, <1>3 DEF update_reply_assistant_draft
  <1>4. ASSUME NEW r \in Reviews, ReviewMoves(r) PROVE TypeOK'
    <2>1. CASE DispatchReview(r) BY <2>1 DEF DispatchReview
    <2>2. CASE EnsureRead(r) BY <2>2 DEF EnsureRead
    <2>3. CASE EnsurePending(r)
      <3>1. Updated(review, asked[r], PendingReview) \in ReviewRows
        BY IntendedRows, UpdatedRow
      <3>4. mixed' = mixed \/ mixed' = (mixed \/ review # asked[r])
        BY <2>3 DEF EnsurePending
      <3>5. mixed' \in BOOLEAN BY <3>4
      <3>6. /\ review' = review
               \/ review' = PendingReview \/ review' = Updated(review, asked[r], PendingReview)
            /\ ruling' = ruling \/ ruling' = NoRuling
            /\ rpc' = [rpc EXCEPT ![r] = "conflict"] \/ rpc' = [rpc EXCEPT ![r] = "done"]
        BY <2>3 DEF EnsurePending
      <3>7. review' \in ReviewRows BY <3>1, <3>6, IntendedRows
      <3>8. ruling' \in [of : Times, edit : BOOLEAN]
        <4>1. 0 \in Times BY DEF Times
        <4>2. NoRuling \in [of : Times, edit : BOOLEAN] BY <4>1 DEF NoRuling
        <4>3. ruling \in [of : Times, edit : BOOLEAN] OBVIOUS
        <4> HIDE DEF TypeOK
        <4> QED BY <3>6, <4>2, <4>3
      <3>2. /\ rpc' = [rpc EXCEPT ![r] = "conflict"] \/ rpc' = [rpc EXCEPT ![r] = "done"]
            /\ review' \in ReviewRows /\ mixed' \in BOOLEAN
            /\ ruling' \in [of : Times, edit : BOOLEAN]
        BY <3>5, <3>6, <3>7, <3>8
      <3>3. UNCHANGED <<now, draft, shown, sends, accepted, pc, seen, task, read, asked, begun>>
        BY <2>3 DEF EnsurePending
      <3> QED BY <3>2, <3>3
    <2>4. CASE TaskRead(r) BY <2>4 DEF TaskRead
    <2>5. CASE TaskInsert(r)
      <3>3. task[r] \in {"inserting", "reinserting"} BY <2>5 DEF TaskInsert
      <3>1. /\ begun' \in [Reviews -> ReviewRows]
            /\ \E t \in {"retry", "dead", "running", "rerunning"} : task' = [task EXCEPT ![r] = t]
        <4>1. CASE review # NoReview
          <5>1. begun' = begun /\ task' = [task EXCEPT ![r] = Retried(task[r])]
            BY <2>5, <4>1 DEF TaskInsert
          <5> QED BY <5>1 DEF Retried
        <4>2. CASE review = NoReview
          <5>1. /\ begun' = [begun EXCEPT ![r] = PendingReview]
                /\ task' = [task EXCEPT ![r] = IF task[r] = "inserting" THEN "running"
                                                                     ELSE "rerunning"]
            BY <2>5, <4>2 DEF TaskInsert
          <5> QED BY <5>1, IntendedRows
        <4> QED BY <4>1, <4>2
      <3>2. UNCHANGED <<now, draft, shown, sends, accepted, pc, seen, review, rpc, read, asked,
                        ruling, mixed>>
        BY <2>5 DEF TaskInsert
      <3> QED BY <3>1, <3>2
    <2>6. ASSUME NEW edit \in BOOLEAN, TaskVerdict(r, edit) PROVE TypeOK'
      <3>1. /\ review' \in ReviewRows /\ mixed' \in BOOLEAN /\ now' \in Times
            /\ ruling' \in [of : Times, edit : BOOLEAN]
        BY <1>0, <2>6, IntendedRows, TaskWritesRow DEF TaskVerdict
      <3> QED BY <2>6, <3>1 DEF TaskVerdict
    <2>7. CASE TaskDisabled(r)
      <3>1. review' \in ReviewRows /\ mixed' \in BOOLEAN
        BY <2>7, IntendedRows, TaskWritesRow DEF TaskDisabled
      <3> QED BY <2>7, <3>1 DEF TaskDisabled, NoRuling, Times
    <2>8. CASE TaskFails(r) BY <2>8 DEF TaskFails, Retried
    <2> QED BY <1>4, <2>1, <2>2, <2>3, <2>4, <2>5, <2>6, <2>7, <2>8 DEF ReviewMoves
  <1>5. ASSUME NEW s \in Senders,
               \/ SendRead(s) \/ SendInsert(s) \/ SmtpAccepts(s)
               \/ \E took \in BOOLEAN : SmtpFails(s, took)
               \/ SendCommit(s) \/ SendLost(s)
        PROVE  TypeOK'
    <2>1. 0 \in Times BY DEF Times
    <2> QED
      BY <1>5, <2>1 DEF SendRead, SendInsert, SmtpAccepts, SmtpFails, SendCommit, SendLost
  <1>6. CASE UNCHANGED vars BY <1>6 DEF vars
  <1> QED BY <1>1, <1>2, <1>3, <1>4, <1>5, <1>6 DEF Next, ReviewMoves

(* Only the request that takes a step changes its place. *)
LEMMA SendStep == SendInv /\ [Next]_vars => SendInv'
  <1> SUFFICES ASSUME SendInv, [Next]_vars PROVE PlaceOK' /\ OneHolder'
    BY TypeStep DEF SendInv
  <1> USE DEF SendInv, TypeOK, SendStatus
  <1>1. CASE UNCHANGED <<sends, accepted, pc>> BY <1>1 DEF PlaceOK, OneHolder, Holds, Active
  <1>2. ASSUME NEW s \in Senders, SendInsert(s) PROVE PlaceOK' /\ OneHolder'
    <2>1. Active = {} BY <1>2 DEF SendInsert
    <2>2. CASE Sent BY <1>2, <2>2 DEF SendInsert, PlaceOK, OneHolder, Holds, Active
    <2>3. CASE ~Sent
      <3>1. \A u \in Senders : ~Holds(u) BY <2>1, <2>3 DEF Holds, Sent
      <3> QED BY <1>2, <2>3, <3>1 DEF SendInsert, PlaceOK, OneHolder, Holds, Active
    <2> QED BY <2>2, <2>3
  <1>3. ASSUME NEW s \in Senders,
               \/ SendRead(s) \/ SmtpAccepts(s) \/ (\E took \in BOOLEAN : SmtpFails(s, took))
               \/ SendCommit(s) \/ SendLost(s)
        PROVE  PlaceOK' /\ OneHolder'
    <2>1. PlaceOK'
      BY <1>3 DEF PlaceOK, SendRead, SmtpAccepts, SmtpFails, SendCommit, SendLost
    <2>2. \A u \in Senders : Holds(u)' => Holds(u)
      BY <1>3 DEF Holds, Active, SendRead, SmtpAccepts, SmtpFails, SendCommit, SendLost
    <2> QED BY <2>1, <2>2 DEF OneHolder
  <1>4. ASSUME NEW r \in Reviews, ReviewMoves(r)
        PROVE  UNCHANGED <<sends, accepted, pc>>
    BY <1>4, ReviewMovesOnly
  <1>5. ASSUME \/ GenerateInSync \/ create_or_refresh_reply_draft
               \/ update_reply_assistant_draft \/ UNCHANGED vars
        PROVE  UNCHANGED <<sends, accepted, pc>>
    BY <1>5 DEF GenerateInSync, create_or_refresh_reply_draft,
                update_reply_assistant_draft, vars, sendVars
  <1> QED BY <1>1, <1>2, <1>3, <1>4, <1>5 DEF Next, ReviewMoves

LEMMA StampsStep == TypeOK /\ StampsOK /\ [Next]_vars => StampsOK'
  <1> SUFFICES ASSUME TypeOK, StampsOK, [Next]_vars PROVE StampsOK'
    OBVIOUS
  <1> USE MaxTimeAssumption DEF Times, sendVars, reviewVars
  <1>0. /\ Tick => now' = now + 1
        /\ now \in Nat /\ draft.text \in Nat /\ draft.edited \in Nat
        /\ \A r \in Reviews : read[r] \in Nat
    BY DEF Tick, TypeOK
  <1>1. CASE \/ GenerateInSync \/ create_or_refresh_reply_draft
             \/ update_reply_assistant_draft
    <2>1. UNCHANGED <<review, read, ruling, mixed>> /\ now' = now + 1
      BY <1>0, <1>1 DEF GenerateInSync, create_or_refresh_reply_draft,
                        update_reply_assistant_draft
    <2>2. draft'.edited <= draft'.text /\ draft'.text <= now'
      BY <1>0, <1>1, <2>1 DEF GenerateInSync, GeneratedDraft, create_or_refresh_reply_draft,
                        update_reply_assistant_draft, StampsOK
    <2> QED BY <1>0, <2>1, <2>2 DEF StampsOK, RulingKept
  <1>2. ASSUME NEW r \in Reviews, NEW edit \in BOOLEAN, TaskVerdict(r, edit)
        PROVE  StampsOK'
    <2> DEFINE row == [status |-> "reviewed", edit |-> edit, at |-> now', of |-> read[r]]
    <2>1. /\ now' = now + 1 /\ ruling' = [of |-> read[r], edit |-> edit]
          /\ UNCHANGED <<draft, read>>
      BY <1>0, <1>2 DEF TaskVerdict
    <2>4. row \in ReviewRows BY <1>2, IntendedRows DEF TaskVerdict
    <2>5. TaskWrites(r, row) BY <1>2 DEF TaskVerdict
    <2>2. mixed' \/ (~mixed /\ review' = row)
      BY <2>4, <2>5, TaskWritesRow
    <2>3. review' = row => (ruling'.edit => RulingKept')
      BY <1>0, <2>1 DEF RulingKept, StampsOK
    <2> QED BY <1>0, <2>1, <2>2, <2>3 DEF StampsOK
  <1>3. ASSUME NEW r \in Reviews, TaskDisabled(r) PROVE StampsOK'
    BY <1>3 DEF TaskDisabled, StampsOK, NoRuling
  <1>4. ASSUME NEW r \in Reviews, EnsurePending(r) PROVE StampsOK'
    <2>1. \/ UNCHANGED <<review, ruling, mixed>>
          \/ ruling' = NoRuling
      BY <1>4 DEF EnsurePending
    <2>2. UNCHANGED <<now, draft, read>> BY <1>4 DEF EnsurePending
    <2> QED BY <2>1, <2>2 DEF StampsOK, NoRuling, RulingKept
  <1>5. ASSUME NEW r \in Reviews,
               DispatchReview(r) \/ EnsureRead(r) \/ TaskRead(r) \/ TaskInsert(r) \/ TaskFails(r)
        PROVE  StampsOK'
    <2>1. UNCHANGED <<now, draft, review, ruling, mixed>>
      BY <1>5 DEF DispatchReview, EnsureRead, TaskRead, TaskInsert, TaskFails
    <2>2. read' = read \/ read' = [read EXCEPT ![r] = draft.text]
      BY <1>5 DEF DispatchReview, EnsureRead, TaskRead, TaskInsert, TaskFails
    <2>3. \A u \in Reviews : read'[u] <= now BY <1>0, <2>2 DEF StampsOK, TypeOK
    <2> QED BY <2>1, <2>3 DEF StampsOK, RulingKept
  <1>6. ASSUME NEW s \in Senders,
               \/ SendRead(s) \/ SendInsert(s) \/ SmtpAccepts(s)
               \/ (\E took \in BOOLEAN : SmtpFails(s, took))
               \/ SendCommit(s) \/ SendLost(s)
        PROVE  UNCHANGED <<now, draft, review, read, ruling, mixed>>
    BY <1>6 DEF SendRead, SendInsert, SmtpAccepts, SmtpFails, SendCommit, SendLost
  <1>7. CASE UNCHANGED <<now, draft, review, read, ruling, mixed>>
    BY <1>7 DEF StampsOK, RulingKept
  <1>8. CASE UNCHANGED vars BY <1>7, <1>8 DEF vars
  <1> QED BY <1>1, <1>2, <1>3, <1>4, <1>5, <1>6, <1>7, <1>8 DEF Next

(* A set with at most one element outside a finite subset. *)
LEMMA OneMore ==
    ASSUME NEW A, NEW U, IsFiniteSet(U), U \subseteq A,
           \A x, y \in A \ U : x = y
    PROVE  Cardinality(A) <= 1 + Cardinality(U)
  <1>0. Cardinality(U) \in Nat BY FS_CardinalityType
  <1>1. CASE A \ U = {}
    <2>1. A = U BY <1>1
    <2> QED BY <1>0, <2>1
  <1>2. CASE A \ U # {}
    <2>1. PICK x : x \in A \ U BY <1>2
    <2>2. A = U \cup {x} BY <2>1
    <2>3. Cardinality(U \cup {x}) = Cardinality(U) + 1 BY <2>1, FS_AddElement
    <2> QED BY <1>0, <2>2, <2>3
  <1> QED BY <1>1, <1>2

LEMMA OneReply == SendInv => OneReplyUnlessUnrecorded
  <1> SUFFICES ASSUME SendInv PROVE OneReplyUnlessUnrecorded
    OBVIOUS
  <1> DEFINE A == {s \in Senders : accepted[s] # 0}
  <1>1. Unrecorded \subseteq A BY DEF Unrecorded
  <1>2. IsFiniteSet(Unrecorded)
    BY SendersAssumption, FS_Subset DEF Unrecorded
  <1>3. ASSUME NEW s \in A \ Unrecorded PROVE Holds(s)
    BY <1>3 DEF SendInv, PlaceOK, Unrecorded, Holds, Active, TypeOK, SendStatus
  <1>4. \A x, y \in A \ Unrecorded : x = y BY <1>3 DEF SendInv, OneHolder
  <1> HIDE DEF A
  <1>5. Cardinality(A) <= 1 + Cardinality(Unrecorded) BY <1>1, <1>2, <1>4, OneMore
  <1> QED BY <1>5 DEF A, OneReplyUnlessUnrecorded

-----------------------------------------------------------------------------
(* Every row and request of the reply assistant keeps its type. *)
THEOREM TypeCorrect == Spec => []TypeOK
  BY InitInv, TypeStep, PTL DEF Spec, SendInv

(* The lead gets one answer: however many requests POST .../send runs at    *)
(* once, a second mail leaves only after one whose row was rolled back or   *)
(* marked FAILED although the server had taken it.                          *)
THEOREM OneAnswer == Spec => []OneReplyUnlessUnrecorded
  BY InitInv, SendStep, OneReply, PTL DEF Spec

(* The review gate compares edited_at with reviewed_at, never the texts,    *)
(* and lets a request through with the text the last verdict wants edited   *)
(* only if two writers have mixed the columns of the review row.            *)
THEOREM RejectedStaysBlocked == Spec => ClearedOnlyByMixedReviews
  <1>1. TypeOK /\ StampsOK /\ [Next]_vars =>
          \A s \in Senders :
             pc[s] = "idle" /\ pc'[s] = "insert" /\ ruling.edit /\ ruling.of = seen'[s]
                => mixed
    <2> SUFFICES ASSUME TypeOK, StampsOK, [Next]_vars, NEW s \in Senders,
                        pc[s] = "idle", pc'[s] = "insert",
                        ruling.edit, ruling.of = seen'[s], ~mixed
                 PROVE  FALSE
      OBVIOUS
    <2>1. SendRead(s)
      <3>1. ASSUME NEW u \in Senders, SendRead(u) PROVE u = s
        BY <3>1 DEF SendRead, TypeOK
      <3>2. ASSUME NEW u \in Senders,
                   \/ SendInsert(u) \/ SmtpAccepts(u) \/ SendCommit(u) \/ SendLost(u)
                   \/ (\E took \in BOOLEAN : SmtpFails(u, took))
            PROVE  FALSE
        BY <3>2 DEF SendInsert, SmtpAccepts, SmtpFails, SendCommit, SendLost, TypeOK
      <3>3. ASSUME NEW r \in Reviews, ReviewMoves(r) PROVE FALSE
        BY <3>3, ReviewMovesOnly
      <3>4. ASSUME \/ GenerateInSync \/ create_or_refresh_reply_draft
                   \/ update_reply_assistant_draft \/ UNCHANGED vars
            PROVE  FALSE
        BY <3>4 DEF GenerateInSync, create_or_refresh_reply_draft,
                    update_reply_assistant_draft, vars, sendVars
      <3> QED BY <3>1, <3>2, <3>3, <3>4 DEF Next, ReviewMoves
    <2>2. ~SendBlocked /\ ruling.of = draft.text BY <2>1 DEF SendRead, TypeOK
    <2>3. RulingKept /\ draft.edited <= draft.text BY DEF StampsOK
    <2>4. draft.edited \in Nat /\ draft.text \in Nat /\ review.at \in Nat
      BY MaxTimeAssumption DEF TypeOK, ReviewRows, Times
    <2>5. draft.edited <= review.at BY <2>2, <2>3, <2>4 DEF RulingKept
    <2> QED BY <2>2, <2>3, <2>5 DEF SendBlocked, RulingKept
  <1> QED BY <1>1, InitInv, TypeStep, StampsStep, PTL DEF Spec, SendInv, ClearedOnlyByMixedReviews

-----------------------------------------------------------------------------
(* Refinement                                                               *)

(* A text is the instant it was written, so a request that got past its     *)
(* read has a text, and the server takes none but it.                       *)
TextOK ==
    \A s \in Senders :
        /\ pc[s] \in {"insert", "smtp", "accepted"} => seen[s] # 0
        /\ pc[s] = "accepted" => accepted[s] # 0

LEMMA TextStep == TypeOK /\ TextOK /\ [Next]_vars => TextOK'
  <1> SUFFICES ASSUME TypeOK, TextOK, [Next]_vars PROVE TextOK'
    OBVIOUS
  <1> USE DEF TypeOK, TextOK
  <1>1. ASSUME NEW s \in Senders, SendRead(s) PROVE TextOK'
    BY <1>1 DEF SendRead, Exists
  <1>2. ASSUME NEW s \in Senders,
               \/ SendInsert(s) \/ SmtpAccepts(s) \/ (\E took \in BOOLEAN : SmtpFails(s, took))
               \/ SendCommit(s) \/ SendLost(s)
        PROVE  TextOK'
    BY <1>2 DEF SendInsert, SmtpAccepts, SmtpFails, SendCommit, SendLost
  <1>3. ASSUME NEW r \in Reviews, ReviewMoves(r)
        PROVE  UNCHANGED <<accepted, pc, seen>>
    BY <1>3, ReviewMovesOnly
  <1>4. ASSUME \/ GenerateInSync \/ create_or_refresh_reply_draft
               \/ update_reply_assistant_draft \/ UNCHANGED vars
        PROVE  UNCHANGED <<accepted, pc, seen>>
    BY <1>4 DEF GenerateInSync, create_or_refresh_reply_draft,
                update_reply_assistant_draft, vars, sendVars
  <1>5. CASE UNCHANGED <<accepted, pc, seen>> BY <1>5
  <1> QED BY <1>1, <1>2, <1>3, <1>4, <1>5 DEF Next, ReviewMoves

(* The state of the one slot, and whether its message was taken. *)
SlotNow == IF Sent THEN "sent" ELSE IF Active # {} THEN "busy" ELSE "free"
TakenNow == Sent \/ \E s \in Active : accepted[s] # 0

(* The changes of the two that are steps of MailOnce. *)
LEMMA SlotSteps ==
    /\ SlotNow' = SlotNow /\ TakenNow' = TakenNow => UNCHANGED <<slotOf, takenOf>>
    /\ SlotNow = "free" /\ SlotNow' = "busy" /\ TakenNow' = TakenNow => Abstract!Next
    /\ SlotNow = "busy" /\ SlotNow' = "busy" /\ ~TakenNow /\ TakenNow' => Abstract!Next
    /\ SlotNow = "busy" /\ SlotNow' = "free" /\ ~TakenNow' => Abstract!Next
    /\ SlotNow = "busy" /\ SlotNow' = "sent" /\ TakenNow /\ TakenNow' => Abstract!Next
  <1>0. /\ slotOf = [d \in {"reply"} |-> SlotNow] /\ slotOf' = [d \in {"reply"} |-> SlotNow']
        /\ takenOf = [d \in {"reply"} |-> TakenNow] /\ takenOf' = [d \in {"reply"} |-> TakenNow']
    BY DEF slotOf, takenOf, SlotNow, TakenNow
  <1>1. TakenNow \in BOOLEAN /\ TakenNow' \in BOOLEAN BY DEF TakenNow
  <1> HIDE DEF slotOf, takenOf
  <1>2. ASSUME SlotNow' = SlotNow, TakenNow' = TakenNow PROVE UNCHANGED <<slotOf, takenOf>>
    BY <1>0, <1>2
  <1>3. ASSUME SlotNow = "free", SlotNow' = "busy", TakenNow' = TakenNow
        PROVE  Abstract!Occupy("reply")
    BY <1>0, <1>3 DEF Abstract!Occupy
  <1>4. ASSUME SlotNow = "busy", SlotNow' = "busy", ~TakenNow, TakenNow'
        PROVE  Abstract!HandOver("reply")
    BY <1>0, <1>1, <1>4 DEF Abstract!HandOver
  <1>5. ASSUME SlotNow = "busy", SlotNow' = "free", ~TakenNow' PROVE Abstract!Release("reply")
    BY <1>0, <1>1, <1>5 DEF Abstract!Release
  <1>6. ASSUME SlotNow = "busy", SlotNow' = "sent", TakenNow, TakenNow'
        PROVE  Abstract!Settle("reply")
    BY <1>0, <1>1, <1>6 DEF Abstract!Settle
  <1> QED BY <1>2, <1>3, <1>4, <1>5, <1>6 DEF Abstract!Next

(* The request that holds a row is the only one, and nothing is sent yet.   *)
HoldsAlone(s) ==
    ~Sent /\ Active = {s} /\ SlotNow = "busy" /\ (TakenNow <=> accepted[s] # 0)

LEMMA HoldersAlone == SendInv => \A s \in Active : HoldsAlone(s)
  <1> SUFFICES ASSUME SendInv, NEW s \in Active PROVE HoldsAlone(s)
    OBVIOUS
  <1>1. s \in Senders /\ sends[s] # "sent"
    BY DEF Active, SendInv, PlaceOK, TypeOK, SendStatus
  <1>2. \A u \in Senders : Holds(u) => u = s BY <1>1 DEF SendInv, OneHolder, Holds
  <1>3. ~Sent BY <1>1, <1>2 DEF Sent, Holds
  <1>4. Active = {s} BY <1>1, <1>2 DEF Active, Holds
  <1> QED BY <1>3, <1>4 DEF SlotNow, TakenNow, HoldsAlone

LEMMA HoldersAloneNext == (SendInv => \A s \in Active : HoldsAlone(s))'
  BY HoldersAlone, PTL

(* The steps of a request with a row. *)
LEMMA HolderRefines ==
    ASSUME SendInv, SendInv', TextOK, NEW s \in Senders,
           SmtpAccepts(s) \/ (\E took \in BOOLEAN : SmtpFails(s, took)) \/ SendCommit(s)
    PROVE  [Abstract!Next]_<<slotOf, takenOf>>
  <1> USE DEF SendInv, TypeOK, SendStatus
  <1>0. s \in Active BY DEF SmtpAccepts, SmtpFails, SendCommit, Active
  <1>1. ~Sent /\ Active = {s} /\ SlotNow = "busy" /\ (TakenNow <=> accepted[s] # 0)
    BY <1>0, HoldersAlone DEF HoldsAlone
  <1>2. ASSUME UNCHANGED sends, pc'[s] \in {"smtp", "accepted", "error"}
        PROVE  SlotNow' = "busy" /\ (TakenNow' <=> accepted'[s] # 0)
    <2>1. s \in Active' BY <1>2 DEF Active
    <2> QED BY <2>1, HoldersAloneNext DEF HoldsAlone
  <1>3. CASE SmtpAccepts(s)
    <2>1. /\ UNCHANGED sends /\ pc'[s] = "accepted" /\ accepted[s] = 0 /\ accepted'[s] # 0
      BY <1>3 DEF SmtpAccepts, TextOK, PlaceOK
    <2> QED BY <1>1, <1>2, <2>1, SlotSteps
  <1>4. ASSUME NEW took \in BOOLEAN, SmtpFails(s, took)
        PROVE  [Abstract!Next]_<<slotOf, takenOf>>
    <2>1. /\ UNCHANGED sends /\ pc'[s] = "error" /\ accepted[s] = 0
      BY <1>4 DEF SmtpFails, PlaceOK
    <2>2. SlotNow' = "busy" /\ ~TakenNow /\ (TakenNow' <=> accepted'[s] # 0)
      BY <1>1, <1>2, <2>1
    <2>3. CASE accepted'[s] # 0 BY <1>1, <2>2, <2>3, SlotSteps
    <2>4. CASE accepted'[s] = 0
      <3>1. TakenNow' = TakenNow BY <2>2, <2>4 DEF TakenNow
      <3> QED BY <1>1, <2>2, <3>1, SlotSteps
    <2> QED BY <2>3, <2>4
  <1>5. CASE SendCommit(s)
    <2>1. pc' = [pc EXCEPT ![s] = "done"] /\ UNCHANGED accepted BY <1>5 DEF SendCommit
    <2>2. Active' = {} BY <1>1, <2>1 DEF Active
    <2>3. CASE pc[s] = "accepted"
      <3>1. Sent' BY <1>5, <2>3 DEF SendCommit, Sent
      <3>2. TakenNow BY <1>1, <2>3 DEF TextOK
      <3>3. SlotNow' = "sent" /\ TakenNow' BY <3>1 DEF SlotNow, TakenNow
      <3> QED BY <1>1, <3>2, <3>3, SlotSteps
    <2>4. CASE pc[s] # "accepted"
      <3>1. ~Sent' BY <1>1, <1>5, <2>4 DEF SendCommit, Sent
      <3>2. SlotNow' = "free" /\ ~TakenNow' BY <2>2, <3>1 DEF SlotNow, TakenNow
      <3> QED BY <1>1, <3>2, SlotSteps
    <2> QED BY <2>3, <2>4
  <1> QED BY <1>3, <1>4, <1>5

LEMMA ReplyRefines ==
    ASSUME SendInv, SendInv', TextOK, [Next]_vars
    PROVE  [Abstract!Next]_<<slotOf, takenOf>>
  <1> USE DEF SendInv, TypeOK, SendStatus
  <1>1. ASSUME UNCHANGED <<sends, accepted>>, Active' = Active
        PROVE  [Abstract!Next]_<<slotOf, takenOf>>
    BY <1>1 DEF slotOf, takenOf, Sent
  <1>2. ASSUME UNCHANGED <<sends, accepted, pc>> PROVE [Abstract!Next]_<<slotOf, takenOf>>
    BY <1>1, <1>2 DEF Active
  <1>3. ASSUME NEW s \in Senders, SendRead(s) PROVE [Abstract!Next]_<<slotOf, takenOf>>
    <2>1. Active' = Active BY <1>3 DEF SendRead, Active
    <2> QED BY <1>1, <1>3, <2>1 DEF SendRead
  <1>4. ASSUME NEW s \in Senders, SendInsert(s) PROVE [Abstract!Next]_<<slotOf, takenOf>>
    <2>1. CASE Sent
      <3>1. Active' = Active BY <1>4, <2>1 DEF SendInsert, Active
      <3> QED BY <1>1, <1>4, <3>1 DEF SendInsert
    <2>2. CASE ~Sent
      <3>1. /\ Active = {} /\ UNCHANGED <<sends, accepted>> /\ s \in Active'
            /\ accepted[s] = 0 /\ ~Sent'
        BY <1>4, <2>2 DEF SendInsert, Active, PlaceOK, Sent
      <3>2. SlotNow = "free" /\ ~TakenNow BY <2>2, <3>1 DEF SlotNow, TakenNow
      <3>3. SlotNow' = "busy" /\ ~TakenNow' BY <3>1, HoldersAloneNext DEF HoldsAlone
      <3>4. TakenNow' = TakenNow BY <3>2, <3>3 DEF TakenNow
      <3> QED BY <3>2, <3>3, <3>4, SlotSteps
    <2> QED BY <2>1, <2>2
  <1>5. ASSUME NEW s \in Senders, SendLost(s) PROVE [Abstract!Next]_<<slotOf, takenOf>>
    <2>1. CASE s \in Active
      <3>1. ~Sent /\ Active = {s} /\ SlotNow = "busy" BY <2>1, HoldersAlone DEF HoldsAlone
      <3>2. Active' = {} /\ ~Sent' BY <1>5, <3>1 DEF SendLost, Active, Sent
      <3>3. SlotNow' = "free" /\ ~TakenNow' BY <3>2 DEF SlotNow, TakenNow
      <3> QED BY <3>1, <3>3, SlotSteps
    <2>2. CASE s \notin Active
      <3>1. Active' = Active BY <1>5, <2>2 DEF SendLost, Active
      <3> QED BY <1>1, <1>5, <3>1 DEF SendLost
    <2> QED BY <2>1, <2>2
  <1>6. ASSUME NEW s \in Senders,
               SmtpAccepts(s) \/ (\E took \in BOOLEAN : SmtpFails(s, took)) \/ SendCommit(s)
        PROVE  [Abstract!Next]_<<slotOf, takenOf>>
    BY <1>6, HolderRefines
  <1>7. ASSUME NEW r \in Reviews, ReviewMoves(r)
        PROVE  UNCHANGED <<sends, accepted, pc>>
    BY <1>7, ReviewMovesOnly
  <1>8. ASSUME \/ GenerateInSync \/ create_or_refresh_reply_draft
               \/ update_reply_assistant_draft \/ UNCHANGED vars
        PROVE  UNCHANGED <<sends, accepted, pc>>
    BY <1>8 DEF GenerateInSync, create_or_refresh_reply_draft,
                update_reply_assistant_draft, vars, sendVars
  <1> QED BY <1>2, <1>3, <1>4, <1>5, <1>6, <1>7, <1>8 DEF Next, ReviewMoves

(* For any requests, their crashes and lost SMTP replies: what the rows of  *)
(* an assisted reply and the mail server do is what MailOnce allows, the    *)
(* specification that the deliveries of OutreachSend implement too          *)
(* (send_reply_assistant_draft).                                            *)
THEOREM ReplyIsMailedOnce == Spec => ImplementsMailOnce
  <1>1. Init => Abstract!Init /\ SendInv /\ TextOK
    <2> SUFFICES ASSUME Init PROVE Abstract!Init /\ SendInv /\ TextOK
      OBVIOUS
    <2>1. SendInv BY InitInv
    <2>2. TextOK BY DEF Init, TextOK
    <2>3. ~Sent /\ Active = {} BY DEF Init, Sent, Active
    <2>4. slotOf = [d \in {"reply"} |-> "free"] /\ takenOf = [d \in {"reply"} |-> FALSE]
      BY <2>3 DEF slotOf, takenOf
    <2> QED BY <2>1, <2>2, <2>4 DEF Abstract!Init
  <1>2. SendInv /\ TextOK /\ [Next]_vars => SendInv' /\ TextOK'
    BY SendStep, TextStep DEF SendInv
  <1>3. SendInv /\ SendInv' /\ TextOK /\ [Next]_vars => [Abstract!Next]_<<slotOf, takenOf>>
    BY ReplyRefines
  <1> QED BY <1>1, <1>2, <1>3, PTL DEF Spec, ImplementsMailOnce, Abstract!Spec

---------------------------------------------------------------------------
(* The mailbox and its syncs                                              *)

(* The mail a sync has in hand, and the one it has classified but not      *)
(* committed, against the message rows.                                    *)
InHandOK ==
    \A p \in Syncs :
        /\ syncPc[p] \in {"insert", "commit", "classify"} => cur[p] \in Mail!Mails
        /\ syncPc[p] = "commit" => store[cur[p]] = "absent"
        /\ syncPc[p] = "classify" => store[cur[p]] # "absent"
        /\ unsaved[p] # Mail!Nothing => store[unsaved[p].mail] # "absent"

(* The unique dedupe_key: one sync at a time has flushed a mail's row. *)
OneInserter ==
    \A p, q \in Syncs :
        syncPc[p] = "commit" /\ syncPc[q] = "commit" /\ cur[p] = cur[q] => p = q

MailInv == Mail!TypeOK /\ InHandOK /\ OneInserter /\ Mail!ReplyLoggedOnce

(* The rows keep their presence: only a commit adds messages. *)
MailsKept == \A n \in Mail!Mails : store'[n] = "absent" <=> store[n] = "absent"

-----------------------------------------------------------------------------
LEMMA MailInit == Mail!Init => MailInv
  BY MailAssumption
  DEF Mail!Init, MailInv, Mail!TypeOK, InHandOK, OneInserter, Mail!ReplyLoggedOnce, Mail!Mails, Mail!Nothing,
      Mail!ClassificationStatus, Mail!Flushed

(* The provider lists mails of the mailbox, whatever its limit is. *)
LEMMA ListedTyped == Mail!TypeOK => Mail!Listed \in Seq(Mail!Mails)
  <1> SUFFICES ASSUME Mail!TypeOK PROVE Mail!Listed \in Seq(Mail!Mails)
    OBVIOUS
  <1> DEFINE uids == [i \in 1 .. mailbox |-> i]
             first == IF mailbox > SyncLimit THEN mailbox - SyncLimit + 1 ELSE 1
             newest == SubSeq(uids, first, mailbox)
  <1>1. mailbox \in Nat /\ mailbox <= MaxMail /\ MaxMail \in Nat /\ SyncLimit \in Nat \ {0}
    BY MailAssumption DEF Mail!TypeOK
  <1>2. uids \in Seq(Mail!Mails)
    <2>1. \A i \in 1 .. mailbox : i \in Mail!Mails BY <1>1 DEF Mail!Mails
    <2> QED BY <1>1, <2>1
  <1>3. first \in 1 .. mailbox + 1 BY <1>1
  <1>4. Len(uids) = mailbox BY <1>1
  <1>5. newest \in Seq(Mail!Mails)
    <2> HIDE DEF uids, first
    <2> QED BY <1>1, <1>2, <1>3, <1>4
  <1>6. Mail!Reverse(newest) \in Seq(Mail!Mails)
    <2> HIDE DEF newest
    <2>1. Len(newest) \in Nat BY <1>5
    <2>2. \A i \in 1 .. Len(newest) : newest[(Len(newest) - i) + 1] \in Mail!Mails
      BY <1>5, <2>1
    <2> QED BY <2>1, <2>2 DEF Mail!Reverse
  <1> QED BY <1>6 DEF Mail!Listed

(* What a session's commit of its flushed classification does to the rows:  *)
(* they keep their type and none appears or disappears.                     *)
LEMMA CommittedRows ==
    ASSUME Mail!TypeOK, NEW p \in Syncs, NEW st \in [Mail!Mails -> Mail!ClassificationStatus],
           unsaved[p] # Mail!Nothing => st[unsaved[p].mail] # "absent"
    PROVE  /\ Mail!Committed(p, st) \in [Mail!Mails -> Mail!ClassificationStatus]
           /\ \A n \in Mail!Mails : Mail!Committed(p, st)[n] = "absent" <=> st[n] = "absent"
  <1>1. CASE unsaved[p] = Mail!Nothing BY <1>1 DEF Mail!Committed
  <1>2. CASE unsaved[p] # Mail!Nothing
    <2>1. unsaved[p].mail \in Mail!Mails /\ unsaved[p].status \in {"classified", "failed"}
      BY <1>2 DEF Mail!TypeOK, Mail!Flushed
    <2> QED BY <1>2, <2>1 DEF Mail!Committed, Mail!ClassificationStatus
  <1> QED BY <1>1, <1>2

LEMMA EndSessionTyped ==
    ASSUME Mail!TypeOK, NEW p \in Syncs, NEW place \in {"idle", "crashed"}, Mail!EndSession(p, place)
    PROVE  /\ syncPc' = [syncPc EXCEPT ![p] = place] /\ unsaved' = [unsaved EXCEPT ![p] = Mail!Nothing]
           /\ syncPc' \in [Syncs -> {"idle", "list", "next", "insert", "commit", "classify",
                                 "crashed"}]
           /\ todo' \in [Syncs -> Seq(Mail!Mails)]
           /\ cur' \in [Syncs -> 0 .. MaxMail]
           /\ leadSeen' \in [Syncs -> {"none", "contacted", "replied", "won"}]
           /\ unsaved' \in [Syncs -> Mail!Flushed \cup {Mail!Nothing}]
           /\ \A q \in Syncs \ {p} : cur'[q] = cur[q]
  <1>1. <<>> \in Seq(Mail!Mails) /\ 0 \in 0 .. MaxMail BY MailAssumption
  <1> QED BY <1>1 DEF Mail!EndSession, Mail!Goto, Mail!TypeOK

(* A session that ends: what it had in hand is gone, the others keep theirs. *)
LEMMA EndSessionInv ==
    ASSUME MailInv, NEW p \in Syncs, NEW place \in {"idle", "crashed"}, Mail!EndSession(p, place),
           store' \in [Mail!Mails -> Mail!ClassificationStatus], MailsKept, crashes' \in 0 .. MaxCrashes,
           UNCHANGED <<mailbox, replies, lead, classified>>
    PROVE  MailInv'
  <1>1. Mail!TypeOK' BY EndSessionTyped DEF MailInv, Mail!TypeOK
  <1>2. InHandOK'
    <2> SUFFICES ASSUME NEW q \in Syncs
                 PROVE  /\ syncPc'[q] \in {"insert", "commit", "classify"} => cur'[q] \in Mail!Mails
                        /\ syncPc'[q] = "commit" => store'[cur'[q]] = "absent"
                        /\ syncPc'[q] = "classify" => store'[cur'[q]] # "absent"
                        /\ unsaved'[q] # Mail!Nothing => store'[unsaved'[q].mail] # "absent"
      BY DEF InHandOK
    <2>1. CASE q = p BY <2>1, EndSessionTyped DEF MailInv, Mail!TypeOK
    <2>2. CASE q # p
      <3>1. syncPc'[q] = syncPc[q] /\ cur'[q] = cur[q] /\ unsaved'[q] = unsaved[q]
        BY <2>2, EndSessionTyped DEF MailInv, Mail!TypeOK
      <3>2. unsaved[q] # Mail!Nothing => unsaved[q].mail \in Mail!Mails
        BY DEF MailInv, Mail!TypeOK, Mail!Flushed
      <3> QED BY <3>1, <3>2 DEF MailInv, InHandOK, MailsKept
    <2> QED BY <2>1, <2>2
  <1>3. OneInserter'
    <2>1. \A q \in Syncs : syncPc'[q] = "commit" => syncPc[q] = "commit" /\ cur'[q] = cur[q]
      BY EndSessionTyped DEF MailInv, Mail!TypeOK
    <2> QED BY <2>1 DEF MailInv, OneInserter
  <1>4. Mail!ReplyLoggedOnce' BY DEF MailInv, Mail!ReplyLoggedOnce, MailsKept
  <1> QED BY <1>1, <1>2, <1>3, <1>4 DEF MailInv

(* A sync that moves without touching the tables. *)
LEMMA MoveInv ==
    ASSUME MailInv, NEW p \in Syncs, Mail!TypeOK', UNCHANGED <<store, replies>>,
           \A q \in Syncs \ {p} : /\ syncPc'[q] = syncPc[q] /\ cur'[q] = cur[q]
                                  /\ unsaved'[q] = unsaved[q],
           syncPc'[p] \notin {"commit", "classify"},
           syncPc'[p] = "insert" => cur'[p] \in Mail!Mails,
           unsaved'[p] # Mail!Nothing => store[unsaved'[p].mail] # "absent"
    PROVE  MailInv'
  <1>1. InHandOK' BY DEF MailInv, InHandOK
  <1>2. OneInserter' BY DEF MailInv, OneInserter
  <1> QED BY <1>1, <1>2 DEF MailInv, Mail!ReplyLoggedOnce

LEMMA CommitInv ==
    ASSUME MailInv, NEW p \in Syncs, Mail!Commit(p) PROVE MailInv'
  <1> DEFINE n == cur[p]
             st == [store EXCEPT ![n] = "pending"]
  <1>1. n \in Mail!Mails /\ store[n] = "absent" /\ replies[n] = 0
    BY DEF Mail!Commit, MailInv, InHandOK, Mail!ReplyLoggedOnce
  <1>2. unsaved[p] # Mail!Nothing => /\ unsaved[p].mail \in Mail!Mails /\ unsaved[p].mail # n
                                /\ store[unsaved[p].mail] # "absent"
    BY <1>1 DEF MailInv, InHandOK, Mail!TypeOK, Mail!Flushed
  <1>3. st \in [Mail!Mails -> Mail!ClassificationStatus] BY <1>1 DEF MailInv, Mail!TypeOK, Mail!ClassificationStatus
  <1>4. /\ st[n] # "absent"
        /\ \A m \in Mail!Mails \ {n} : st[m] = store[m]
    BY <1>1 DEF MailInv, Mail!TypeOK
  <1>5. unsaved[p] # Mail!Nothing => st[unsaved[p].mail] # "absent" BY <1>2, <1>4
  <1>6. /\ store' \in [Mail!Mails -> Mail!ClassificationStatus]
        /\ store'[n] # "absent"
        /\ \A m \in Mail!Mails \ {n} : store'[m] = "absent" <=> store[m] = "absent"
    <2>1. store' = Mail!Committed(p, st) BY DEF Mail!Commit
    <2> HIDE DEF st
    <2> QED BY <1>1, <1>3, <1>4, <1>5, <2>1, CommittedRows DEF MailInv
  <1>7. /\ replies' \in [Mail!Mails -> Nat] /\ replies'[n] = 1
        /\ \A m \in Mail!Mails \ {n} : replies'[m] = replies[m]
    BY <1>1 DEF Mail!Commit, MailInv, Mail!TypeOK
  <1>8. Mail!TypeOK'
    BY <1>6, <1>7 DEF Mail!Commit, Mail!Goto, MailInv, Mail!TypeOK
  <1>9. InHandOK'
    <2> SUFFICES ASSUME NEW q \in Syncs
                 PROVE  /\ syncPc'[q] \in {"insert", "commit", "classify"} => cur'[q] \in Mail!Mails
                        /\ syncPc'[q] = "commit" => store'[cur'[q]] = "absent"
                        /\ syncPc'[q] = "classify" => store'[cur'[q]] # "absent"
                        /\ unsaved'[q] # Mail!Nothing => store'[unsaved'[q].mail] # "absent"
      BY DEF InHandOK
    <2>1. CASE q = p BY <1>1, <1>6, <2>1 DEF Mail!Commit, Mail!Goto, MailInv, Mail!TypeOK
    <2>2. CASE q # p
      <3>1. syncPc'[q] = syncPc[q] /\ cur'[q] = cur[q] /\ unsaved'[q] = unsaved[q]
        BY <2>2 DEF Mail!Commit, Mail!Goto, MailInv, Mail!TypeOK
      <3>2. unsaved[q] # Mail!Nothing => unsaved[q].mail \in Mail!Mails
        BY DEF MailInv, Mail!TypeOK, Mail!Flushed
      <3>3. syncPc[q] = "commit" => cur[q] # n BY <2>2 DEF Mail!Commit, MailInv, OneInserter
      <3> QED BY <1>6, <3>1, <3>2, <3>3 DEF MailInv, InHandOK
    <2> QED BY <2>1, <2>2
  <1>10. OneInserter' BY DEF Mail!Commit, Mail!Goto, MailInv, Mail!TypeOK, OneInserter
  <1>11. Mail!ReplyLoggedOnce' BY <1>1, <1>6, <1>7 DEF MailInv, Mail!ReplyLoggedOnce
  <1> QED BY <1>8, <1>9, <1>10, <1>11 DEF MailInv

LEMMA InsertInv ==
    ASSUME MailInv, NEW p \in Syncs, Mail!Insert(p) PROVE MailInv'
  <1>1. CASE store[cur[p]] = "absent"
    <2>1. Mail!TypeOK' BY <1>1 DEF Mail!Insert, Mail!Goto, MailInv, Mail!TypeOK
    <2>2. InHandOK' BY <1>1 DEF Mail!Insert, Mail!Goto, MailInv, Mail!TypeOK, InHandOK
    <2>3. OneInserter'
      <3>1. \A q \in Syncs : /\ cur'[q] = cur[q]
                             /\ syncPc'[q] = "commit" => q = p \/ syncPc[q] = "commit"
        BY <1>1 DEF Mail!Insert, Mail!Goto, MailInv, Mail!TypeOK
      <3>2. \A q \in Syncs \ {p} : syncPc[q] = "commit" => cur[q] # cur[p]
        BY DEF Mail!Insert
      <3> QED BY <3>1, <3>2 DEF MailInv, OneInserter
    <2>4. Mail!ReplyLoggedOnce' BY <1>1 DEF Mail!Insert, MailInv, Mail!ReplyLoggedOnce
    <2> QED BY <2>1, <2>2, <2>3, <2>4 DEF MailInv
  <1>2. CASE store[cur[p]] # "absent"
    <2>1. /\ Mail!EndSession(p, "crashed") /\ MailsKept /\ store' \in [Mail!Mails -> Mail!ClassificationStatus]
          /\ UNCHANGED <<mailbox, replies, lead, classified>> /\ crashes' \in 0 .. MaxCrashes
      BY <1>2 DEF Mail!Insert, MailsKept, MailInv, Mail!TypeOK
    <2> QED BY <2>1, EndSessionInv
  <1> QED BY <1>1, <1>2

LEMMA SyncStepInv == ASSUME MailInv, NEW p \in Syncs, Mail!SyncStep(p) PROVE MailInv'
  <1> USE DEF Mail!Goto
  <1>1. CASE Mail!Start(p)
    <2>1. Mail!TypeOK' BY <1>1 DEF Mail!Start, MailInv, Mail!TypeOK
    <2> QED BY <1>1, <2>1, MoveInv DEF Mail!Start, MailInv, Mail!TypeOK, InHandOK
  <1>2. CASE Mail!ListMessages(p)
    <2>1. Mail!TypeOK' BY <1>2, ListedTyped DEF Mail!ListMessages, MailInv, Mail!TypeOK
    <2> QED BY <1>2, <2>1, MoveInv DEF Mail!ListMessages, MailInv, Mail!TypeOK, InHandOK
  <1>3. CASE Mail!Lookup(p)
    <2>1. todo[p] \in Seq(Mail!Mails) /\ todo[p] # <<>> BY <1>3 DEF Mail!Lookup, MailInv, Mail!TypeOK
    <2>2. Head(todo[p]) \in Mail!Mails /\ Tail(todo[p]) \in Seq(Mail!Mails) BY <2>1
    <2>3. Mail!TypeOK' BY <1>3, <2>2 DEF Mail!Lookup, MailInv, Mail!TypeOK, Mail!Mails
    <2>4. /\ syncPc'[p] \in {"insert", "next"} /\ cur'[p] \in Mail!Mails
          /\ unsaved' = unsaved /\ UNCHANGED <<store, replies>>
          /\ \A q \in Syncs \ {p} : syncPc'[q] = syncPc[q] /\ cur'[q] = cur[q]
      BY <1>3, <2>2 DEF Mail!Lookup, MailInv, Mail!TypeOK
    <2> QED BY <2>3, <2>4, MoveInv DEF MailInv, InHandOK
  <1>4. CASE Mail!Insert(p) BY <1>4, InsertInv
  <1>5. CASE Mail!Commit(p) BY <1>5, CommitInv
  <1>6. CASE Mail!SkipClassify(p)
    <2>1. Mail!TypeOK' BY <1>6 DEF Mail!SkipClassify, MailInv, Mail!TypeOK
    <2> QED BY <1>6, <2>1, MoveInv DEF Mail!SkipClassify, MailInv, Mail!TypeOK, InHandOK
  <1>7. ASSUME NEW status \in {"classified", "failed"}, Mail!Classify(p, status) PROVE MailInv'
    <2>1. cur[p] \in Mail!Mails /\ store[cur[p]] # "absent"
      BY <1>7 DEF Mail!Classify, MailInv, InHandOK
    <2>2. [mail |-> cur[p], status |-> status] \in Mail!Flushed BY <2>1 DEF Mail!Flushed
    <2>3. Mail!TypeOK' BY <1>7, <2>2 DEF Mail!Classify, MailInv, Mail!TypeOK
    <2>4. unsaved'[p].mail = cur[p] BY <1>7 DEF Mail!Classify, MailInv, Mail!TypeOK
    <2> QED BY <1>7, <2>1, <2>3, <2>4, MoveInv DEF Mail!Classify, MailInv, Mail!TypeOK
  <1>8. CASE Mail!Finish(p)
    <2>1. unsaved[p] # Mail!Nothing => store[unsaved[p].mail] # "absent"
      BY DEF MailInv, InHandOK
    <2>2. store' \in [Mail!Mails -> Mail!ClassificationStatus] /\ MailsKept
      BY <1>8, <2>1, CommittedRows DEF Mail!Finish, MailsKept, MailInv, Mail!TypeOK
    <2> QED BY <1>8, <2>2, EndSessionInv DEF Mail!Finish, MailInv, Mail!TypeOK
  <1>9. CASE Mail!Retry(p)
    BY <1>9, EndSessionInv DEF Mail!Retry, MailsKept, MailInv, Mail!TypeOK
  <1> QED BY <1>1, <1>2, <1>3, <1>4, <1>5, <1>6, <1>7, <1>8, <1>9 DEF Mail!SyncStep

LEMMA MailStep == MailInv /\ [Mail!Next]_(Mail!vars) => MailInv'
  <1> SUFFICES ASSUME MailInv, [Mail!Next]_(Mail!vars) PROVE MailInv'
    OBVIOUS
  <1>1. ASSUME \/ Mail!MailArrives \/ Mail!CloseLead \/ UNCHANGED Mail!vars
               \/ \E n \in Mail!Mails : Mail!ClassifyRest(n)
        PROVE  MailInv'
    <2>1. UNCHANGED <<store, replies, syncPc, todo, cur, leadSeen, unsaved, crashes>>
      BY <1>1 DEF Mail!MailArrives, Mail!CloseLead, Mail!ClassifyRest, Mail!vars
    <2>2. mailbox' \in 0 .. MaxMail /\ lead' \in {"contacted", "replied", "won"}
          /\ classified' \in 0 .. MaxMail
      BY <1>1, MailAssumption
      DEF Mail!MailArrives, Mail!CloseLead, Mail!ClassifyRest, Mail!vars, MailInv, Mail!TypeOK, Mail!Mails
    <2>3. Mail!TypeOK' BY <2>1, <2>2 DEF MailInv, Mail!TypeOK
    <2> QED BY <2>1, <2>3 DEF MailInv, InHandOK, OneInserter, Mail!ReplyLoggedOnce
  <1>2. ASSUME NEW p \in Syncs, Mail!SyncStep(p) PROVE MailInv' BY <1>2, SyncStepInv
  <1>3. ASSUME NEW p \in Syncs, Mail!ListFails(p) PROVE MailInv'
    BY <1>3, EndSessionInv DEF Mail!ListFails, MailsKept, MailInv, Mail!TypeOK
  <1>4. ASSUME NEW p \in Syncs, Mail!Crash(p) PROVE MailInv'
    <2>1. crashes' \in 0 .. MaxCrashes
      BY <1>4, MailAssumption DEF Mail!Crash, MailInv, Mail!TypeOK
    <2> QED BY <1>4, <2>1, EndSessionInv DEF Mail!Crash, MailsKept, MailInv, Mail!TypeOK
  <1> QED BY <1>1, <1>2, <1>3, <1>4 DEF Mail!Next

-----------------------------------------------------------------------------
(* The mailbox, the message rows and every sync keep their types. *)
THEOREM MailTypes == Mail!Spec => []Mail!TypeOK
  BY MailInit, MailStep, PTL DEF Mail!Spec, MailInv

(* One mail is one InboundMessage and one REPLIED row, for any number of    *)
(* concurrent syncs, crashes and retries: what the unique dedupe_key makes  *)
(* of a lookup and an insert that are not atomic.                           *)
THEOREM LoggedOnce == Mail!Spec => []ReplyLoggedOnce
  BY MailInit, MailStep, PTL DEF Mail!Spec, MailInv, ReplyLoggedOnce

---------------------------------------------------------------------------
(* The closer                                                              *)

Messages == [role : {"client", "mote"}, of : Replies \cup {Talk!First}]

(* In ms each answer stands right after the message it answers. *)
Alternates(ms) ==
  \A i \in DOMAIN ms :
    ms[i].role = "mote" /\ ms[i].of # Talk!First => i > 1 /\ ms[i - 1] = Talk!Client(ms[i].of)

ReplyRows == [pc : {"idle", "llm", "ok", "refused", "error"}, read : Seq(Messages)]

RowsOK ==
  /\ convo \in [status : Talk!Statuses, took : BOOLEAN, messages : Seq(Messages)]
  /\ reply \in [Replies -> ReplyRows]
  /\ send = [s \in Sends |-> [pc |-> send[s].pc, text |-> send[s].text]]
  /\ \A s \in Sends : send[s].pc \in {"idle", "sending", "ok", "refused", "error"}

(* What is stored alternates, and so does everything a request has read    *)
(* and will write back with its two messages added.                        *)
TalkInv ==
  /\ RowsOK
  /\ Alternates(convo.messages)
  /\ \A r \in Replies : Alternates(reply[r].read)

LEMMA AddedPair ==
  ASSUME NEW ms \in Seq(Messages), Alternates(ms), NEW r \in Replies
  PROVE  /\ ms \o <<Talk!Client(r), Talk!Mote(r)>> \in Seq(Messages)
         /\ Alternates(ms \o <<Talk!Client(r), Talk!Mote(r)>>)
  <1> DEFINE new == ms \o <<Talk!Client(r), Talk!Mote(r)>>
             n == Len(ms)
  <1>1. Talk!Client(r) \in Messages /\ Talk!Mote(r) \in Messages BY DEF Talk!Client, Talk!Mote, Messages
  <1>2. new \in Seq(Messages) /\ Len(new) = n + 2 /\ n \in Nat BY <1>1
  <1>3. \A i \in 1 .. n : new[i] = ms[i] BY <1>1
  <1>4. new[n + 1] = Talk!Client(r) /\ new[n + 2] = Talk!Mote(r) BY <1>1
  <1>5. Alternates(new)
    <2> SUFFICES ASSUME NEW i \in 1 .. n + 2, new[i].role = "mote", new[i].of # Talk!First
                 PROVE  i > 1 /\ new[i - 1] = Talk!Client(new[i].of)
      <3>1. DOMAIN new = 1 .. n + 2 BY <1>2
      <3> HIDE DEF new
      <3> QED BY <3>1 DEF Alternates
    <2> HIDE DEF new
    <2>1. CASE i \in 1 .. n
      <3>1. i > 1 /\ ms[i - 1] = Talk!Client(ms[i].of) BY <1>2, <1>3, <2>1 DEF Alternates
      <3> QED BY <1>2, <1>3, <2>1, <3>1
    <2>2. CASE i = n + 1 BY <1>4, <2>2 DEF Talk!Client
    <2>3. CASE i = n + 2 BY <1>2, <1>4, <2>3 DEF Talk!Mote
    <2> QED BY <1>2, <2>1, <2>2, <2>3
  <1> QED BY <1>2, <1>5

LEMMA TalkInit == Talk!Init => TalkInv
  <1> SUFFICES ASSUME Talk!Init PROVE TalkInv
    OBVIOUS
  <1>1. Talk!Mote(Talk!First) \in Messages BY DEF Talk!Mote, Messages
  <1>2. <<Talk!Mote(Talk!First)>> \in Seq(Messages) /\ <<>> \in Seq(Messages) BY <1>1
  <1>3. RowsOK BY <1>2 DEF Talk!Init, RowsOK, ReplyRows, Talk!Statuses
  <1>4. Alternates(<<>>) /\ Alternates(<<Talk!Mote(Talk!First)>>) BY DEF Alternates, Talk!Mote
  <1> QED BY <1>3, <1>4 DEF Talk!Init, TalkInv

LEMMA TalkStep == TalkInv /\ [Talk!Next]_(Talk!vars) => TalkInv' /\ (convo.took => convo'.took)
  <1> SUFFICES ASSUME TalkInv, [Talk!Next]_(Talk!vars) PROVE TalkInv' /\ (convo.took => convo'.took)
    OBVIOUS
  <1> USE DEF TalkInv, RowsOK
  <1>1. ASSUME NEW r \in Replies, Talk!ReplyBegin(r) \/ Talk!ReplyError(r)
        PROVE  TalkInv' /\ convo' = convo
    <2>1. <<>> \in Seq(Messages) /\ Alternates(<<>>) BY DEF Alternates
    <2>2. PICK m \in ReplyRows :
            /\ reply' = [reply EXCEPT ![r] = m]
            /\ m.read \in {reply[r].read, convo.messages, <<>>}
      <3>1. CASE Talk!ReplyBegin(r) /\ convo.took
        <4> DEFINE m == [pc |-> "refused", read |-> <<>>]
        <4>1. reply' = [reply EXCEPT ![r] = m] BY <3>1, Zenon DEF Talk!ReplyBegin
        <4>2. m \in ReplyRows /\ m.read \in {reply[r].read, convo.messages, <<>>}
          BY <2>1 DEF ReplyRows
        <4> HIDE DEF m
        <4> QED BY <4>1, <4>2
      <3>2. CASE Talk!ReplyBegin(r) /\ ~convo.took
        <4> DEFINE m == [pc |-> "llm", read |-> convo.messages]
        <4>1. reply' = [reply EXCEPT ![r] = m] BY <3>2, Zenon DEF Talk!ReplyBegin
        <4>2. m \in ReplyRows /\ m.read \in {reply[r].read, convo.messages, <<>>}
          BY <2>1 DEF ReplyRows
        <4> HIDE DEF m
        <4> QED BY <4>1, <4>2
      <3>3. CASE Talk!ReplyError(r)
        <4> DEFINE m == [pc |-> "error", read |-> reply[r].read]
        <4>0. [reply[r] EXCEPT !.pc = "error"] = m BY DEF ReplyRows
        <4>1. reply' = [reply EXCEPT ![r] = m] BY <3>3, <4>0, Zenon DEF Talk!ReplyError
        <4>2. m \in ReplyRows /\ m.read \in {reply[r].read, convo.messages, <<>>}
          BY <2>1 DEF ReplyRows
        <4> HIDE DEF m
        <4> QED BY <4>1, <4>2
      <3> QED BY <1>1, <3>1, <3>2, <3>3
    <2>3. \A q \in Replies : reply'[q].read \in {reply[q].read, convo.messages, <<>>}
      BY <2>2
    <2>4. \A q \in Replies : Alternates(reply'[q].read) BY <2>1, <2>3
    <2>5. UNCHANGED <<convo, send>> BY <1>1 DEF Talk!ReplyBegin, Talk!ReplyError
    <2>6. RowsOK' BY <2>2, <2>5
    <2> QED BY <2>4, <2>5, <2>6
  <1>2. ASSUME NEW r \in Replies, NEW intent \in Talk!Intents, Talk!ReplyCommit(r, intent)
        PROVE  TalkInv' /\ convo'.took = convo.took
    <2> DEFINE new == reply[r].read \o <<Talk!Client(r), Talk!Mote(r)>>
    <2>1. new \in Seq(Messages) /\ Alternates(new) BY AddedPair DEF ReplyRows
    <2> HIDE DEF new
    <2>2. convo' = [status |-> Talk!StatusFor(intent), took |-> convo.took, messages |-> new]
      BY <1>2 DEF Talk!ReplyCommit, new
    <2>3. Talk!StatusFor(intent) \in Talk!Statuses BY DEF Talk!StatusFor, Talk!Statuses
    <2>4. convo' \in [status : Talk!Statuses, took : BOOLEAN, messages : Seq(Messages)]
      BY <2>1, <2>2, <2>3
    <2>5. /\ reply' \in [Replies -> ReplyRows]
          /\ \A q \in Replies : reply'[q].read = reply[q].read
      BY <1>2 DEF Talk!ReplyCommit, ReplyRows
    <2>6. send' = send BY <1>2 DEF Talk!ReplyCommit
    <2>7. RowsOK' BY <2>4, <2>5, <2>6
    <2> QED BY <2>1, <2>2, <2>5, <2>7
  <1>3. ASSUME NEW s \in Sends, Talk!SendBegin(s) \/ Talk!SendDeliver(s) \/ Talk!SendError(s)
        PROVE  TalkInv' /\ convo' = convo
    <2>1. UNCHANGED <<convo, reply>> BY <1>3 DEF Talk!SendBegin, Talk!SendDeliver, Talk!SendError
    <2>2. CASE Talk!SendBegin(s)
      <3>1. PICK m : /\ m.pc \in {"refused", "sending"} /\ m = [pc |-> m.pc, text |-> m.text]
                     /\ send' = [send EXCEPT ![s] = m]
        BY <2>2 DEF Talk!SendBegin
      <3>2. send' = [u \in Sends |-> IF u = s THEN m ELSE send[u]] BY <3>1
      <3>3. RowsOK' BY <2>1, <3>1, <3>2
      <3> QED BY <2>1, <3>3
    <2>3. CASE Talk!SendDeliver(s) \/ Talk!SendError(s)
      <3>1. PICK p \in {"ok", "error"} : send' = [send EXCEPT ![s].pc = p]
        BY <2>3 DEF Talk!SendDeliver, Talk!SendError
      <3>2. send' = [u \in Sends |-> IF u = s THEN [pc |-> p, text |-> send[u].text] ELSE send[u]]
        BY <3>1
      <3>3. RowsOK' BY <2>1, <3>2
      <3> QED BY <2>1, <3>3
    <2> QED BY <1>3, <2>1, <2>2, <2>3
  <1>4. CASE Talk!Takeover
    <2>1. /\ convo' = [status |-> "operator_took_over", took |-> TRUE, messages |-> convo.messages]
          /\ UNCHANGED <<reply, send>>
      BY <1>4 DEF Talk!Takeover
    <2>2. RowsOK' BY <2>1 DEF Talk!Statuses
    <2> QED BY <2>1, <2>2
  <1>5. CASE UNCHANGED Talk!vars BY <1>5 DEF Talk!vars
  <1> QED BY <1>1, <1>2, <1>3, <1>4, <1>5 DEF Talk!Next

(* Every conversation row, reply and send request keeps its type. *)
THEOREM TalkTypes == Talk!Spec => []Talk!TypeOK
  <1>1. TalkInv => Talk!TypeOK BY DEF TalkInv, RowsOK, ReplyRows, Talk!TypeOK, Messages
  <1> QED BY <1>1, TalkInit, TalkStep, PTL DEF Talk!Spec

(* In the stored conversation each answer of Mote stands right after the    *)
(* client's message it answers, although concurrent requests overwrite each *)
(* other's messages.                                                        *)
THEOREM AnswersInPlace == Talk!Spec => []AnswerFollowsQuestion
  <1>1. TalkInv => AnswerFollowsQuestion
    BY DEF TalkInv, Alternates, AnswerFollowsQuestion, Talk!AnswerFollowsQuestion
  <1> QED BY <1>1, TalkInit, TalkStep, PTL DEF Talk!Spec

(* A takeover is final: no reply request that read the row before it gives  *)
(* the conversation back to Mote.                                           *)
THEOREM TakeoverFinal == Talk!Spec => TakeoverSticks
  BY TalkInit, TalkStep, PTL DEF Talk!Spec, TakeoverSticks, Talk!TakeoverSticks

---------------------------------------------------------------------------
(* Numbers: the library's Min and Max choose an element that is there.     *)

LEMMA Smallest ==
  ASSUME NEW S \in SUBSET Nat, S # {} PROVE \E x \in S : \A y \in S : x <= y
  <1>1. PICK x \in S : \A y \in S : ~(<<y, x>> \in OpToRel(<, Nat))
    BY NatLessThanWellFounded, WFMin
  <1>2. \A y \in S : ~(y < x) BY <1>1 DEF OpToRel
  <1> QED BY <1>2

LEMMA MinIsIn == ASSUME NEW S \in SUBSET Nat, S # {} PROVE Match!Min(S) \in S
  BY Smallest DEF Match!Min

LEMMA MaxIsLargest ==
  ASSUME NEW n \in Nat, NEW S \in SUBSET (0 .. n), S # {}
  PROVE  Match!Max(S) \in S /\ \A y \in S : y <= Match!Max(S)
  <1> DEFINE T == {n - x : x \in S}
  <1>1. T \in SUBSET Nat BY DEF T
  <1>2. T # {} BY DEF T
  <1>3. PICK t \in T : \A y \in T : t <= y BY <1>1, <1>2, Smallest
  <1>4. PICK m \in S : t = n - m BY <1>3
  <1>5. ASSUME NEW y \in S PROVE y <= m
    <2>1. n - m <= n - y BY <1>3, <1>4
    <2> QED BY <2>1
  <1> QED BY <1>5 DEF Match!Max

---------------------------------------------------------------------------
(* match_delivery                                                          *)

(* The deliveries' leads are leads; a topic is an address and a subject.    *)
(* The bounds are numbers.                                                  *)
World ==
  /\ LeadOf \in Seq(Leads) /\ MaxReplies \in Nat /\ LookedAt \in Nat
  /\ TopicOf \in [DOMAIN LeadOf -> Topics]
  /\ \A t \in Topics : t = [to |-> t.to, subject |-> t.subject]

(* The operators of FiniteSets, as the instance of ThreadMatch names them. *)
LEMMA MatchCardinality == \A S : Match!Cardinality(S) = Cardinality(S)
  BY DEF Match!Cardinality, Cardinality

(* Deliveries a mail on a topic may be matched to, and what keeps a search  *)
(* by subject from seeing one.                                              *)
OnTopic(topic) == {e \in aged + 1 .. delivered : TopicOf[e] = topic}
Newer(d) == {e \in d + 1 .. delivered : TopicOf[e].to = TopicOf[d].to}

(* What has been sent, and how long ago. *)
Clock == delivered \in 0 .. Len(LeadOf) /\ aged \in 0 .. delivered

(* Message ids as match_delivery gets them from In-Reply-To and References. *)
IdLists == UNION {[1 .. m -> Match!MessageIds] : m \in Nat}

LEMMA PayloadIds ==
  ASSUME NEW p \in Match!Payloads
  PROVE  /\ p.irt \in IdLists /\ p.refs \in IdLists
         /\ p.irt = <<>> \/ \E i \in Match!MessageIds : p.irt = <<i>>
  <1>1. p.refs \in IdLists
    BY DEF Match!Payloads, Match!BoundedSeq, Match!SeqOf, IdLists
  <1>2. p.irt = <<>> \/ \E i \in Match!MessageIds : p.irt = <<i>>
    BY DEF Match!Payloads
  <1>3. p.irt \in [1 .. 0 -> Match!MessageIds] \/ p.irt \in [1 .. 1 -> Match!MessageIds]
    <2>1. CASE p.irt = <<>>
      <3>1. <<>> \in [1 .. 0 -> Match!MessageIds] OBVIOUS
      <3> QED BY <2>1, <3>1
    <2>2. ASSUME NEW i \in Match!MessageIds, p.irt = <<i>>
          PROVE  p.irt \in [1 .. 1 -> Match!MessageIds]
      <3>1. <<i>> \in [1 .. 1 -> Match!MessageIds] OBVIOUS
      <3> QED BY <2>2, <3>1
    <2> QED BY <1>2, <2>1, <2>2
  <1> QED BY <1>1, <1>2, <1>3 DEF IdLists

Named(ids, id) == \E i \in DOMAIN ids : ids[i] = id

(* Looking for deliveries: what is found is named, and nothing is found    *)
(* only if no delivery is named.                                           *)
LEMMA FoundDelivery ==
  ASSUME delivered \in Nat, NEW ids \in IdLists
  PROVE  LET d == Match!FindDelivery(ids) IN
         \/ d = 0 /\ \A e \in 1 .. delivered : ~Named(ids, Match!DeliveryId(e))
         \/ d \in 1 .. delivered /\ Named(ids, Match!DeliveryId(d))
  <1> DEFINE known == {i \in DOMAIN ids : \E d \in 1 .. delivered : ids[i] = Match!DeliveryId(d)}
  <1>1. CASE known = {}
    BY <1>1 DEF Match!FindDelivery, Named
  <1>2. CASE known # {}
    <2>1. known \in SUBSET Nat BY DEF IdLists
    <2>2. Match!Min(known) \in known BY <1>2, <2>1, MinIsIn
    <2>3. PICK d \in 1 .. delivered : ids[Match!Min(known)] = Match!DeliveryId(d) BY <2>2
    <2>4. ids[Match!Min(known)][2] = d BY <2>3 DEF Match!DeliveryId
    <2>5. Match!FindDelivery(ids) = d BY <1>2, <2>4 DEF Match!FindDelivery
    <2> QED BY <2>2, <2>3, <2>5 DEF Named
  <1> QED BY <1>1, <1>2

LEMMA FoundReply ==
  ASSUME NEW n \in Nat, DOMAIN replySends = 1 .. n, NEW ids \in IdLists
  PROVE  LET k == Match!FindReply(ids) IN
         \/ k = 0 /\ \A e \in 1 .. n : ~Named(ids, Match!ReplyId(e))
         \/ k \in 1 .. n /\ Named(ids, Match!ReplyId(k))
  <1> DEFINE known == {i \in DOMAIN ids : \E k \in DOMAIN replySends : ids[i] = Match!ReplyId(k)}
  <1>1. CASE known = {}
    BY <1>1 DEF Match!FindReply, Named
  <1>2. CASE known # {}
    <2>1. known \in SUBSET Nat BY DEF IdLists
    <2>2. Match!Min(known) \in known BY <1>2, <2>1, MinIsIn
    <2>3. PICK k \in 1 .. n : ids[Match!Min(known)] = Match!ReplyId(k) BY <2>2
    <2>4. ids[Match!Min(known)][2] = k BY <2>3 DEF Match!ReplyId
    <2>5. Match!FindReply(ids) = k BY <1>2, <2>4 DEF Match!FindReply
    <2> QED BY <2>2, <2>3, <2>5 DEF Named
  <1> QED BY <1>1, <1>2

LEMMA NewerIsFinite ==
  ASSUME World, Clock, NEW d \in Nat
  PROVE  IsFiniteSet(Newer(d)) /\ Cardinality(Newer(d)) \in Nat
  <1>0. d + 1 \in Int /\ delivered \in Int BY DEF Clock, World
  <1>1. IsFiniteSet(d + 1 .. delivered) BY <1>0, FS_Interval
  <1>2. IsFiniteSet(Newer(d)) BY <1>1, FS_Subset DEF Newer
  <1> QED BY <1>2, FS_CardinalityType

(* The search by subject finds the newest delivery on the topic, or those   *)
(* there are are out of its sight.                                          *)
LEMMA FoundBySubject ==
  ASSUME World, Clock, NEW topic \in Topics \cup {Match!NoTopic}
  PROVE  LET d == Match!FindBySubject(topic) IN
         \/ d = 0 /\ \A e \in OnTopic(topic) : Match!Crowded(e)
         \/ d \in OnTopic(topic) /\ \A e \in OnTopic(topic) : e <= d
  <1> DEFINE recent == {d \in aged + 1 .. delivered : TopicOf[d].to = topic.to}
             looked == Match!LookedThrough(topic.to)
             S == {0} \cup {d \in looked : TopicOf[d].subject = topic.subject}
             d == Match!FindBySubject(topic)
  <1>0. /\ delivered \in Nat /\ aged \in Nat /\ LookedAt \in Nat
        /\ \A e \in 1 .. delivered : TopicOf[e] \in Topics
    BY DEF World, Clock
  <1>1. looked = {e \in recent : Cardinality({x \in recent : x > e}) < LookedAt}
    BY MatchCardinality DEF Match!LookedThrough
  <1>2. ASSUME NEW e \in aged + 1 .. delivered, TopicOf[e].to = topic.to
        PROVE  {x \in recent : x > e} = Newer(e)
    BY <1>0, <1>2 DEF Newer
  <1>3. ASSUME NEW e \in aged + 1 .. delivered
        PROVE  e \in looked <=> TopicOf[e].to = topic.to /\ Cardinality(Newer(e)) < LookedAt
    <2>1. CASE TopicOf[e].to = topic.to BY <1>1, <1>2, <2>1
    <2>2. CASE TopicOf[e].to # topic.to BY <1>1, <2>2
    <2> QED BY <2>1, <2>2
  <1>4. looked \subseteq aged + 1 .. delivered BY <1>1
  <1>5. ASSUME NEW e \in aged + 1 .. delivered
        PROVE  TopicOf[e] = topic <=> TopicOf[e].to = topic.to /\ TopicOf[e].subject = topic.subject
    <2>1. topic = [to |-> topic.to, subject |-> topic.subject] BY DEF World, Match!NoTopic
    <2>2. TopicOf[e] \in Topics BY <1>0
    <2>3. TopicOf[e] = [to |-> TopicOf[e].to, subject |-> TopicOf[e].subject] BY <2>2 DEF World
    <2> QED BY <2>1, <2>3
  <1>6. ASSUME NEW e \in OnTopic(topic)
        PROVE  /\ e \in aged + 1 .. delivered
               /\ e \in looked => e \in S
               /\ e \notin looked => Cardinality(Newer(e)) >= LookedAt
    <2>1. e \in aged + 1 .. delivered /\ TopicOf[e] = topic BY DEF OnTopic
    <2>2. Cardinality(Newer(e)) \in Nat BY <1>0, <2>1, NewerIsFinite
    <2>3. TopicOf[e].to = topic.to /\ TopicOf[e].subject = topic.subject BY <2>1
    <2> HIDE DEF looked
    <2> QED BY <1>0, <1>3, <2>1, <2>2, <2>3
  <1>7. d = Match!Max(S) BY DEF Match!FindBySubject
  <1> HIDE DEF looked, d
  <1>8. S \in SUBSET (0 .. delivered) /\ S # {} BY <1>0, <1>4
  <1>9. d \in S /\ \A y \in S : y <= d BY <1>0, <1>7, <1>8, MaxIsLargest
  <1>10. CASE d = 0
    <2>1. ASSUME NEW e \in OnTopic(topic) PROVE Match!Crowded(e)
      <3>1. e \notin looked BY <1>0, <1>6, <1>9, <1>10
      <3>2. Cardinality(Newer(e)) >= LookedAt BY <1>6, <3>1
      <3> QED BY <3>2, MatchCardinality DEF Match!Crowded, Newer
    <2> QED BY <1>10, <2>1 DEF d
  <1>11. CASE d # 0
    <2>1. d \in looked /\ TopicOf[d].subject = topic.subject BY <1>9, <1>11
    <2>2. d \in aged + 1 .. delivered BY <1>4, <2>1
    <2>3. TopicOf[d].to = topic.to /\ Cardinality(Newer(d)) < LookedAt BY <1>3, <2>1, <2>2
    <2>4. d \in OnTopic(topic) BY <1>5, <2>1, <2>2, <2>3 DEF OnTopic
    <2>5. ASSUME NEW e \in OnTopic(topic), e > d PROVE FALSE
      <3>1. e \in aged + 1 .. delivered /\ TopicOf[e].to = TopicOf[d].to
        BY <2>3 DEF OnTopic
      <3>2. Newer(e) \subseteq Newer(d) BY <1>0, <2>2, <2>5, <3>1 DEF Newer
      <3>3. /\ Cardinality(Newer(e)) <= Cardinality(Newer(d))
            /\ Cardinality(Newer(e)) \in Nat /\ Cardinality(Newer(d)) \in Nat
        BY <1>0, <2>2, <3>1, <3>2, NewerIsFinite, FS_Subset
      <3>4. e \notin looked BY <1>0, <1>6, <1>9, <2>2, <2>5, <3>1
      <3>5. Cardinality(Newer(e)) >= LookedAt BY <1>6, <3>4
      <3> QED BY <1>0, <2>3, <3>3, <3>5
    <2>6. \A e \in OnTopic(topic) : e <= d BY <1>0, <2>2, <2>5 DEF OnTopic
    <2> QED BY <2>4, <2>6 DEF d
  <1> QED BY <1>10, <1>11

(* A match by message ids: whom it may name, and what its absence means.   *)
ByDelivery(ids, conf, m) ==
  \E d \in 1 .. delivered :
    m = [delivery |-> d, reply |-> 0, conf |-> conf] /\ Named(ids, Match!DeliveryId(d))
ByReply(ids, conf, m) ==
  \E k \in DOMAIN replySends :
    m = [delivery |-> 0, reply |-> k, conf |-> conf] /\ Named(ids, Match!ReplyId(k))
NamesNobody(ids) ==
  /\ \A d \in 1 .. delivered : ~Named(ids, Match!DeliveryId(d))
  /\ \A k \in DOMAIN replySends : ~Named(ids, Match!ReplyId(k))

LEMMA MatchedByIds ==
  ASSUME delivered \in Nat, NEW n \in Nat, DOMAIN replySends = 1 .. n,
         NEW ids \in IdLists, NEW conf \in {9, 10}
  PROVE  LET m == Match!ByIds(ids, conf) IN
         \/ m = Match!NoMatch /\ NamesNobody(ids)
         \/ m # Match!NoMatch /\ (ByDelivery(ids, conf, m) \/ ByReply(ids, conf, m))
  <1> DEFINE d == Match!FindDelivery(ids)
             k == Match!FindReply(ids)
  <1>1. \/ d = 0 /\ \A e \in 1 .. delivered : ~Named(ids, Match!DeliveryId(e))
        \/ d \in 1 .. delivered /\ Named(ids, Match!DeliveryId(d))
    BY FoundDelivery
  <1>2. \/ k = 0 /\ \A e \in 1 .. n : ~Named(ids, Match!ReplyId(e))
        \/ k \in 1 .. n /\ Named(ids, Match!ReplyId(k))
    BY FoundReply
  <1> HIDE DEF d, k
  <1>3. CASE d # 0
    <2>1. Match!ByIds(ids, conf) = [delivery |-> d, reply |-> 0, conf |-> conf]
      BY <1>3 DEF Match!ByIds, d
    <2>2. Match!ByIds(ids, conf) # Match!NoMatch BY <2>1 DEF Match!NoMatch
    <2> QED BY <1>1, <1>3, <2>1, <2>2 DEF ByDelivery
  <1>4. CASE d = 0 /\ k # 0
    <2>1. Match!ByIds(ids, conf) = [delivery |-> 0, reply |-> k, conf |-> conf]
      BY <1>4 DEF Match!ByIds, d, k
    <2>2. Match!ByIds(ids, conf) # Match!NoMatch BY <2>1 DEF Match!NoMatch
    <2> QED BY <1>2, <1>4, <2>1, <2>2 DEF ByReply
  <1>5. CASE d = 0 /\ k = 0
    <2>1. Match!ByIds(ids, conf) = Match!NoMatch BY <1>5 DEF Match!ByIds, d, k
    <2> QED BY <1>1, <1>2, <1>5, <2>1 DEF NamesNobody
  <1> QED BY <1>3, <1>4, <1>5

BySubject(p, m) ==
  \E d \in OnTopic(p.topic) :
    /\ m = [delivery |-> d, reply |-> 0, conf |-> 3]
    /\ \A e \in OnTopic(p.topic) : e <= d

(* The four outcomes of match_delivery. *)
Outcome(p, m) ==
  \/ ByDelivery(p.irt, 10, m) \/ ByReply(p.irt, 10, m)
  \/ /\ NamesNobody(p.irt)
     /\ \/ ByDelivery(p.refs, 9, m) \/ ByReply(p.refs, 9, m)
        \/ /\ NamesNobody(p.refs)
           /\ \/ BySubject(p, m)
              \/ m = Match!NoMatch /\ \A d \in OnTopic(p.topic) : Match!Crowded(d)

LEMMA Matched ==
  ASSUME World, Clock, NEW n \in Nat, DOMAIN replySends = 1 .. n,
         NEW p \in Match!Payloads
  PROVE  Outcome(p, Match!match_delivery(p))
  <1> DEFINE a == Match!ByIds(p.irt, 10)
             b == Match!ByIds(p.refs, 9)
             d == Match!FindBySubject(p.topic)
  <1>0. delivered \in Nat BY DEF Clock, World
  <1>1. p.irt \in IdLists /\ p.refs \in IdLists BY PayloadIds
  <1>2. \/ a = Match!NoMatch /\ NamesNobody(p.irt)
        \/ a # Match!NoMatch /\ (ByDelivery(p.irt, 10, a) \/ ByReply(p.irt, 10, a))
    BY <1>1, <1>0, MatchedByIds
  <1>3. \/ b = Match!NoMatch /\ NamesNobody(p.refs)
        \/ b # Match!NoMatch /\ (ByDelivery(p.refs, 9, b) \/ ByReply(p.refs, 9, b))
    BY <1>1, <1>0, MatchedByIds
  <1>4. \/ d = 0 /\ \A e \in OnTopic(p.topic) : Match!Crowded(e)
        \/ d \in OnTopic(p.topic) /\ \A e \in OnTopic(p.topic) : e <= d
    <2>1. p.topic \in Topics \cup {Match!NoTopic} BY DEF Match!Payloads
    <2> QED BY <2>1, FoundBySubject
  <1> HIDE DEF a, b, d
  <1>5. CASE a # Match!NoMatch
    <2>1. Match!match_delivery(p) = a BY <1>5 DEF Match!match_delivery, a
    <2> QED BY <1>2, <1>5, <2>1 DEF Outcome
  <1>6. CASE a = Match!NoMatch /\ b # Match!NoMatch
    <2>1. Match!match_delivery(p) = b BY <1>6 DEF Match!match_delivery, a, b
    <2> QED BY <1>2, <1>3, <1>6, <2>1 DEF Outcome
  <1>7. CASE a = Match!NoMatch /\ b = Match!NoMatch
    <2>1. Match!match_delivery(p) = [Match!NoMatch EXCEPT !.delivery = d,
                                                          !.conf = IF d = 0 THEN 0 ELSE 3]
      BY <1>7 DEF Match!match_delivery, a, b, d
    <2>2. Match!match_delivery(p) = [delivery |-> d, reply |-> 0, conf |-> IF d = 0 THEN 0 ELSE 3]
      BY <2>1 DEF Match!NoMatch
    <2>3. CASE d = 0
      <3>1. Match!match_delivery(p) = Match!NoMatch BY <2>2, <2>3 DEF Match!NoMatch
      <3>2. NamesNobody(p.irt) /\ NamesNobody(p.refs) BY <1>2, <1>3, <1>7
      <3>3. \A e \in OnTopic(p.topic) : Match!Crowded(e)
        <4>1. 0 \notin OnTopic(p.topic) BY DEF OnTopic, Clock, World
        <4> QED BY <1>4, <2>3, <4>1
      <3> QED BY <3>1, <3>2, <3>3 DEF Outcome
    <2>4. CASE d # 0
      <3>1. BySubject(p, Match!match_delivery(p)) BY <1>4, <2>2, <2>4 DEF BySubject
      <3> QED BY <1>2, <1>3, <1>7, <3>1 DEF Outcome
    <2> QED BY <2>3, <2>4
  <1> QED BY <1>5, <1>6, <1>7

(* What the headers support, per confidence. *)
LEMMA SupportedMeans ==
  ASSUME delivered \in Nat, aged \in Nat, NEW n \in Nat, DOMAIN replySends = 1 .. n,
         NEW p \in Match!Payloads, NEW m \in Match!Candidates(p)
  PROVE  /\ m.conf \in {10, 9, 3}
         /\ Match!Supported(p, m) /\ m.conf = 10 => ~NamesNobody(p.irt)
         /\ Match!Supported(p, m) /\ m.conf = 9 => ~NamesNobody(p.refs)
         /\ Match!Supported(p, m) /\ m.conf = 3
               => m.delivery \in OnTopic(p.topic)
  <1> DEFINE id == IF m.delivery # 0 THEN Match!DeliveryId(m.delivery) ELSE Match!ReplyId(m.reply)
  <1>1. \/ \E d \in 1 .. delivered, c \in {10, 9, 3} : m = [delivery |-> d, reply |-> 0, conf |-> c]
        \/ \E k \in DOMAIN replySends, c \in {10, 9} : m = [delivery |-> 0, reply |-> k, conf |-> c]
    BY DEF Match!Candidates
  <1>2. /\ m.conf \in {10, 9, 3}
        /\ \/ m.delivery \in 1 .. delivered /\ id = Match!DeliveryId(m.delivery)
           \/ /\ m.delivery = 0 /\ m.reply \in DOMAIN replySends /\ m.conf # 3
              /\ id = Match!ReplyId(m.reply)
    BY <1>1
  <1>3. ASSUME NEW ids, Named(ids, id) PROVE ~NamesNobody(ids)
    BY <1>2, <1>3 DEF NamesNobody
  <1>4. p.irt = <<id>> => Named(p.irt, id) BY DEF Named
  <1>5. Match!Contains(p.refs, id) => Named(p.refs, id)
    <2>1. p.refs \in IdLists BY PayloadIds
    <2>2. PICK l \in Nat : p.refs \in [1 .. l -> Match!MessageIds] BY <2>1 DEF IdLists
    <2>3. p.refs \in Seq(Match!MessageIds) BY <2>2
    <2> QED BY <2>3 DEF Match!Contains, Named
  <1>6. Match!Supported(p, m) => \/ m.conf = 10 /\ p.irt = <<id>>
                                 \/ m.conf = 9 /\ Match!Contains(p.refs, id)
                                 \/ /\ m.conf = 3
                                    /\ TopicOf[m.delivery] = p.topic /\ m.delivery > aged
    BY DEF Match!Supported
  <1> HIDE DEF id
  <1>7. Match!Supported(p, m) /\ m.conf = 3 => m.delivery \in OnTopic(p.topic)
    BY <1>2, <1>6 DEF OnTopic
  <1> QED BY <1>2, <1>3, <1>4, <1>5, <1>6, <1>7

LEMMA FoundIsSupported ==
  ASSUME delivered \in Nat, NEW n \in Nat, DOMAIN replySends = 1 .. n,
         NEW p \in Match!Payloads, NEW m, NEW ids, NEW conf,
         \/ ids = p.irt /\ conf = 10
         \/ ids = p.refs /\ conf = 9,
         ByDelivery(ids, conf, m) \/ ByReply(ids, conf, m)
  PROVE  m \in Match!Candidates(p) /\ Match!Supported(p, m) /\ m.conf = conf
  <1> DEFINE id == IF m.delivery # 0 THEN Match!DeliveryId(m.delivery) ELSE Match!ReplyId(m.reply)
  <1>1. m \in Match!Candidates(p) /\ m.conf = conf
    BY DEF ByDelivery, ByReply, Match!Candidates
  <1>2. Named(ids, id)
    <2>1. CASE ByDelivery(ids, conf, m) BY <2>1 DEF ByDelivery
    <2>2. CASE ByReply(ids, conf, m) BY <2>2 DEF ByReply
    <2> QED BY <2>1, <2>2
  <1> HIDE DEF id
  <1>3. CASE ids = p.irt /\ conf = 10
    <2>1. p.irt = <<>> \/ \E i \in Match!MessageIds : p.irt = <<i>> BY PayloadIds
    <2>2. p.irt = <<id>> BY <1>2, <1>3, <2>1 DEF Named
    <2> QED BY <1>1, <1>3, <2>2 DEF Match!Supported, id
  <1>4. CASE ids = p.refs /\ conf = 9
    <2>1. p.refs \in IdLists BY PayloadIds
    <2>2. PICK l \in Nat : p.refs \in [1 .. l -> Match!MessageIds] BY <2>1 DEF IdLists
    <2>3. p.refs \in Seq(Match!MessageIds) BY <2>2
    <2>4. Match!Contains(p.refs, id) BY <1>2, <1>4, <2>3 DEF Match!Contains, Named
    <2> QED BY <1>1, <1>4, <2>4 DEF Match!Supported, id
  <1> QED BY <1>3, <1>4

LEMMA SurestFound ==
  ASSUME World, Clock, NEW n \in Nat, DOMAIN replySends = 1 .. n
  PROVE  Match!MatchIsSurest
  <1> SUFFICES ASSUME NEW p \in Match!Payloads
               PROVE  LET all == {m \in Match!Candidates(p) : Match!Supported(p, m)}
                          found == Match!match_delivery(p)
                      IN  \/ /\ found \in all
                             /\ \A m \in all : m.conf <= found.conf
                             /\ found.conf = 3 => \A m \in all : m.delivery <= found.delivery
                          \/ /\ found = Match!NoMatch
                             /\ \A m \in all : m.conf = 3 /\ Match!Crowded(m.delivery)
    BY DEF Match!MatchIsSurest
  <1> DEFINE all == {m \in Match!Candidates(p) : Match!Supported(p, m)}
             found == Match!match_delivery(p)
  <1>0. delivered \in Nat /\ aged \in Nat BY DEF World, Clock
  <1>1. Outcome(p, found) BY Matched
  <1>2. \A m \in all : /\ m.conf \in {10, 9, 3}
                       /\ m.conf = 10 => ~NamesNobody(p.irt)
                       /\ m.conf = 9 => ~NamesNobody(p.refs)
                       /\ m.conf = 3 => m.delivery \in OnTopic(p.topic)
    BY <1>0, SupportedMeans
  <1> SUFFICES \/ /\ found \in all
                  /\ \A m \in all : m.conf <= found.conf
                  /\ found.conf = 3 => \A m \in all : m.delivery <= found.delivery
               \/ /\ found = Match!NoMatch
                  /\ \A m \in all : m.conf = 3 /\ Match!Crowded(m.delivery)
    OBVIOUS
  <1>3. CASE ByDelivery(p.irt, 10, found) \/ ByReply(p.irt, 10, found)
    <2>1. found \in all /\ found.conf = 10 BY <1>0, <1>3, FoundIsSupported
    <2> HIDE DEF all, found
    <2> QED BY <1>2, <2>1
  <1>4. CASE NamesNobody(p.irt) /\ (ByDelivery(p.refs, 9, found) \/ ByReply(p.refs, 9, found))
    <2>1. found \in all /\ found.conf = 9 BY <1>0, <1>4, FoundIsSupported
    <2> HIDE DEF all, found
    <2> QED BY <1>2, <1>4, <2>1
  <1>5. CASE NamesNobody(p.irt) /\ NamesNobody(p.refs) /\ BySubject(p, found)
    <2>1. PICK d \in OnTopic(p.topic) :
            /\ found = [delivery |-> d, reply |-> 0, conf |-> 3]
            /\ \A e \in OnTopic(p.topic) : e <= d
      BY <1>5 DEF BySubject
    <2>2. /\ d \in 1 .. delivered /\ d > aged /\ d # 0 /\ TopicOf[d] = p.topic
          /\ found.conf = 3 /\ found.delivery = d
      BY <1>0, <2>1 DEF OnTopic
    <2>3. found \in Match!Candidates(p) BY <2>1, <2>2 DEF Match!Candidates
    <2>4. Match!Supported(p, found) BY <2>2 DEF Match!Supported
    <2>5. found \in all BY <2>3, <2>4
    <2> HIDE DEF all, found
    <2>6. \A m \in all : m.conf = 3 BY <1>2, <1>5
    <2>7. \A m \in all : m.delivery <= d BY <1>2, <2>1, <2>6
    <2> QED BY <2>2, <2>5, <2>6, <2>7
  <1>6. CASE /\ NamesNobody(p.irt) /\ NamesNobody(p.refs) /\ found = Match!NoMatch
             /\ \A d \in OnTopic(p.topic) : Match!Crowded(d)
    <2> HIDE DEF all, found
    <2> QED BY <1>2, <1>6
  <1> QED BY <1>1, <1>3, <1>4, <1>5, <1>6 DEF Outcome

---------------------------------------------------------------------------
(* Threads                                                                 *)

OwnIds == {<<"own", i>> : i \in Nat}
Keys == {<<"delivery", d>> : d \in 1 .. Len(LeadOf)}
        \cup {<<"message", i>> : i \in Match!MessageIds \cup OwnIds}
Filed == [thread : Keys, lead : Leads \cup {Match!None}]
ThreadRows ==
  [lead : Leads \cup {Match!None}, delivery : 0 .. Len(LeadOf), conf : {0, 3, 9, 10}]

(* A thread's key names its delivery and with it the lead, or neither. *)
DeliveryOfKey(k) == IF k[1] = "delivery" THEN k[2] ELSE 0
LeadOfKey(k) == IF k[1] = "delivery" THEN LeadOf[k[2]] ELSE Match!None

(* Threads, messages and assisted replies all agree with the thread's key. *)
ThreadsOK ==
  \A k \in DOMAIN threads :
    /\ k \in Keys /\ threads[k] \in ThreadRows
    /\ threads[k].delivery = DeliveryOfKey(k) /\ threads[k].lead = LeadOfKey(k)
FiledOK(rows) ==
  /\ rows \in Seq(Filed)
  /\ \A n \in DOMAIN rows : /\ rows[n].thread \in DOMAIN threads
                             /\ rows[n].lead = LeadOfKey(rows[n].thread)
MatchInv ==
  /\ Clock
  /\ ThreadsOK /\ FiledOK(messages) /\ FiledOK(replySends)

(* What resolve_thread makes of a match: the thread it files the mail in   *)
(* is the thread of the match's lead.                                      *)
LEMMA FiledUnder ==
  ASSUME World, MatchInv, NEW p \in Match!Payloads
  PROVE  LET m == Match!match_delivery(p)
             key == Match!ThreadKey(p, m)
         IN  /\ m.conf \in {0, 3, 9, 10} /\ m.delivery \in 0 .. Len(LeadOf)
             /\ key \in Keys
             /\ Match!MatchLead(m) = LeadOfKey(key)
             /\ Match!MatchLead(m) \in Leads \cup {Match!None}
             /\ m.reply = 0 => m.delivery = DeliveryOfKey(key)
             /\ m.reply # 0 => key \in DOMAIN threads /\ m.delivery = 0
  <1> DEFINE m == Match!match_delivery(p)
             key == Match!ThreadKey(p, m)
  <1>0. /\ delivered \in Nat /\ delivered <= Len(LeadOf) /\ Len(LeadOf) \in Nat
        /\ DOMAIN replySends = 1 .. Len(replySends) /\ Len(replySends) \in Nat
    BY DEF World, MatchInv, FiledOK, Clock
  <1>1. Outcome(p, m) BY <1>0, Matched DEF MatchInv
  <1>2. \/ \E d \in 1 .. delivered, c \in {10, 9, 3} :
             m = [delivery |-> d, reply |-> 0, conf |-> c]
        \/ \E k \in DOMAIN replySends, c \in {10, 9} :
             m = [delivery |-> 0, reply |-> k, conf |-> c]
        \/ m = Match!NoMatch
    <2>1. OnTopic(p.topic) \subseteq 1 .. delivered BY <1>0 DEF OnTopic, MatchInv, Clock
    <2> QED BY <1>1, <2>1 DEF Outcome, ByDelivery, ByReply, BySubject
  <1> HIDE DEF m
  <1>3. ASSUME NEW d \in 1 .. delivered, NEW c \in {10, 9, 3},
               m = [delivery |-> d, reply |-> 0, conf |-> c]
        PROVE  /\ key = <<"delivery", d>> /\ key \in Keys
               /\ Match!MatchLead(m) = LeadOf[d] /\ LeadOf[d] \in Leads
    <2>1. key = <<"delivery", d>> BY <1>0, <1>3 DEF Match!ThreadKey
    <2>2. Match!MatchLead(m) = LeadOf[d] BY <1>0, <1>3 DEF Match!MatchLead
    <2>3. d \in 1 .. Len(LeadOf) BY <1>0
    <2> QED BY <2>1, <2>2, <2>3 DEF World, Keys
  <1>4. ASSUME NEW k \in DOMAIN replySends, NEW c \in {10, 9},
               m = [delivery |-> 0, reply |-> k, conf |-> c]
        PROVE  /\ key = replySends[k].thread /\ Match!MatchLead(m) = replySends[k].lead
               /\ replySends[k] \in Filed
    <2>1. key = replySends[k].thread BY <1>0, <1>4 DEF Match!ThreadKey
    <2>2. Match!MatchLead(m) = replySends[k].lead BY <1>0, <1>4 DEF Match!MatchLead
    <2> QED BY <1>0, <2>1, <2>2 DEF MatchInv, FiledOK
  <1>5. ASSUME m = Match!NoMatch
        PROVE  /\ key = <<"message", Match!ExternalThreadId(p)>> /\ key \in Keys
               /\ Match!MatchLead(m) = Match!None
    <2>1. key = <<"message", Match!ExternalThreadId(p)>>
      BY <1>5 DEF Match!ThreadKey, Match!NoMatch
    <2>2. Match!MatchLead(m) = Match!None BY <1>5 DEF Match!MatchLead, Match!NoMatch
    <2>3. Match!ExternalThreadId(p) \in Match!MessageIds \cup OwnIds
      <3>1. CASE p.irt # <<>>
        <4>1. PICK i \in Match!MessageIds : p.irt = <<i>> BY <3>1, PayloadIds
        <4> QED BY <3>1, <4>1 DEF Match!ExternalThreadId
      <3>2. CASE p.irt = <<>> /\ p.refs # <<>>
        <4>1. PICK l \in Nat : p.refs \in [1 .. l -> Match!MessageIds]
          BY PayloadIds DEF IdLists
        <4>2. p.refs \in Seq(Match!MessageIds) BY <4>1
        <4>3. p.refs[1] \in Match!MessageIds BY <3>2, <4>2
        <4> QED BY <3>2, <4>3 DEF Match!ExternalThreadId
      <3>3. CASE p.irt = <<>> /\ p.refs = <<>>
        <4>1. Match!ExternalThreadId(p) = <<"own", Len(messages) + 1>>
          BY <3>3 DEF Match!ExternalThreadId, Match!OwnId
        <4>2. Len(messages) + 1 \in Nat BY DEF MatchInv, FiledOK
        <4> QED BY <4>1, <4>2 DEF OwnIds
      <3> QED BY <3>1, <3>2, <3>3
    <2> QED BY <2>1, <2>2, <2>3 DEF Keys
  <1> SUFFICES /\ m.conf \in {0, 3, 9, 10} /\ m.delivery \in 0 .. Len(LeadOf)
               /\ key \in Keys
               /\ Match!MatchLead(m) = LeadOfKey(key)
               /\ Match!MatchLead(m) \in Leads \cup {Match!None}
               /\ m.reply = 0 => m.delivery = DeliveryOfKey(key)
               /\ m.reply # 0 => key \in DOMAIN threads /\ m.delivery = 0
    BY DEF m
  <1> HIDE DEF key
  <1>6. CASE m = Match!NoMatch
    BY <1>0, <1>5, <1>6 DEF Match!NoMatch, LeadOfKey, DeliveryOfKey
  <1>7. ASSUME NEW k \in DOMAIN replySends, NEW c \in {10, 9},
               m = [delivery |-> 0, reply |-> k, conf |-> c]
        PROVE  /\ m.conf \in {0, 3, 9, 10} /\ m.delivery = 0 /\ m.reply # 0
               /\ key \in Keys /\ Match!MatchLead(m) = LeadOfKey(key)
               /\ Match!MatchLead(m) \in Leads \cup {Match!None} /\ key \in DOMAIN threads
    <2>1. /\ key = replySends[k].thread /\ Match!MatchLead(m) = replySends[k].lead
          /\ replySends[k] \in Filed /\ replySends[k].thread \in DOMAIN threads
          /\ replySends[k].lead = LeadOfKey(replySends[k].thread)
      BY <1>4, <1>7 DEF MatchInv, FiledOK
    <2>2. replySends[k].thread \in Keys /\ replySends[k].lead \in Leads \cup {Match!None}
      BY <2>1 DEF Filed
    <2>3. m.conf = c /\ m.delivery = 0 /\ m.reply = k /\ k # 0 BY <1>0, <1>7
    <2> QED BY <2>1, <2>2, <2>3
  <1>8. ASSUME NEW d \in 1 .. delivered, NEW c \in {10, 9, 3},
               m = [delivery |-> d, reply |-> 0, conf |-> c]
        PROVE  /\ m.conf \in {0, 3, 9, 10} /\ m.delivery \in 0 .. Len(LeadOf) /\ m.reply = 0
               /\ key \in Keys /\ Match!MatchLead(m) = LeadOfKey(key)
               /\ Match!MatchLead(m) \in Leads /\ m.delivery = DeliveryOfKey(key)
    <2>1. /\ key = <<"delivery", d>> /\ key \in Keys
          /\ Match!MatchLead(m) = LeadOf[d] /\ LeadOf[d] \in Leads
      BY <1>3, <1>8
    <2>2. m.conf = c /\ m.delivery = d /\ m.reply = 0 /\ d \in 0 .. Len(LeadOf)
      BY <1>0, <1>8
    <2>3. LeadOfKey(<<"delivery", d>>) = LeadOf[d] /\ DeliveryOfKey(<<"delivery", d>>) = d
      BY DEF LeadOfKey, DeliveryOfKey
    <2> QED BY <2>1, <2>2, <2>3
  <1> QED BY <1>0, <1>2, <1>6, <1>7, <1>8

LEMMA MatchInit == World /\ Match!Init => MatchInv
  BY DEF World, Match!Init, MatchInv, Clock, ThreadsOK, FiledOK

LEMMA MatchStep == World /\ MatchInv /\ [Match!Next]_(Match!vars) => MatchInv'
  <1> SUFFICES ASSUME World, MatchInv, [Match!Next]_(Match!vars) PROVE MatchInv'
    OBVIOUS
  <1>1. CASE Match!SendDelivery
    BY <1>1 DEF Match!SendDelivery, World, MatchInv, Clock, ThreadsOK, FiledOK
  <1>5. CASE Match!Age
    BY <1>5 DEF Match!Age, World, MatchInv, Clock, ThreadsOK, FiledOK
  <1>2. ASSUME NEW n \in DOMAIN messages, Match!SendReply(n) PROVE MatchInv'
    <2>1. messages[n] \in Filed BY DEF MatchInv, FiledOK
    <2>2. replySends' = Append(replySends, messages[n]) BY <1>2 DEF Match!SendReply
    <2>3. UNCHANGED <<delivered, aged, threads, messages>> BY <1>2 DEF Match!SendReply
    <2>4. FiledOK(replySends)' BY <2>1, <2>2, <2>3 DEF MatchInv, FiledOK
    <2> QED BY <2>3, <2>4 DEF MatchInv, Clock, ThreadsOK, FiledOK
  <1>3. ASSUME NEW p \in Match!Payloads, Match!Receive(p) PROVE MatchInv'
    <2> DEFINE m == Match!match_delivery(p)
               key == Match!ThreadKey(p, m)
               thread == IF key \in DOMAIN threads THEN Match!Merge(threads[key], m)
                                                   ELSE Match!NewThread(m)
               msg == [thread |-> key, lead |-> Match!MatchLead(m)]
    <2>1. /\ threads' = [k \in DOMAIN threads \cup {key} |->
                            IF k = key THEN thread ELSE threads[k]]
          /\ messages' = Append(messages, msg)
          /\ UNCHANGED <<delivered, aged, replySends>>
      BY <1>3 DEF Match!Receive
    <2>2. /\ m.conf \in {0, 3, 9, 10} /\ m.delivery \in 0 .. Len(LeadOf)
          /\ key \in Keys
          /\ Match!MatchLead(m) = LeadOfKey(key)
          /\ Match!MatchLead(m) \in Leads \cup {Match!None}
          /\ m.reply = 0 => m.delivery = DeliveryOfKey(key)
          /\ m.reply # 0 => key \in DOMAIN threads /\ m.delivery = 0
      BY FiledUnder
    <2> HIDE DEF m, key
    <2>3. /\ thread \in ThreadRows
          /\ thread.delivery = DeliveryOfKey(key) /\ thread.lead = LeadOfKey(key)
      <3>1. CASE key \notin DOMAIN threads
        BY <2>2, <3>1 DEF Match!NewThread, ThreadRows
      <3>2. CASE key \in DOMAIN threads
        <4>1. /\ threads[key] \in ThreadRows
              /\ threads[key].delivery = DeliveryOfKey(key)
              /\ threads[key].lead = LeadOfKey(key)
          BY <3>2 DEF MatchInv, ThreadsOK
        <4>2. \/ thread = threads[key]
              \/ m.delivery # 0 /\ thread = [lead |-> Match!MatchLead(m), delivery |-> m.delivery,
                                            conf |-> m.conf]
              \/ thread = [threads[key] EXCEPT !.lead = Match!MatchLead(m), !.conf = m.conf]
          BY <3>2 DEF Match!Merge
        <4>3. m.delivery # 0 => m.delivery = DeliveryOfKey(key) BY <2>2
        <4> HIDE DEF thread
        <4>4. CASE thread = threads[key] BY <4>1, <4>4
        <4>5. CASE m.delivery # 0 /\ thread = [lead |-> Match!MatchLead(m),
                                               delivery |-> m.delivery, conf |-> m.conf]
          BY <2>2, <4>3, <4>5 DEF ThreadRows
        <4>6. CASE thread = [threads[key] EXCEPT !.lead = Match!MatchLead(m), !.conf = m.conf]
          <5>1. thread = [lead |-> Match!MatchLead(m), delivery |-> threads[key].delivery,
                          conf |-> m.conf]
            BY <4>1, <4>6 DEF ThreadRows
          <5>2. threads[key].delivery \in 0 .. Len(LeadOf) BY <4>1 DEF ThreadRows
          <5> QED BY <2>2, <4>1, <5>1, <5>2 DEF ThreadRows
        <4> QED BY <4>2, <4>4, <4>5, <4>6
      <3> QED BY <3>1, <3>2
    <2> HIDE DEF thread
    <2>4. ThreadsOK' BY <2>1, <2>2, <2>3 DEF MatchInv, ThreadsOK
    <2>5. msg \in Filed BY <2>2 DEF Filed
    <2>6. /\ FiledOK(messages)' /\ FiledOK(replySends)'
      <3>1. msg.thread = key /\ msg.lead = LeadOfKey(key) BY <2>2
      <3> HIDE DEF msg
      <3> QED BY <2>1, <2>5, <3>1 DEF MatchInv, FiledOK
    <2> QED BY <2>1, <2>4, <2>6 DEF MatchInv, Clock
  <1>4. CASE UNCHANGED Match!vars
    BY <1>4 DEF Match!vars, MatchInv, Clock, ThreadsOK, FiledOK
  <1> QED BY <1>1, <1>2, <1>3, <1>4, <1>5 DEF Match!Next

(* Deliveries, threads, messages and replies keep their types. *)
THEOREM MatchTypes == Match!Spec => []Match!TypeOK
  <1>0. World BY MatchAssumption DEF World
  <1>1. MatchInv => Match!TypeOK
    BY <1>0 DEF World, MatchInv, Clock, ThreadsOK, FiledOK, Filed, ThreadRows, Match!TypeOK
  <1>2. Match!Init => MatchInv BY <1>0, MatchInit
  <1>3. MatchInv /\ [Match!Next]_(Match!vars) => MatchInv' BY <1>0, MatchStep
  <1> QED BY <1>1, <1>2, <1>3, PTL DEF Match!Spec

(* A thread that names a delivery names that delivery's lead, although a    *)
(* match through an assisted reply (_merge_thread_match) rewrites the lead  *)
(* and leaves the delivery alone.                                           *)
THEOREM ThreadsAgree == Match!Spec => []ThreadLeadIsDeliveryLead
  <1>0. World BY MatchAssumption DEF World
  <1>1. MatchInv => ThreadLeadIsDeliveryLead
    BY <1>0 DEF World, MatchInv, Clock, ThreadsOK, Keys, DeliveryOfKey, LeadOfKey, ThreadLeadIsDeliveryLead,
           Match!ThreadLeadIsDeliveryLead
  <1>2. Match!Init => MatchInv BY <1>0, MatchInit
  <1>3. MatchInv /\ [Match!Next]_(Match!vars) => MatchInv' BY <1>0, MatchStep
  <1> QED BY <1>1, <1>2, <1>3, PTL DEF Match!Spec

(* match_delivery returns the surest delivery or reply the headers of a     *)
(* mail support, by subject the newest of the last 30 days, and nothing     *)
(* only when they support none or a subject whose deliveries lie under      *)
(* LookedAt newer ones to the address.                                      *)
THEOREM SurestMatch == Match!Spec => []MatchIsSurest
  <1>0. World BY MatchAssumption DEF World
  <1>1. MatchInv => MatchIsSurest
    <2> SUFFICES ASSUME MatchInv PROVE Match!MatchIsSurest
      BY DEF MatchIsSurest
    <2>1. Clock /\ DOMAIN replySends = 1 .. Len(replySends) /\ Len(replySends) \in Nat
      BY DEF MatchInv, FiledOK
    <2> QED BY <1>0, <2>1, SurestFound
  <1>2. Match!Init => MatchInv BY <1>0, MatchInit
  <1>3. MatchInv /\ [Match!Next]_(Match!vars) => MatchInv' BY <1>0, MatchStep
  <1> QED BY <1>1, <1>2, <1>3, PTL DEF Match!Spec

---------------------------------------------------------------------------
(* The four components side by side: each conversation row, mail, message  *)
(* and request keeps its type.                                             *)
THEOREM TypesCorrect == Spec /\ Mail!Spec /\ Match!Spec /\ Talk!Spec => []TypesOK
  <1>1. TypeOK /\ Mail!TypeOK /\ Match!TypeOK /\ Talk!TypeOK => TypesOK BY DEF TypesOK
  <1> QED BY <1>1, TypeCorrect, MailTypes, MatchTypes, TalkTypes, PTL

=============================================================================

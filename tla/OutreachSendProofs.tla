------------------------- MODULE OutreachSendProofs -------------------------
(***************************************************************************)
(* OutreachSend for every set of drafts and requests: type correctness,    *)
(* no double send, and that the delivery rows implement MailOnce.          *)
(***************************************************************************)
EXTENDS OutreachSend, TLAPS

(* A request's place fixes what its delivery row and the mail server can be. *)
PlaceOK ==
    \A s \in Senders :
        /\ pc[s] # "idle" => req[s] \in [kind : Kinds, draft : Drafts]
        /\ pc[s] \in {"idle", "automate", "autosend", "check", "insert", "refused"}
           => delivery[s] = "none"
        /\ pc[s] = "smtp" => delivery[s] = "sending" /\ s \notin accepted
        /\ pc[s] = "accepted" => delivery[s] = "sending" /\ s \in accepted
        /\ pc[s] = "error" => delivery[s] = "sending"
        /\ delivery[s] = "none" => s \notin accepted
        /\ delivery[s] = "sent" => s \in accepted

(* The partial unique index: one SENDING or SENT row per draft. *)
OneActive ==
    \A s1, s2 \in Senders :
        /\ req[s1].draft = req[s2].draft
        /\ delivery[s1] \in {"sending", "sent"}
        /\ delivery[s2] \in {"sending", "sent"}
        => s1 = s2

IInv == TypeOK /\ PlaceOK /\ OneActive /\ SentMeansMailed

-----------------------------------------------------------------------------
LEMMA InitIInv == Init => IInv
  BY DEF Init, IInv, TypeOK, PlaceOK, OneActive, SentMeansMailed, DraftStatus,
         OutreachDeliveryStatus, ConversationStatus, Places, Requests

(* Type correctness is preserved, given where each request is. *)
LEMMA TypePreserved == TypeOK /\ PlaceOK /\ [Next]_vars => TypeOK'
  <1> SUFFICES ASSUME TypeOK, PlaceOK, [Next]_vars PROVE TypeOK'
    OBVIOUS
  <1> USE DEF TypeOK, DraftStatus, OutreachDeliveryStatus, ConversationStatus,
              Places, Goto
  <1>1. ASSUME NEW s \in Senders, SendStep(s) PROVE TypeOK'
    <2> USE DEF PlaceOK
    <2>1. CASE LeaveForReview(s) BY <2>1 DEF LeaveForReview
    <2>2. CASE AutoApprove(s) BY <2>2 DEF AutoApprove
    <2>3. CASE AutoSendDraft(s) BY <2>3 DEF AutoSendDraft
    <2>4. CASE SendCheck(s) BY <2>4 DEF SendCheck
    <2>5. CASE SendRefused(s) BY <2>5 DEF SendRefused
    <2>6. CASE InsertDelivery(s) BY <2>6 DEF InsertDelivery
    <2>7. CASE InsertConflict(s) BY <2>7 DEF InsertConflict
    <2>8. CASE SmtpAccept(s) BY <2>8 DEF SmtpAccept
    <2>9. CASE SmtpReject(s) BY <2>9 DEF SmtpReject
    <2>10. CASE SmtpReplyLost(s) BY <2>10 DEF SmtpReplyLost
    <2>11. CASE MarkFailed(s) BY <2>11 DEF MarkFailed
    <2>12. CASE FinishAccepted(s) BY <2>12 DEF FinishAccepted
    <2>13. CASE FinishFailed(s) BY <2>13 DEF FinishFailed
    <2>14. CASE FinishRefused(s) BY <2>14 DEF FinishRefused
    <2> QED BY <1>1, <2>1, <2>2, <2>3, <2>4, <2>5, <2>6, <2>7, <2>8, <2>9,
               <2>10, <2>11, <2>12, <2>13, <2>14 DEF SendStep
  <1>2. ASSUME NEW s \in Senders, Crash(s) PROVE TypeOK'
    BY <1>2 DEF Crash
  <1>3. ASSUME NEW s \in Senders, Elapse(s) PROVE TypeOK'
    BY <1>3 DEF Elapse
  <1>4. ASSUME NEW s \in Senders, NEW d \in Drafts, RestSend(s, d) PROVE TypeOK'
    <2> DEFINE r == [kind |-> "rest", draft |-> d]
    <2>1. r \in Requests BY DEF Requests, Kinds
    <2> QED BY <1>4, <2>1 DEF RestSend
  <1>5. ASSUME NEW s \in Senders, NEW d \in Drafts, NEW k \in Kinds,
               GenerateDraft(s, d, k)
        PROVE  TypeOK'
    <2> DEFINE r == [kind |-> k, draft |-> d]
    <2>1. r \in Requests BY DEF Requests
    <2> QED BY <1>5, <2>1 DEF GenerateDraft
  <1>6. ASSUME NEW d \in Drafts, NEW v \in {"approved", "rejected"}, ReviewDraft(d, v)
        PROVE  TypeOK'
    BY <1>6 DEF ReviewDraft
  <1>7. ASSUME NEW d \in Drafts, Suppress(d) \/ Unsuppress(d) PROVE TypeOK'
    BY <1>7 DEF Suppress, Unsuppress
  <1>8. CASE UNCHANGED vars BY <1>8 DEF vars
  <1> QED BY <1>1, <1>2, <1>3, <1>4, <1>5, <1>6, <1>7, <1>8 DEF Next

(* Places and rows stay consistent. *)
LEMMA PlacePreserved == IInv /\ TypeOK' /\ [Next]_vars => PlaceOK'
  <1> SUFFICES ASSUME IInv, TypeOK', [Next]_vars PROVE PlaceOK'
    OBVIOUS
  <1> USE DEF IInv, TypeOK, PlaceOK, Goto
  <1>1. ASSUME NEW s \in Senders, SendStep(s) PROVE PlaceOK'
    <2>1. CASE LeaveForReview(s) BY <2>1 DEF LeaveForReview
    <2>2. CASE AutoApprove(s) BY <2>2 DEF AutoApprove
    <2>3. CASE AutoSendDraft(s) BY <2>3 DEF AutoSendDraft
    <2>4. CASE SendCheck(s) BY <2>4 DEF SendCheck
    <2>5. CASE SendRefused(s) BY <2>5 DEF SendRefused
    <2>6. CASE InsertDelivery(s) BY <2>6 DEF InsertDelivery
    <2>7. CASE InsertConflict(s) BY <2>7 DEF InsertConflict
    <2>8. CASE SmtpAccept(s) BY <2>8 DEF SmtpAccept
    <2>9. CASE SmtpReject(s) BY <2>9 DEF SmtpReject
    <2>10. CASE SmtpReplyLost(s) BY <2>10 DEF SmtpReplyLost
    <2>11. CASE MarkFailed(s) BY <2>11 DEF MarkFailed
    <2>12. CASE FinishAccepted(s) BY <2>12 DEF FinishAccepted
    <2>13. CASE FinishFailed(s) BY <2>13 DEF FinishFailed
    <2>14. CASE FinishRefused(s) BY <2>14 DEF FinishRefused
    <2> QED BY <1>1, <2>1, <2>2, <2>3, <2>4, <2>5, <2>6, <2>7, <2>8, <2>9,
               <2>10, <2>11, <2>12, <2>13, <2>14 DEF SendStep
  <1>2. ASSUME NEW s \in Senders, Crash(s) PROVE PlaceOK'
    BY <1>2 DEF Crash
  <1>3. ASSUME NEW s \in Senders, Elapse(s) PROVE PlaceOK'
    BY <1>3 DEF Elapse
  <1>4. ASSUME NEW s \in Senders, NEW d \in Drafts, RestSend(s, d) PROVE PlaceOK'
    BY <1>4 DEF RestSend, Kinds
  <1>5. ASSUME NEW s \in Senders, NEW d \in Drafts, NEW k \in Kinds,
               GenerateDraft(s, d, k)
        PROVE  PlaceOK'
    BY <1>5 DEF GenerateDraft
  <1>6. ASSUME NEW d \in Drafts, NEW v \in {"approved", "rejected"}, ReviewDraft(d, v)
        PROVE  PlaceOK'
    BY <1>6 DEF ReviewDraft
  <1>7. ASSUME NEW d \in Drafts, Suppress(d) \/ Unsuppress(d) PROVE PlaceOK'
    BY <1>7 DEF Suppress, Unsuppress
  <1>8. CASE UNCHANGED vars BY <1>8 DEF vars
  <1> QED BY <1>1, <1>2, <1>3, <1>4, <1>5, <1>6, <1>7, <1>8 DEF Next

(* The index admits a row only when the draft has none that is active. *)
LEMMA OneActivePreserved == IInv /\ TypeOK' /\ [Next]_vars => OneActive'
  <1> SUFFICES ASSUME IInv, TypeOK', [Next]_vars PROVE OneActive'
    OBVIOUS
  <1> USE DEF IInv, TypeOK, PlaceOK, OneActive, Goto
  <1>1. ASSUME NEW s \in Senders, SendStep(s) PROVE OneActive'
    <2>1. CASE LeaveForReview(s) BY <2>1 DEF LeaveForReview
    <2>2. CASE AutoApprove(s) BY <2>2 DEF AutoApprove
    <2>3. CASE AutoSendDraft(s) BY <2>3 DEF AutoSendDraft
    <2>4. CASE SendCheck(s) BY <2>4 DEF SendCheck
    <2>5. CASE SendRefused(s) BY <2>5 DEF SendRefused
    <2>6. CASE InsertDelivery(s) BY <2>6 DEF InsertDelivery, ActiveOrSent, DeliveriesOf
    <2>7. CASE InsertConflict(s) BY <2>7 DEF InsertConflict
    <2>8. CASE SmtpAccept(s) BY <2>8 DEF SmtpAccept
    <2>9. CASE SmtpReject(s) BY <2>9 DEF SmtpReject
    <2>10. CASE SmtpReplyLost(s) BY <2>10 DEF SmtpReplyLost
    <2>11. CASE MarkFailed(s) BY <2>11 DEF MarkFailed
    <2>12. CASE FinishAccepted(s) BY <2>12 DEF FinishAccepted
    <2>13. CASE FinishFailed(s) BY <2>13 DEF FinishFailed
    <2>14. CASE FinishRefused(s) BY <2>14 DEF FinishRefused
    <2> QED BY <1>1, <2>1, <2>2, <2>3, <2>4, <2>5, <2>6, <2>7, <2>8, <2>9,
               <2>10, <2>11, <2>12, <2>13, <2>14 DEF SendStep
  <1>2. ASSUME NEW s \in Senders, Crash(s) PROVE OneActive'
    BY <1>2 DEF Crash
  <1>3. ASSUME NEW s \in Senders, Elapse(s) PROVE OneActive'
    BY <1>3 DEF Elapse
  <1>4. ASSUME NEW s \in Senders, NEW d \in Drafts, RestSend(s, d) PROVE OneActive'
    BY <1>4 DEF RestSend
  <1>5. ASSUME NEW s \in Senders, NEW d \in Drafts, NEW k \in Kinds,
               GenerateDraft(s, d, k)
        PROVE  OneActive'
    BY <1>5 DEF GenerateDraft
  <1>6. ASSUME NEW d \in Drafts, NEW v \in {"approved", "rejected"}, ReviewDraft(d, v)
        PROVE  OneActive'
    BY <1>6 DEF ReviewDraft
  <1>7. ASSUME NEW d \in Drafts, Suppress(d) \/ Unsuppress(d) PROVE OneActive'
    BY <1>7 DEF Suppress, Unsuppress
  <1>8. CASE UNCHANGED vars BY <1>8 DEF vars
  <1> QED BY <1>1, <1>2, <1>3, <1>4, <1>5, <1>6, <1>7, <1>8 DEF Next

(* Draft, lead and delivery become SENT in one commit. *)
LEMMA SentPreserved == IInv /\ TypeOK' /\ [Next]_vars => SentMeansMailed'
  <1> SUFFICES ASSUME IInv, TypeOK', [Next]_vars PROVE SentMeansMailed'
    OBVIOUS
  <1> USE DEF IInv, TypeOK, PlaceOK, SentMeansMailed, Goto
  <1>1. ASSUME NEW s \in Senders, SendStep(s) PROVE SentMeansMailed'
    <2>1. CASE LeaveForReview(s) BY <2>1 DEF LeaveForReview
    <2>2. CASE AutoApprove(s) BY <2>2 DEF AutoApprove
    <2>3. CASE AutoSendDraft(s) BY <2>3 DEF AutoSendDraft
    <2>4. CASE SendCheck(s) BY <2>4 DEF SendCheck
    <2>5. CASE SendRefused(s) BY <2>5 DEF SendRefused
    <2>6. CASE InsertDelivery(s) BY <2>6 DEF InsertDelivery
    <2>7. CASE InsertConflict(s) BY <2>7 DEF InsertConflict
    <2>8. CASE SmtpAccept(s) BY <2>8 DEF SmtpAccept
    <2>9. CASE SmtpReject(s) BY <2>9 DEF SmtpReject
    <2>10. CASE SmtpReplyLost(s) BY <2>10 DEF SmtpReplyLost
    <2>11. CASE MarkFailed(s) BY <2>11 DEF MarkFailed
    <2>12. CASE FinishAccepted(s) BY <2>12 DEF FinishAccepted
    <2>13. CASE FinishFailed(s) BY <2>13 DEF FinishFailed
    <2>14. CASE FinishRefused(s) BY <2>14 DEF FinishRefused
    <2> QED BY <1>1, <2>1, <2>2, <2>3, <2>4, <2>5, <2>6, <2>7, <2>8, <2>9,
               <2>10, <2>11, <2>12, <2>13, <2>14 DEF SendStep
  <1>2. ASSUME NEW s \in Senders, Crash(s) PROVE SentMeansMailed'
    BY <1>2 DEF Crash
  <1>3. ASSUME NEW s \in Senders, Elapse(s) PROVE SentMeansMailed'
    BY <1>3 DEF Elapse
  <1>4. ASSUME NEW s \in Senders, NEW d \in Drafts, RestSend(s, d) PROVE SentMeansMailed'
    BY <1>4 DEF RestSend
  <1>5. ASSUME NEW s \in Senders, NEW d \in Drafts, NEW k \in Kinds,
               GenerateDraft(s, d, k)
        PROVE  SentMeansMailed'
    BY <1>5 DEF GenerateDraft
  <1>6. ASSUME NEW d \in Drafts, NEW v \in {"approved", "rejected"}, ReviewDraft(d, v)
        PROVE  SentMeansMailed'
    BY <1>6 DEF ReviewDraft
  <1>7. ASSUME NEW d \in Drafts, Suppress(d) \/ Unsuppress(d) PROVE SentMeansMailed'
    BY <1>7 DEF Suppress, Unsuppress
  <1>8. CASE UNCHANGED vars BY <1>8 DEF vars
  <1> QED BY <1>1, <1>2, <1>3, <1>4, <1>5, <1>6, <1>7, <1>8 DEF Next

LEMMA Invariance == Spec => []IInv
  <1>1. IInv /\ [Next]_vars => IInv'
    BY TypePreserved, PlacePreserved, OneActivePreserved, SentPreserved DEF IInv
  <1> QED BY InitIInv, <1>1, PTL DEF Spec

-----------------------------------------------------------------------------
(* Every reachable state is well typed, for any drafts and requests. *)
THEOREM TypeCorrect == Spec => []TypeOK
  <1>1. IInv => TypeOK BY DEF IInv
  <1> QED BY Invariance, <1>1, PTL

(* CC-1: however many requests race for a draft and wherever they crash,    *)
(* two messages of one draft reach the mail server only if one of the two   *)
(* is recorded FAILED.                                                      *)
THEOREM NoDoubleSendHolds == Spec => []NoDoubleSend
  <1>1. IInv => NoDoubleSend
    BY DEF IInv, TypeOK, OutreachDeliveryStatus, PlaceOK, OneActive, NoDoubleSend
  <1> QED BY Invariance, <1>1, PTL

(* A SENT draft has a CONTACTED lead and a SENT delivery the server took. *)
THEOREM SentMeansMailedHolds == Spec => []SentMeansMailed
  <1>1. IInv => SentMeansMailed BY DEF IInv
  <1> QED BY Invariance, <1>1, PTL

-----------------------------------------------------------------------------
(* Refinement                                                               *)

(* A step that leaves every row and the mail server alone, and changes a    *)
(* request only before it has a row, is a stutter of MailOnce.              *)
LEMMA QuietStep ==
    ASSUME IInv, TypeOK', delivery' = delivery, accepted' = accepted,
           \A s \in Senders : delivery[s] # "none" => req'[s] = req[s]
    PROVE  UNCHANGED <<slotOf, takenOf>>
  <1>1. \A d \in Drafts : DeliveriesOf(d, "sent")' = DeliveriesOf(d, "sent")
    BY DEF DeliveriesOf, IInv, TypeOK
  <1>2. \A d \in Drafts : DeliveriesOf(d, "sending")' = DeliveriesOf(d, "sending")
    BY DEF DeliveriesOf, IInv, TypeOK
  <1>3. slotOf' = slotOf BY <1>1, <1>2 DEF slotOf
  <1>4. takenOf' = takenOf BY <1>1, <1>2 DEF takenOf, ActiveOrSent
  <1> QED BY <1>3, <1>4

LEMMA InitRefines == Init => Abstract!Init
  <1> SUFFICES ASSUME Init PROVE Abstract!Init
    OBVIOUS
  <1>1. \A d \in Drafts : DeliveriesOf(d, "sent") = {} /\ DeliveriesOf(d, "sending") = {}
    BY DEF Init, DeliveriesOf
  <1>2. slotOf = [d \in Drafts |-> "free"] BY <1>1 DEF slotOf
  <1>3. takenOf = [d \in Drafts |-> FALSE] BY <1>1 DEF takenOf, ActiveOrSent
  <1> QED BY <1>2, <1>3 DEF Abstract!Init

(* The rows of drafts other than the one request s is for do not change. *)
LEMMA OtherDrafts ==
    ASSUME IInv, IInv', NEW s \in Senders, NEW st, req' = req,
           delivery' = [delivery EXCEPT ![s] = st]
    PROVE  \A d \in Drafts : d # req[s].draft =>
              /\ DeliveriesOf(d, "sent")' = DeliveriesOf(d, "sent")
              /\ DeliveriesOf(d, "sending")' = DeliveriesOf(d, "sending")
  BY DEF DeliveriesOf, IInv, TypeOK

LEMMA InsertOccupies ==
    ASSUME IInv, IInv', NEW s \in Senders, InsertDelivery(s)
    PROVE  Abstract!Occupy(req[s].draft) /\ req[s].draft \in Drafts
  <1>0. PICK d \in Drafts : d = req[s].draft BY DEF InsertDelivery, IInv, PlaceOK
  <1>1. DeliveriesOf(d, "sent") = {} /\ DeliveriesOf(d, "sending") = {}
    BY <1>0 DEF InsertDelivery, ActiveOrSent
  <1>2. DeliveriesOf(d, "sent")' = {} /\ DeliveriesOf(d, "sending")' = {s}
    BY <1>0, <1>1 DEF InsertDelivery, DeliveriesOf, IInv, TypeOK
  <1>3. \A e \in Drafts : e # d =>
           /\ DeliveriesOf(e, "sent")' = DeliveriesOf(e, "sent")
           /\ DeliveriesOf(e, "sending")' = DeliveriesOf(e, "sending")
    BY <1>0, OtherDrafts DEF InsertDelivery
  <1>4. s \notin accepted BY DEF InsertDelivery, IInv, PlaceOK
  <1>5. slotOf[d] = "free" BY <1>0, <1>1 DEF slotOf
  <1>6. slotOf' = [slotOf EXCEPT ![d] = "busy"]
    BY <1>0, <1>2, <1>3 DEF slotOf
  <1>7. takenOf' = takenOf
    <2>1. accepted' = accepted BY DEF InsertDelivery
    <2>2. takenOf'[d] = takenOf[d]
      BY <1>0, <1>1, <1>2, <1>4, <2>1 DEF takenOf, ActiveOrSent
    <2>3. \A e \in Drafts : e # d => takenOf'[e] = takenOf[e]
      BY <1>3, <2>1 DEF takenOf, ActiveOrSent
    <2> QED BY <2>2, <2>3 DEF takenOf
  <1> QED BY <1>0, <1>5, <1>6, <1>7 DEF Abstract!Occupy

(* Both SMTP outcomes in which the server takes the message. *)
LEMMA AcceptHandsOver ==
    ASSUME IInv, IInv', NEW s \in Senders, SmtpAccept(s) \/ SmtpReplyLost(s)
    PROVE  Abstract!HandOver(req[s].draft) /\ req[s].draft \in Drafts
  <1>a. PICK d \in Drafts : d = req[s].draft
    BY DEF SmtpAccept, SmtpReplyLost, IInv, PlaceOK
  <1>0. /\ d \in Drafts
        /\ d = req[s].draft
        /\ delivery[s] = "sending"
        /\ s \notin accepted
        /\ accepted' = accepted \cup {s}
        /\ delivery' = delivery
        /\ req' = req
    BY <1>a DEF SmtpAccept, SmtpReplyLost, IInv, PlaceOK
  <1>1. \A e \in Drafts :
           /\ DeliveriesOf(e, "sent")' = DeliveriesOf(e, "sent")
           /\ DeliveriesOf(e, "sending")' = DeliveriesOf(e, "sending")
    BY <1>0 DEF DeliveriesOf
  <1>2. ActiveOrSent(d) = {s}
    BY <1>0 DEF ActiveOrSent, DeliveriesOf, IInv, OneActive
  <1>3. slotOf[d] = "busy" /\ slotOf' = slotOf
    <2>1. DeliveriesOf(d, "sent") = {} /\ s \in DeliveriesOf(d, "sending")
      BY <1>0, <1>2 DEF ActiveOrSent, DeliveriesOf
    <2> QED BY <1>0, <1>1, <2>1 DEF slotOf
  <1>4. \A e \in Drafts : e # d => s \notin ActiveOrSent(e)
    BY <1>0 DEF ActiveOrSent, DeliveriesOf
  <1>5. ~takenOf[d] BY <1>0, <1>2 DEF takenOf
  <1>6. takenOf' = [takenOf EXCEPT ![d] = TRUE]
    BY <1>0, <1>1, <1>2, <1>4 DEF takenOf, ActiveOrSent
  <1> QED BY <1>0, <1>3, <1>5, <1>6 DEF Abstract!HandOver

LEMMA FailedReleases ==
    ASSUME IInv, IInv', NEW s \in Senders, MarkFailed(s)
    PROVE  Abstract!Release(req[s].draft) /\ req[s].draft \in Drafts
  <1>a. PICK d \in Drafts : d = req[s].draft BY DEF MarkFailed, IInv, PlaceOK
  <1>0. d \in Drafts /\ d = req[s].draft /\ delivery[s] = "sending"
    BY <1>a DEF MarkFailed, IInv, PlaceOK
  <1>1. DeliveriesOf(d, "sent") = {} /\ DeliveriesOf(d, "sending") = {s}
    BY <1>0 DEF DeliveriesOf, IInv, OneActive
  <1>2. DeliveriesOf(d, "sent")' = {} /\ DeliveriesOf(d, "sending")' = {}
    BY <1>0, <1>1 DEF MarkFailed, DeliveriesOf, IInv, TypeOK
  <1>3. \A e \in Drafts : e # d =>
           /\ DeliveriesOf(e, "sent")' = DeliveriesOf(e, "sent")
           /\ DeliveriesOf(e, "sending")' = DeliveriesOf(e, "sending")
    BY <1>0, OtherDrafts DEF MarkFailed
  <1>4. slotOf[d] = "busy" BY <1>0, <1>1 DEF slotOf
  <1>5. slotOf' = [slotOf EXCEPT ![d] = "free"]
    <2>1. slotOf'[d] = "free" BY <1>0, <1>2 DEF slotOf
    <2>2. \A e \in Drafts : e # d => slotOf'[e] = slotOf[e] BY <1>3 DEF slotOf
    <2> QED BY <2>1, <2>2 DEF slotOf
  <1>6. takenOf' = [takenOf EXCEPT ![d] = FALSE]
    BY <1>0, <1>2, <1>3 DEF takenOf, ActiveOrSent, MarkFailed
  <1> QED BY <1>0, <1>4, <1>5, <1>6 DEF Abstract!Release

LEMMA CommitSettles ==
    ASSUME IInv, IInv', NEW s \in Senders, FinishAccepted(s), CommitsAtEnd(s)
    PROVE  Abstract!Settle(req[s].draft) /\ req[s].draft \in Drafts
  <1>a. PICK d \in Drafts : d = req[s].draft BY DEF FinishAccepted, IInv, PlaceOK
  <1>0. d \in Drafts /\ d = req[s].draft /\ delivery[s] = "sending" /\ s \in accepted
    BY <1>a DEF FinishAccepted, IInv, PlaceOK
  <1>1. DeliveriesOf(d, "sent") = {} /\ DeliveriesOf(d, "sending") = {s}
    BY <1>0 DEF DeliveriesOf, IInv, OneActive
  <1>2. DeliveriesOf(d, "sent")' = {s} /\ DeliveriesOf(d, "sending")' = {}
    BY <1>0, <1>1 DEF FinishAccepted, DeliveriesOf, IInv, TypeOK
  <1>3. \A e \in Drafts : e # d =>
           /\ DeliveriesOf(e, "sent")' = DeliveriesOf(e, "sent")
           /\ DeliveriesOf(e, "sending")' = DeliveriesOf(e, "sending")
    BY <1>0, OtherDrafts DEF FinishAccepted
  <1>4. slotOf[d] = "busy" /\ takenOf[d]
    BY <1>0, <1>1 DEF slotOf, takenOf, ActiveOrSent
  <1>5. slotOf' = [slotOf EXCEPT ![d] = "sent"]
    <2>1. slotOf'[d] = "sent" BY <1>0, <1>2 DEF slotOf
    <2>2. \A e \in Drafts : e # d => slotOf'[e] = slotOf[e] BY <1>3 DEF slotOf
    <2> QED BY <2>1, <2>2 DEF slotOf
  <1>6. takenOf' = takenOf
    BY <1>0, <1>1, <1>2, <1>3 DEF takenOf, ActiveOrSent, FinishAccepted
  <1> QED BY <1>0, <1>4, <1>5, <1>6 DEF Abstract!Settle

LEMMA StepRefines ==
    ASSUME IInv, IInv', [Next]_vars
    PROVE  [Abstract!Next]_<<slotOf, takenOf>>
  <1> DEFINE Quiet == /\ delivery' = delivery
                      /\ accepted' = accepted
                      /\ \A s \in Senders : delivery[s] # "none" => req'[s] = req[s]
  <1>0. Quiet => UNCHANGED <<slotOf, takenOf>> BY QuietStep DEF IInv
  <1>1. ASSUME NEW s \in Senders, SendStep(s)
        PROVE  Quiet \/ Abstract!Next
    <2>1. CASE InsertDelivery(s)
      BY <2>1, InsertOccupies DEF Abstract!Next
    <2>2. CASE SmtpAccept(s) \/ SmtpReplyLost(s)
      BY <2>2, AcceptHandsOver DEF Abstract!Next
    <2>3. CASE MarkFailed(s)
      BY <2>3, FailedReleases DEF Abstract!Next
    <2>4. CASE FinishAccepted(s) /\ CommitsAtEnd(s)
      BY <2>4, CommitSettles DEF Abstract!Next
    <2>5. CASE FinishAccepted(s) /\ ~CommitsAtEnd(s)
      BY <2>5 DEF FinishAccepted
    <2>6. CASE \/ LeaveForReview(s) \/ AutoApprove(s) \/ AutoSendDraft(s)
               \/ SendCheck(s) \/ SendRefused(s) \/ InsertConflict(s)
               \/ SmtpReject(s) \/ FinishFailed(s) \/ FinishRefused(s)
      BY <2>6 DEF LeaveForReview, AutoApprove, AutoSendDraft, SendCheck, SendRefused,
                  InsertConflict, SmtpReject, FinishFailed, FinishRefused
    <2> QED BY <1>1, <2>1, <2>2, <2>3, <2>4, <2>5, <2>6 DEF SendStep
  <1>2. ASSUME NEW s \in Senders, Crash(s) \/ Elapse(s) PROVE Quiet
    BY <1>2 DEF Crash, Elapse
  <1>3. ASSUME NEW s \in Senders, NEW d \in Drafts, RestSend(s, d) PROVE Quiet
    BY <1>3 DEF RestSend, IInv, TypeOK, PlaceOK
  <1>4. ASSUME NEW s \in Senders, NEW d \in Drafts, NEW k \in Kinds,
               GenerateDraft(s, d, k)
        PROVE  Quiet
    BY <1>4 DEF GenerateDraft, IInv, TypeOK, PlaceOK
  <1>5. ASSUME NEW d \in Drafts, NEW v \in {"approved", "rejected"}, ReviewDraft(d, v)
        PROVE  Quiet
    BY <1>5 DEF ReviewDraft
  <1>6. ASSUME NEW d \in Drafts, Suppress(d) \/ Unsuppress(d) PROVE Quiet
    BY <1>6 DEF Suppress, Unsuppress
  <1>7. CASE UNCHANGED vars
    <2>1. Quiet BY <1>7 DEF vars
    <2> QED BY <1>0, <2>1
  <1> HIDE DEF Quiet
  <1> QED BY <1>0, <1>1, <1>2, <1>3, <1>4, <1>5, <1>6, <1>7 DEF Next

(* Sending implements one slot per draft (MailOnce), for any drafts and     *)
(* requests: every step of OutreachSend is a step of MailOnce or a stutter. *)
THEOREM Refinement == Spec => ImplementsMailOnce
  <1>1. IInv /\ IInv' /\ [Next]_vars => [Abstract!Next]_<<slotOf, takenOf>>
    BY StepRefines
  <1> QED BY Invariance, InitRefines, <1>1, PTL DEF Spec, ImplementsMailOnce, Abstract!Spec
=============================================================================

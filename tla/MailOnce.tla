------------------------------ MODULE MailOnce ------------------------------
(***************************************************************************)
(* What sending a draft promises, with no request, session or index in     *)
(* sight: per draft there is one slot.  An attempt occupies the slot, hands *)
(* the message to the mail server at most once, and then either settles    *)
(* (the draft is sent, for good) or releases the slot.  While an attempt   *)
(* holds the slot nobody else can hand over a message, and an attempt that *)
(* is never settled nor released keeps the slot: no message rather than    *)
(* two.                                                                    *)
(***************************************************************************)
CONSTANT Drafts

VARIABLES
    slot,    \* "free", "busy" (an attempt is under way) or "sent"
    taken    \* has the server taken the message of the attempt in the slot?

Init ==
    /\ slot = [d \in Drafts |-> "free"]
    /\ taken = [d \in Drafts |-> FALSE]

Occupy(d) ==
    /\ slot[d] = "free"
    /\ slot' = [slot EXCEPT ![d] = "busy"]
    /\ UNCHANGED taken

HandOver(d) ==
    /\ slot[d] = "busy"
    /\ ~taken[d]
    /\ taken' = [taken EXCEPT ![d] = TRUE]
    /\ UNCHANGED slot

Release(d) ==
    /\ slot[d] = "busy"
    /\ slot' = [slot EXCEPT ![d] = "free"]
    /\ taken' = [taken EXCEPT ![d] = FALSE]

Settle(d) ==
    /\ slot[d] = "busy"
    /\ taken[d]
    /\ slot' = [slot EXCEPT ![d] = "sent"]
    /\ UNCHANGED taken

Next == \E d \in Drafts : Occupy(d) \/ HandOver(d) \/ Release(d) \/ Settle(d)

Spec == Init /\ [][Next]_<<slot, taken>>
=============================================================================

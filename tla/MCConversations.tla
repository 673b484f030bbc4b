-------------------------- MODULE MCConversations --------------------------
(***************************************************************************)
(* A small instance of Conversations.  One component moves (`part') while  *)
(* the others rest, so the state spaces add up instead of multiplying.     *)
(***************************************************************************)
EXTENDS Conversations, TLC

mcVars == <<part, vars, mailVars, matchVars, talkVars>>

\* Three deliveries to two leads who share an address, two of them with one subject; a
\* search by subject looks at two.
MCLeadOf == <<"lead1", "lead2", "lead1">>
MCTopics == [to : {"address"}, subject : {"first", "second"}]
MCTopicOf ==
  [d \in 1 .. 3 |-> [to |-> "address", subject |-> IF d = 1 THEN "first" ELSE "second"]]

\* Send requests, and review requests, are interchangeable.
Symmetry == Permutations(Senders) \cup Permutations(Reviews)

\* Two send requests beside one review request, or two review requests beside one send
\* request that asks at the gate.
SendsRace ==
  Next /\ Cardinality({r \in Reviews : rpc'[r] # "idle"}) <= 1
ReviewsRace ==
  /\ Next
  /\ Cardinality({s \in Senders : pc'[s] # "idle"}) <= 1
  /\ \A s \in Senders : pc'[s] \in {"idle", "insert", "refused"}

MCInit ==
  /\ part \in {"reply", "review", "mail", "match", "talk"}
  /\ Init /\ Mail!Init /\ Match!Init /\ Talk!Init

MCNext ==
  /\ UNCHANGED part
  /\ \/ part = "reply" /\ SendsRace /\ UNCHANGED <<mailVars, matchVars, talkVars>>
     \/ part = "review" /\ ReviewsRace /\ UNCHANGED <<mailVars, matchVars, talkVars>>
     \/ part = "mail" /\ Mail!Next /\ UNCHANGED <<vars, matchVars, talkVars>>
     \/ part = "match" /\ Match!Next /\ UNCHANGED <<vars, mailVars, talkVars>>
     \/ part = "talk" /\ Talk!Next /\ UNCHANGED <<vars, mailVars, matchVars>>

MCSpec == MCInit /\ [][MCNext]_mcVars
=============================================================================

------------------------------ MODULE MCLeads ------------------------------
(***************************************************************************)
(* A small instance of LeadJourney.  One component moves (`part') while    *)
(* the others rest, so the state spaces add up instead of multiplying.     *)
(***************************************************************************)
EXTENDS LeadJourney, FiniteSets, TLC

---------------------------------------------------------------------------
(* A page that cannot be fetched, one that does not exist, and pages with  *)
(* no fault, some and all of them; businesses at the corners of            *)
(* compute_score.                                                          *)
Faults == {"slow", "https", "freeHost", "viewport", "title", "description", "email", "wordpress"}

Parsed(f) == [fetch |-> "ok", slow |-> "slow" \in f, https |-> "https" \notin f,
              freeHost |-> "freeHost" \in f, viewport |-> "viewport" \notin f,
              title |-> "title" \notin f, description |-> "description" \notin f,
              email |-> IF "email" \in f THEN "none" ELSE "home", wordpress |-> "wordpress" \in f]

MCPages == {[fetch |-> "refused"], [fetch |-> "timeout"], Parsed({"slow", "email"}), Parsed(Faults \ {"email"})}

Business(w, i, e, b) == [website |-> w, instagram |-> i, email |-> e, highValue |-> b, phone |-> b,
                         city |-> b, lowRating |-> b, reviews |-> IF b THEN "under10" ELSE "more"]

MCBusinesses == {Business("none", TRUE, "none", TRUE), Business("instagram", FALSE, "own", FALSE),
                 Business("site", FALSE, "none", TRUE)}

\* Which session of the enrichment is which makes no difference.
Interchangeable == Permutations(Enrichers)

mcVars == <<part, vars, enrichVars, draftVars, silentVars>>

MCInit ==
  /\ part \in {"status", "enrich", "queue", "silent"}
  /\ Init
  /\ Enrich!Init /\ (part = "enrich" \/ site = CHOOSE s \in {Enrich!NewLead(b) : b \in MCBusinesses} : TRUE)
  /\ Queue!Init /\ (part = "queue" \/ profile = CHOOSE p \in Queue!Profiles : TRUE)
  /\ Silent!Init /\ (part = "silent" \/ analysed = {})

MCNext ==
  /\ UNCHANGED part
  /\ \/ part = "status" /\ Next /\ UNCHANGED <<enrichVars, draftVars, silentVars>>
     \/ part = "enrich" /\ Enrich!Next /\ UNCHANGED <<vars, draftVars, silentVars>>
     \/ part = "queue" /\ Queue!Next /\ UNCHANGED <<vars, enrichVars, silentVars>>
     \/ part = "silent" /\ Silent!Next /\ UNCHANGED <<vars, enrichVars, draftVars>>

MCSpec == MCInit /\ [][MCNext]_mcVars
=============================================================================

---------------------------- MODULE MCBackground ----------------------------
(***************************************************************************)
(* A small instance of Background.  One component moves (`part') while     *)
(* the others rest in an initial state.                                    *)
(***************************************************************************)
EXTENDS Background, TLC

At(b, h) == [business |-> b, home |-> h]
\* Two cities; b3 is abroad.
MCRoute == <<"c1", "c2">>
MCPlaces == [c1 |-> <<At("b1", TRUE), At("b3", FALSE), At("b2", TRUE)>>, c2 |-> <<At("b5", TRUE)>>]

\* The configuration has reviews side by side.  Here is the weekly report alone.
Weekly == INSTANCE BatchReviews WITH Manuals <- {}, MaxEvidence <- 1, MaxReports <- 3

\* Few outcomes of any kind beside corrections, or so many that rounding decides, which
\* differ in their signals or in their industry only.
Outcomes ==
  /\ Advice!Next
  /\ LET seen == {k \in Advice!Kinds : snapshots'[k] > 0}
     IN  \/ Advice!Count(Advice!Kinds)' <= 4
         \/ corrections' = <<>> /\ Cardinality({k.industry : k \in seen}) <= 1
         \/ corrections' = <<>> /\ \A k \in seen : k.signals = [s \in Signals |-> 0]

mcVars == <<part, vars, batchVars, crawlVars, reviewVars, adviceVars, llmVars>>

\* Territories are interchangeable, and so are industries and categories of corrections.
Symmetry == Permutations(Territories) \cup Permutations(Industries) \cup Permutations(Categories)

MCInit ==
  /\ part \in {"batch", "crawl", "growth", "reviews", "weekly", "advice", "llm"}
  /\ Init /\ Batch!Init /\ Crawl!Init /\ Advice!Init /\ LLM!Init
  /\ IF part = "weekly" THEN Weekly!Init ELSE Review!Init
  /\ part = "batch" \/ leads = [l \in Leads |-> "new"]
  /\ IF part = "growth" THEN \A t \in Territories : ~territory[t].saturated
     ELSE territory = [t \in Territories |-> Gone]
  /\ part = "llm" \/ budget = {}

MCNext ==
  /\ UNCHANGED part
  /\ \/ part = "growth" /\ Next
        /\ UNCHANGED <<batchVars, crawlVars, reviewVars, adviceVars, llmVars>>
     \/ part = "batch" /\ Batch!Next
        /\ UNCHANGED <<vars, crawlVars, reviewVars, adviceVars, llmVars>>
     \/ part = "crawl" /\ Crawl!Next
        /\ UNCHANGED <<vars, batchVars, reviewVars, adviceVars, llmVars>>
     \/ part = "reviews" /\ Review!Next
        /\ UNCHANGED <<vars, batchVars, crawlVars, adviceVars, llmVars>>
     \/ part = "weekly" /\ Weekly!Next
        /\ UNCHANGED <<vars, batchVars, crawlVars, adviceVars, llmVars>>
     \/ part = "advice" /\ Outcomes
        /\ UNCHANGED <<vars, batchVars, crawlVars, reviewVars, llmVars>>
     \/ part = "llm" /\ LLM!Next
        /\ UNCHANGED <<vars, batchVars, crawlVars, reviewVars, adviceVars>>

MCSpec == MCInit /\ [][MCNext]_mcVars
=============================================================================

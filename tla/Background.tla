----------------------------- MODULE Background -----------------------------
(***************************************************************************)
(* Work that nobody waits for: the growth cycle (Growth), the batch        *)
(* pipeline, the crawls, the team reviews and the weekly report, the       *)
(* advice drawn from outcomes, and the calls of the model.  In the models  *)
(* they share no variable.                                                 *)
(***************************************************************************)
EXTENDS Growth

CONSTANTS
  Requests, Beats, Leads, MaxRounds, MaxStops, MaxCrashes, MaxRedis,          \* BatchPipeline
  Crawls, Route, Places, TargetLeads, MaxCrawlStops,                          \* TerritoryCrawl
  Checks, Manuals, RunThreshold, HighThreshold, OutcomeThreshold, MaxEvidence, MaxReports,
                                                                              \* BatchReviews
  Signals, Industries, Categories, MinTotal, MinGroup, Window, MinCorrections, TopCategories,
  MaxCopies, MaxOutcomes, MaxCorrections,                                     \* OutcomeAnalysis
  Calls, MaxAttempts, Budgets, MaxRuns                                        \* LLMClient

VARIABLES
  part,   \* the component that moves, in the runs that move one at a time
  row, created, mirror, redisUp, request, stopper, worker, batch, rounds, leads, spent, after, tried,
  crawlStatus, stop, stops, pc, local, stored, place, ageing, lost, streak,
  evidence, reviews, task, session, result, weekly, reports, told,
  snapshots, corrections,
  call, rows, cost, budget, dispatched, skipped

Batch == INSTANCE BatchPipeline
Crawl == INSTANCE TerritoryCrawl
           WITH Cities <- Route, MaxStops <- MaxCrawlStops, status <- crawlStatus,
                leads <- stored, territory <- place
Review == INSTANCE BatchReviews
Advice == INSTANCE OutcomeAnalysis
LLM == INSTANCE LLMClient WITH spent <- cost

batchVars == <<row, created, mirror, redisUp, request, stopper, worker, batch, rounds, leads, spent,
               after, tried>>
crawlVars == <<crawlStatus, stop, stops, pc, local, stored, place, ageing, lost, streak>>
reviewVars == <<evidence, reviews, task, session, result, weekly, reports, told>>
adviceVars == <<snapshots, corrections>>
llmVars == <<call, rows, cost, budget, dispatched, skipped>>

\* The route is a sequence of cities, and the places a crawl keeps of a listing are
\* places of that city.
ASSUME CrawlAssumption ==
  /\ MaxCrawlStops \in Nat /\ Route \in Seq(DOMAIN Places)
  /\ \A i \in DOMAIN Route :
       Crawl!Listing(Route[i]) \in Seq([business : Crawl!Businesses, home : BOOLEAN])

---------------------------------------------------------------------------
\* The rows, tasks and calls of the component that moves keep their types.
TypesOK ==
  /\ part = "growth" => TypeOK
  /\ part = "batch" => Batch!TypeOK
  /\ part = "crawl" => Crawl!TypeOK
  /\ part = "reviews" => Review!TypeOK
  /\ part = "advice" => Advice!TypeOK
  /\ part = "llm" => LLM!TypeOK

\* Once a stop is committed the batch begins at most the lead whose check it had
\* passed (should_stop_operational_task), with another batch of the beat beside it.
StopsAfterCurrentLead == Batch!StopsAfterCurrentLead

\* What crawls report as created is stored, and two crawls report the same business
\* only when they overlap, whichever loses the race of the inserts (leads_created).
CreatedTwiceOverlaps == Crawl!CreatedTwiceOverlaps

\* Advice is earned, and withheld, within a point of its threshold, in spite of the
\* rounding of both rates and of signals that a lead carries twice
\* (generate_scoring_recommendations), and corrections that left the window earn no
\* advice on prompts.
AdviceEarned ==
  part = "advice" => Advice!EarnedWeight /\ Advice!ValuableIndustry /\ Advice!OldCorrectionsForgotten

\* What a caller gets from its own fallback is reported and recorded as such, on each
\* path of invoke_text and invoke_structured; what the model said never is.
FallbackMarked == LLM!FallbackMarked
=============================================================================

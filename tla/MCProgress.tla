---------------------------- MODULE MCProgress ----------------------------
(***************************************************************************)
(* What must eventually happen, component by component: reading mail,      *)
(* stopping a batch, crawling a territory.  The components share no        *)
(* variable, so one of them moves (`part') and the others rest in their    *)
(* initial state, where nothing but the mail task is due.                  *)
(***************************************************************************)
EXTENDS InboundMail, FiniteSets

VARIABLES part,
          row, created, mirror, redisUp, request, stopper, worker, batch, rounds, newLeads, spent,
          after, tried,
          crawlStatus, stop, stops, crawlPc, local, leads, territory, ageing, lost, streak

Batch == INSTANCE BatchPipeline
           WITH Requests <- {"r1"}, Beats <- {}, Leads <- {"l1"}, MaxRounds <- 1,
                MaxStops <- 2, MaxCrashes <- 1, MaxRedis <- 1, leads <- newLeads

At(b, h) == [business |-> b, home |-> h]
\* Two cities; b3 is abroad.
Crawl == INSTANCE TerritoryCrawl
           WITH Crawls <- {"k1", "k2"}, Cities <- <<"c1", "c2">>,
                Places <- [c1 |-> <<At("b1", TRUE), At("b3", FALSE), At("b2", TRUE)>>,
                           c2 |-> <<At("b5", TRUE)>>],
                TargetLeads <- 2, MaxStops <- 1, status <- crawlStatus, pc <- crawlPc

batchVars == <<row, created, mirror, redisUp, request, stopper, worker, batch, rounds, newLeads,
               spent, after, tried>>
crawlVars == <<crawlStatus, stop, stops, crawlPc, local, leads, territory, ageing, lost, streak>>
mcVars == <<part, vars, batchVars, crawlVars>>

MCInit ==
  /\ part \in {"mail", "batch", "crawl"}
  /\ Init /\ Batch!Init /\ Crawl!Init
  /\ part = "batch" \/ newLeads = [l \in {"l1"} |-> "new"]

MCNext ==
  /\ UNCHANGED part
  /\ \/ part = "mail" /\ Next /\ UNCHANGED <<batchVars, crawlVars>>
     \/ part = "batch" /\ Batch!Next /\ UNCHANGED <<vars, crawlVars>>
     \/ part = "crawl" /\ Crawl!Next /\ UNCHANGED <<vars, batchVars>>

\* InboundMail's Fairness, for the behaviours in which it moves.
MailFairness ==
  /\ \A p \in Syncs : WF_vars(part = "mail" /\ pc[p] # "idle" /\ SyncStep(p))
  /\ \A p \in BeatSyncs : WF_vars(part = "mail" /\ Start(p)) /\ SF_vars(part = "mail" /\ ListMessages(p))

MCSpec ==
  /\ MCInit /\ [][MCNext]_mcVars
  /\ MailFairness /\ Batch!Fairness /\ Crawl!Fairness

---------------------------------------------------------------------------
\* A batch whose row carries a stop request ends, even one that would loop over a
\* failing lead, and even when its worker is lost (run_batch_pipeline_workflow).
StopEnds == Batch!StopEnds

\* A row left active by a task that ended does not block POST /pipelines/batch for
\* good: sweep_stale_tasks fails it.
StaleRowReleased == Batch!StaleRowReleased

\* A saturated territory is crawled again some day: sweep_unsaturate_old_territories
\* clears the mark.
SaturationClears == Crawl!SaturationClears
===========================================================================

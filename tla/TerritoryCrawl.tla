-------------------------- MODULE TerritoryCrawl --------------------------
(***************************************************************************)
(* Crawls of one territory: the REST endpoint and the scheduled task       *)
(* dispatch run_territory_crawl_workflow, which asks Google Places for     *)
(* each city, stores the businesses it does not know and updates the       *)
(* territory's saturation; the janitor clears saturation after 60 days.    *)
(* Businesses stand for dedup hashes.  Crawls may overlap.                 *)
(***************************************************************************)
EXTENDS Naturals, Sequences, FiniteSets, SequencesExt

CONSTANTS Crawls,      \* task ids
          Cities,      \* a sequence
          Places,      \* city -> sequence of [business, home]; home: its address is in the country
          TargetLeads, \* target_leads
          MaxStops     \* bound: stop requests

VARIABLES status,    \* TaskRun status of each crawl; "none" before it is sent
          stop,      \* stop_requested_at is set
          stops,     \* stop requests so far
          pc,        \* where each crawl's worker is
          local,     \* its local variables
          leads,     \* businesses stored in the leads table
          territory, \* the territory row
          ageing,    \* time since last_crawled_at: "never", "fresh", "due" (3 days), "old" (60 days)
          lost,      \* history: businesses a crawl found and counted as duplicates without their being stored
          streak     \* history: consecutive crawls with a high duplicate ratio, up to 2

vars == <<status, stop, stops, pc, local, leads, territory, ageing, lost, streak>>

Businesses == UNION {{p.business : p \in ToSet(Places[c])} : c \in ToSet(Cities)}
Active == {"queued", "running", "stopping"}

\* created holds the businesses it counts as created, before (history) the crawls that
\* had ended when it began.
NoLocals == [city |-> 1, todo |-> <<>>, found |-> 0, dup |-> 0, created |-> {}, broken |-> FALSE,
             before |-> {}]

Init ==
  /\ status = [c \in Crawls |-> "none"] /\ stop = [c \in Crawls |-> FALSE] /\ stops = 0
  /\ pc = [c \in Crawls |-> "idle"] /\ local = [c \in Crawls |-> NoLocals]
  /\ leads = {} /\ lost = {} /\ streak = 0
  /\ territory = [saturated |-> FALSE, lastDup |-> "none"] /\ ageing = "never"

---------------------------------------------------------------------------
(* Dispatching and stopping.                                               *)

Send(c) ==
  /\ status[c] = "none"
  /\ status' = [status EXCEPT ![c] = "queued"]
  /\ pc' = [pc EXCEPT ![c] = "queued"]
  /\ UNCHANGED <<stop, stops, local, leads, territory, ageing, lost, streak>>

\* POST /crawl/territory refuses while one is active (check and insert are
\* apart there; task_scheduled_crawl below does not check at all).
RequestCrawl(c) == (\A d \in Crawls : status[d] \notin Active) /\ Send(c)

\* task_scheduled_crawl: every active, unsaturated territory that is due.
ScheduledCrawl(c) == ~territory.saturated /\ ageing \in {"never", "due", "old"} /\ Send(c)

\* POST /crawl/territory/{id}/stop.
RequestStop(c) ==
  /\ stops < MaxStops /\ status[c] \in Active
  /\ stops' = stops + 1
  /\ stop' = [stop EXCEPT ![c] = TRUE]
  /\ status' = [status EXCEPT ![c] = "stopping"]
  /\ UNCHANGED <<pc, local, leads, territory, ageing, lost, streak>>

---------------------------------------------------------------------------
(* run_territory_crawl_workflow.                                           *)

\* mark_task_running; a missing key, territory or city list ends it at once.
Begin(c) ==
  /\ pc[c] = "queued"
  /\ \/ status' = [status EXCEPT ![c] = "running"] /\ pc' = [pc EXCEPT ![c] = "city"]
     \/ status' = [status EXCEPT ![c] = "failed"] /\ pc' = [pc EXCEPT ![c] = "ended"]
  /\ local' = [local EXCEPT ![c].before = {d \in Crawls : pc[d] = "ended"}]
  /\ UNCHANGED <<stop, stops, leads, territory, ageing, lost, streak>>

\* The search stops when the target is reached.
UpToTarget(places) == SubSeq(places, 1, IF Len(places) < TargetLeads THEN Len(places) ELSE TargetLeads)

\* GoogleMapsCrawler.crawl: home places in the order of the search, cut at the target.
Listing(city) == UpToTarget(SelectSeq(Places[city], LAMBDA p : p.home))

\* The head of the loop over cities: stop, skip a city whose search raises,
\* or take its listing; each city has a fresh session.
City(c) ==
  /\ pc[c] = "city"
  /\ local[c].city <= Len(Cities)
  /\ \/ /\ stop[c]
        /\ status' = [status EXCEPT ![c] = "stopped"]
        /\ pc' = [pc EXCEPT ![c] = "ended"] /\ UNCHANGED local
     \/ /\ ~stop[c] /\ UNCHANGED status
        /\ \/ pc' = pc /\ local' = [local EXCEPT ![c].city = @ + 1]
           \/ /\ pc' = [pc EXCEPT ![c] = "lead"]
              /\ LET raw == Listing(Cities[local[c].city]) IN
                 local' = [local EXCEPT ![c].todo = [i \in DOMAIN raw |-> raw[i].business],
                                        ![c].found = @ + Len(raw), ![c].broken = FALSE]
  /\ UNCHANGED <<stop, stops, leads, territory, ageing, lost, streak>>

Drop(c, l) == local' = [local EXCEPT ![c] = l]

\* Mutant of Lookup: the look-up is left to create_lead.
LookupLeftToCreate(c) ==
  /\ pc[c] = "lead" /\ local[c].todo # <<>>
  /\ pc' = [pc EXCEPT ![c] = "create"]
  /\ UNCHANGED <<status, stop, stops, local, leads, territory, ageing, lost, streak>>

\* The lookup by dedup hash.  In a session that needs a rollback it raises,
\* and an exception counts as a duplicate.
Lookup(c) ==
  /\ pc[c] = "lead" /\ local[c].todo # <<>>
  /\ LET b == Head(local[c].todo) IN
     IF local[c].broken \/ b \in leads
       THEN /\ Drop(c, [local[c] EXCEPT !.todo = Tail(@), !.dup = @ + 1])
            /\ lost' = lost \cup ({b} \ leads)
            /\ UNCHANGED pc
       ELSE /\ pc' = [pc EXCEPT ![c] = "create"]
            /\ UNCHANGED <<local, lost>>
  /\ UNCHANGED <<status, stop, stops, leads, territory, ageing, streak>>

Counted(l, b) == [l EXCEPT !.todo = Tail(@), !.created = @ \cup {b}]

\* create_lead looks the hash up once more and returns the row it finds, which the
\* crawl counts as created like a new one.
Create(c) ==
  /\ pc[c] = "create"
  /\ LET b == Head(local[c].todo) IN
     IF b \in leads
       THEN pc' = [pc EXCEPT ![c] = "lead"] /\ Drop(c, Counted(local[c], b))
       ELSE pc' = [pc EXCEPT ![c] = "insert"] /\ UNCHANGED local
  /\ UNCHANGED <<status, stop, stops, leads, territory, ageing, lost, streak>>

\* create_lead's flush and the commit; dedup_hash is unique, and a loser's failed
\* flush leaves its session in need of a rollback nobody issues.
Insert(c) ==
  /\ pc[c] = "insert" /\ pc' = [pc EXCEPT ![c] = "lead"]
  /\ LET b == Head(local[c].todo) IN
     IF b \in leads
       THEN /\ Drop(c, [local[c] EXCEPT !.todo = Tail(@), !.dup = @ + 1, !.broken = TRUE])
            /\ UNCHANGED leads
       ELSE /\ Drop(c, Counted(local[c], b))
            /\ leads' = leads \cup {b}
  /\ UNCHANGED <<status, stop, stops, territory, ageing, lost, streak>>

NextCity(c) ==
  /\ pc[c] = "lead" /\ local[c].todo = <<>>
  /\ Drop(c, [local[c] EXCEPT !.city = @ + 1])
  /\ pc' = [pc EXCEPT ![c] = "city"]
  /\ UNCHANGED <<status, stop, stops, leads, territory, ageing, lost, streak>>

\* dup_ratio > 0.8 of max(total_found, 1).
HighRatio(l) == 10 * l.dup > 8 * (IF l.found = 0 THEN 1 ELSE l.found)

\* last_dup_ratio is assigned before it is compared, so the second half of
\* the condition repeats the first.
NewStats(t, high) ==
  LET t1 == [t EXCEPT !.lastDup = IF high THEN "high" ELSE "low"] IN
  [t1 EXCEPT !.saturated = @ \/ (high /\ t1.lastDup = "high")]

Finish(c) ==
  /\ pc[c] = "city" /\ local[c].city > Len(Cities)
  /\ territory' = NewStats(territory, HighRatio(local[c]))
  /\ ageing' = "fresh"
  /\ streak' = IF HighRatio(local[c]) THEN (IF streak < 2 THEN streak + 1 ELSE 2) ELSE 0
  /\ status' = [status EXCEPT ![c] = "succeeded"]
  /\ stop' = [stop EXCEPT ![c] = FALSE]
  /\ pc' = [pc EXCEPT ![c] = "ended"]
  /\ UNCHANGED <<stops, local, leads, lost>>

---------------------------------------------------------------------------
(* Time and the janitor.                                                   *)

Age ==
  /\ ageing \in {"fresh", "due"}
  /\ ageing' = IF ageing = "fresh" THEN "due" ELSE "old"
  /\ UNCHANGED <<status, stop, stops, pc, local, leads, territory, lost, streak>>

\* Mutant of sweep_unsaturate_old_territories: only rows never crawled.
sweep_never_crawled ==
  /\ territory.saturated /\ ageing = "never"
  /\ territory' = [saturated |-> FALSE, lastDup |-> "none"]
  /\ UNCHANGED <<status, stop, stops, pc, local, leads, ageing, lost, streak>>

sweep_unsaturate_old_territories ==
  /\ territory.saturated /\ ageing = "old"
  /\ territory' = [saturated |-> FALSE, lastDup |-> "none"]
  /\ UNCHANGED <<status, stop, stops, pc, local, leads, ageing, lost, streak>>

Step(c) ==
  Begin(c) \/ City(c) \/ Lookup(c) \/ Create(c) \/ Insert(c) \/ NextCity(c) \/ Finish(c)

Next ==
  \/ \E c \in Crawls : RequestCrawl(c) \/ ScheduledCrawl(c) \/ RequestStop(c) \/ Step(c)
  \/ Age \/ sweep_unsaturate_old_territories

Spec == Init /\ [][Next]_vars

\* Time passes, beat keeps scheduling the janitor, workers keep running.
Fairness ==
  /\ WF_vars(Age) /\ WF_vars(sweep_unsaturate_old_territories)
  /\ \A c \in Crawls : WF_vars(Step(c))

FairSpec == Spec /\ Fairness

---------------------------------------------------------------------------
TypeOK ==
  /\ status \in [Crawls -> Active \cup {"none", "failed", "stopped", "succeeded"}]
  /\ stop \in [Crawls -> BOOLEAN] /\ stops \in 0..MaxStops
  /\ pc \in [Crawls -> {"idle", "queued", "city", "lead", "create", "insert", "ended"}]
  /\ leads \subseteq Businesses /\ lost \subseteq Businesses
  /\ territory \in [saturated : BOOLEAN, lastDup : {"none", "low", "high"}]
  /\ ageing \in {"never", "fresh", "due", "old"} /\ streak \in 0..2

(* What crawls report as created is what is stored, and only crawls that   *)
(* overlap may both report a business: leads_created adds up over crawls   *)
(* that follow each other.                                                 *)
CreatedTwiceOverlaps ==
  /\ leads = UNION {local[c].created : c \in Crawls}
  /\ \A c \in Crawls : \A d \in local[c].before : local[c].created \cap local[d].created = {}

(* No two crawls report the same business as created.                      *)
CreatedOnce ==
  \A c, d \in Crawls : c # d => local[c].created \cap local[d].created = {}

(* Saturation is not for good: a saturated territory that was crawled is   *)
(* offered to the crawler again (sweep_unsaturate_old_territories).        *)
SaturationClears == territory.saturated ~> ~territory.saturated

(* A territory is saturated only after two consecutive crawls with a high  *)
(* duplicate ratio (janitor/territory.py:3, autonomous-pipeline-plan).     *)
SaturatedAfterTwo == [][territory'.saturated /\ ~territory.saturated => streak' >= 2]_vars

(* What a crawl found and did not store was stored before: skipped leads   *)
(* are duplicates ("idempotent ingestion").                                *)
SkippedAreDuplicates == lost \subseteq leads
===========================================================================

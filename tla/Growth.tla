------------------------------- MODULE Growth -------------------------------
(***************************************************************************)
(* The growth cycle: the daily task collects the state of the territories, *)
(* a model decides, the decision is applied and logged in one transaction; *)
(* and the weekly task that snapshots the performance of every territory.  *)
(* The operator and the crawl change the same territories meanwhile.       *)
(***************************************************************************)
EXTENDS Naturals, Sequences, FiniteSets

CONSTANTS Territories, Cities,
          Known,        \* the cities of CITY_COORDS
          MaxCycles,    \* bound on growth cycles and snapshot tasks
          MaxEdits,     \* bound on the operator's and the crawl's changes
          MaxRetries    \* max_retries of task_growth_cycle

ASSUME CitiesAssumption == Known \subseteq Cities
ASSUME RetriesAssumption == MaxRetries \in Nat
ASSUME TerritoriesAssumption ==
  IsFiniteSet(Territories) /\ Territories \cap {"none", "malformed"} = {}

VARIABLES territory,   \* the committed territories
          log,         \* the committed decision log
          cycle,       \* the growth task
          snap,        \* the snapshot task
          grown,       \* history: the cities that growth cycles added to each territory
                       \* and that the operator has not taken out since
          cycles, edits

vars == <<territory, log, cycle, snap, grown, cycles, edits>>

Gone == [exists |-> FALSE, active |-> FALSE, saturated |-> FALSE, cities |-> {}]
NoDecision == [kind |-> "none", id |-> "none", cities |-> {}]
\* fault: a worker or a database failed in this task; existing: the cities as read.
Idle == [pc |-> "idle", attempt |-> 0, decision |-> NoDecision, existing |-> {}, fault |-> FALSE]
\* asked: the active territories as read; bare: those of them without cities, whose
\* metrics need no query; aborted: PostgreSQL takes no statement but the rollback.
SnapIdle == [pc |-> "idle", asked |-> {}, bare |-> {}, todo |-> {}, flushed |-> {},
             aborted |-> FALSE, created |-> 0, failures |-> 0, saved |-> 0]

Kinds == {"expand", "niche", "source"}
\* What the model may name as a territory: a row, nothing, or no UUID at all.
Ids == Territories \cup {"none", "malformed"}

TypeOK ==
  /\ territory \in [Territories ->
       [exists : BOOLEAN, active : BOOLEAN, saturated : BOOLEAN, cities : SUBSET Cities]]
  /\ \A i \in DOMAIN log : log[i].kind \in Kinds /\ log[i].added \subseteq Cities
  /\ cycle.pc \in {"idle", "run", "decide", "execute", "write", "log", "ok", "skipped", "failed"}
  /\ cycle.attempt \in 0..MaxRetries /\ cycle.decision.id \in Ids
  /\ snap.pc \in {"idle", "run", "ok", "failed", "skipped"}
  /\ snap.todo \subseteq snap.asked /\ snap.asked \subseteq Territories

Init ==
  /\ territory \in [Territories ->
       {Gone} \cup [exists : {TRUE}, active : {TRUE}, saturated : BOOLEAN, cities : SUBSET Cities]]
  /\ log = <<>> /\ cycle = Idle /\ snap = SnapIdle
  /\ grown = [t \in Territories |-> {}] /\ cycles = 0 /\ edits = 0

---------------------------------------------------------------------------
\* The operator's and the crawl's transactions, blocked on a row that the
\* growth task has updated or the snapshot task refers to.
Free(t) == ~(cycle.pc = "log" /\ cycle.decision.id = t)
Edit(t, row) ==
  /\ edits < MaxEdits /\ edits' = edits + 1 /\ Free(t)
  /\ territory' = [territory EXCEPT ![t] = row]
  /\ UNCHANGED <<log, cycle, snap, cycles>>

\* A new territory has an id that no task has read.
create_territory(t, cs) ==
  /\ ~territory[t].exists /\ cycle.decision.id # t /\ t \notin snap.todo
  /\ grown' = [grown EXCEPT ![t] = {}]
  /\ Edit(t, [exists |-> TRUE, active |-> TRUE, saturated |-> FALSE, cities |-> cs])
update_territory(t, cs, active) ==
  /\ territory[t].exists /\ grown' = [grown EXCEPT ![t] = @ \cap cs]
  /\ Edit(t, [territory[t] EXCEPT !.cities = cs, !.active = active])
delete_territory(t) ==
  /\ territory[t].exists /\ t \notin snap.flushed
  /\ Edit(t, Gone) /\ grown' = [grown EXCEPT ![t] = {}]
CrawlSaturates(t) ==
  /\ territory[t].active /\ ~territory[t].saturated /\ UNCHANGED grown
  /\ Edit(t, [territory[t] EXCEPT !.saturated = TRUE])

---------------------------------------------------------------------------
Active == {t \in Territories : territory[t].active}
get_uncovered_cities == Known \ UNION {territory[t].cities : t \in Active}

BeatGrowth ==
  /\ cycle.pc \in {"idle", "ok", "skipped", "failed"} /\ cycles < MaxCycles
  /\ cycles' = cycles + 1 /\ cycle' = [Idle EXCEPT !.pc = "run"]
  /\ UNCHANGED <<territory, log, snap, grown, edits>>

\* Mutant of Raised: one retry too many.
RaisedAgain(fault) ==
  cycle' = [Idle EXCEPT
    !.pc = IF cycle.attempt <= MaxRetries THEN "run" ELSE "failed",
    !.attempt = cycle.attempt + 1, !.fault = cycle.fault \/ fault]

\* An exception leaves the task: the session is rolled back and Celery runs it
\* again, max_retries times.
Raised(fault) ==
  cycle' = [Idle EXCEPT
    !.pc = IF cycle.attempt < MaxRetries THEN "run" ELSE "failed",
    !.attempt = IF cycle.attempt < MaxRetries THEN cycle.attempt + 1 ELSE cycle.attempt,
    !.fault = cycle.fault \/ fault,
    !.decision = IF cycle.attempt < MaxRetries THEN NoDecision ELSE cycle.decision]

\* task_growth_cycle up to the model: the settings, get_growth_state and the
\* trigger.  get_growth_state reads entry["city"] of entries whose key is
\* "name", which raises as soon as there is an uncovered city.
CollectState(enabled, runs24h) ==
  /\ cycle.pc = "run"
  /\ \/ ~enabled /\ cycle' = [cycle EXCEPT !.pc = "skipped"]
     \/ enabled /\ get_uncovered_cities # {} /\ Raised(FALSE)
     \/ /\ enabled /\ get_uncovered_cities = {}
        /\ cycle' = [cycle EXCEPT !.pc =
             IF (\E t \in Active : territory[t].saturated) \/ ~runs24h THEN "decide" ELSE "skipped"]
  /\ UNCHANGED <<territory, log, snap, grown, cycles, edits>>

\* The model's decision, or the fallback: an expansion that names no cities,
\* since none is available here.
decide_growth_strategy(d) ==
  /\ cycle.pc = "decide" /\ cycle' = [cycle EXCEPT !.pc = "execute", !.decision = d]
  /\ UNCHANGED <<territory, log, snap, grown, cycles, edits>>

\* execute_growth_decision reads the territory.  An id that is no UUID aborts
\* the transaction: the exception is caught, but the log entry cannot follow.
ReadTerritory ==
  LET d == cycle.decision
      row == territory[d.id]
  IN
  /\ cycle.pc = "execute"
  /\ \/ d.kind = "expand" /\ d.id = "malformed" /\ d.cities # {} /\ Raised(FALSE)
     \/ /\ d.kind = "expand" /\ d.id \in Territories /\ d.cities # {} /\ row.exists
        /\ ~(d.cities \subseteq row.cities)
        /\ cycle' = [cycle EXCEPT !.pc = "write", !.existing = row.cities]
     \/ /\ \/ d.kind # "expand" \/ d.id = "none" \/ d.cities = {}
           \/ d.id \in Territories /\ (~row.exists \/ d.cities \subseteq row.cities)
        /\ cycle' = [cycle EXCEPT !.pc = "log", !.decision.id = "none"]
  /\ UNCHANGED <<territory, log, snap, grown, cycles, edits>>

\* Mutant of NewCities: the cities of the decision replace those that were read.
NewCitiesOnly == cycle.decision.cities
\* The list that the cycle writes, computed from the cities it read.
NewCities == cycle.existing \cup cycle.decision.cities
Expands == cycle.decision.kind = "expand" /\ cycle.decision.id \in Territories
Entry == [kind |-> cycle.decision.kind, id |-> cycle.decision.id,
          added |-> IF Expands THEN cycle.decision.cities \ cycle.existing ELSE {}]

\* The update is flushed: the row is locked until the commit.  A territory that
\* was deleted meanwhile raises StaleDataError.
FlushTerritory ==
  /\ cycle.pc = "write"
  /\ IF territory[cycle.decision.id].exists
     THEN cycle' = [cycle EXCEPT !.pc = "log"]
     ELSE Raised(TRUE)
  /\ UNCHANGED <<territory, log, snap, grown, cycles, edits>>

\* The log entry is added and the transaction committed.
LogAndCommit ==
  /\ cycle.pc = "log" /\ cycle' = [Idle EXCEPT !.pc = "ok"]
  /\ log' = Append(log, Entry)
  /\ IF Expands
     THEN /\ territory' = [territory EXCEPT ![cycle.decision.id].cities = NewCities,
                                            ![cycle.decision.id].saturated = FALSE]
          /\ grown' = [grown EXCEPT ![cycle.decision.id] = @ \cup Entry.added]
     ELSE UNCHANGED <<territory, grown>>
  /\ UNCHANGED <<snap, cycles, edits>>

\* The database fails, or the worker is lost and the task delivered again; the
\* transaction goes with it.
CycleFails ==
  /\ cycle.pc \in {"decide", "execute", "write", "log"}
  /\ \/ Raised(TRUE)
     \/ cycle' = [Idle EXCEPT !.pc = "run", !.attempt = cycle.attempt, !.fault = TRUE]
  /\ UNCHANGED <<territory, log, snap, grown, cycles, edits>>

---------------------------------------------------------------------------
BeatSnapshot ==
  /\ snap.pc \in {"idle", "ok", "failed", "skipped"} /\ cycles < MaxCycles /\ cycles' = cycles + 1
  /\ snap' = [SnapIdle EXCEPT
       !.pc = IF Active = {} THEN "skipped" ELSE "run", !.asked = Active, !.todo = Active,
       !.bare = {t \in Active : territory[t].cities = {}}]
  /\ UNCHANGED <<territory, log, cycle, grown, edits>>

\* The exception is caught, the failure counted and the loop goes on.
CountFailure(t) == [snap EXCEPT !.todo = @ \ {t}, !.failures = @ + 1]

\* One territory: the snapshot is flushed.  In an aborted transaction the query of
\* the metrics fails, and is counted.  An insert that fails, because the territory is
\* gone or the transaction aborted, makes the session unusable: the handler's own
\* territory.id raises out of the loop.
SnapshotTerritory(t) ==
  /\ snap.pc = "run" /\ t \in snap.todo
  /\ \/ /\ ~snap.aborted /\ territory[t].exists
        /\ snap' = [snap EXCEPT !.todo = @ \ {t}, !.flushed = @ \cup {t}, !.created = @ + 1]
     \/ /\ IF snap.aborted THEN t \in snap.bare ELSE ~territory[t].exists
        /\ snap' = [SnapIdle EXCEPT !.pc = "failed"]
     \/ snap.aborted /\ t \notin snap.bare /\ snap' = CountFailure(t)
  /\ UNCHANGED <<territory, log, cycle, grown, cycles, edits>>

\* Mutant of MetricsFail: each territory has a savepoint of its own.
MetricsFailApart(t) ==
  /\ snap.pc = "run" /\ t \in snap.todo /\ ~snap.aborted /\ snap' = CountFailure(t)
  /\ UNCHANGED <<territory, log, cycle, grown, cycles, edits>>

\* A query fails in the database (the metrics, the refresh of the snapshot).  The
\* exception is caught, but PostgreSQL has aborted the transaction: what was
\* flushed is gone, and so are its locks.
MetricsFail(t) ==
  /\ snap.pc = "run" /\ t \in snap.todo /\ ~snap.aborted
  /\ snap' = [CountFailure(t) EXCEPT !.aborted = TRUE, !.flushed = {}]
  /\ UNCHANGED <<territory, log, cycle, grown, cycles, edits>>

\* The commit of an aborted transaction rolls back and raises nothing, unless the
\* connection was lost with it.
CommitSnapshots ==
  /\ snap.pc = "run" /\ snap.todo = {}
  /\ \/ snap' = [SnapIdle EXCEPT !.pc = "ok", !.asked = snap.asked, !.created = snap.created,
                                !.failures = snap.failures, !.saved = Cardinality(snap.flushed)]
     \/ snap.aborted /\ snap' = [SnapIdle EXCEPT !.pc = "failed"]
  /\ UNCHANGED <<territory, log, cycle, grown, cycles, edits>>

Decisions ==
  {[kind |-> "expand", id |-> i, cities |-> cs] : i \in Ids, cs \in SUBSET Cities}
  \cup {[kind |-> k, id |-> "none", cities |-> {}] : k \in {"niche", "source"}}

Next ==
  \/ \E t \in Territories, cs \in SUBSET Cities :
       create_territory(t, cs) \/ \E active \in BOOLEAN : update_territory(t, cs, active)
  \/ \E t \in Territories :
       \/ delete_territory(t) \/ CrawlSaturates(t) \/ SnapshotTerritory(t) \/ MetricsFail(t)
  \/ \E enabled, runs24h \in BOOLEAN : CollectState(enabled, runs24h)
  \/ \E d \in Decisions : decide_growth_strategy(d)
  \/ BeatGrowth \/ ReadTerritory \/ FlushTerritory \/ LogAndCommit \/ CycleFails
  \/ BeatSnapshot \/ CommitSnapshots

Spec == Init /\ [][Next]_vars

---------------------------------------------------------------------------
\* A city that a growth cycle added stays in its territory until the operator takes
\* it out, and the decision log names it: the list is read, then written whole while
\* the operator and the crawl write the same row, but a cycle never undoes another's
\* expansion, whatever fails in it or is run again (execute_growth_decision).
GrownCitiesKept ==
  \A t \in Territories : \A c \in grown[t] :
    /\ c \in territory[t].cities
    /\ \E i \in DOMAIN log : log[i].id = t /\ c \in log[i].added

\* A snapshot task that answers ok has stored a snapshot of every active territory, or
\* it counted a failure, and then it has stored none: the handler that goes on with
\* the next territory saves nothing (task_snapshot_territory_performance).
SnapshotsAllOrNone ==
  snap.pc = "ok" =>
    snap.saved = IF snap.failures = 0 THEN Cardinality(snap.asked) ELSE 0

\* A snapshot task that answers ok has committed as many snapshots as it reports.
SnapshotsHonest == snap.pc = "ok" => snap.saved = snap.created

\* The growth cycle appends: committing a decision never takes a city from a
\* territory (execute_growth_decision writes the list it read before).
GrowthAppends ==
  [][log' # log => \A t \in Territories : territory[t].cities \subseteq territory'[t].cities]_vars

\* Without a fault of a worker or the database, a cycle that runs does not fail.
CycleDecides == cycle.pc = "failed" => cycle.fault \/ cycle.decision # NoDecision

\* A decision that was made is logged, unless a worker or the database failed.
DecisionLogged == cycle.pc = "failed" => cycle.fault \/ cycle.decision = NoDecision
=============================================================================

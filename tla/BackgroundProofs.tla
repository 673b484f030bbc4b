-------------------------- MODULE BackgroundProofs --------------------------
(***************************************************************************)
(* Work that nobody waits for, for every set of territories, tasks, leads, *)
(* crawls and calls: the growth cycle, the model's client, the reviews,    *)
(* the batch pipeline, the crawls and the advice drawn from outcomes.      *)
(***************************************************************************)
EXTENDS Background, FiniteSums, Integers, Sequences

LEMMA SameCardinality ==
  \A S : /\ Batch!Cardinality(S) = Cardinality(S)
         /\ Advice!Cardinality(S) = Cardinality(S)
  BY DEF Batch!Cardinality, Advice!Cardinality, Cardinality

---------------------------------------------------------------------------
(* The growth cycle and the snapshots                                      *)

TerritoryRows == [exists : BOOLEAN, active : BOOLEAN, saturated : BOOLEAN, cities : SUBSET Cities]
Entries == [kind : Kinds, id : Ids, added : SUBSET Cities]
Made == [kind : Kinds, id : Ids, cities : SUBSET Cities]
CyclePcs == {"idle", "run", "decide", "execute", "write", "log", "ok", "skipped", "failed"}
SnapPcs == {"idle", "run", "ok", "failed", "skipped"}
SnapRows == [pc : SnapPcs, asked : SUBSET Territories, bare : SUBSET Territories,
             todo : SUBSET Territories, flushed : SUBSET Territories, aborted : BOOLEAN,
             created : Nat, failures : Nat, saved : Nat]

GrowthTyped ==
  /\ territory \in [Territories -> TerritoryRows]
  /\ log \in Seq(Entries)
  /\ cycle \in [pc : CyclePcs, attempt : 0..MaxRetries, decision : Made \cup {NoDecision},
                existing : SUBSET Cities, fault : BOOLEAN]
  /\ snap \in SnapRows
  /\ grown \in [Territories -> SUBSET Cities]

(* A decision is there from the model's answer to the commit.              *)
Deciding == cycle.pc \in {"execute", "write", "log"} => cycle.decision \in Made

(* The cities that earlier cycles added are in the territory, and the list *)
(* that a cycle has read still holds them when it writes.                  *)
Present == \A t \in Territories : grown[t] \subseteq territory[t].cities
Reading ==
  (cycle.pc = "write" \/ (cycle.pc = "log" /\ Expands)) =>
    /\ cycle.decision.id \in Territories /\ grown[cycle.decision.id] \subseteq cycle.existing

(* A territory is to do, flushed or failed; nothing is flushed in an       *)
(* aborted transaction, and a failure is what aborts it.                   *)
Counted ==
  /\ snap.todo \subseteq snap.asked
  /\ snap.pc = "run" =>
       /\ snap.aborted => snap.failures > 0 /\ snap.flushed = {}
       /\ ~snap.aborted => snap.failures = 0 /\ snap.flushed = snap.asked \ snap.todo
  /\ snap.pc = "ok" => snap.saved = IF snap.failures = 0 THEN Cardinality(snap.asked) ELSE 0

Covers(l, t, c) == \E i \in DOMAIN l : l[i].id = t /\ c \in l[i].added
Logged == \A t \in Territories : \A c \in grown[t] : Covers(log, t, c)

Kept == Logged /\ Present /\ Reading

GrowthInv == GrowthTyped /\ Deciding /\ Counted /\ Kept

LEMMA KeptIsProperty == Logged /\ Present => GrownCitiesKept
  BY DEF Logged, Present, Covers, GrownCitiesKept

LEMMA GrowthInit == Init => GrowthInv
  <1> SUFFICES ASSUME Init PROVE GrowthInv OBVIOUS
  <1> USE DEF Init
  <1>1. territory \in [Territories -> TerritoryRows]
    <2>1. Gone \in TerritoryRows BY DEF Gone, TerritoryRows
    <2>2. [exists : {TRUE}, active : {TRUE}, saturated : BOOLEAN, cities : SUBSET Cities]
            \subseteq TerritoryRows
      BY DEF TerritoryRows
    <2> QED BY <2>1, <2>2
  <1>2. log \in Seq(Entries) OBVIOUS
  <1>3. cycle \in [pc : CyclePcs, attempt : 0..MaxRetries, decision : Made \cup {NoDecision},
                existing : SUBSET Cities, fault : BOOLEAN]
    BY RetriesAssumption DEF Idle, CyclePcs
  <1>4. snap \in SnapRows
    BY DEF SnapIdle, SnapPcs, SnapRows
  <1>5. Deciding /\ Counted /\ Kept
    BY DEF Deciding, Counted, Kept, Logged, Present, Reading, Idle, SnapIdle
  <1> QED BY <1>1, <1>2, <1>3, <1>4, <1>5 DEF GrowthInv, GrowthTyped

(* Committing an entry keeps the log complete.                             *)
LEMMA LogGrows ==
  ASSUME GrowthInv, NEW e \in Entries
  PROVE  /\ Append(log, e) \in Seq(Entries)
         /\ \A t, c : Covers(log, t, c) => Covers(Append(log, e), t, c)
         /\ \A c \in e.added : Covers(Append(log, e), e.id, c)
  <1>1. PICK l \in Seq(Entries) : l = log BY DEF GrowthInv, GrowthTyped
  <1>0. Append(l, e) \in Seq(Entries) OBVIOUS
  <1>2. PICK m \in Seq(Entries) : m = Append(l, e) BY <1>0
  <1>3. /\ DOMAIN l = 1 .. Len(l) /\ DOMAIN m = 1 .. Len(l) + 1 /\ Len(l) \in Nat
        /\ m[Len(l) + 1] = e /\ \A i \in 1 .. Len(l) : m[i] = l[i]
    BY <1>2
  <1>4. \A t, c : Covers(l, t, c) => Covers(m, t, c) BY <1>3 DEF Covers
  <1>5. \A c \in e.added : Covers(m, e.id, c) BY <1>3 DEF Covers
  <1> QED BY <1>1, <1>2, <1>4, <1>5

(* What the operator, the crawl and the tasks do to the territories and to *)
(* the snapshots alone.                                                    *)
LEMMA TerritoryStep ==
  ASSUME GrowthInv, UNCHANGED <<log, cycle, snap>>, territory' \in [Territories -> TerritoryRows],
         grown' \in [Territories -> SUBSET Cities], \A t \in Territories : grown'[t] \subseteq grown[t],
         Present'
  PROVE  GrowthInv'
  <1>1. Logged' BY DEF GrowthInv, Kept, Logged
  <1>2. Reading' BY DEF GrowthInv, Kept, Reading, Expands
  <1> QED BY <1>1, <1>2 DEF GrowthInv, GrowthTyped, Deciding, Counted, Kept

LEMMA CycleStep ==
  ASSUME GrowthInv, UNCHANGED <<territory, log, snap, grown>>, Deciding', Reading',
         cycle' \in [pc : CyclePcs, attempt : 0..MaxRetries, decision : Made \cup {NoDecision},
                     existing : SUBSET Cities, fault : BOOLEAN]
  PROVE  GrowthInv'
  BY DEF GrowthInv, GrowthTyped, Counted, Kept, Logged, Present

LEMMA RetryStep ==
  ASSUME GrowthInv, UNCHANGED <<territory, log, snap, grown>>, NEW fault \in BOOLEAN, Raised(fault)
  PROVE  GrowthInv'
  <1>1. cycle.attempt < MaxRetries => cycle.attempt + 1 \in 0 .. MaxRetries
    BY RetriesAssumption DEF GrowthInv, GrowthTyped
  <1>2. cycle'.pc \in {"run", "failed"} BY DEF Raised, Idle
  <1>3. cycle' \in [pc : CyclePcs, attempt : 0..MaxRetries, decision : Made \cup {NoDecision},
                    existing : SUBSET Cities, fault : BOOLEAN]
    BY <1>1 DEF Raised, Idle, CyclePcs, GrowthInv, GrowthTyped
  <1> QED BY <1>2, <1>3, CycleStep DEF Deciding, Reading

LEMMA SnapStep ==
  ASSUME GrowthInv, UNCHANGED <<territory, log, cycle, grown>>, Counted',
         snap' \in SnapRows
  PROVE  GrowthInv'
  <1>1. Kept' BY DEF GrowthInv, Kept, Logged, Present, Reading, Expands
  <1> QED BY <1>1 DEF GrowthInv, GrowthTyped, Deciding

LEMMA EditStep ==
  ASSUME GrowthInv, NEW t \in Territories, NEW r \in TerritoryRows, Edit(t, r),
         NEW cs \in SUBSET Cities, cs \subseteq r.cities,
         grown' = [grown EXCEPT ![t] = grown[t] \cap cs]
  PROVE  GrowthInv'
  <1>1. territory' = [territory EXCEPT ![t] = r] /\ UNCHANGED <<log, cycle, snap>> BY DEF Edit
  <1>2. territory \in [Territories -> TerritoryRows] /\ grown \in [Territories -> SUBSET Cities]
    BY DEF GrowthInv, GrowthTyped
  <1>3. territory' \in [Territories -> TerritoryRows] BY <1>1, <1>2
  <1>4. /\ grown' \in [Territories -> SUBSET Cities]
        /\ \A u \in Territories : grown'[u] \subseteq grown[u]
    BY <1>2
  <1>5. Present'
    <2> SUFFICES ASSUME NEW u \in Territories PROVE grown'[u] \subseteq territory'[u].cities
      BY DEF Present
    <2>1. CASE u = t
      <3>1. grown'[u] = grown[t] \cap cs /\ territory'[u] = r BY <1>1, <1>2, <2>1
      <3> QED BY <3>1
    <2>2. CASE u # t
      <3>1. grown'[u] = grown[u] /\ territory'[u] = territory[u] BY <1>1, <1>2, <2>2
      <3> QED BY <3>1 DEF GrowthInv, Kept, Present
    <2> QED BY <2>1, <2>2
  <1> QED BY <1>1, <1>3, <1>4, <1>5, TerritoryStep

LEMMA CommitStep == ASSUME GrowthInv, LogAndCommit PROVE GrowthInv'
  <1>1. /\ cycle.pc = "log" /\ cycle' = [Idle EXCEPT !.pc = "ok"] /\ UNCHANGED snap
        /\ log' = Append(log, Entry)
    BY DEF LogAndCommit
  <1>2. PICK d \in Made : d = cycle.decision BY <1>1 DEF GrowthInv, Deciding
  <1>3. cycle.existing \subseteq Cities /\ d.cities \subseteq Cities /\ d.id \in Ids /\ d.kind \in Kinds
    BY <1>2 DEF GrowthInv, GrowthTyped, Made
  <1>4. PICK a \in SUBSET Cities : a = IF Expands THEN d.cities \ cycle.existing ELSE {}
    BY <1>3
  <1>5. Entry = [kind |-> d.kind, id |-> d.id, added |-> a] BY <1>2, <1>4 DEF Entry
  <1>6. PICK e : e = [kind |-> d.kind, id |-> d.id, added |-> a] OBVIOUS
  <1>7. e \in Entries /\ e.id = d.id /\ e.added = a /\ Entry = e BY <1>3, <1>5, <1>6 DEF Entries
  <1>8. /\ log' = Append(log, e) /\ log' \in Seq(Entries)
        /\ \A t, c : Covers(log, t, c) => Covers(log', t, c)
        /\ \A c \in a : Covers(log', d.id, c)
    BY <1>1, <1>7, LogGrows
  <1>9. cycle' \in [pc : CyclePcs, attempt : 0..MaxRetries, decision : Made \cup {NoDecision},
                    existing : SUBSET Cities, fault : BOOLEAN] /\ cycle'.pc = "ok"
    <2>1. PICK n \in 0 .. MaxRetries : n = 0 BY RetriesAssumption
    <2>2. cycle' = [pc |-> "ok", attempt |-> n, decision |-> NoDecision, existing |-> {}, fault |-> FALSE]
      BY <1>1, <2>1 DEF Idle
    <2> QED BY <2>2 DEF CyclePcs
  <1>10. Deciding' /\ Counted' /\ Reading'
    BY <1>1, <1>9 DEF Deciding, Counted, GrowthInv, Reading
  <1>11. CASE Expands
    <2>1. d.id \in Territories BY <1>2, <1>11 DEF Expands
    <2>2. /\ territory' = [territory EXCEPT ![d.id].cities = NewCities, ![d.id].saturated = FALSE]
          /\ grown' = [grown EXCEPT ![d.id] = @ \cup a]
      BY <1>2, <1>7, <1>11 DEF LogAndCommit
    <2>3. NewCities \in SUBSET Cities BY <1>2, <1>3 DEF NewCities
    <2>4. territory' \in [Territories -> TerritoryRows]
      BY <2>1, <2>2, <2>3 DEF GrowthInv, GrowthTyped, TerritoryRows
    <2>5. grown' \in [Territories -> SUBSET Cities] BY <2>1, <2>2 DEF GrowthInv, GrowthTyped
    <2>6. Logged'
      <3>1. \A t \in Territories : \A c \in grown'[t] : c \in grown[t] \/ (t = d.id /\ c \in a)
        BY <2>1, <2>2 DEF GrowthInv, GrowthTyped
      <3> QED BY <1>8, <3>1 DEF GrowthInv, Kept, Logged
    <2>7. Present'
      <3> SUFFICES ASSUME NEW t \in Territories PROVE grown'[t] \subseteq territory'[t].cities
        BY DEF Present
      <3>0. /\ territory \in [Territories -> TerritoryRows] /\ grown \in [Territories -> SUBSET Cities]
            /\ grown[t] \subseteq territory[t].cities /\ grown[d.id] \subseteq cycle.existing
        BY <1>1, <1>2, <1>11 DEF GrowthInv, GrowthTyped, Kept, Present, Reading
      <3>1. CASE t = d.id
        <4>1. grown'[t] = grown[d.id] \cup a BY <2>1, <2>2, <3>0, <3>1
        <4>2. territory'[t].cities = NewCities BY <2>1, <2>2, <3>0, <3>1 DEF TerritoryRows
        <4>3. NewCities = cycle.existing \cup d.cities BY <1>2 DEF NewCities
        <4> QED BY <1>4, <1>11, <3>0, <4>1, <4>2, <4>3
      <3>2. CASE t # d.id
        <4>1. grown'[t] = grown[t] /\ territory'[t] = territory[t] BY <2>1, <2>2, <3>0, <3>2
        <4> QED BY <3>0, <4>1
      <3> QED BY <3>1, <3>2
    <2> QED BY <1>1, <1>8, <1>9, <1>10, <2>4, <2>5, <2>6, <2>7 DEF GrowthInv, GrowthTyped, Kept
  <1>12. CASE ~Expands
    <2>1. UNCHANGED <<territory, grown>> BY <1>12 DEF LogAndCommit
    <2>2. Logged' /\ Present' BY <1>8, <2>1 DEF GrowthInv, Kept, Logged, Present
    <2> QED BY <1>1, <1>8, <1>9, <1>10, <2>1, <2>2 DEF GrowthInv, GrowthTyped, Kept
  <1> QED BY <1>11, <1>12

LEMMA CountStep ==
  ASSUME GrowthInv, NEW t \in Territories, SnapshotTerritory(t) \/ MetricsFail(t)
  PROVE  GrowthInv'
  <1>1. snap.pc = "run" /\ t \in snap.todo /\ UNCHANGED <<territory, log, cycle, grown>>
    BY DEF SnapshotTerritory, MetricsFail
  <1>2. /\ snap \in SnapRows /\ snap.todo \subseteq snap.asked
        /\ snap.aborted => snap.failures > 0 /\ snap.flushed = {}
        /\ ~snap.aborted => snap.failures = 0 /\ snap.flushed = snap.asked \ snap.todo
    BY <1>1 DEF GrowthInv, GrowthTyped, Counted
  <1>a. PICK A, B, T, F, ab, c, f, v :
          snap = [pc |-> "run", asked |-> A, bare |-> B, todo |-> T, flushed |-> F,
                  aborted |-> ab, created |-> c, failures |-> f, saved |-> v]
    <2>1. snap = [pc |-> "run", asked |-> snap.asked, bare |-> snap.bare, todo |-> snap.todo,
                  flushed |-> snap.flushed, aborted |-> snap.aborted, created |-> snap.created,
                  failures |-> snap.failures, saved |-> snap.saved]
      BY <1>1, <1>2 DEF SnapRows
    <2> QED BY <2>1
  <1>3. CASE snap' = [SnapIdle EXCEPT !.pc = "failed"]
    <2>1. snap' \in SnapRows /\ snap'.pc = "failed" /\ snap'.todo = {}
      BY <1>3 DEF SnapIdle, SnapPcs, SnapRows
    <2> QED BY <1>1, <2>1, SnapStep DEF Counted
  <1>4. CASE ~snap.aborted /\ SnapshotTerritory(t)
             /\ snap' = [snap EXCEPT !.todo = @ \ {t}, !.flushed = @ \cup {t}, !.created = @ + 1]
    <2>1. /\ snap'.pc = "run" /\ snap'.asked = snap.asked /\ snap'.todo = snap.todo \ {t}
          /\ snap'.flushed = snap.flushed \cup {t} /\ snap'.failures = snap.failures
          /\ snap'.aborted = snap.aborted /\ snap' \in SnapRows
      <3>1. snap' = [pc |-> "run", asked |-> snap.asked, bare |-> snap.bare, todo |-> snap.todo \ {t},
                     flushed |-> snap.flushed \cup {t}, aborted |-> snap.aborted,
                     created |-> snap.created + 1, failures |-> snap.failures, saved |-> snap.saved]
        BY <1>4, <1>a
      <3> QED BY <1>2, <3>1 DEF SnapRows, SnapPcs
    <2>2. Counted' BY <1>1, <1>2, <1>4, <2>1 DEF Counted
    <2> QED BY <1>1, <2>1, <2>2, SnapStep
  <1>5. CASE snap.aborted /\ snap' = CountFailure(t)
    <2>1. /\ snap'.pc = "run" /\ snap'.asked = snap.asked /\ snap'.todo = snap.todo \ {t}
          /\ snap'.flushed = snap.flushed /\ snap'.failures = snap.failures + 1
          /\ snap'.aborted = snap.aborted /\ snap' \in SnapRows
      <3>1. snap' = [pc |-> "run", asked |-> snap.asked, bare |-> snap.bare, todo |-> snap.todo \ {t},
                     flushed |-> snap.flushed, aborted |-> snap.aborted,
                     created |-> snap.created, failures |-> snap.failures + 1, saved |-> snap.saved]
        BY <1>5, <1>a DEF CountFailure
      <3> QED BY <1>2, <3>1 DEF SnapRows, SnapPcs
    <2>2. snap.failures \in Nat BY <1>2 DEF SnapRows
    <2>3. Counted' BY <1>1, <1>2, <1>5, <2>1, <2>2 DEF Counted
    <2> QED BY <1>1, <2>1, <2>3, SnapStep
  <1>6. CASE snap' = [CountFailure(t) EXCEPT !.aborted = TRUE, !.flushed = {}]
    <2>1. /\ snap'.pc = "run" /\ snap'.asked = snap.asked /\ snap'.todo = snap.todo \ {t}
          /\ snap'.flushed = {} /\ snap'.failures = snap.failures + 1
          /\ snap'.aborted /\ snap' \in SnapRows
      <3>1. snap' = [pc |-> "run", asked |-> snap.asked, bare |-> snap.bare, todo |-> snap.todo \ {t},
                     flushed |-> {}, aborted |-> TRUE, created |-> snap.created,
                     failures |-> snap.failures + 1, saved |-> snap.saved]
        BY <1>6, <1>a DEF CountFailure
      <3> QED BY <1>2, <3>1 DEF SnapRows, SnapPcs
    <2>2. snap.failures \in Nat BY <1>2 DEF SnapRows
    <2>3. Counted' BY <1>1, <1>2, <2>1, <2>2 DEF Counted
    <2> QED BY <1>1, <2>1, <2>3, SnapStep
  <1> QED BY <1>3, <1>4, <1>5, <1>6 DEF SnapshotTerritory, MetricsFail

LEMMA GrowthStep == GrowthInv /\ [Next]_vars => GrowthInv'
  <1> SUFFICES ASSUME GrowthInv, [Next]_vars PROVE GrowthInv' OBVIOUS
  <1>0. /\ territory \in [Territories -> TerritoryRows]
        /\ cycle \in [pc : CyclePcs, attempt : 0..MaxRetries, decision : Made \cup {NoDecision},
                      existing : SUBSET Cities, fault : BOOLEAN]
        /\ snap \in SnapRows
        /\ grown \in [Territories -> SUBSET Cities]
    BY DEF GrowthInv, GrowthTyped
  <1>1. ASSUME NEW t \in Territories, NEW cs \in SUBSET Cities, create_territory(t, cs)
        PROVE  GrowthInv'
    <2>1. PICK r \in TerritoryRows :
            r = [exists |-> TRUE, active |-> TRUE, saturated |-> FALSE, cities |-> cs]
      BY DEF TerritoryRows
    <2>2. grown' = [grown EXCEPT ![t] = grown[t] \cap {}] BY <1>1 DEF create_territory
    <2>3. \E no \in SUBSET Cities : no \subseteq r.cities /\ grown' = [grown EXCEPT ![t] = grown[t] \cap no]
      BY <2>2
    <2> QED BY <1>1, <2>1, <2>3, EditStep DEF create_territory
  <1>2. ASSUME NEW t \in Territories, NEW cs \in SUBSET Cities, NEW active \in BOOLEAN,
               update_territory(t, cs, active)
        PROVE  GrowthInv'
    <2>1. PICK r \in TerritoryRows : r = [territory[t] EXCEPT !.cities = cs, !.active = active]
      BY <1>0 DEF TerritoryRows
    <2>2. r.cities = cs BY <1>0, <2>1 DEF TerritoryRows
    <2> QED BY <1>2, <2>1, <2>2, EditStep DEF update_territory
  <1>3. ASSUME NEW t \in Territories, delete_territory(t) PROVE GrowthInv'
    <2>1. Gone \in TerritoryRows BY DEF Gone, TerritoryRows
    <2>2. grown' = [grown EXCEPT ![t] = grown[t] \cap {}] BY <1>3 DEF delete_territory
    <2>3. \E no \in SUBSET Cities :
            no \subseteq Gone.cities /\ grown' = [grown EXCEPT ![t] = grown[t] \cap no]
      BY <2>2
    <2> QED BY <1>3, <2>1, <2>3, EditStep DEF delete_territory
  <1>4. ASSUME NEW t \in Territories, CrawlSaturates(t) PROVE GrowthInv'
    <2>1. PICK r \in TerritoryRows : r = [territory[t] EXCEPT !.saturated = TRUE]
      BY <1>0 DEF TerritoryRows
    <2>2. PICK cs \in SUBSET Cities : cs = territory[t].cities BY <1>0 DEF TerritoryRows
    <2>3. r.cities = cs BY <1>0, <2>1, <2>2 DEF TerritoryRows
    <2>4. grown[t] \subseteq cs BY <2>2 DEF GrowthInv, Kept, Present
    <2>5. grown' = [grown EXCEPT ![t] = grown[t] \cap cs] BY <1>0, <1>4, <2>4 DEF CrawlSaturates
    <2> QED BY <1>4, <2>1, <2>3, <2>5, EditStep DEF CrawlSaturates
  <1>5. ASSUME NEW enabled \in BOOLEAN, NEW runs24h \in BOOLEAN, CollectState(enabled, runs24h)
        PROVE  GrowthInv'
    <2>1. CASE Raised(FALSE) BY <1>5, <2>1, RetryStep DEF CollectState
    <2>2. CASE ~Raised(FALSE)
      <3>1. PICK p \in {"skipped", "decide"} : cycle' = [cycle EXCEPT !.pc = p]
        BY <1>5, <2>2 DEF CollectState
      <3> QED BY <1>0, <1>5, <3>1, CycleStep DEF CollectState, Deciding, Reading, CyclePcs
    <2> QED BY <2>1, <2>2
  <1>6. ASSUME NEW d \in Decisions, decide_growth_strategy(d) PROVE GrowthInv'
    <2>1. d \in Made BY DEF Decisions, Made, Kinds, Ids
    <2> QED BY <1>0, <1>6, <2>1, CycleStep DEF decide_growth_strategy, Deciding, Reading, CyclePcs
  <1>7. CASE BeatGrowth
    <2>1. cycle' \in [pc : CyclePcs, attempt : 0..MaxRetries, decision : Made \cup {NoDecision},
                      existing : SUBSET Cities, fault : BOOLEAN]
      <3>1. PICK n \in 0 .. MaxRetries : n = 0 BY RetriesAssumption
      <3>2. cycle' = [pc |-> "run", attempt |-> n, decision |-> NoDecision, existing |-> {},
                      fault |-> FALSE]
        BY <1>7, <3>1 DEF BeatGrowth, Idle
      <3> QED BY <3>2 DEF CyclePcs
    <2>2. cycle'.pc = "run" BY <1>7 DEF BeatGrowth, Idle
    <2> QED BY <1>7, <2>1, <2>2, CycleStep DEF BeatGrowth, Deciding, Reading
  <1>8. CASE ReadTerritory
    <2>1. cycle.decision \in Made BY <1>8 DEF ReadTerritory, GrowthInv, Deciding
    <2>2. CASE Raised(FALSE) BY <1>8, <2>2, RetryStep DEF ReadTerritory
    <2>3. CASE /\ cycle.decision.id \in Territories
               /\ cycle' = [cycle EXCEPT !.pc = "write", !.existing = territory[cycle.decision.id].cities]
      <3>1. PICK cs \in SUBSET Cities : cs = territory[cycle.decision.id].cities
        BY <1>0, <2>3 DEF TerritoryRows
      <3>2. /\ cycle' = [cycle EXCEPT !.pc = "write", !.existing = cs]
            /\ UNCHANGED <<territory, log, snap, grown>>
        BY <1>8, <2>3, <3>1 DEF ReadTerritory
      <3>3. /\ cycle'.pc = "write" /\ cycle'.decision = cycle.decision /\ cycle'.existing = cs
            /\ cycle' \in [pc : CyclePcs, attempt : 0..MaxRetries, decision : Made \cup {NoDecision},
                           existing : SUBSET Cities, fault : BOOLEAN]
        BY <1>0, <3>2 DEF CyclePcs
      <3>4. Reading'
        BY <2>3, <3>1, <3>2, <3>3 DEF GrowthInv, Kept, Present, Reading
      <3> QED BY <2>1, <3>2, <3>3, <3>4, CycleStep DEF Deciding
    <2>4. CASE cycle' = [cycle EXCEPT !.pc = "log", !.decision.id = "none"]
      <3>1. PICK d \in Made : d = [cycle.decision EXCEPT !.id = "none"] BY <2>1 DEF Made, Ids
      <3>2. cycle' = [cycle EXCEPT !.pc = "log", !.decision = d] BY <1>0, <2>4, <3>1
      <3>3. d.id = "none" BY <2>1, <3>1 DEF Made
      <3>4. cycle'.decision = d /\ cycle'.pc = "log" BY <1>0, <3>2
      <3>5. Reading' BY <3>3, <3>4, TerritoriesAssumption DEF Reading, Expands
      <3> QED BY <1>0, <1>8, <3>2, <3>5, CycleStep DEF ReadTerritory, Deciding, CyclePcs
    <2> QED BY <1>8, <2>2, <2>3, <2>4 DEF ReadTerritory
  <1>9. CASE FlushTerritory
    <2>1. CASE Raised(TRUE) BY <1>9, <2>1, RetryStep DEF FlushTerritory
    <2>2. CASE cycle' = [cycle EXCEPT !.pc = "log"]
      <3>1. cycle.decision \in Made BY <1>9 DEF FlushTerritory, GrowthInv, Deciding
      <3>2. cycle'.decision = cycle.decision /\ cycle'.existing = cycle.existing BY <1>0, <2>2
      <3>3. Reading' BY <1>9, <3>2 DEF FlushTerritory, GrowthInv, Kept, Reading
      <3> QED BY <1>0, <1>9, <2>2, <3>1, <3>3, CycleStep DEF FlushTerritory, Deciding, CyclePcs
    <2> QED BY <1>9, <2>1, <2>2 DEF FlushTerritory
  <1>10. CASE LogAndCommit BY <1>10, CommitStep
  <1>11. CASE CycleFails
    <2>1. CASE Raised(TRUE) BY <1>11, <2>1, RetryStep DEF CycleFails
    <2>2. CASE cycle' = [Idle EXCEPT !.pc = "run", !.attempt = cycle.attempt, !.fault = TRUE]
      BY <1>0, <1>11, <2>2, CycleStep DEF CycleFails, Idle, Deciding, Reading, CyclePcs
    <2> QED BY <1>11, <2>1, <2>2 DEF CycleFails
  <1>12. CASE BeatSnapshot
    <2>1. PICK p \in {"skipped", "run"}, A \in SUBSET Territories, B \in SUBSET Territories :
            snap' = [SnapIdle EXCEPT !.pc = p, !.asked = A, !.todo = A, !.bare = B]
      BY <1>12 DEF BeatSnapshot, Active
    <2>2. snap' = [pc |-> p, asked |-> A, bare |-> B, todo |-> A, flushed |-> {},
                   aborted |-> FALSE, created |-> 0, failures |-> 0, saved |-> 0]
      BY <2>1 DEF SnapIdle
    <2>3. Counted' BY <2>2 DEF Counted
    <2>4. snap' \in SnapRows BY <2>2 DEF SnapPcs, SnapRows
    <2> QED BY <1>12, <2>3, <2>4, SnapStep DEF BeatSnapshot
  <1>13. ASSUME NEW t \in Territories, SnapshotTerritory(t) \/ MetricsFail(t) PROVE GrowthInv'
    BY <1>13, CountStep
  <1>14. CASE CommitSnapshots
    <2>1. snap.pc = "run" /\ snap.todo = {} /\ UNCHANGED <<territory, log, cycle, grown>>
      BY <1>14 DEF CommitSnapshots
    <2>2. /\ snap.aborted => snap.failures > 0 /\ snap.flushed = {}
          /\ ~snap.aborted => snap.failures = 0 /\ snap.flushed = snap.asked
          /\ snap.asked \in SUBSET Territories /\ snap.created \in Nat /\ snap.failures \in Nat
          /\ snap.flushed \in SUBSET Territories
      BY <1>0, <2>1 DEF GrowthInv, Counted, SnapRows
    <2>3. Cardinality(snap.flushed) \in Nat
      BY <2>2, TerritoriesAssumption, FS_Subset, FS_CardinalityType
    <2>4. CASE snap' = [SnapIdle EXCEPT !.pc = "failed"]
      <3>1. snap' \in SnapRows /\ snap'.pc = "failed" /\ snap'.todo = {}
        BY <2>4 DEF SnapIdle, SnapPcs, SnapRows
      <3> QED BY <2>1, <3>1, SnapStep DEF Counted
    <2>5. CASE ~(snap' = [SnapIdle EXCEPT !.pc = "failed"])
      <3>1. snap' = [pc |-> "ok", asked |-> snap.asked, bare |-> {}, todo |-> {}, flushed |-> {},
                     aborted |-> FALSE, created |-> snap.created, failures |-> snap.failures,
                     saved |-> Cardinality(snap.flushed)]
        BY <1>14, <2>5 DEF CommitSnapshots, SnapIdle
      <3>2. snap' \in SnapRows BY <2>2, <2>3, <3>1 DEF SnapPcs, SnapRows
      <3>3. Cardinality({}) = 0 BY FS_EmptySet
      <3>4. Counted' BY <2>2, <3>1, <3>3 DEF Counted
      <3> QED BY <2>1, <3>2, <3>4, SnapStep
    <2> QED BY <2>4, <2>5
  <1>15. CASE UNCHANGED vars
    BY <1>15 DEF vars, GrowthInv, GrowthTyped, Deciding, Counted, Kept, Logged, Present, Reading, Expands
  <1> QED
    BY <1>1, <1>2, <1>3, <1>4, <1>5, <1>6, <1>7, <1>8, <1>9, <1>10, <1>11, <1>12, <1>13, <1>14, <1>15
       DEF Next

(* Territories, the decision log and the two tasks keep their types.       *)
THEOREM GrowthTypes == Spec => []TypeOK
  <1>1. GrowthInv => TypeOK
    <2> SUFFICES ASSUME GrowthInv PROVE TypeOK OBVIOUS
    <2>1. PICK l \in Seq(Entries) : l = log BY DEF GrowthInv, GrowthTyped
    <2>2. \A i \in DOMAIN log : log[i] \in Entries BY <2>1
    <2>3. cycle.decision.id \in Ids BY DEF GrowthInv, GrowthTyped, Made, NoDecision, Ids
    <2> QED
      BY <2>2, <2>3 DEF GrowthInv, GrowthTyped, TypeOK, Entries, CyclePcs, SnapPcs, SnapRows,
                        TerritoryRows, Counted
  <1> QED BY <1>1, GrowthInit, GrowthStep, PTL DEF Spec

(* A city that a growth cycle added stays in its territory until the       *)
(* operator takes it out, and is in the log, for any number of cycles and  *)
(* any changes between the read and the write of the list                  *)
(* (execute_growth_decision).                                              *)
THEOREM CitiesKept == Spec => []GrownCitiesKept
  <1>1. GrowthInv => GrownCitiesKept BY KeptIsProperty DEF GrowthInv, Kept
  <1> QED BY <1>1, GrowthInit, GrowthStep, PTL DEF Spec

(* A snapshot task that answers ok stored a snapshot of every active       *)
(* territory, or counted a failure and stored none                         *)
(* (task_snapshot_territory_performance).                                  *)
THEOREM SnapshotsAllStored == Spec => []SnapshotsAllOrNone
  <1>1. GrowthInv => SnapshotsAllOrNone BY DEF GrowthInv, Counted, SnapshotsAllOrNone
  <1> QED BY <1>1, GrowthInit, GrowthStep, PTL DEF Spec


---------------------------------------------------------------------------
(* The client of the model                                                 *)

(* OLLAMA_MAX_RETRIES allows one attempt at least.                         *)
Attempts == MaxAttempts \in Nat \ {0}

CallRows == [pc : {"idle", "post", "record", "done", "raised"}, structured : BOOLEAN,
             fallback : BOOLEAN, attempt : 0..MaxAttempts, status : LLM!Statuses \cup {"none"},
             source : {"none", "model", "repaired", "fallback"}, fallback_used : BOOLEAN,
             degraded : BOOLEAN, parse_valid : BOOLEAN, tokens : Nat]

Marked(r) ==
  r.pc \in {"record", "done"} =>
    /\ r.fallback_used <=> r.source = "fallback"
    /\ r.status = "succeeded" => r.source = "model"
    /\ r.source = "none" => ~r.parse_valid
    /\ r.status \in LLM!Statuses

InvocationRows == [status : LLM!Statuses, fallback_used : BOOLEAN, degraded : BOOLEAN,
                   parse_valid : BOOLEAN, cost : SUBSET Nat]

(* A call that waits for an answer has not used its fallback.              *)
Fresh(r) == r.pc = "post" => ~r.fallback_used /\ ~r.parse_valid

LLMInv ==
  /\ call \in [Calls -> CallRows] /\ rows \in Seq(InvocationRows) /\ budget \in SUBSET Budgets
  /\ \A c \in Calls : Marked(call[c]) /\ Fresh(call[c])

(* What an answer makes of a waiting call.                                 *)
LEMMA FallbackRow ==
  ASSUME NEW r \in CallRows, Fresh(r), r.pc = "post", NEW answered \in {0, 1}
  PROVE  LLM!Fallback(r, answered) \in CallRows /\ Marked(LLM!Fallback(r, answered))
         /\ LLM!Fallback(r, answered).pc = "record"
  <1>0. answered \in Nat OBVIOUS
  <1>1. CASE r.fallback
    <2>1. PICK b \in BOOLEAN : b = ~r.structured OBVIOUS
    <2>2. LLM!Fallback(r, answered) =
            [r EXCEPT !.pc = "record", !.tokens = answered, !.status = "fallback",
                      !.source = "fallback", !.fallback_used = TRUE, !.degraded = TRUE,
                      !.parse_valid = b]
      BY <1>1, <2>1 DEF LLM!Fallback, CallRows
    <2> QED BY <1>0, <2>2 DEF CallRows, Marked, LLM!Statuses
  <1>2. CASE ~r.fallback
    <2>1. PICK st \in {"parse_failed", "failed"} :
            st = IF answered > 0 THEN "parse_failed" ELSE "failed"
      OBVIOUS
    <2>2. PICK b \in BOOLEAN : b <=> (answered > 0) OBVIOUS
    <2>3. LLM!Fallback(r, answered) =
            [r EXCEPT !.pc = "record", !.tokens = answered, !.status = st, !.source = "none",
                      !.fallback_used = FALSE, !.degraded = b, !.parse_valid = FALSE]
      BY <1>2, <2>1, <2>2 DEF LLM!Fallback, CallRows
    <2> QED BY <1>0, <2>1, <2>3 DEF CallRows, Marked, LLM!Statuses
  <1> QED BY <1>1, <1>2

LEMMA ParsedRow ==
  ASSUME NEW r \in CallRows, Fresh(r), r.pc = "post", NEW text \in LLM!Texts
  PROVE  LLM!Parse(r, text) \in CallRows /\ Marked(LLM!Parse(r, text))
         /\ LLM!Parse(r, text).pc = "record"
  <1>1. CASE ~r.structured \/ text = "json"
    <2>0. PICK n \in Nat : n = 1 OBVIOUS
    <2>1. LLM!Parse(r, text) = [r EXCEPT !.pc = "record", !.tokens = n, !.status = "succeeded",
                                         !.source = "model", !.parse_valid = TRUE]
      BY <1>1, <2>0 DEF LLM!Parse
    <2>2. ~r.fallback_used BY DEF Fresh
    <2>3. LLM!Parse(r, text) \in CallRows BY <2>1 DEF CallRows, LLM!Statuses
    <2>4. Marked(LLM!Parse(r, text)) /\ LLM!Parse(r, text).pc = "record"
      BY <2>1, <2>2 DEF CallRows, Marked, LLM!Statuses
    <2> QED BY <2>3, <2>4
  <1>2. CASE ~(~r.structured \/ text = "json") /\ text = "wrapped_json"
    <2>0. PICK n \in Nat : n = 1 OBVIOUS
    <2>1. LLM!Parse(r, text) = [r EXCEPT !.pc = "record", !.tokens = n, !.status = "degraded",
                                  !.source = "repaired", !.degraded = TRUE, !.parse_valid = TRUE]
      BY <1>2, <2>0 DEF LLM!Parse
    <2>2. ~r.fallback_used BY DEF Fresh
    <2>3. LLM!Parse(r, text) \in CallRows BY <2>1 DEF CallRows, LLM!Statuses
    <2>4. Marked(LLM!Parse(r, text)) /\ LLM!Parse(r, text).pc = "record"
      BY <2>1, <2>2 DEF CallRows, Marked, LLM!Statuses
    <2> QED BY <2>3, <2>4
  <1>3. CASE ~(~r.structured \/ text = "json") /\ text # "wrapped_json"
    <2>1. LLM!Parse(r, text) = LLM!Fallback(r, 1) BY <1>3 DEF LLM!Parse
    <2> QED BY <2>1, FallbackRow
  <1> QED BY <1>1, <1>2, <1>3

LEMMA CallStep ==
  ASSUME LLMInv, NEW c \in Calls, NEW r \in CallRows, Marked(r), Fresh(r),
         call' = [call EXCEPT ![c] = r], UNCHANGED <<rows, budget>>
  PROVE  LLMInv'
  <1>1. /\ call' \in [Calls -> CallRows] /\ call'[c] = r
        /\ \A d \in Calls \ {c} : call'[d] = call[d]
    BY DEF LLMInv
  <1>2. \A d \in Calls : Marked(call'[d]) /\ Fresh(call'[d]) BY <1>1 DEF LLMInv
  <1> QED BY <1>1, <1>2 DEF LLMInv

LEMMA LLMInit == Attempts => (LLM!Init => LLMInv)
  <1>1. Attempts => LLM!Idle \in CallRows /\ Marked(LLM!Idle) /\ Fresh(LLM!Idle)
    BY DEF Attempts, LLM!Idle, CallRows, Marked, Fresh
  <1>2. LLM!Init => budget \in SUBSET Budgets /\ rows \in Seq(InvocationRows) BY DEF LLM!Init
  <1> QED BY <1>1, <1>2 DEF LLM!Init, LLMInv

LEMMA LLMStep == Attempts => (LLMInv /\ [LLM!Next]_(LLM!vars) => LLMInv')
  <1> SUFFICES ASSUME Attempts, LLMInv, [LLM!Next]_(LLM!vars) PROVE LLMInv' OBVIOUS
  <1>0. call \in [Calls -> CallRows] /\ \A c \in Calls : Marked(call[c]) /\ Fresh(call[c])
    BY DEF LLMInv
  <1>1. ASSUME NEW c \in Calls, NEW structured \in BOOLEAN, NEW fallback \in BOOLEAN,
               NEW configured \in BOOLEAN, LLM!Invoke(c, structured, fallback, configured)
        PROVE  LLMInv'
    <2>1. PICK r : r = [LLM!Idle EXCEPT
            !.pc = IF configured THEN "post" ELSE "raised", !.attempt = IF configured THEN 1 ELSE 0,
            !.structured = structured, !.fallback = fallback]
      OBVIOUS
    <2>2. 0 \in 0 .. MaxAttempts /\ 1 \in 0 .. MaxAttempts BY DEF Attempts
    <2>3. r \in CallRows /\ Marked(r) /\ Fresh(r)
      BY <2>1, <2>2 DEF LLM!Idle, CallRows, Marked, Fresh
    <2>4. call' = [call EXCEPT ![c] = r] BY <1>1, <2>1 DEF LLM!Invoke
    <2> QED BY <1>1, <2>3, <2>4, CallStep DEF LLM!Invoke
  <1>2. ASSUME NEW c \in Calls, NEW reply \in LLM!Failures, LLM!Retry(c, reply) PROVE LLMInv'
    <2>1. PICK n \in 0 .. MaxAttempts : n = call[c].attempt + 1
      BY <1>0, <1>2 DEF LLM!Retry, CallRows, Attempts
    <2>2. PICK r : r = [call[c] EXCEPT !.attempt = n] OBVIOUS
    <2>3. r \in CallRows /\ Marked(r) /\ Fresh(r)
      BY <1>0, <1>2, <2>2 DEF LLM!Retry, CallRows, Marked, Fresh
    <2>4. call' = [call EXCEPT ![c] = r] BY <1>0, <1>2, <2>1, <2>2 DEF LLM!Retry
    <2> QED BY <1>2, <2>3, <2>4, CallStep DEF LLM!Retry
  <1>3. ASSUME NEW c \in Calls, NEW reply \in LLM!Failures, LLM!GiveUp(c, reply) PROVE LLMInv'
    <2>1. PICK r : r = LLM!Fallback(call[c], 0) OBVIOUS
    <2>2. r \in CallRows /\ Marked(r) /\ r.pc = "record"
      BY <1>0, <1>3, <2>1, FallbackRow DEF LLM!GiveUp
    <2>3. call' = [call EXCEPT ![c] = r] BY <1>3, <2>1 DEF LLM!GiveUp
    <2> QED BY <1>3, <2>2, <2>3, CallStep DEF LLM!GiveUp, Fresh
  <1>4. ASSUME NEW c \in Calls, NEW text \in LLM!Texts, LLM!Answer(c, text) PROVE LLMInv'
    <2>1. PICK r : r = LLM!Parse(call[c], text) OBVIOUS
    <2>2. r \in CallRows /\ Marked(r) /\ r.pc = "record"
      BY <1>0, <1>4, <2>1, ParsedRow DEF LLM!Answer
    <2>3. call' = [call EXCEPT ![c] = r] BY <1>4, <2>1 DEF LLM!Answer
    <2> QED BY <1>4, <2>2, <2>3, CallStep DEF LLM!Answer, Fresh
  <1>5. ASSUME NEW c \in Calls, NEW recorded \in BOOLEAN, LLM!Record(c, recorded) PROVE LLMInv'
    <2>1. PICK q \in CallRows : q = call[c] /\ Marked(q) /\ q.pc = "record" BY <1>0, <1>5 DEF LLM!Record
    <2>2. PICK r : r = [q EXCEPT !.pc = "done"] OBVIOUS
    <2>3. r \in CallRows /\ Marked(r) /\ Fresh(r) BY <2>1, <2>2 DEF CallRows, Marked, Fresh
    <2>4. call' = [call EXCEPT ![c] = r] BY <1>5, <2>1, <2>2 DEF LLM!Record
    <2>5. LLM!Row(q) \in InvocationRows
      BY <2>1 DEF LLM!Row, LLM!usd_cost_estimated, InvocationRows, CallRows, Marked
    <2>6. rows' \in Seq(InvocationRows)
      <3>1. PICK v \in InvocationRows : v = LLM!Row(q) BY <2>5
      <3>2. rows' = Append(rows, v) \/ rows' = rows BY <1>5, <2>1, <3>1 DEF LLM!Record
      <3> QED BY <3>2 DEF LLMInv
    <2>7. /\ call' \in [Calls -> CallRows] /\ call'[c] = r
          /\ \A d \in Calls \ {c} : call'[d] = call[d]
      BY <1>0, <2>3, <2>4
    <2>8. \A d \in Calls : Marked(call'[d]) /\ Fresh(call'[d]) BY <1>0, <2>3, <2>7
    <2> QED BY <1>5, <2>6, <2>7, <2>8 DEF LLM!Record, LLMInv
  <1>6. CASE LLM!task_full_pipeline BY <1>6 DEF LLM!task_full_pipeline, LLMInv
  <1>7. CASE LLM!NewDay BY <1>7 DEF LLM!NewDay, LLMInv
  <1>8. CASE UNCHANGED LLM!vars BY <1>8 DEF LLM!vars, LLMInv
  <1> QED BY <1>1, <1>2, <1>3, <1>4, <1>5, <1>6, <1>7, <1>8 DEF LLM!Next

(* Calls and their rows keep their types, and no call makes more attempts  *)
(* than OLLAMA_MAX_RETRIES.                                                *)
THEOREM CallTypes == Attempts => (LLM!Spec => []LLM!TypeOK)
  <1> SUFFICES ASSUME Attempts PROVE LLM!Spec => []LLM!TypeOK OBVIOUS
  <1>1. LLM!Init => LLMInv BY LLMInit
  <1>2. LLMInv /\ [LLM!Next]_(LLM!vars) => LLMInv' BY LLMStep
  <1>3. LLMInv => LLM!TypeOK
    <2> SUFFICES ASSUME LLMInv PROVE LLM!TypeOK OBVIOUS
    <2>1. \A i \in DOMAIN rows : rows[i] \in InvocationRows BY DEF LLMInv
    <2> QED BY <2>1 DEF LLMInv, LLM!TypeOK, CallRows, InvocationRows
  <1> QED BY <1>1, <1>2, <1>3, PTL DEF LLM!Spec

(* What the caller gets from its own fallback is reported as a fallback,   *)
(* and what the model said never is (invoke_text, invoke_structured).      *)
THEOREM FallbacksMarked == Attempts => (LLM!Spec => []FallbackMarked)
  <1> SUFFICES ASSUME Attempts PROVE LLM!Spec => []FallbackMarked OBVIOUS
  <1>1. LLM!Init => LLMInv BY LLMInit
  <1>2. LLMInv /\ [LLM!Next]_(LLM!vars) => LLMInv' BY LLMStep
  <1>3. LLMInv => FallbackMarked BY DEF LLMInv, Marked, FallbackMarked, LLM!FallbackMarked
  <1> QED BY <1>1, <1>2, <1>3, PTL DEF LLM!Spec


---------------------------------------------------------------------------
(* The reviews                                                             *)

(* Checks and requests are ever so many, the evidence is bounded.          *)
BoundedEvidence == MaxEvidence \in Nat

Bodies == [status : {"none", "generating", "reviewing", "completed", "failed"},
           verdict : {"none", "error", "validated"},
           proposals : {"none", "adjusted", "executor"}, answered : BOOLEAN,
           at : [{"runs", "high", "outcomes"} -> 0..MaxEvidence], task : Review!Tasks \cup {"none"}]
TaskPcs == {"idle", "queued", "done"} \cup Review!Busy
Results == {"none", "skipped", "completed", "failed", "error"}

(* Nothing is ever committed to the reviews; the status that a task        *)
(* returns is one of a result.                                             *)
ReviewInv ==
  /\ evidence \in [{"runs", "high", "outcomes"} -> 0..MaxEvidence]
  /\ evidence["high"] <= evidence["runs"]
  /\ reviews = <<>>
  /\ task \in [Review!Tasks -> TaskPcs] /\ result \in [Review!Tasks -> Results]
  /\ session \in [Review!Tasks -> Bodies]
  /\ \A t \in Review!Tasks : task[t] = "return" => session[t].status \in {"completed", "failed"}
  /\ weekly \in {"idle", "model", "template", "notify", "ok", "failed"}
  /\ reports \in Seq({"model", "template"})

LEMMA NoReviewBody == BoundedEvidence => Review!NoReview \in Bodies
  <1>1. BoundedEvidence => Review!Zero \in [{"runs", "high", "outcomes"} -> 0..MaxEvidence]
    BY DEF BoundedEvidence, Review!Zero
  <1> QED BY <1>1 DEF Review!NoReview, Bodies

(* One task moves on, its session and its result with it.                  *)
LEMMA TaskStep ==
  ASSUME ReviewInv, NEW t \in Review!Tasks, NEW p \in TaskPcs, NEW b \in Bodies, NEW r \in Results,
         task' = [task EXCEPT ![t] = p],
         session' = [session EXCEPT ![t] = b], result' = [result EXCEPT ![t] = r],
         p = "return" => b.status \in {"completed", "failed"},
         UNCHANGED <<evidence, reviews, weekly, reports>>
  PROVE  ReviewInv'
  <1>1. /\ task' \in [Review!Tasks -> TaskPcs] /\ result' \in [Review!Tasks -> Results]
        /\ session' \in [Review!Tasks -> Bodies]
    BY DEF ReviewInv
  <1>2. \A u \in Review!Tasks : task'[u] = "return" => session'[u].status \in {"completed", "failed"}
    <2>1. /\ task'[t] = p /\ session'[t] = b
          /\ \A u \in Review!Tasks \ {t} : task'[u] = task[u] /\ session'[u] = session[u]
      BY DEF ReviewInv
    <2> QED BY <2>1 DEF ReviewInv
  <1> QED BY <1>1, <1>2 DEF ReviewInv

(* The evidence and the weekly report move beside the reviews.             *)
LEMMA WeeklyStep ==
  ASSUME ReviewInv, UNCHANGED <<evidence, reviews, task, session, result>>,
         weekly' \in {"idle", "model", "template", "notify", "ok", "failed"},
         reports' \in Seq({"model", "template"})
  PROVE  ReviewInv'
  BY DEF ReviewInv

LEMMA ReviewInit == BoundedEvidence => (Review!Init => ReviewInv)
  <1> SUFFICES ASSUME BoundedEvidence, Review!Init PROVE ReviewInv OBVIOUS
  <1>1. session \in [Review!Tasks -> Bodies] BY NoReviewBody DEF Review!Init
  <1>2. evidence \in [{"runs", "high", "outcomes"} -> 0..MaxEvidence]
        /\ evidence["high"] <= evidence["runs"]
    BY DEF Review!Init, Review!Zero, BoundedEvidence
  <1>3. reports \in Seq({"model", "template"}) /\ reviews = <<>> BY DEF Review!Init
  <1> QED BY <1>1, <1>2, <1>3 DEF Review!Init, ReviewInv, TaskPcs, Results

LEMMA ReviewStep == BoundedEvidence => (ReviewInv /\ [Review!Next]_(Review!vars) => ReviewInv')
  <1> SUFFICES ASSUME BoundedEvidence, ReviewInv, [Review!Next]_(Review!vars) PROVE ReviewInv'
    OBVIOUS
  <1>0. /\ task \in [Review!Tasks -> TaskPcs] /\ result \in [Review!Tasks -> Results]
        /\ session \in [Review!Tasks -> Bodies]
        /\ evidence \in [{"runs", "high", "outcomes"} -> 0..MaxEvidence]
        /\ Review!NoReview \in Bodies
    BY NoReviewBody DEF ReviewInv
  <1>a. Checks \subseteq Review!Tasks /\ Manuals \subseteq Review!Tasks
    BY DEF Review!Tasks
  <1>b. ASSUME NEW t \in Review!Tasks
        PROVE  /\ session = [session EXCEPT ![t] = session[t]]
               /\ result = [result EXCEPT ![t] = result[t]]
               /\ session[t] \in Bodies /\ result[t] \in Results
    BY <1>0
  <1>1. ASSUME NEW t \in Checks, NEW high \in BOOLEAN, Review!PipelineCompleted(t, high)
        PROVE  ReviewInv'
    <2>1. PICK d \in {0, 1} : d = IF high THEN 1 ELSE 0 OBVIOUS
    <2>2. evidence' = [evidence EXCEPT !.runs = evidence["runs"] + 1, !.high = evidence["high"] + d]
          /\ evidence["runs"] < MaxEvidence
      BY <1>1, <2>1 DEF Review!PipelineCompleted
    <2>3. /\ evidence["runs"] + 1 \in 0 .. MaxEvidence /\ evidence["high"] + d \in 0 .. MaxEvidence
          /\ evidence["high"] + d <= evidence["runs"] + 1
      BY <1>0, <2>2 DEF BoundedEvidence, ReviewInv
    <2>4. /\ evidence' \in [{"runs", "high", "outcomes"} -> 0..MaxEvidence]
          /\ evidence'["high"] <= evidence'["runs"]
      BY <1>0, <2>2, <2>3
    <2>5. task' \in [Review!Tasks -> TaskPcs]
          /\ \A u \in Review!Tasks : task'[u] = "return" => task[u] = "return"
      BY <1>0, <1>1 DEF Review!PipelineCompleted, TaskPcs
    <2> QED BY <1>1, <2>4, <2>5 DEF Review!PipelineCompleted, Review!weeklyVars, ReviewInv
  <1>2. CASE Review!OutcomeCaptured
    <2>1. evidence["outcomes"] + 1 \in 0 .. MaxEvidence
      BY <1>0, <1>2 DEF Review!OutcomeCaptured, BoundedEvidence
    <2>2. evidence' \in [{"runs", "high", "outcomes"} -> 0..MaxEvidence]
          /\ evidence'["high"] = evidence["high"] /\ evidence'["runs"] = evidence["runs"]
      BY <1>0, <1>2, <2>1 DEF Review!OutcomeCaptured
    <2> QED BY <1>2, <2>2 DEF Review!OutcomeCaptured, Review!weeklyVars, ReviewInv
  <1>3. ASSUME NEW t \in Manuals,
               Review!trigger_batch_review(t) \/ Review!task_generate_batch_review_manual(t)
        PROVE  ReviewInv'
    <2>1. t \in Review!Tasks BY <1>a
    <2>2. PICK p \in {"queued", "collect"} : task' = [task EXCEPT ![t] = p]
      BY <1>3 DEF Review!trigger_batch_review, Review!task_generate_batch_review_manual
    <2>3. p \in TaskPcs BY DEF TaskPcs, Review!Busy
    <2>4. UNCHANGED <<evidence, reviews, session, result, weekly, reports>>
      BY <1>3 DEF Review!trigger_batch_review, Review!task_generate_batch_review_manual,
                  Review!weeklyVars
    <2>5. session' = [session EXCEPT ![t] = session[t]] /\ result' = [result EXCEPT ![t] = result[t]]
      BY <1>b, <2>1, <2>4
    <2> QED BY <1>b, <2>1, <2>2, <2>3, <2>4, <2>5, TaskStep
  <1>4. ASSUME NEW t \in Checks, NEW enabled \in BOOLEAN, Review!task_check_batch_review(t, enabled)
        PROVE  ReviewInv'
    <2>1. t \in Review!Tasks BY <1>a
    <2>2. PICK p \in {"done", "collect"}, r \in Results :
            task' = [task EXCEPT ![t] = p] /\ result' = [result EXCEPT ![t] = r]
      BY <1>4, <1>b, <2>1 DEF Review!task_check_batch_review, Results
    <2>3. p \in TaskPcs BY DEF TaskPcs, Review!Busy
    <2> QED BY <1>4, <1>b, <2>1, <2>2, <2>3, TaskStep
            DEF Review!task_check_batch_review, Review!weeklyVars
  <1>5. ASSUME NEW t \in Review!Tasks, Review!CreateReview(t) PROVE ReviewInv'
    <2>1. PICK n \in Bodies : n = Review!NoReview BY <1>0
    <2>2. PICK b : b = [n EXCEPT !.status = "generating", !.at = evidence, !.task = t] OBVIOUS
    <2>3. b \in Bodies BY <1>0, <2>2 DEF Bodies
    <2>4. "synthesis" \in TaskPcs BY DEF TaskPcs, Review!Busy
    <2> QED BY <1>5, <1>b, <2>1, <2>2, <2>3, <2>4, TaskStep
            DEF Review!CreateReview, Review!NewReview, Review!weeklyVars
  <1>6. ASSUME NEW t \in Review!Tasks, NEW parsed \in BOOLEAN, Review!Synthesis(t, parsed)
        PROVE  ReviewInv'
    <2>1. PICK p \in {"review", "return"}, st \in {"reviewing", "failed"} :
            /\ task' = [task EXCEPT ![t] = p] /\ session' = [session EXCEPT ![t].status = st]
            /\ p = "return" => st = "failed"
      BY <1>6 DEF Review!Synthesis
    <2>2. PICK q \in Bodies : q = session[t] BY <1>0
    <2>3. PICK b : b = [q EXCEPT !.status = st] OBVIOUS
    <2>4. b \in Bodies /\ b.status = st BY <2>3 DEF Bodies
    <2>5. session' = [session EXCEPT ![t] = b] BY <2>1, <2>2, <2>3
    <2>6. p \in TaskPcs BY DEF TaskPcs, Review!Busy
    <2>7. UNCHANGED <<evidence, reviews, result, weekly, reports>>
      BY <1>6 DEF Review!Synthesis, Review!weeklyVars
    <2>8. result' = [result EXCEPT ![t] = result[t]] BY <1>b, <2>7
    <2>9. p = "return" => b.status \in {"completed", "failed"} BY <2>1, <2>4
    <2>10. task' = [task EXCEPT ![t] = p] BY <2>1
    <2>11. b \in Bodies /\ result[t] \in Results BY <1>b, <2>4
    <2> QED BY <2>5, <2>6, <2>7, <2>8, <2>9, <2>10, <2>11, TaskStep
  <1>7. ASSUME NEW t \in Review!Tasks, NEW answer \in Review!Answers, Review!Validation(t, answer)
        PROVE  ReviewInv'
    <2>1. /\ Review!Verdict(answer) \in {"none", "error", "validated"}
          /\ Review!Proposals(answer) \in {"none", "adjusted", "executor"}
          /\ (answer = "reviewer") \in BOOLEAN
      BY DEF Review!Verdict, Review!Proposals, Review!Answers
    <2>2. PICK q \in Bodies : q = session[t] BY <1>0
    <2>3. PICK b : b = [q EXCEPT !.status = "completed", !.verdict = Review!Verdict(answer),
                                 !.proposals = Review!Proposals(answer),
                                 !.answered = (answer = "reviewer")]
      OBVIOUS
    <2>4. b \in Bodies /\ b.status = "completed" BY <2>1, <2>3 DEF Bodies
    <2>5. session' = [session EXCEPT ![t] = b] BY <1>0, <1>7, <2>2, <2>3 DEF Review!Validation
    <2>6. "return" \in TaskPcs BY DEF TaskPcs, Review!Busy
    <2>7. UNCHANGED <<evidence, reviews, result, weekly, reports>>
          /\ task' = [task EXCEPT ![t] = "return"]
      BY <1>7 DEF Review!Validation, Review!weeklyVars
    <2>8. result' = [result EXCEPT ![t] = result[t]] BY <1>b, <2>7
    <2> QED BY <1>b, <2>4, <2>5, <2>6, <2>7, <2>8, TaskStep
  <1>8. ASSUME NEW t \in Review!Tasks, Review!Return(t) PROVE ReviewInv'
    <2>1. session[t].status \in Results BY <1>8 DEF Review!Return, ReviewInv, Results
    <2>2. "done" \in TaskPcs BY DEF TaskPcs
    <2> QED BY <1>0, <1>8, <2>1, <2>2, TaskStep DEF Review!Return, Review!weeklyVars
  <1>9. ASSUME NEW t \in Review!Tasks, Review!DatabaseError(t) PROVE ReviewInv'
    <2>1. "error" \in Results /\ "done" \in TaskPcs BY DEF TaskPcs, Results
    <2> QED BY <1>0, <1>9, <2>1, TaskStep DEF Review!DatabaseError, Review!weeklyVars
  <1>10. ASSUME NEW t \in Review!Tasks, Review!WorkerLost(t) PROVE ReviewInv'
    <2>1. "queued" \in TaskPcs BY DEF TaskPcs
    <2> QED BY <1>0, <1>10, <1>b, <2>1, TaskStep DEF Review!WorkerLost, Review!weeklyVars
  <1>11. ASSUME NEW answer \in {"model", "template"}, Review!CollectWeekly(answer) PROVE ReviewInv'
    BY <1>11, WeeklyStep DEF Review!CollectWeekly, ReviewInv
  <1>12. CASE Review!CommitReport
    <2>1. PICK w \in {"model", "template"} : w = weekly BY <1>12 DEF Review!CommitReport
    <2>2. reports' = Append(reports, w) BY <1>12, <2>1 DEF Review!CommitReport
    <2>3. reports' \in Seq({"model", "template"}) BY <2>2 DEF ReviewInv
    <2> QED BY <1>12, <2>3, WeeklyStep DEF Review!CommitReport
  <1>13. CASE Review!CollectFails \/ Review!NotifyOperator \/ Review!WeeklyLost
    BY <1>13, WeeklyStep
       DEF Review!CollectFails, Review!NotifyOperator, Review!WeeklyLost, ReviewInv
  <1>14. CASE UNCHANGED Review!vars BY <1>14 DEF Review!vars, ReviewInv
  <1> QED
    BY <1>1, <1>2, <1>3, <1>4, <1>5, <1>6, <1>7, <1>8, <1>9, <1>10, <1>11, <1>12, <1>13, <1>14
       DEF Review!Next

(* Evidence, tasks, sessions and reports keep their types; the evidence    *)
(* never counts more high leads than runs.                                 *)
THEOREM ReviewTypes == BoundedEvidence => (Review!Spec => []Review!TypeOK)
  <1> SUFFICES ASSUME BoundedEvidence PROVE Review!Spec => []Review!TypeOK OBVIOUS
  <1>1. Review!Init => ReviewInv BY ReviewInit
  <1>2. ReviewInv /\ [Review!Next]_(Review!vars) => ReviewInv' BY ReviewStep
  <1>3. ReviewInv => Review!TypeOK
    BY DEF ReviewInv, Review!TypeOK, Bodies, TaskPcs, Results
  <1> QED BY <1>1, <1>2, <1>3, PTL DEF Review!Spec


---------------------------------------------------------------------------
(* The batch pipeline                                                      *)

(* The code's limit of crawl rounds, and the bounds on what goes wrong.    *)
BatchBounds == MaxRounds \in Nat /\ MaxStops \in Nat /\ MaxCrashes \in Nat /\ MaxRedis \in Nat

RunStatuses == {"none", "queued", "running", "retrying", "stopping", "stopped", "succeeded", "failed"}
RunRows == [status : RunStatuses, stop : BOOLEAN]
WorkerPcs == Batch!Idle \cup {"top", "crawl", "lead", "begin", "stop", "stopped", "finish", "finished"}
TriedRows == [begun : SUBSET Leads, again : BOOLEAN]

(* Each task with a row stands once in the order of the rows.              *)
RowsKept ==
  /\ row \in [Batch!Tasks -> RunRows] /\ created \in Seq(Batch!Tasks)
  /\ IsFiniteSet(Batch!ToSet(created)) /\ Len(created) = Cardinality(Batch!ToSet(created))
  /\ \A t \in Batch!Tasks : row[t].status # "none" => t \in Batch!ToSet(created)

WorkersTyped ==
  /\ worker \in [Batch!Tasks -> WorkerPcs] /\ batch \in [Batch!Tasks -> SUBSET Leads]
  /\ rounds \in [Batch!Tasks -> 0..MaxRounds] /\ tried \in [Batch!Tasks -> TriedRows]

RestTyped ==
  /\ mirror \in Batch!Mirrors /\ redisUp \in BOOLEAN
  /\ request \in [Requests -> {"idle", "checked", "sent", "answered"}]
  /\ stopper \in Batch!Tasks \cup {Batch!None}
  /\ leads \in [Leads -> {"absent", "new", "past"}]
  /\ spent \in [stops : 0..MaxStops, crashes : 0..MaxCrashes, redis : 0..MaxRedis]

(* A lead counts only under a committed stop, and a worker that began one  *)
(* under it is past the last check it can pass.                            *)
StopCounted ==
  /\ after \in [Batch!Tasks -> {0, 1}]
  /\ \A t \in Batch!Tasks : /\ ~row[t].stop => after[t] = 0
                            /\ after[t] = 1 => worker[t] # "begin"

BatchInv == RowsKept /\ WorkersTyped /\ RestTyped /\ StopCounted

LEMMA BatchInit == BatchBounds => (Batch!Init => BatchInv)
  <1> SUFFICES ASSUME BatchBounds, Batch!Init PROVE BatchInv OBVIOUS
  <1>1. RowsKept
    <2>1. Batch!NoRow \in RunRows /\ Batch!NoRow.status = "none"
      BY DEF Batch!NoRow, RunRows, RunStatuses
    <2>2. created = <<>> /\ row = [t \in Batch!Tasks |-> Batch!NoRow] BY DEF Batch!Init
    <2>3. Batch!ToSet(created) = {} /\ Len(created) = 0 /\ created \in Seq(Batch!Tasks)
      BY <2>2 DEF Batch!ToSet
    <2> QED BY <2>1, <2>2, <2>3, FS_EmptySet DEF RowsKept
  <1>2. WorkersTyped
    <2>1. Batch!Untried \in TriedRows BY DEF Batch!Untried, TriedRows
    <2>2. 0 \in 0 .. MaxRounds BY DEF BatchBounds
    <2> QED BY <2>1, <2>2 DEF Batch!Init, WorkersTyped, WorkerPcs, Batch!Idle
  <1>3. RestTyped
    <2>1. 0 \in 0 .. MaxStops /\ 0 \in 0 .. MaxCrashes /\ 0 \in 0 .. MaxRedis BY DEF BatchBounds
    <2> QED BY <2>1 DEF Batch!Init, RestTyped, Batch!Mirrors
  <1>4. StopCounted BY DEF Batch!Init, StopCounted
  <1> QED BY <1>1, <1>2, <1>3, <1>4 DEF BatchInv

(* A row is written: new rows are appended to the order.                   *)
LEMMA RowWritten ==
  ASSUME RowsKept, NEW t \in Batch!Tasks, NEW r \in RunRows, Batch!SetRow(t, r)
  PROVE  RowsKept' /\ row' = [row EXCEPT ![t] = r]
  <1>1. row' = [row EXCEPT ![t] = r] /\ row' \in [Batch!Tasks -> RunRows]
    BY DEF Batch!SetRow, RowsKept
  <1>2. CASE t \in Batch!ToSet(created)
    <2>1. created' = created BY <1>2 DEF Batch!SetRow
    <2>2. Batch!ToSet(created') = Batch!ToSet(created) BY <2>1
    <2>3. \A u \in Batch!Tasks : row'[u].status # "none" => u \in Batch!ToSet(created)
      BY <1>1, <1>2 DEF RowsKept
    <2> QED BY <1>1, <2>1, <2>2, <2>3 DEF RowsKept
  <1>3. CASE t \notin Batch!ToSet(created)
    <2>1. created' = Append(created, t) BY <1>3 DEF Batch!SetRow
    <2>2. PICK l \in Seq(Batch!Tasks) : l = created BY DEF RowsKept
    <2>3. /\ DOMAIN l = 1 .. Len(l) /\ Len(l) \in Nat /\ DOMAIN Append(l, t) = 1 .. Len(l) + 1
          /\ Append(l, t) \in Seq(Batch!Tasks) /\ Len(Append(l, t)) = Len(l) + 1
          /\ Append(l, t)[Len(l) + 1] = t /\ \A i \in 1 .. Len(l) : Append(l, t)[i] = l[i]
      OBVIOUS
    <2>4. Batch!ToSet(Append(l, t)) = Batch!ToSet(l) \cup {t}
      <3>1. Batch!ToSet(Append(l, t)) = {Append(l, t)[i] : i \in 1 .. Len(l) + 1}
        BY <2>3 DEF Batch!ToSet
      <3>2. Batch!ToSet(l) = {l[i] : i \in 1 .. Len(l)} BY <2>3 DEF Batch!ToSet
      <3>3. \A i \in 1 .. Len(l) + 1 : i \in 1 .. Len(l) \/ i = Len(l) + 1 BY <2>3
      <3>4. \A i \in 1 .. Len(l) : i \in 1 .. Len(l) + 1 BY <2>3
      <3>5. Len(l) + 1 \in 1 .. Len(l) + 1 BY <2>3
      <3> QED BY <2>3, <3>1, <3>2, <3>3, <3>4, <3>5
    <2>5. IsFiniteSet(Batch!ToSet(l)) /\ Len(l) = Cardinality(Batch!ToSet(l)) BY <2>2 DEF RowsKept
    <2>6. /\ IsFiniteSet(Batch!ToSet(l) \cup {t})
          /\ Cardinality(Batch!ToSet(l) \cup {t}) = Cardinality(Batch!ToSet(l)) + 1
      BY <1>3, <2>2, <2>5, FS_AddElement
    <2>7. IsFiniteSet(Batch!ToSet(created')) /\ Len(created') = Cardinality(Batch!ToSet(created'))
      BY <2>1, <2>2, <2>3, <2>4, <2>5, <2>6
    <2>8. \A u \in Batch!Tasks : row'[u].status # "none" => u \in Batch!ToSet(created')
      BY <1>1, <2>1, <2>2, <2>4 DEF RowsKept
    <2> QED BY <1>1, <2>1, <2>2, <2>3, <2>7, <2>8 DEF RowsKept
  <1> QED BY <1>1, <1>2, <1>3

(* Unless a lead is begun, a check passed or a row finished, the count of  *)
(* leads begun under a stop stays right.                                   *)
LEMMA CountKept ==
  ASSUME StopCounted, after' = after,
         \A t \in Batch!Tasks : /\ row[t].stop => row'[t].stop
                                /\ worker'[t] = "begin" => worker[t] = "begin"
  PROVE  StopCounted'
  BY DEF StopCounted

(* request_task_stop finds a youngest row whenever there is an active one. *)
LEMMA YoungestIsThere ==
  ASSUME RowsKept, Batch!ActiveRows # {}
  PROVE  Batch!Youngest(Batch!ActiveRows) \in Batch!Tasks
  <1> DEFINE S == Batch!ActiveRows
             pos(t) == CHOOSE i \in DOMAIN created : created[i] = t
             n == Len(created)
             T == {n - pos(t) : t \in S}
  <1>1. S \subseteq Batch!Tasks /\ \A t \in S : t \in Batch!ToSet(created)
    BY DEF RowsKept, Batch!ActiveRows, Batch!ACTIVE_TASK_RUN_STATUSES
  <1>2. n \in Nat /\ DOMAIN created = 1 .. n BY DEF RowsKept
  <1>3. \A t \in S : pos(t) \in 1 .. n BY <1>1, <1>2 DEF Batch!ToSet
  <1> HIDE DEF pos
  <1>4. T \in SUBSET Nat /\ T # {} BY <1>2, <1>3
  <1>5. PICK x \in T : \A y \in T : x <= y BY <1>4, SmallestNat
  <1>6. PICK t \in S : x = n - pos(t) BY <1>5
  <1>7. ASSUME NEW u \in S PROVE pos(u) <= pos(t)
    <2>1. n - pos(t) <= n - pos(u) BY <1>5, <1>6
    <2>2. pos(t) \in Nat /\ pos(u) \in Nat BY <1>2, <1>3
    <2> HIDE DEF n
    <2> QED BY <1>2, <2>1, <2>2
  <1>8. Batch!Youngest(S) \in S BY <1>7 DEF Batch!Youngest, pos
  <1> QED BY <1>1, <1>8


(* A step of the workers, the requests or Redis that writes no row.        *)
LEMMA NoRowWritten == ASSUME RowsKept, UNCHANGED <<row, created>> PROVE RowsKept'
  <1>1. Batch!ToSet(created') = Batch!ToSet(created) BY DEF Batch!ToSet
  <1> QED BY <1>1 DEF RowsKept

LEMMA Mirrored ==
  ASSUME RestTyped, NEW s \in Batch!Mirrors, Batch!MirrorAs(s) PROVE mirror' \in Batch!Mirrors
  BY DEF RestTyped, Batch!MirrorAs

(* A worker goes from one place to another.                                *)
LEMMA Went ==
  ASSUME WorkersTyped, NEW t \in Batch!Tasks, NEW p \in WorkerPcs, Batch!Go(t, p)
  PROVE  /\ worker' \in [Batch!Tasks -> WorkerPcs]
         /\ worker'[t] = p /\ \A u \in Batch!Tasks \ {t} : worker'[u] = worker[u]
  BY DEF WorkersTyped, Batch!Go

LEMMA Left ==
  ASSUME BatchBounds, WorkersTyped, NEW t \in Batch!Tasks, NEW p \in WorkerPcs, Batch!Leave(t, p)
  PROVE  /\ WorkersTyped'
         /\ worker'[t] = p /\ \A u \in Batch!Tasks \ {t} : worker'[u] = worker[u]
  <1>1. Batch!Untried \in TriedRows BY DEF Batch!Untried, TriedRows
  <1>2. 0 \in 0 .. MaxRounds BY DEF BatchBounds
  <1>3. /\ worker' \in [Batch!Tasks -> WorkerPcs]
        /\ worker'[t] = p /\ \A u \in Batch!Tasks \ {t} : worker'[u] = worker[u]
    BY Went DEF Batch!Leave
  <1> QED BY <1>1, <1>2, <1>3 DEF Batch!Leave, WorkersTyped

(* The steps of POST /pipelines/batch and of its stop endpoint.            *)
LEMMA RequestStep ==
  ASSUME BatchInv, NEW r \in Requests,
         Batch!StartCheck(r) \/ Batch!StartDelay(r) \/ Batch!StartQueue(r)
  PROVE  BatchInv'
  <1>0. RowsKept /\ WorkersTyped /\ RestTyped /\ StopCounted /\ r \in Batch!Tasks
    BY DEF BatchInv, Batch!Tasks
  <1>1. CASE Batch!StartCheck(r)
    <2>1. PICK q \in {"checked", "answered"} : request' = [request EXCEPT ![r] = q]
      BY <1>1 DEF Batch!StartCheck
    <2>2. RestTyped' BY <1>0, <1>1, <2>1 DEF Batch!StartCheck, RestTyped
    <2>3. WorkersTyped' /\ StopCounted' BY <1>0, <1>1 DEF Batch!StartCheck, WorkersTyped, StopCounted
    <2> QED BY <1>0, <1>1, <2>2, <2>3, NoRowWritten DEF Batch!StartCheck, BatchInv
  <1>2. CASE Batch!StartDelay(r)
    <2>1. "queued" \in WorkerPcs BY DEF WorkerPcs, Batch!Idle
    <2>2. /\ worker' \in [Batch!Tasks -> WorkerPcs]
          /\ worker'[r] = "queued" /\ \A u \in Batch!Tasks \ {r} : worker'[u] = worker[u]
      BY <1>0, <1>2, <2>1, Went DEF Batch!StartDelay
    <2>3. WorkersTyped' BY <1>0, <1>2, <2>2 DEF Batch!StartDelay, WorkersTyped
    <2>4. RestTyped' BY <1>0, <1>2 DEF Batch!StartDelay, RestTyped
    <2>5. \A t \in Batch!Tasks : worker'[t] = "begin" => worker[t] = "begin" BY <2>2
    <2>6. StopCounted' BY <1>0, <1>2, <2>5, CountKept DEF Batch!StartDelay
    <2> QED BY <1>0, <1>2, <2>3, <2>4, <2>6, NoRowWritten DEF Batch!StartDelay, BatchInv
  <1>3. CASE Batch!StartQueue(r)
    <2>1. RowsKept' /\ \A t \in Batch!Tasks : row[t].stop => row'[t].stop
      <3>1. CASE row[r].status \in Batch!TASK_PROGRESS_STATUSES
        BY <1>0, <1>3, <3>1, NoRowWritten DEF Batch!StartQueue
      <3>2. CASE row[r].status \notin Batch!TASK_PROGRESS_STATUSES
        <4>1. PICK q \in RunRows : q = row[r] BY <1>0 DEF RowsKept
        <4>2. PICK v : v = [q EXCEPT !.status = "queued"] OBVIOUS
        <4>3. v \in RunRows /\ v.stop = q.stop BY <4>2 DEF RunRows, RunStatuses
        <4>4. Batch!SetRow(r, v) BY <1>3, <3>2, <4>1, <4>2 DEF Batch!StartQueue
        <4>5. RowsKept' /\ row' = [row EXCEPT ![r] = v] BY <1>0, <4>3, <4>4, RowWritten
        <4> QED BY <1>0, <4>1, <4>3, <4>5 DEF RowsKept
      <3> QED BY <3>1, <3>2
    <2>2. WorkersTyped' BY <1>0, <1>3 DEF Batch!StartQueue, WorkersTyped
    <2>3. RestTyped' BY <1>0, <1>3 DEF Batch!StartQueue, RestTyped
    <2>4. StopCounted' BY <1>0, <1>3, <2>1, CountKept DEF Batch!StartQueue
    <2> QED BY <2>1, <2>2, <2>3, <2>4 DEF BatchInv
  <1> QED BY <1>1, <1>2, <1>3

LEMMA StopStep ==
  ASSUME BatchBounds, BatchInv, Batch!StopRead \/ Batch!StopWrite PROVE BatchInv'
  <1>0. RowsKept /\ WorkersTyped /\ RestTyped /\ StopCounted BY DEF BatchInv
  <1>1. CASE Batch!StopRead
    <2>1. PICK n \in 0 .. MaxStops : n = spent.stops + 1
      BY <1>0, <1>1 DEF Batch!StopRead, RestTyped, BatchBounds
    <2>2. spent' = [spent EXCEPT !.stops = n] BY <1>0, <1>1, <2>1 DEF Batch!StopRead, RestTyped
    <2>3. spent' \in [stops : 0..MaxStops, crashes : 0..MaxCrashes, redis : 0..MaxRedis]
      BY <1>0, <2>2 DEF RestTyped
    <2>4. stopper' \in Batch!Tasks \cup {Batch!None} /\ mirror' \in Batch!Mirrors
      <3>1. CASE Batch!ActiveRows # {}
        BY <1>0, <1>1, <3>1, YoungestIsThere DEF Batch!StopRead, RestTyped
      <3>2. CASE Batch!ActiveRows = {}
        <4>1. PICK s \in {"stopping", "none"} : Batch!MirrorAs(s) BY <1>1, <3>2 DEF Batch!StopRead
        <4>2. s \in Batch!Mirrors BY DEF Batch!Mirrors
        <4> QED BY <1>0, <1>1, <3>2, <4>1, <4>2, Mirrored DEF Batch!StopRead, RestTyped
      <3> QED BY <3>1, <3>2
    <2>5. RestTyped' BY <1>0, <1>1, <2>3, <2>4 DEF Batch!StopRead, RestTyped
    <2>6. WorkersTyped' /\ StopCounted' BY <1>0, <1>1 DEF Batch!StopRead, WorkersTyped, StopCounted
    <2> QED BY <1>0, <1>1, <2>5, <2>6, NoRowWritten DEF Batch!StopRead, BatchInv
  <1>2. CASE Batch!StopWrite
    <2>1. stopper \in Batch!Tasks BY <1>0, <1>2 DEF Batch!StopWrite, RestTyped
    <2>2. PICK v \in RunRows : v = [status |-> "stopping", stop |-> TRUE]
      BY DEF RunRows, RunStatuses
    <2>3. RowsKept' /\ row' = [row EXCEPT ![stopper] = v]
      BY <1>0, <1>2, <2>1, <2>2, RowWritten DEF Batch!StopWrite
    <2>4. \A t \in Batch!Tasks : row[t].stop => row'[t].stop BY <1>0, <2>1, <2>2, <2>3 DEF RowsKept
    <2>5. WorkersTyped' BY <1>0, <1>2 DEF Batch!StopWrite, WorkersTyped
    <2>6. RestTyped' BY <1>0, <1>2 DEF Batch!StopWrite, RestTyped
    <2>7. StopCounted' BY <1>0, <1>2, <2>4, CountKept DEF Batch!StopWrite
    <2> QED BY <2>3, <2>5, <2>6, <2>7 DEF BatchInv
  <1> QED BY <1>1, <1>2


(* The steps of a worker that only look: the head of the loop, the crawl   *)
(* and the check before a lead.                                            *)
LEMMA LookStep ==
  ASSUME BatchBounds, BatchInv, NEW t \in Batch!Tasks,
         Batch!Top(t) \/ Batch!Crawl(t) \/ Batch!NextLead(t)
  PROVE  BatchInv'
  <1>0. RowsKept /\ WorkersTyped /\ RestTyped /\ StopCounted BY DEF BatchInv
  <1>a. {"top", "crawl", "lead", "begin", "stop", "finish"} \subseteq WorkerPcs BY DEF WorkerPcs
  <1>b. 0 \in 0 .. MaxRounds /\ rounds[t] \in 0 .. MaxRounds BY <1>0 DEF BatchBounds, WorkersTyped
  <1>c. ASSUME mirror' = mirror \/ Batch!MirrorAs("running") PROVE mirror' \in Batch!Mirrors
    <2>1. "running" \in Batch!Mirrors BY DEF Batch!Mirrors
    <2> QED BY <1>0, <1>c, <2>1, Mirrored DEF RestTyped
  <1>1. CASE Batch!Top(t)
    <2>1. PICK p \in {"stop", "lead", "crawl", "finish"} : Batch!Go(t, p) BY <1>1 DEF Batch!Top
    <2>2. /\ worker' \in [Batch!Tasks -> WorkerPcs]
          /\ worker'[t] = p /\ \A u \in Batch!Tasks \ {t} : worker'[u] = worker[u]
      BY <1>0, <1>a, <2>1, Went
    <2>3. rounds' \in [Batch!Tasks -> 0..MaxRounds]
      <3>1. CASE rounds[t] < MaxRounds /\ rounds' = [rounds EXCEPT ![t] = @ + 1]
        <4>1. rounds[t] + 1 \in 0 .. MaxRounds BY <1>b, <3>1 DEF BatchBounds
        <4> QED BY <1>0, <3>1, <4>1 DEF WorkersTyped
      <3>2. CASE rounds' = [rounds EXCEPT ![t] = 0] BY <1>0, <1>b, <3>2 DEF WorkersTyped
      <3>3. CASE rounds' = rounds BY <1>0, <3>3 DEF WorkersTyped
      <3> QED BY <1>1, <3>1, <3>2, <3>3 DEF Batch!Top
    <2>4. batch' \in [Batch!Tasks -> SUBSET Leads]
      <3>1. batch' = batch \/ batch' = [batch EXCEPT ![t] = Batch!NewLeads] BY <1>1 DEF Batch!Top
      <3>2. Batch!NewLeads \in SUBSET Leads BY DEF Batch!NewLeads
      <3> QED BY <1>0, <3>1, <3>2 DEF WorkersTyped
    <2>5. WorkersTyped' BY <1>0, <1>1, <2>2, <2>3, <2>4 DEF Batch!Top, WorkersTyped
    <2>6. mirror' \in Batch!Mirrors BY <1>1, <1>c DEF Batch!Top
    <2>7. RestTyped' BY <1>0, <1>1, <2>6 DEF Batch!Top, RestTyped
    <2>8. StopCounted' BY <1>0, <1>1, <2>2, CountKept DEF Batch!Top
    <2> QED BY <1>0, <1>1, <2>5, <2>7, <2>8, NoRowWritten DEF Batch!Top, BatchInv
  <1>2. CASE Batch!Crawl(t)
    <2>1. PICK p \in {"top", "finish", "lead"} : Batch!Go(t, p) BY <1>2 DEF Batch!Crawl
    <2>2. /\ worker' \in [Batch!Tasks -> WorkerPcs]
          /\ worker'[t] = p /\ \A u \in Batch!Tasks \ {t} : worker'[u] = worker[u]
      BY <1>0, <1>a, <2>1, Went
    <2>3. /\ leads' \in [Leads -> {"absent", "new", "past"}]
          /\ batch' \in [Batch!Tasks -> SUBSET Leads] /\ rounds' \in [Batch!Tasks -> 0..MaxRounds]
      <3>1. CASE UNCHANGED <<leads, batch, rounds>> BY <1>0, <3>1 DEF WorkersTyped, RestTyped
      <3>2. ASSUME NEW found \in SUBSET {l \in Leads : leads[l] = "absent"},
                   leads' = [l \in Leads |-> IF l \in found THEN "new" ELSE leads[l]],
                   NEW new, new = Batch!NewLeads \cup found,
                   batch' = [batch EXCEPT ![t] = new],
                   rounds' = [rounds EXCEPT ![t] = IF new = {} THEN @ ELSE 0]
            PROVE  /\ leads' \in [Leads -> {"absent", "new", "past"}]
                   /\ batch' \in [Batch!Tasks -> SUBSET Leads]
                   /\ rounds' \in [Batch!Tasks -> 0..MaxRounds]
        <4>1. leads' \in [Leads -> {"absent", "new", "past"}] BY <1>0, <3>2 DEF RestTyped
        <4>2. new \in SUBSET Leads BY <3>2 DEF Batch!NewLeads
        <4>3. batch' \in [Batch!Tasks -> SUBSET Leads] BY <1>0, <3>2, <4>2 DEF WorkersTyped
        <4>4. rounds' \in [Batch!Tasks -> 0..MaxRounds] BY <1>0, <1>b, <3>2 DEF WorkersTyped
        <4> QED BY <4>1, <4>3, <4>4
      <3> QED BY <1>2, <3>1, <3>2 DEF Batch!Crawl
    <2>4. mirror' \in Batch!Mirrors BY <1>2, <1>c DEF Batch!Crawl
    <2>5. WorkersTyped' BY <1>0, <1>2, <2>2, <2>3 DEF Batch!Crawl, WorkersTyped
    <2>6. RestTyped' BY <1>0, <1>2, <2>3, <2>4 DEF Batch!Crawl, RestTyped
    <2>7. StopCounted' BY <1>0, <1>2, <2>2, CountKept DEF Batch!Crawl
    <2> QED BY <1>0, <1>2, <2>5, <2>6, <2>7, NoRowWritten DEF Batch!Crawl, BatchInv
  <1>3. CASE Batch!NextLead(t)
    <2>1. PICK p \in {"top", "stop", "begin"} :
            Batch!Go(t, p) /\ (p = "begin" => ~Batch!should_stop_operational_task(t, TRUE))
      BY <1>3 DEF Batch!NextLead
    <2>2. /\ worker' \in [Batch!Tasks -> WorkerPcs]
          /\ worker'[t] = p /\ \A u \in Batch!Tasks \ {t} : worker'[u] = worker[u]
      BY <1>0, <1>a, <2>1, Went
    <2>3. p = "begin" => ~row[t].stop BY <2>1 DEF Batch!should_stop_operational_task
    <2>4. StopCounted' BY <1>0, <1>3, <2>2, <2>3 DEF Batch!NextLead, StopCounted
    <2>5. WorkersTyped' BY <1>0, <1>3, <2>2 DEF Batch!NextLead, WorkersTyped
    <2>6. RestTyped' BY <1>0, <1>3 DEF Batch!NextLead, RestTyped
    <2> QED BY <1>0, <1>3, <2>4, <2>5, <2>6, NoRowWritten DEF Batch!NextLead, BatchInv
  <1> QED BY <1>1, <1>2, <1>3

LEMMA LeadStep ==
  ASSUME BatchInv, NEW t \in Batch!Tasks, Batch!BeginLead(t) PROVE BatchInv'
  <1>0. RowsKept /\ WorkersTyped /\ RestTyped /\ StopCounted BY DEF BatchInv
  <1>1. PICK l \in batch[t] :
          /\ batch' = [batch EXCEPT ![t] = @ \ {l}]
          /\ tried' = [tried EXCEPT ![t] = [begun |-> @.begun \cup {l}, again |-> @.again \/ l \in @.begun]]
          /\ leads' \in {leads, [leads EXCEPT ![l] = "past"]}
    BY DEF Batch!BeginLead
  <1>2. l \in Leads BY <1>0, <1>1 DEF WorkersTyped
  <1>3. batch' \in [Batch!Tasks -> SUBSET Leads] BY <1>0, <1>1 DEF WorkersTyped
  <1>4. tried' \in [Batch!Tasks -> TriedRows]
    <2>1. PICK q \in TriedRows : q = tried[t] BY <1>0 DEF WorkersTyped
    <2>2. PICK B \in SUBSET Leads : B = q.begun \cup {l} BY <1>2 DEF TriedRows
    <2>3. PICK g \in BOOLEAN : g <=> (q.again \/ l \in q.begun) OBVIOUS
    <2>4. q.again \in BOOLEAN BY DEF TriedRows
    <2>5. g = (q.again \/ l \in q.begun) BY <2>3, <2>4
    <2>6. PICK v : v = [begun |-> B, again |-> g] OBVIOUS
    <2>7. v \in TriedRows BY <2>6 DEF TriedRows
    <2>8. tried' = [tried EXCEPT ![t] = v] BY <1>0, <1>1, <2>1, <2>2, <2>5, <2>6 DEF WorkersTyped
    <2> QED BY <1>0, <2>7, <2>8 DEF WorkersTyped
  <1>5. leads' \in [Leads -> {"absent", "new", "past"}] BY <1>0, <1>1, <1>2 DEF RestTyped
  <1>6. worker[t] = "begin" /\ Batch!Go(t, "lead") /\ Batch!MirrorAs("running")
        /\ UNCHANGED <<row, created, redisUp, request, stopper, rounds, spent>>
    BY DEF Batch!BeginLead
  <1>7. "lead" \in WorkerPcs /\ "running" \in Batch!Mirrors BY DEF WorkerPcs, Batch!Mirrors
  <1>8. /\ worker' \in [Batch!Tasks -> WorkerPcs]
        /\ worker'[t] = "lead" /\ \A u \in Batch!Tasks \ {t} : worker'[u] = worker[u]
    BY <1>0, <1>6, <1>7, Went
  <1>9. after[t] = 0 BY <1>0, <1>6 DEF StopCounted
  <1>10. StopCounted'
    <2>1. PICK n \in {0, 1} : after' = [after EXCEPT ![t] = n] /\ (n = 1 => row[t].stop)
      <3>1. CASE row[t].stop
        <4>1. after' = [after EXCEPT ![t] = 1] BY <1>0, <1>9, <3>1 DEF Batch!BeginLead, StopCounted
        <4> QED BY <3>1, <4>1
      <3>2. CASE ~row[t].stop
        <4>1. after' = [after EXCEPT ![t] = 0] BY <1>0, <1>9, <3>2 DEF Batch!BeginLead, StopCounted
        <4> QED BY <3>2, <4>1
      <3> QED BY <3>1, <3>2
    <2>2. /\ after' \in [Batch!Tasks -> {0, 1}] /\ after'[t] = n
          /\ \A u \in Batch!Tasks \ {t} : after'[u] = after[u]
      BY <1>0, <2>1 DEF StopCounted
    <2> QED BY <1>0, <1>6, <1>8, <2>1, <2>2 DEF StopCounted
  <1>11. WorkersTyped' BY <1>0, <1>3, <1>4, <1>6, <1>8 DEF WorkersTyped
  <1>12. mirror' \in Batch!Mirrors BY <1>0, <1>6, <1>7, Mirrored
  <1>13. RestTyped' BY <1>0, <1>5, <1>6, <1>12 DEF RestTyped
  <1> QED BY <1>0, <1>6, <1>10, <1>11, <1>13, NoRowWritten DEF BatchInv


(* The steps that end an execution, and the one that begins it.            *)
LEMMA EndStep ==
  ASSUME BatchBounds, BatchInv, NEW t \in Batch!Tasks,
         \/ Batch!Begin(t) \/ Batch!StopMirror(t) \/ Batch!StopPersist(t)
         \/ Batch!FinishMirror(t) \/ Batch!FinishPersist(t) \/ Batch!Fail(t) \/ Batch!Sweep(t)
  PROVE  BatchInv'
  <1>0. RowsKept /\ WorkersTyped /\ RestTyped /\ StopCounted BY DEF BatchInv
  <1>a. PICK q \in RunRows : q = row[t] BY <1>0 DEF RowsKept
  <1>b. {"top", "stopped", "finished", "ended"} \subseteq WorkerPcs /\ {"stopped", "done", "error"} \subseteq Batch!Mirrors
    BY DEF WorkerPcs, Batch!Mirrors, Batch!Idle
  <1>c. ASSUME NEW s \in RunStatuses, s # "none", Batch!SetRow(t, [row[t] EXCEPT !.status = s])
        PROVE  RowsKept' /\ \A u \in Batch!Tasks : row[u].stop => row'[u].stop
    <2>1. PICK v : v = [q EXCEPT !.status = s] OBVIOUS
    <2>2. v \in RunRows /\ v.stop = q.stop BY <2>1 DEF RunRows
    <2>3. Batch!SetRow(t, v) BY <1>a, <1>c, <2>1
    <2>4. RowsKept' /\ row' = [row EXCEPT ![t] = v] BY <1>0, <2>2, <2>3, RowWritten
    <2> QED BY <1>0, <1>a, <2>2, <2>4 DEF RowsKept
  <1>1. CASE Batch!Begin(t)
    <2>1. RowsKept' /\ \A u \in Batch!Tasks : row[u].stop => row'[u].stop
      BY <1>1, <1>c DEF Batch!Begin, Batch!RunningRow, RunStatuses
    <2>2. /\ worker' \in [Batch!Tasks -> WorkerPcs]
          /\ worker'[t] = "top" /\ \A u \in Batch!Tasks \ {t} : worker'[u] = worker[u]
      BY <1>0, <1>1, <1>b, Went DEF Batch!Begin
    <2>3. WorkersTyped' BY <1>0, <1>1, <2>2 DEF Batch!Begin, WorkersTyped
    <2>4. RestTyped' BY <1>0, <1>1 DEF Batch!Begin, RestTyped
    <2>5. StopCounted' BY <1>0, <1>1, <2>1, <2>2, CountKept DEF Batch!Begin
    <2> QED BY <2>1, <2>3, <2>4, <2>5 DEF BatchInv
  <1>2. CASE Batch!StopMirror(t) \/ Batch!FinishMirror(t)
    <2>1. PICK s \in {"stopped", "done"}, p \in {"stopped", "finished"} :
            Batch!MirrorAs(s) /\ Batch!Go(t, p)
      BY <1>2 DEF Batch!StopMirror, Batch!FinishMirror
    <2>2. /\ worker' \in [Batch!Tasks -> WorkerPcs]
          /\ worker'[t] = p /\ \A u \in Batch!Tasks \ {t} : worker'[u] = worker[u]
      BY <1>0, <1>b, <2>1, Went
    <2>3. mirror' \in Batch!Mirrors BY <1>0, <1>b, <2>1, Mirrored
    <2>4. UNCHANGED <<row, created, redisUp, request, stopper, batch, rounds, leads, spent, after, tried>>
      BY <1>2 DEF Batch!StopMirror, Batch!FinishMirror
    <2>5. WorkersTyped' BY <1>0, <2>2, <2>4 DEF WorkersTyped
    <2>6. RestTyped' BY <1>0, <2>3, <2>4 DEF RestTyped
    <2>7. StopCounted' BY <1>0, <2>2, <2>4, CountKept
    <2> QED BY <1>0, <2>4, <2>5, <2>6, <2>7, NoRowWritten DEF BatchInv
  <1>3. CASE Batch!StopPersist(t)
    <2>1. RowsKept' /\ \A u \in Batch!Tasks : row[u].stop => row'[u].stop
      BY <1>3, <1>c DEF Batch!StopPersist, RunStatuses
    <2>2. WorkersTyped' /\ worker'[t] = "ended" /\ \A u \in Batch!Tasks \ {t} : worker'[u] = worker[u]
      BY <1>0, <1>3, <1>b, Left DEF Batch!StopPersist
    <2>3. RestTyped' BY <1>0, <1>3 DEF Batch!StopPersist, RestTyped
    <2>4. StopCounted' BY <1>0, <1>3, <2>1, <2>2, CountKept DEF Batch!StopPersist
    <2> QED BY <2>1, <2>2, <2>3, <2>4 DEF BatchInv
  <1>4. CASE Batch!FinishPersist(t)
    <2>1. PICK v \in RunRows : v = [status |-> "succeeded", stop |-> FALSE]
      BY DEF RunRows, RunStatuses
    <2>2. RowsKept' /\ row' = [row EXCEPT ![t] = v]
      BY <1>0, <1>4, <2>1, RowWritten DEF Batch!FinishPersist
    <2>3. WorkersTyped' /\ worker'[t] = "ended" /\ \A u \in Batch!Tasks \ {t} : worker'[u] = worker[u]
      BY <1>0, <1>4, <1>b, Left DEF Batch!FinishPersist
    <2>4. RestTyped' BY <1>0, <1>4 DEF Batch!FinishPersist, RestTyped
    <2>5. /\ after' \in [Batch!Tasks -> {0, 1}] /\ after'[t] = 0
          /\ \A u \in Batch!Tasks \ {t} : after'[u] = after[u] /\ row'[u] = row[u]
      BY <1>0, <1>4, <2>2 DEF Batch!FinishPersist, StopCounted, RowsKept
    <2>6. StopCounted' BY <1>0, <2>3, <2>5 DEF StopCounted
    <2> QED BY <2>2, <2>3, <2>4, <2>6 DEF BatchInv
  <1>5. CASE Batch!Fail(t)
    <2>1. RowsKept' /\ \A u \in Batch!Tasks : row[u].stop => row'[u].stop
      BY <1>5, <1>c DEF Batch!Fail, RunStatuses
    <2>2. WorkersTyped' /\ worker'[t] = "ended" /\ \A u \in Batch!Tasks \ {t} : worker'[u] = worker[u]
      BY <1>0, <1>5, <1>b, Left DEF Batch!Fail
    <2>3. mirror' \in Batch!Mirrors BY <1>0, <1>5, <1>b, Mirrored DEF Batch!Fail
    <2>4. RestTyped' BY <1>0, <1>5, <2>3 DEF Batch!Fail, RestTyped
    <2>5. StopCounted' BY <1>0, <1>5, <2>1, <2>2, CountKept DEF Batch!Fail
    <2> QED BY <2>1, <2>2, <2>4, <2>5 DEF BatchInv
  <1>6. CASE Batch!Sweep(t)
    <2>1. RowsKept' /\ \A u \in Batch!Tasks : row[u].stop => row'[u].stop
      BY <1>6, <1>c DEF Batch!Sweep, RunStatuses
    <2>2. WorkersTyped' BY <1>0, <1>6 DEF Batch!Sweep, WorkersTyped
    <2>3. RestTyped' BY <1>0, <1>6 DEF Batch!Sweep, RestTyped
    <2>4. StopCounted' BY <1>0, <1>6, <2>1, CountKept DEF Batch!Sweep
    <2> QED BY <2>1, <2>2, <2>3, <2>4 DEF BatchInv
  <1> QED BY <1>1, <1>2, <1>3, <1>4, <1>5, <1>6

LEMMA BatchStep == BatchBounds => (BatchInv /\ [Batch!Next]_(Batch!vars) => BatchInv')
  <1> SUFFICES ASSUME BatchBounds, BatchInv, [Batch!Next]_(Batch!vars) PROVE BatchInv' OBVIOUS
  <1>0. RowsKept /\ WorkersTyped /\ RestTyped /\ StopCounted BY DEF BatchInv
  <1>1. ASSUME NEW r \in Requests, Batch!StartCheck(r) \/ Batch!StartDelay(r) \/ Batch!StartQueue(r)
        PROVE  BatchInv'
    BY <1>1, RequestStep
  <1>2. ASSUME NEW b \in Beats, Batch!ScheduledDelay(b) PROVE BatchInv'
    <2>1. b \in Batch!Tasks /\ "queued" \in WorkerPcs BY DEF Batch!Tasks, WorkerPcs, Batch!Idle
    <2>2. /\ worker' \in [Batch!Tasks -> WorkerPcs]
          /\ worker'[b] = "queued" /\ \A u \in Batch!Tasks \ {b} : worker'[u] = worker[u]
      BY <1>0, <1>2, <2>1, Went DEF Batch!ScheduledDelay
    <2>3. WorkersTyped' BY <1>0, <1>2, <2>2 DEF Batch!ScheduledDelay, WorkersTyped
    <2>4. RestTyped' BY <1>0, <1>2 DEF Batch!ScheduledDelay, RestTyped
    <2>5. \A u \in Batch!Tasks : worker'[u] = "begin" => worker[u] = "begin" BY <2>2
    <2>6. StopCounted' BY <1>0, <1>2, <2>5, CountKept DEF Batch!ScheduledDelay
    <2> QED BY <1>0, <1>2, <2>3, <2>4, <2>6, NoRowWritten DEF Batch!ScheduledDelay, BatchInv
  <1>3. CASE Batch!StopRead \/ Batch!StopWrite BY <1>3, StopStep
  <1>4. ASSUME NEW t \in Batch!Tasks, Batch!WorkerStep(t) \/ Batch!Fail(t) \/ Batch!Sweep(t)
        PROVE  BatchInv'
    BY <1>4, LookStep, LeadStep, EndStep DEF Batch!WorkerStep
  <1>5. ASSUME NEW t \in Batch!Tasks, Batch!Crash(t) PROVE BatchInv'
    <2>1. "queued" \in WorkerPcs BY DEF WorkerPcs, Batch!Idle
    <2>2. WorkersTyped' /\ worker'[t] = "queued" /\ \A u \in Batch!Tasks \ {t} : worker'[u] = worker[u]
      BY <1>0, <1>5, <2>1, Left DEF Batch!Crash
    <2>3. PICK n \in 0 .. MaxCrashes : n = spent.crashes + 1
      BY <1>0, <1>5 DEF Batch!Crash, RestTyped, BatchBounds
    <2>4. spent' = [spent EXCEPT !.crashes = n] BY <1>0, <1>5, <2>3 DEF Batch!Crash, RestTyped
    <2>5. RestTyped' BY <1>0, <1>5, <2>4 DEF Batch!Crash, RestTyped
    <2>6. StopCounted' BY <1>0, <1>5, <2>2, CountKept DEF Batch!Crash
    <2> QED BY <1>0, <1>5, <2>2, <2>5, <2>6, NoRowWritten DEF Batch!Crash, BatchInv
  <1>6. CASE Batch!RedisFault
    <2>1. PICK n \in 0 .. MaxRedis : n = spent.redis + 1
      BY <1>0, <1>6 DEF Batch!RedisFault, RestTyped, BatchBounds
    <2>2. spent' = [spent EXCEPT !.redis = n] BY <1>0, <1>6, <2>1 DEF Batch!RedisFault, RestTyped
    <2>3. RestTyped' BY <1>0, <1>6, <2>2 DEF Batch!RedisFault, RestTyped, Batch!Mirrors
    <2>4. WorkersTyped' BY <1>0, <1>6 DEF Batch!RedisFault, WorkersTyped
    <2>5. StopCounted' BY <1>0, <1>6, CountKept DEF Batch!RedisFault
    <2> QED BY <1>0, <1>6, <2>3, <2>4, <2>5, NoRowWritten DEF Batch!RedisFault, BatchInv
  <1>7. CASE Batch!RedisRecover
    <2>1. RestTyped' BY <1>0, <1>7 DEF Batch!RedisRecover, RestTyped
    <2>2. WorkersTyped' BY <1>0, <1>7 DEF Batch!RedisRecover, WorkersTyped
    <2>3. StopCounted' BY <1>0, <1>7, CountKept DEF Batch!RedisRecover
    <2> QED BY <1>0, <1>7, <2>1, <2>2, <2>3, NoRowWritten DEF Batch!RedisRecover, BatchInv
  <1>8. CASE UNCHANGED Batch!vars
    <2>1. RestTyped' BY <1>0, <1>8 DEF Batch!vars, RestTyped
    <2>2. WorkersTyped' BY <1>0, <1>8 DEF Batch!vars, WorkersTyped
    <2>3. StopCounted' BY <1>0, <1>8, CountKept DEF Batch!vars
    <2> QED BY <1>0, <1>8, <2>1, <2>2, <2>3, NoRowWritten DEF Batch!vars, BatchInv
  <1> QED BY <1>1, <1>2, <1>3, <1>4, <1>5, <1>6, <1>7, <1>8 DEF Batch!Next

(* Rows, workers and the mirror keep their types, and each task with a row *)
(* stands once in the order of the rows.                                   *)
THEOREM BatchTypes == BatchBounds => (Batch!Spec => []Batch!TypeOK)
  <1> SUFFICES ASSUME BatchBounds PROVE Batch!Spec => []Batch!TypeOK OBVIOUS
  <1>1. Batch!Init => BatchInv BY BatchInit
  <1>2. BatchInv /\ [Batch!Next]_(Batch!vars) => BatchInv' BY BatchStep
  <1>3. BatchInv => Batch!TypeOK
    <2> SUFFICES ASSUME BatchInv PROVE Batch!TypeOK OBVIOUS
    <2>1. RowsKept /\ WorkersTyped /\ RestTyped /\ StopCounted BY DEF BatchInv
    <2>2. row \in [Batch!Tasks -> [status : {"none"} \cup Batch!ACTIVE_TASK_RUN_STATUSES
                                            \cup Batch!TASK_PROGRESS_STATUSES, stop : BOOLEAN]]
      <3>1. RunRows = [status : {"none"} \cup Batch!ACTIVE_TASK_RUN_STATUSES
                                \cup Batch!TASK_PROGRESS_STATUSES, stop : BOOLEAN]
        <4>1. RunStatuses = {"none"} \cup Batch!ACTIVE_TASK_RUN_STATUSES \cup Batch!TASK_PROGRESS_STATUSES
          BY DEF RunStatuses, Batch!ACTIVE_TASK_RUN_STATUSES, Batch!TASK_PROGRESS_STATUSES
        <4> QED BY <4>1 DEF RunRows
      <3> QED BY <2>1, <3>1 DEF RowsKept
    <2>3. /\ Batch!ToSet(created) \subseteq Batch!Tasks
          /\ Len(created) = Batch!Cardinality(Batch!ToSet(created))
      BY <2>1, SameCardinality DEF RowsKept, Batch!ToSet
    <2>4. after \in [Batch!Tasks -> 0..2] BY <2>1 DEF StopCounted
    <2>5. spent.stops <= MaxStops /\ spent.crashes <= MaxCrashes /\ spent.redis <= MaxRedis
      BY <2>1 DEF RestTyped
    <2> QED BY <2>1, <2>2, <2>3, <2>4, <2>5 DEF Batch!TypeOK, WorkersTyped, RestTyped, WorkerPcs, TriedRows
  <1> QED BY <1>1, <1>2, <1>3, PTL DEF Batch!Spec

(* Once a stop is committed the batch begins at most the lead whose check  *)
(* it had passed, across crashes, redeliveries, the janitor's sweep and    *)
(* the loss of Redis (should_stop_operational_task asks the row too).      *)
THEOREM StopsSoon == BatchBounds => (Batch!Spec => []StopsAfterCurrentLead)
  <1> SUFFICES ASSUME BatchBounds PROVE Batch!Spec => []StopsAfterCurrentLead OBVIOUS
  <1>1. Batch!Init => BatchInv BY BatchInit
  <1>2. BatchInv /\ [Batch!Next]_(Batch!vars) => BatchInv' BY BatchStep
  <1>3. BatchInv => StopsAfterCurrentLead
    BY DEF BatchInv, StopCounted, StopsAfterCurrentLead, Batch!StopsAfterCurrentLead
  <1> QED BY <1>1, <1>2, <1>3, PTL DEF Batch!Spec


---------------------------------------------------------------------------
(* Crawls of a territory                                                   *)

(* The local variables of a crawl, whatever their values are.              *)
Locals == {"city", "todo", "found", "dup", "created", "broken", "before"}

(* Crawl c against one that had ended when c began: nothing in common, and *)
(* what c looked up and did not find is not the other's.                   *)
Apart(p, l, d) ==
  /\ d \in Crawls /\ pc[d] = "ended" /\ l.created \cap local[d].created = {}
  /\ p \in {"create", "insert"} => Head(l.todo) \notin local[d].created

CrawlInv ==
  /\ local = [c \in Crawls |-> local[c]] /\ pc = [c \in Crawls |-> pc[c]]
  /\ \A c \in Crawls : DOMAIN local[c] = Locals
  /\ \A x : x \in stored <=> \E c \in Crawls : x \in local[c].created
  /\ \A c \in Crawls : \A d \in local[c].before : Apart(pc[c], local[c], d)
  /\ \A c \in Crawls : pc[c] \in {"idle", "queued"} => local[c].created = {}

(* A crawl that has not ended moves.                                       *)
LEMMA CrawlMoves ==
  ASSUME CrawlInv, NEW c \in Crawls, pc[c] # "ended",
         NEW l, local' = [local EXCEPT ![c] = l], DOMAIN l = Locals,
         NEW p, pc' = [pc EXCEPT ![c] = p],
         local[c].created \subseteq l.created,
         \A x : x \in stored' <=> x \in stored \/ x \in l.created,
         \A d \in l.before : Apart(p, l, d),
         p \in {"idle", "queued"} => l.created = {}
  PROVE  CrawlInv'
  <1>1. /\ local' = [d \in Crawls |-> local'[d]] /\ pc' = [d \in Crawls |-> pc'[d]]
        /\ local'[c] = l /\ pc'[c] = p
        /\ \A d \in Crawls \ {c} : local'[d] = local[d] /\ pc'[d] = pc[d]
    BY DEF CrawlInv
  <1>2. \A d \in Crawls : DOMAIN local'[d] = Locals BY <1>1 DEF CrawlInv
  <1>3. \A x : x \in stored' <=> \E d \in Crawls : x \in local'[d].created
    BY <1>1 DEF CrawlInv
  <1>4. ASSUME NEW e \in Crawls, NEW d \in local'[e].before PROVE Apart(pc[e], local[e], d)'
    <2>1. CASE e = c BY <1>1, <2>1 DEF Apart
    <2>2. CASE e # c
      <3>1. Apart(pc[e], local[e], d) BY <1>1, <1>4, <2>2 DEF CrawlInv
      <3> QED BY <1>1, <2>2, <3>1 DEF Apart
    <2> QED BY <2>1, <2>2
  <1>5. \A e \in Crawls : pc'[e] \in {"idle", "queued"} => local'[e].created = {}
    BY <1>1 DEF CrawlInv
  <1> QED BY <1>1, <1>2, <1>3, <1>4, <1>5 DEF CrawlInv

(* It counts nothing and keeps what it has looked up.                      *)
LEMMA CrawlGoesOn ==
  ASSUME CrawlInv, NEW c \in Crawls, pc[c] # "ended",
         NEW l, local' = [local EXCEPT ![c] = l], DOMAIN l = Locals,
         l.created = local[c].created, l.before = local[c].before, stored' = stored,
         NEW p, p \notin {"idle", "queued", "create", "insert"}, pc' = [pc EXCEPT ![c] = p]
  PROVE  CrawlInv'
  <1>1. \A d \in l.before : Apart(p, l, d) BY DEF CrawlInv, Apart
  <1>2. \A x : x \in stored' <=> x \in stored \/ x \in l.created BY DEF CrawlInv
  <1> QED BY <1>1, <1>2, CrawlMoves

LEMMA CrawlRest == ASSUME CrawlInv, UNCHANGED <<pc, local, stored>> PROVE CrawlInv'
  BY DEF CrawlInv, Apart

LEMMA CrawlInit == Crawl!Init => CrawlInv
  <1> SUFFICES ASSUME Crawl!Init PROVE CrawlInv OBVIOUS
  <1>1. /\ DOMAIN Crawl!NoLocals = Locals /\ Crawl!NoLocals.created = {}
        /\ Crawl!NoLocals.before = {}
    BY DEF Crawl!NoLocals, Locals
  <1>2. /\ local = [c \in Crawls |-> Crawl!NoLocals] /\ stored = {}
        /\ pc = [c \in Crawls |-> "idle"]
    BY DEF Crawl!Init
  <1> QED BY <1>1, <1>2 DEF CrawlInv

(* A crawl that was not sent has no worker.                                *)
CrawlSent ==
  /\ DOMAIN crawlStatus = Crawls /\ DOMAIN pc = Crawls
  /\ \A c \in Crawls : crawlStatus[c] = "none" => pc[c] = "idle"

LEMMA SentStep == CrawlSent /\ [Crawl!Next]_(Crawl!vars) => CrawlSent'
  <1> SUFFICES ASSUME CrawlSent, [Crawl!Next]_(Crawl!vars) PROVE CrawlSent' OBVIOUS
  <1> USE DEF CrawlSent
  <1>1. ASSUME NEW c \in Crawls, Crawl!Send(c) \/ Crawl!RequestStop(c) PROVE CrawlSent'
    BY <1>1 DEF Crawl!Send, Crawl!RequestStop
  <1>2. ASSUME NEW c \in Crawls, Crawl!Begin(c) \/ Crawl!City(c) \/ Crawl!Finish(c) PROVE CrawlSent'
    BY <1>2 DEF Crawl!Begin, Crawl!City, Crawl!Finish
  <1>3. ASSUME NEW c \in Crawls,
               Crawl!Lookup(c) \/ Crawl!Create(c) \/ Crawl!Insert(c) \/ Crawl!NextCity(c)
        PROVE  CrawlSent'
    <2>1. crawlStatus' = crawlStatus /\ pc[c] # "idle"
      BY <1>3 DEF Crawl!Lookup, Crawl!Create, Crawl!Insert, Crawl!NextCity
    <2>2. PICK p : pc' = pc \/ pc' = [pc EXCEPT ![c] = p]
      BY <1>3 DEF Crawl!Lookup, Crawl!Create, Crawl!Insert, Crawl!NextCity
    <2> QED BY <2>1, <2>2
  <1>4. CASE Crawl!Age \/ Crawl!sweep_unsaturate_old_territories \/ UNCHANGED Crawl!vars
    BY <1>4 DEF Crawl!Age, Crawl!sweep_unsaturate_old_territories, Crawl!vars
  <1> QED BY <1>1, <1>2, <1>3, <1>4
          DEF Crawl!Next, Crawl!Step, Crawl!RequestCrawl, Crawl!ScheduledCrawl

LEMMA CrawlStep == CrawlSent /\ CrawlInv /\ [Crawl!Next]_(Crawl!vars) => CrawlInv'
  <1> SUFFICES ASSUME CrawlSent, CrawlInv, [Crawl!Next]_(Crawl!vars) PROVE CrawlInv' OBVIOUS
  <1>0. /\ local = [c \in Crawls |-> local[c]] /\ pc = [c \in Crawls |-> pc[c]]
        /\ \A c \in Crawls : DOMAIN local[c] = Locals
    BY DEF CrawlInv
  <1>1. ASSUME NEW c \in Crawls, Crawl!Send(c) \/ Crawl!RequestStop(c) \/ Crawl!Finish(c)
        PROVE  CrawlInv'
    <2>1. CASE Crawl!RequestStop(c) BY <2>1, CrawlRest DEF Crawl!RequestStop
    <2>2. CASE Crawl!Finish(c)
      <3>1. local' = [local EXCEPT ![c] = local[c]] /\ DOMAIN local[c] = Locals
        BY <1>0, <2>2 DEF Crawl!Finish
      <3> QED BY <2>2, <3>1, CrawlGoesOn DEF Crawl!Finish
    <2>3. CASE Crawl!Send(c)
      \* Only the worker's place changes, to "queued" if it was idle.
      <3>1. UNCHANGED <<local, stored>> /\ pc' = [pc EXCEPT ![c] = "queued"]
        BY <2>3 DEF Crawl!Send
      <3>2. pc[c] \in {"idle", "queued"} => CrawlInv'
        <4>1. local' = [local EXCEPT ![c] = local[c]] /\ DOMAIN local[c] = Locals BY <1>0, <3>1
        <4>2. \A d \in local[c].before : Apart("queued", local[c], d) BY DEF CrawlInv, Apart
        <4>3. \A x : x \in stored' <=> x \in stored \/ x \in local[c].created BY <3>1 DEF CrawlInv
        <4>4. pc[c] \in {"idle", "queued"} => local[c].created = {} BY DEF CrawlInv
        <4> QED BY <3>1, <4>1, <4>2, <4>3, <4>4, CrawlMoves
      <3>3. pc[c] = "idle" BY <2>3 DEF Crawl!Send, CrawlSent
      <3> QED BY <3>2, <3>3
    <2> QED BY <1>1, <2>1, <2>2, <2>3
  <1>2. ASSUME NEW c \in Crawls, Crawl!Begin(c) PROVE CrawlInv'
    <2>1. PICK l : l = [local[c] EXCEPT !.before = {d \in Crawls : pc[d] = "ended"}] OBVIOUS
    <2>2. /\ DOMAIN l = Locals /\ l.created = local[c].created
          /\ l.before = {d \in Crawls : pc[d] = "ended"}
      BY <1>0, <2>1 DEF Locals
    <2>3. pc[c] = "queued" /\ local[c].created = {} /\ stored' = stored
      BY <1>2 DEF Crawl!Begin, CrawlInv
    <2>4. local' = [local EXCEPT ![c] = l] BY <1>2, <2>1 DEF Crawl!Begin
    <2>5. PICK p \in {"city", "ended"} : pc' = [pc EXCEPT ![c] = p] BY <1>2 DEF Crawl!Begin
    <2>6. \A d \in l.before : Apart(p, l, d) BY <2>2, <2>3 DEF Apart
    <2> QED BY <2>2, <2>3, <2>4, <2>5, <2>6, CrawlMoves
  <1>3. ASSUME NEW c \in Crawls, Crawl!City(c) PROVE CrawlInv'
    <2>0. pc[c] = "city" /\ stored' = stored BY <1>3 DEF Crawl!City
    <2>1. PICK l, p : /\ local' = [local EXCEPT ![c] = l] /\ pc' = [pc EXCEPT ![c] = p]
                      /\ DOMAIN l = Locals /\ l.created = local[c].created
                      /\ l.before = local[c].before /\ p \in {"ended", "city", "lead"}
      <3>1. PICK todo : todo = [i \in DOMAIN Crawl!Listing(Route[local[c].city]) |->
                                  Crawl!Listing(Route[local[c].city])[i].business]
        OBVIOUS
      <3>2. PICK found : found = local[c].found + Len(Crawl!Listing(Route[local[c].city])) OBVIOUS
      <3>3. \/ UNCHANGED local /\ pc' = [pc EXCEPT ![c] = "ended"]
            \/ local' = [local EXCEPT ![c].city = @ + 1] /\ pc' = pc
            \/ /\ local' = [local EXCEPT ![c].todo = todo, ![c].found = found, ![c].broken = FALSE]
               /\ pc' = [pc EXCEPT ![c] = "lead"]
        BY <1>0, <1>3, <3>1, <3>2 DEF Crawl!City, Locals
      <3>4. CASE UNCHANGED local /\ pc' = [pc EXCEPT ![c] = "ended"]
        <4>1. local' = [local EXCEPT ![c] = local[c]] BY <1>0, <3>4
        <4> QED BY <1>0, <3>4, <4>1
      <3>5. CASE local' = [local EXCEPT ![c].city = @ + 1] /\ pc' = pc
        <4>1. PICK l : l = [local[c] EXCEPT !.city = @ + 1] OBVIOUS
        <4>2. /\ DOMAIN l = Locals /\ l.created = local[c].created /\ l.before = local[c].before
          BY <1>0, <4>1 DEF Locals
        <4>3. pc' = [pc EXCEPT ![c] = "city"] /\ local' = [local EXCEPT ![c] = l]
          BY <1>0, <2>0, <3>5, <4>1
        <4> QED BY <4>2, <4>3
      <3>6. CASE /\ local' = [local EXCEPT ![c].todo = todo, ![c].found = found, ![c].broken = FALSE]
                 /\ pc' = [pc EXCEPT ![c] = "lead"]
        <4>1. PICK l : l = [local[c] EXCEPT !.todo = todo, !.found = found, !.broken = FALSE] OBVIOUS
        <4>2. /\ DOMAIN l = Locals /\ l.created = local[c].created /\ l.before = local[c].before
          BY <1>0, <4>1 DEF Locals
        <4>3. local' = [local EXCEPT ![c] = l] BY <1>0, <3>6, <4>1 DEF Locals
        <4> QED BY <3>6, <4>2, <4>3
      <3> QED BY <3>3, <3>4, <3>5, <3>6
    <2> QED BY <2>0, <2>1, CrawlGoesOn
  <1>4. ASSUME NEW c \in Crawls, Crawl!Lookup(c) PROVE CrawlInv'
    <2>0. pc[c] = "lead" /\ stored' = stored BY <1>4 DEF Crawl!Lookup
    <2>1. CASE UNCHANGED local /\ pc' = [pc EXCEPT ![c] = "create"] /\ Head(local[c].todo) \notin stored
      <3>1. local' = [local EXCEPT ![c] = local[c]] /\ DOMAIN local[c] = Locals BY <1>0, <2>1
      <3>2. \A d \in local[c].before : Apart("create", local[c], d) BY <2>1 DEF CrawlInv, Apart
      <3>3. \A x : x \in stored' <=> x \in stored \/ x \in local[c].created BY <2>0 DEF CrawlInv
      <3> QED BY <2>0, <2>1, <3>1, <3>2, <3>3, CrawlMoves
    <2>2. CASE Crawl!Drop(c, [local[c] EXCEPT !.todo = Tail(@), !.dup = @ + 1]) /\ pc' = pc
      <3>1. PICK l : l = [local[c] EXCEPT !.todo = Tail(@), !.dup = @ + 1] OBVIOUS
      <3>2. DOMAIN l = Locals /\ l.created = local[c].created /\ l.before = local[c].before
        BY <1>0, <3>1 DEF Locals
      <3>3. local' = [local EXCEPT ![c] = l] /\ pc' = [pc EXCEPT ![c] = "lead"]
        BY <1>0, <2>0, <2>2, <3>1 DEF Crawl!Drop
      <3> QED BY <2>0, <3>2, <3>3, CrawlGoesOn
    <2> QED BY <1>4, <2>1, <2>2 DEF Crawl!Lookup
  \* A business is counted: c looked it up before, so it is not of an earlier crawl.
  <1>5. ASSUME NEW c \in Crawls, pc[c] \in {"create", "insert"}, pc' = [pc EXCEPT ![c] = "lead"],
               Crawl!Drop(c, Crawl!Counted(local[c], Head(local[c].todo))),
               stored' = stored \cup {Head(local[c].todo)}
        PROVE  CrawlInv'
    <2>1. PICK b : b = Head(local[c].todo) OBVIOUS
    <2>2. PICK l : l = [local[c] EXCEPT !.todo = Tail(@), !.created = @ \cup {b}] OBVIOUS
    <2>3. /\ DOMAIN l = Locals /\ l.created = local[c].created \cup {b}
          /\ l.before = local[c].before
      BY <1>0, <2>2 DEF Locals
    <2>4. local' = [local EXCEPT ![c] = l] BY <1>5, <2>1, <2>2 DEF Crawl!Drop, Crawl!Counted
    <2>5. \A d \in l.before : Apart("lead", l, d)
      <3> SUFFICES ASSUME NEW d \in l.before PROVE Apart("lead", l, d) OBVIOUS
      <3>1. Apart(pc[c], local[c], d) BY <2>3 DEF CrawlInv
      <3> QED BY <1>5, <2>1, <2>3, <3>1 DEF Apart
    <2>6. \A x : x \in stored' <=> x \in stored \/ x \in l.created BY <1>5, <2>1, <2>3 DEF CrawlInv
    <2> QED BY <1>5, <2>3, <2>4, <2>5, <2>6, CrawlMoves
  <1>6. ASSUME NEW c \in Crawls, Crawl!Create(c) PROVE CrawlInv'
    <2>0. pc[c] = "create" /\ stored' = stored BY <1>6 DEF Crawl!Create
    <2>1. CASE Head(local[c].todo) \in stored
      <3>1. stored' = stored \cup {Head(local[c].todo)} BY <2>0, <2>1
      <3> QED BY <1>5, <1>6, <2>1, <3>1 DEF Crawl!Create
    <2>2. CASE Head(local[c].todo) \notin stored
      <3>1. local' = [local EXCEPT ![c] = local[c]] /\ DOMAIN local[c] = Locals
            /\ pc' = [pc EXCEPT ![c] = "insert"]
        BY <1>0, <1>6, <2>2 DEF Crawl!Create
      <3>2. \A d \in local[c].before : Apart("insert", local[c], d) BY <2>0 DEF CrawlInv, Apart
      <3>3. \A x : x \in stored' <=> x \in stored \/ x \in local[c].created BY <2>0 DEF CrawlInv
      <3> QED BY <2>0, <3>1, <3>2, <3>3, CrawlMoves
    <2> QED BY <2>1, <2>2
  <1>7. ASSUME NEW c \in Crawls, Crawl!Insert(c) PROVE CrawlInv'
    <2>1. CASE Head(local[c].todo) \in stored
      <3>1. PICK l : l = [local[c] EXCEPT !.todo = Tail(@), !.dup = @ + 1, !.broken = TRUE] OBVIOUS
      <3>2. DOMAIN l = Locals /\ l.created = local[c].created /\ l.before = local[c].before
        BY <1>0, <3>1 DEF Locals
      <3>3. /\ local' = [local EXCEPT ![c] = l] /\ stored' = stored
            /\ pc[c] = "insert" /\ pc' = [pc EXCEPT ![c] = "lead"]
        BY <1>7, <2>1, <3>1 DEF Crawl!Insert, Crawl!Drop
      <3> QED BY <3>2, <3>3, CrawlGoesOn
    <2>2. CASE Head(local[c].todo) \notin stored BY <1>5, <1>7, <2>2 DEF Crawl!Insert
    <2> QED BY <2>1, <2>2
  <1>8. ASSUME NEW c \in Crawls, Crawl!NextCity(c) PROVE CrawlInv'
    <2>1. PICK l : l = [local[c] EXCEPT !.city = @ + 1] OBVIOUS
    <2>2. DOMAIN l = Locals /\ l.created = local[c].created /\ l.before = local[c].before
      BY <1>0, <2>1 DEF Locals
    <2>3. /\ local' = [local EXCEPT ![c] = l] /\ stored' = stored
          /\ pc[c] = "lead" /\ pc' = [pc EXCEPT ![c] = "city"]
      BY <1>8, <2>1 DEF Crawl!NextCity, Crawl!Drop
    <2> QED BY <2>2, <2>3, CrawlGoesOn
  <1>9. CASE Crawl!Age \/ Crawl!sweep_unsaturate_old_territories
    BY <1>9, CrawlRest DEF Crawl!Age, Crawl!sweep_unsaturate_old_territories
  <1>10. CASE UNCHANGED Crawl!vars BY <1>10, CrawlRest DEF Crawl!vars
  <1> QED BY <1>1, <1>2, <1>3, <1>4, <1>6, <1>7, <1>8, <1>9, <1>10
          DEF Crawl!Next, Crawl!Step, Crawl!RequestCrawl, Crawl!ScheduledCrawl

(* However many crawls run, what they report as created is what is stored,  *)
(* and a crawl reports nothing that one which had ended when it began has   *)
(* reported: only overlapping crawls count a business twice (the look-up of *)
(* run_territory_crawl_workflow, create_lead's second one, dedup_hash).     *)
THEOREM EachCreatedOnce == Crawl!Spec => []CreatedTwiceOverlaps
  <1>1. CrawlInv => CreatedTwiceOverlaps
    <2> SUFFICES ASSUME CrawlInv PROVE Crawl!CreatedTwiceOverlaps BY DEF CreatedTwiceOverlaps
    <2>1. stored = UNION {local[c].created : c \in Crawls}
      <3>1. \A x : x \in stored <=> \E c \in Crawls : x \in local[c].created BY DEF CrawlInv
      <3> QED BY <3>1
    <2>2. \A c \in Crawls : \A d \in local[c].before : local[c].created \cap local[d].created = {}
      BY DEF CrawlInv, Apart
    <2> QED BY <2>1, <2>2 DEF Crawl!CreatedTwiceOverlaps
  <1>2. Crawl!Init => CrawlSent BY DEF Crawl!Init, CrawlSent
  <1> QED BY <1>1, <1>2, CrawlInit, CrawlStep, SentStep, PTL DEF Crawl!Spec

---------------------------------------------------------------------------
(* Crawls of a territory: the types                                        *)

LocalRows == [city : Nat \ {0}, todo : Seq(Crawl!Businesses), found : Nat, dup : Nat,
              created : SUBSET Crawl!Businesses, broken : BOOLEAN, before : SUBSET Crawls]

CrawlWorld ==
  /\ MaxCrawlStops \in Nat /\ Route \in Seq(DOMAIN Places)
  /\ \A i \in DOMAIN Route :
       Crawl!Listing(Route[i]) \in Seq([business : Crawl!Businesses, home : BOOLEAN])

(* What a crawl has to do is businesses of its cities, and it inserts one. *)
CrawlTyped ==
  /\ Crawl!TypeOK /\ local \in [Crawls -> LocalRows]
  /\ \A c \in Crawls : pc[c] \in {"create", "insert"} => local[c].todo # <<>>

LEMMA TypedInit == CrawlWorld /\ Crawl!Init => CrawlTyped
  <1>1. Crawl!NoLocals \in LocalRows BY DEF Crawl!NoLocals, LocalRows
  <1> QED BY <1>1 DEF CrawlWorld, Crawl!Init, CrawlTyped, Crawl!TypeOK, Crawl!Active

LEMMA Element == ASSUME NEW S, NEW s \in Seq(S), NEW i \in 1..Len(s) PROVE s[i] \in S
  OBVIOUS

LEMMA Listed ==
  ASSUME CrawlWorld, NEW n \in Nat \ {0}, n <= Len(Route), NEW raw, raw = Crawl!Listing(Route[n])
  PROVE  /\ Len(raw) \in Nat
         /\ [i \in DOMAIN raw |-> raw[i].business] \in Seq(Crawl!Businesses)
  <1>1. n \in DOMAIN Route BY DEF CrawlWorld
  <1>2. raw \in Seq([business : Crawl!Businesses, home : BOOLEAN]) BY <1>1 DEF CrawlWorld
  <1>3. ASSUME NEW i \in 1..Len(raw) PROVE raw[i].business \in Crawl!Businesses
    <2>1. raw[i] \in [business : Crawl!Businesses, home : BOOLEAN] BY <1>2, Element
    <2> QED BY <2>1
  <1>4. DOMAIN raw = 1..Len(raw) /\ Len(raw) \in Nat BY <1>2
  <1> QED BY <1>3, <1>4

(* A crawl whose next business is taken off its list. *)
LEMMA HeadTaken ==
  ASSUME NEW l \in LocalRows, l.todo # <<>>
  PROVE  Head(l.todo) \in Crawl!Businesses /\ Tail(l.todo) \in Seq(Crawl!Businesses)
  BY DEF LocalRows

LEMMA TypedStep == CrawlWorld /\ CrawlTyped /\ [Crawl!Next]_(Crawl!vars) => CrawlTyped'
  <1> SUFFICES ASSUME CrawlWorld, CrawlTyped, [Crawl!Next]_(Crawl!vars) PROVE CrawlTyped'
    OBVIOUS
  <1>0. MaxCrawlStops \in Nat BY DEF CrawlWorld
  <1>1. ASSUME NEW c \in Crawls, Crawl!Send(c) PROVE CrawlTyped'
    BY <1>1 DEF Crawl!Send, CrawlTyped, Crawl!TypeOK, Crawl!Active
  <1>2. ASSUME NEW c \in Crawls, Crawl!RequestStop(c) PROVE CrawlTyped'
    BY <1>0, <1>2 DEF Crawl!RequestStop, CrawlTyped, Crawl!TypeOK, Crawl!Active
  <1>3. ASSUME NEW c \in Crawls, Crawl!Begin(c) PROVE CrawlTyped'
    <2>1. PICK e \in SUBSET Crawls : e = {d \in Crawls : pc[d] = "ended"} OBVIOUS
    <2>2. PICK l : l = [local[c] EXCEPT !.before = e] OBVIOUS
    <2>3. local[c] \in LocalRows BY DEF CrawlTyped
    <2>4. l \in LocalRows /\ local' = [local EXCEPT ![c] = l]
      BY <1>3, <2>1, <2>2, <2>3 DEF LocalRows, Crawl!Begin
    <2>5. PICK p \in {"city", "ended"} : pc' = [pc EXCEPT ![c] = p] BY <1>3 DEF Crawl!Begin
    <2>6. /\ crawlStatus' = [crawlStatus EXCEPT ![c] = "running"] \/
             crawlStatus' = [crawlStatus EXCEPT ![c] = "failed"]
          /\ UNCHANGED <<stop, stops, stored, place, ageing, lost, streak>>
      BY <1>3 DEF Crawl!Begin
    <2>7. Crawl!TypeOK' BY <2>5, <2>6 DEF CrawlTyped, Crawl!TypeOK, Crawl!Active
    <2>8. local' \in [Crawls -> LocalRows] BY <2>4 DEF CrawlTyped
    <2>9. \A d \in Crawls : pc'[d] \in {"create", "insert"} => local'[d].todo # <<>>
      BY <2>4, <2>5 DEF CrawlTyped, Crawl!TypeOK
    <2> QED BY <2>7, <2>8, <2>9 DEF CrawlTyped
  <1>4. ASSUME NEW c \in Crawls, Crawl!City(c) PROVE CrawlTyped'
    <2>1. local[c] \in LocalRows /\ local[c].city \in Nat \ {0} BY DEF CrawlTyped, LocalRows
    <2>2. CASE stop[c]
      BY <1>4, <2>2 DEF Crawl!City, CrawlTyped, Crawl!TypeOK, Crawl!Active
    <2>3. CASE pc' = pc /\ crawlStatus' = crawlStatus /\ local' = [local EXCEPT ![c].city = @ + 1]
      <3>1. PICK l : l = [local[c] EXCEPT !.city = @ + 1] OBVIOUS
      <3>2. l \in LocalRows /\ l.todo = local[c].todo BY <2>1, <3>1 DEF LocalRows
      <3>3. local' = [local EXCEPT ![c] = l] BY <2>3, <3>1 DEF CrawlTyped
      <3> QED BY <1>4, <2>3, <3>2, <3>3 DEF Crawl!City, CrawlTyped, Crawl!TypeOK
    <2>4. CASE ~stop[c] /\ pc' = [pc EXCEPT ![c] = "lead"]
      <3>1. PICK raw : raw = Crawl!Listing(Route[local[c].city]) OBVIOUS
      <3>2. PICK todo, n : todo = [i \in DOMAIN raw |-> raw[i].business] /\ n = Len(raw) OBVIOUS
      <3>3. local[c].city <= Len(Route) BY <1>4 DEF Crawl!City
      <3>4. todo \in Seq(Crawl!Businesses) /\ n \in Nat BY <2>1, <3>1, <3>2, <3>3, Listed
      <3>5. CASE local' = [local EXCEPT ![c].todo = todo, ![c].found = @ + n, ![c].broken = FALSE]
        <4>1. PICK f \in Nat : f = local[c].found + n BY <2>1, <3>4 DEF LocalRows
        <4>2. PICK l : l = [local[c] EXCEPT !.todo = todo, !.found = f, !.broken = FALSE] OBVIOUS
        <4>3. l \in LocalRows BY <2>1, <3>4, <4>2 DEF LocalRows
        <4>4. local' = [local EXCEPT ![c] = l] BY <3>5, <4>1, <4>2 DEF CrawlTyped
        <4> QED BY <1>4, <2>4, <4>3, <4>4 DEF Crawl!City, CrawlTyped, Crawl!TypeOK
      <3>6. CASE pc' = pc /\ local' = [local EXCEPT ![c].city = @ + 1]
        BY <1>4, <2>3, <2>4, <3>6 DEF Crawl!City
      <3> QED BY <1>4, <2>4, <3>1, <3>2, <3>5, <3>6 DEF Crawl!City
    <2> QED BY <1>4, <2>2, <2>3, <2>4 DEF Crawl!City
  <1>5. ASSUME NEW c \in Crawls, Crawl!Lookup(c) PROVE CrawlTyped'
    <2>1. local[c] \in LocalRows /\ local[c].todo # <<>> BY <1>5 DEF Crawl!Lookup, CrawlTyped
    <2>2. PICK b \in Crawl!Businesses : b = Head(local[c].todo) BY <2>1, HeadTaken
    <2>3. PICK t \in Seq(Crawl!Businesses) : t = Tail(local[c].todo) BY <2>1, HeadTaken
    <2>4. CASE local[c].broken \/ b \in stored
      <3>0. PICK d \in Nat : d = local[c].dup + 1 BY <2>1 DEF LocalRows
      <3>1. PICK l : l = [local[c] EXCEPT !.todo = t, !.dup = d] OBVIOUS
      <3>2. l \in LocalRows BY <2>1, <3>1 DEF LocalRows
      <3>3. /\ local' = [local EXCEPT ![c] = l] /\ lost' = lost \cup ({b} \ stored) /\ pc' = pc
        BY <1>5, <2>2, <2>3, <2>4, <3>0, <3>1 DEF Crawl!Lookup, Crawl!Drop
      <3>4. pc[c] = "lead" BY <1>5 DEF Crawl!Lookup
      <3> QED BY <1>5, <3>2, <3>3, <3>4 DEF Crawl!Lookup, CrawlTyped, Crawl!TypeOK
    <2>5. CASE ~(local[c].broken \/ b \in stored)
      <3>1. pc' = [pc EXCEPT ![c] = "create"] /\ UNCHANGED <<local, lost>>
        BY <1>5, <2>2, <2>5 DEF Crawl!Lookup
      <3> QED BY <1>5, <2>1, <3>1 DEF Crawl!Lookup, CrawlTyped, Crawl!TypeOK
    <2> QED BY <2>4, <2>5
  <1>12. ASSUME NEW c \in Crawls, Crawl!Create(c) PROVE CrawlTyped'
    <2>1. local[c] \in LocalRows /\ local[c].todo # <<>> BY <1>12 DEF Crawl!Create, CrawlTyped
    <2>2. PICK b \in Crawl!Businesses : b = Head(local[c].todo) BY <2>1, HeadTaken
    <2>3. PICK t \in Seq(Crawl!Businesses) : t = Tail(local[c].todo) BY <2>1, HeadTaken
    <2>4. CASE b \in stored
      <3>0. PICK made \in SUBSET Crawl!Businesses : made = local[c].created \cup {b}
        BY <2>1 DEF LocalRows
      <3>1. PICK l : l = [local[c] EXCEPT !.todo = t, !.created = made] OBVIOUS
      <3>2. l \in LocalRows BY <2>1, <3>1 DEF LocalRows
      <3>3. local' = [local EXCEPT ![c] = l] /\ pc' = [pc EXCEPT ![c] = "lead"]
        BY <1>12, <2>2, <2>3, <2>4, <3>0, <3>1 DEF Crawl!Create, Crawl!Drop, Crawl!Counted
      <3> QED BY <1>12, <3>2, <3>3 DEF Crawl!Create, CrawlTyped, Crawl!TypeOK
    <2>5. CASE b \notin stored
      <3>1. pc' = [pc EXCEPT ![c] = "insert"] /\ UNCHANGED local
        BY <1>12, <2>2, <2>5 DEF Crawl!Create
      <3> QED BY <1>12, <2>1, <3>1 DEF Crawl!Create, CrawlTyped, Crawl!TypeOK
    <2> QED BY <2>4, <2>5
  <1>6. ASSUME NEW c \in Crawls, Crawl!Insert(c) PROVE CrawlTyped'
    <2>1. local[c] \in LocalRows /\ local[c].todo # <<>> BY <1>6 DEF Crawl!Insert, CrawlTyped
    <2>2. PICK b \in Crawl!Businesses : b = Head(local[c].todo) BY <2>1, HeadTaken
    <2>3. PICK t \in Seq(Crawl!Businesses) : t = Tail(local[c].todo) BY <2>1, HeadTaken
    <2>4. pc' = [pc EXCEPT ![c] = "lead"] BY <1>6 DEF Crawl!Insert
    <2>5. CASE b \in stored
      <3>0. PICK d \in Nat : d = local[c].dup + 1 BY <2>1 DEF LocalRows
      <3>1. PICK l : l = [local[c] EXCEPT !.todo = t, !.dup = d, !.broken = TRUE] OBVIOUS
      <3>2. l \in LocalRows BY <2>1, <3>1 DEF LocalRows
      <3>3. local' = [local EXCEPT ![c] = l] /\ stored' = stored
        BY <1>6, <2>2, <2>3, <2>5, <3>0, <3>1 DEF Crawl!Insert, Crawl!Drop
      <3> QED BY <1>6, <2>4, <3>2, <3>3 DEF Crawl!Insert, CrawlTyped, Crawl!TypeOK
    <2>6. CASE b \notin stored
      <3>0. PICK made \in SUBSET Crawl!Businesses : made = local[c].created \cup {b}
        BY <2>1 DEF LocalRows
      <3>1. PICK l : l = [local[c] EXCEPT !.todo = t, !.created = made] OBVIOUS
      <3>2. l \in LocalRows BY <2>1, <3>1 DEF LocalRows
      <3>3. local' = [local EXCEPT ![c] = l] /\ stored' = stored \cup {b}
        BY <1>6, <2>2, <2>3, <2>6, <3>0, <3>1 DEF Crawl!Insert, Crawl!Drop, Crawl!Counted
      <3> QED BY <1>6, <2>4, <3>2, <3>3 DEF Crawl!Insert, CrawlTyped, Crawl!TypeOK
    <2> QED BY <2>5, <2>6
  <1>7. ASSUME NEW c \in Crawls, Crawl!NextCity(c) PROVE CrawlTyped'
    <2>1. local[c] \in LocalRows BY DEF CrawlTyped
    <2>2. PICK n \in Nat \ {0} : n = local[c].city + 1 BY <2>1 DEF LocalRows
    <2>3. PICK l : l = [local[c] EXCEPT !.city = n] OBVIOUS
    <2>4. l \in LocalRows BY <2>1, <2>3 DEF LocalRows
    <2>5. local' = [local EXCEPT ![c] = l] BY <1>7, <2>2, <2>3 DEF Crawl!NextCity, Crawl!Drop
    <2> QED BY <1>7, <2>4, <2>5 DEF Crawl!NextCity, CrawlTyped, Crawl!TypeOK
  <1>8. ASSUME NEW c \in Crawls, Crawl!Finish(c) PROVE CrawlTyped'
    <2>1. place' \in [saturated : BOOLEAN, lastDup : {"none", "low", "high"}]
      <3>1. PICK h \in BOOLEAN : h <=> Crawl!HighRatio(local[c]) OBVIOUS
      <3>2. PICK t : t = [place EXCEPT !.lastDup = IF h THEN "high" ELSE "low"] OBVIOUS
      <3>3. t \in [saturated : BOOLEAN, lastDup : {"none", "low", "high"}]
        BY <3>2 DEF CrawlTyped, Crawl!TypeOK
      <3>4. PICK s \in BOOLEAN : s <=> (t.saturated \/ (h /\ t.lastDup = "high")) OBVIOUS
      <3>5. place' = [t EXCEPT !.saturated = s]
        BY <1>8, <3>1, <3>2, <3>3, <3>4 DEF Crawl!Finish, Crawl!NewStats
      <3> QED BY <3>3, <3>5
    <2>2. streak' \in 0..2 BY <1>8 DEF Crawl!Finish, CrawlTyped, Crawl!TypeOK
    <2> QED BY <1>8, <2>1, <2>2 DEF Crawl!Finish, CrawlTyped, Crawl!TypeOK
  <1>9. CASE Crawl!Age
    BY <1>9 DEF Crawl!Age, CrawlTyped, Crawl!TypeOK
  <1>11. CASE Crawl!sweep_unsaturate_old_territories
    <2>1. place' \in [saturated : BOOLEAN, lastDup : {"none", "low", "high"}]
      BY <1>11 DEF Crawl!sweep_unsaturate_old_territories
    <2> QED BY <1>11, <2>1 DEF Crawl!sweep_unsaturate_old_territories, CrawlTyped, Crawl!TypeOK
  <1>10. CASE UNCHANGED Crawl!vars BY <1>10 DEF Crawl!vars, CrawlTyped, Crawl!TypeOK
  <1> QED BY <1>1, <1>2, <1>3, <1>4, <1>5, <1>6, <1>7, <1>8, <1>9, <1>10, <1>11, <1>12
          DEF Crawl!Next, Crawl!Step, Crawl!RequestCrawl, Crawl!ScheduledCrawl

(* Crawls and the territory keep their types: what is stored, or counted as *)
(* a duplicate without being stored, is a business of the cities crawled.   *)
THEOREM CrawlTypes == Crawl!Spec => []Crawl!TypeOK
  <1>0. CrawlWorld BY CrawlAssumption DEF CrawlWorld
  <1>1. Crawl!Init => CrawlTyped BY <1>0, TypedInit
  <1>2. CrawlTyped /\ [Crawl!Next]_(Crawl!vars) => CrawlTyped' BY <1>0, TypedStep
  <1>3. CrawlTyped => Crawl!TypeOK BY DEF CrawlTyped
  <1> QED BY <1>1, <1>2, <1>3, PTL DEF Crawl!Spec

---------------------------------------------------------------------------
(* The advice drawn from outcomes                                          *)

(* Finitely many signals and industries, so finitely many kinds of         *)
(* snapshot; advice and a group need a member.                             *)
AdviceWorld ==
  /\ IsFiniteSet(Signals) /\ IsFiniteSet(Industries)
  /\ MaxCopies \in Nat /\ MinGroup \in Nat \ {0} /\ MinTotal \in Nat \ {0} /\ MaxOutcomes \in Nat

LEMMA FiniteFunctions ==
  ASSUME NEW S, NEW T, IsFiniteSet(S), IsFiniteSet(T) PROVE IsFiniteSet([S -> T])
  <1> DEFINE Graph(f) == {<<x, f[x]>> : x \in S}
             inj == [f \in [S -> T] |-> Graph(f)]
  <1>1. IsFiniteSet(SUBSET (S \X T)) BY FS_Product, FS_SUBSET
  <1>2. \A f \in [S -> T] : Graph(f) \in SUBSET (S \X T) OBVIOUS
  <1>3. ASSUME NEW f \in [S -> T], NEW g \in [S -> T], Graph(f) = Graph(g) PROVE f = g
    <2>1. ASSUME NEW x \in S PROVE f[x] = g[x]
      <3>1. <<x, f[x]>> \in Graph(g) BY <1>3
      <3> QED BY <3>1
    <2> QED BY <2>1
  <1>4. inj \in Injection([S -> T], SUBSET (S \X T))
    BY <1>2, <1>3 DEF Injection, IsInjective
  <1> QED BY <1>1, <1>4, FS_Injection

LEMMA FiniteKinds == AdviceWorld => IsFiniteSet(Advice!Kinds)
  <1> SUFFICES ASSUME AdviceWorld PROVE IsFiniteSet(Advice!Kinds) OBVIOUS
  <1> DEFINE Counts == [Signals -> 0..MaxCopies]
             Target == {"won", "lost"} \X (Counts \X Industries)
             inj == [k \in Advice!Kinds |-> <<k.outcome, <<k.signals, k.industry>>>>]
  <1>1. IsFiniteSet(Counts)
    <2>0. MaxCopies \in Int /\ 0 \in Int BY DEF AdviceWorld
    <2>1. IsFiniteSet(0..MaxCopies) BY <2>0, FS_Interval
    <2> QED BY <2>1, FiniteFunctions DEF AdviceWorld
  <1>2. IsFiniteSet({"won", "lost"})
    <2>1. IsFiniteSet({"won"} \cup {"lost"}) BY FS_EmptySet, FS_Singleton, FS_Union
    <2>2. {"won"} \cup {"lost"} = {"won", "lost"} OBVIOUS
    <2> QED BY <2>1, <2>2
  <1>3. IsFiniteSet(Target)
    <2>1. IsFiniteSet(Counts \X Industries) BY <1>1, FS_Product DEF AdviceWorld
    <2> QED BY <1>2, <2>1, FS_Product
  <1>4. inj \in Injection(Advice!Kinds, Target)
    BY DEF Injection, IsInjective, Advice!Kinds
  <1> QED BY <1>3, <1>4, FS_Injection

(* MapThenSumSet, unfolded for an operator. *)
SumOp(f(_), S) ==
  (CHOOSE g : g = [s \in SUBSET S |->
                    IF s = {} THEN 0 ELSE LET x == CHOOSE x \in s : TRUE IN f(x) + g[s \ {x}]])[S]

LEMMA CountIsSum == \A kinds : Advice!Count(kinds) = SumOf(snapshots, kinds)
  BY DEF Advice!Count, Advice!MapThenSumSet, Advice!MapThenFoldSet, SumOf, Sums

CountsTyped == snapshots \in [Advice!Kinds -> Nat]

\* The occurrences of a signal are a number.
LEMMA OccurrencesNat ==
  ASSUME AdviceWorld, CountsTyped, NEW s \in Signals, NEW K \in SUBSET Advice!Kinds
  PROVE  Advice!Occurrences(s, K) \in Nat
  <1> DEFINE F == [k \in K |-> snapshots[k] * k.signals[s]]
             IsIt(g) == g = [t \in SUBSET K |->
                    IF t = {} THEN 0 ELSE LET x == CHOOSE x \in t : TRUE
                                          IN snapshots[x] * x.signals[s] + g[t \ {x}]]
  <1>1. IsFiniteSet(K) BY FiniteKinds, FS_Subset
  <1>2. \A k \in K : F[k] \in Nat
    <2> SUFFICES ASSUME NEW k \in K PROVE F[k] \in Nat OBVIOUS
    <2>1. snapshots[k] \in Nat BY DEF CountsTyped
    <2>2. k.signals \in [Signals -> 0..MaxCopies] BY DEF Advice!Kinds
    <2>3. k.signals[s] \in Nat BY <2>2 DEF AdviceWorld
    <2>4. F[k] = snapshots[k] * k.signals[s] OBVIOUS
    <2> QED BY <2>1, <2>3, <2>4
  <1>3. NatOn(F, K) BY <1>2 DEF NatOn
  <1>4. \A g : IsIt(g) <=> Sums(g, F, K)
    <2> SUFFICES ASSUME NEW g PROVE IsIt(g) <=> Sums(g, F, K) OBVIOUS
    <2>1. ASSUME NEW t \in SUBSET K, t # {}
          PROVE  LET x == CHOOSE x \in t : TRUE IN F[x] = snapshots[x] * x.signals[s]
      BY <2>1
    <2> HIDE DEF F
    <2> QED BY <2>1 DEF Sums
  <1>5. \E g : IsIt(g)
    <2>1. PICK g : Sums(g, F, K) BY <1>1, <1>3, SumsExists
    <2> HIDE DEF IsIt
    <2> QED BY <2>1, <1>4
  <1> DEFINE c == CHOOSE g : IsIt(g)
  <1>6. IsIt(c) BY <1>5
  <1>7. Sums(c, F, K) BY <1>4, <1>6
  <1>8. Advice!Occurrences(s, K) = c[K]
    BY DEF Advice!Occurrences, Advice!MapThenSumSet, Advice!MapThenFoldSet
  <1> HIDE DEF c, IsIt
  <1>9. c[K] = SumOf(F, K) BY <1>1, <1>3, <1>7, SumsOne
  <1> HIDE DEF F
  <1>10. SumOf(F, K) \in Nat BY <1>1, <1>3, SumType
  <1> QED BY <1>8, <1>9, <1>10

LEMMA IndustrySum ==
  ASSUME AdviceWorld, CountsTyped, NEW ind \in Industries, NEW K \in SUBSET Advice!Kinds
  PROVE  SumOp(LAMBDA k : snapshots[k] * (IF k.industry = ind THEN 1 ELSE 0), K)
           = SumOf(snapshots, K \cap {k \in Advice!Kinds : k.industry = ind})
  <1> DEFINE Mine == {k \in Advice!Kinds : k.industry = ind}
             F == [k \in K |-> snapshots[k] * (IF k.industry = ind THEN 1 ELSE 0)]
             IsIt(g) == g = [t \in SUBSET K |->
                    IF t = {} THEN 0 ELSE LET x == CHOOSE x \in t : TRUE
                                          IN snapshots[x] * (IF x.industry = ind THEN 1 ELSE 0)
                                             + g[t \ {x}]]
  <1>1. IsFiniteSet(K) BY FiniteKinds, FS_Subset
  <1>2. \A k \in K : /\ snapshots[k] \in Nat
                     /\ F[k] = IF k \in Mine THEN snapshots[k] ELSE 0
    BY DEF CountsTyped
  <1>3. NatOn(F, K) /\ NatOn(snapshots, K) BY <1>2 DEF NatOn
  <1>4. \A g : IsIt(g) <=> Sums(g, F, K)
    <2> SUFFICES ASSUME NEW g PROVE IsIt(g) <=> Sums(g, F, K) OBVIOUS
    <2>1. ASSUME NEW t \in SUBSET K, t # {}
          PROVE  LET x == CHOOSE x \in t : TRUE
                 IN  F[x] = snapshots[x] * (IF x.industry = ind THEN 1 ELSE 0)
      BY <2>1
    <2> HIDE DEF F
    <2> QED BY <2>1 DEF Sums
  <1>5. \E g : IsIt(g)
    <2>1. PICK g : Sums(g, F, K) BY <1>1, <1>3, SumsExists
    <2> HIDE DEF IsIt
    <2> QED BY <2>1, <1>4
  <1> DEFINE c == CHOOSE g : IsIt(g)
  <1>6. IsIt(c) BY <1>5
  <1>7. Sums(c, F, K) BY <1>4, <1>6
  <1>8. SumOp(LAMBDA k : snapshots[k] * (IF k.industry = ind THEN 1 ELSE 0), K) = c[K] BY DEF SumOp
  <1> HIDE DEF c, IsIt
  <1>9. c[K] = SumOf(F, K) BY <1>1, <1>3, <1>7, SumsOne
  <1> HIDE DEF F, Mine
  <1>10. SumOf(F, K) = SumOf(snapshots, K \cap Mine) BY <1>1, <1>2, <1>3, SumSelect
  <1> QED BY <1>8, <1>9, <1>10 DEF Mine

LEMMA PlainSum ==
  ASSUME AdviceWorld, CountsTyped, NEW K \in SUBSET Advice!Kinds
  PROVE  SumOp(LAMBDA k : snapshots[k] * 1, K) = SumOf(snapshots, K)
  <1> DEFINE F == [k \in K |-> snapshots[k] * 1]
             IsIt(g) == g = [t \in SUBSET K |->
                    IF t = {} THEN 0 ELSE LET x == CHOOSE x \in t : TRUE
                                          IN snapshots[x] * 1 + g[t \ {x}]]
  <1>1. IsFiniteSet(K) BY FiniteKinds, FS_Subset
  <1>2. \A k \in K : snapshots[k] \in Nat /\ F[k] = snapshots[k]
    BY DEF CountsTyped
  <1>3. NatOn(F, K) /\ NatOn(snapshots, K) /\ SameOn(F, snapshots, K) BY <1>2 DEF NatOn, SameOn
  <1>4. \A g : IsIt(g) <=> Sums(g, F, K)
    <2> SUFFICES ASSUME NEW g PROVE IsIt(g) <=> Sums(g, F, K) OBVIOUS
    <2>1. ASSUME NEW t \in SUBSET K, t # {}
          PROVE  LET x == CHOOSE x \in t : TRUE IN F[x] = snapshots[x] * 1
      BY <2>1
    <2> HIDE DEF F
    <2> QED BY <2>1 DEF Sums
  <1>5. \E g : IsIt(g)
    <2>1. PICK g : Sums(g, F, K) BY <1>1, <1>3, SumsExists
    <2> HIDE DEF IsIt
    <2> QED BY <2>1, <1>4
  <1> DEFINE c == CHOOSE g : IsIt(g)
  <1>6. IsIt(c) BY <1>5
  <1>7. Sums(c, F, K) BY <1>4, <1>6
  <1>8. SumOp(LAMBDA k : snapshots[k] * 1, K) = c[K] BY DEF SumOp
  <1> HIDE DEF c, IsIt
  <1>9. c[K] = SumOf(F, K) BY <1>1, <1>3, <1>7, SumsOne
  <1> HIDE DEF F
  <1>10. SumOf(F, K) = SumOf(snapshots, K) BY <1>1, <1>3, SumSame
  <1> QED BY <1>8, <1>9, <1>10

---------------------------------------------------------------------------
(* What the analysis counts.                                               *)

Industry(ind) == {k \in Advice!Kinds : k.industry = ind}

LEMMA SignalStats ==
  ASSUME NEW s \in Signals
  PROVE  LET w == Advice!Occurrences(s, Advice!Won(Advice!Kinds))
             t == Advice!Occurrences(s, Advice!Kinds)
         IN  Advice!analyze_signal_correlations(s)
               = [won |-> w, total |-> t, win_rates |-> Advice!Rates(w, t)]
  BY DEF Advice!analyze_signal_correlations, Advice!Group, Advice!MapThenSumSet,
         Advice!MapThenFoldSet, Advice!Occurrences, Advice!Won

LEMMA IndustryStats ==
  ASSUME AdviceWorld, CountsTyped, NEW ind \in Industries
  PROVE  LET g == Advice!analyze_industry_performance(ind)
             w == Advice!Count(Advice!Won(Industry(ind)))
             t == Advice!Count(Industry(ind))
         IN  g = [won |-> w, total |-> t, win_rates |-> Advice!Rates(w, t)]
  <1> DEFINE W(K) == SumOp(LAMBDA k : snapshots[k] * (IF k.industry = ind THEN 1 ELSE 0), K)
             won == {k \in Advice!Kinds : k.outcome = "won"}
  <1>1. Advice!analyze_industry_performance(ind)
          = [won |-> W(won), total |-> W(Advice!Kinds),
             win_rates |-> Advice!Rates(W(won), W(Advice!Kinds))]
    BY DEF Advice!analyze_industry_performance, Advice!Group, Advice!MapThenSumSet,
           Advice!MapThenFoldSet, SumOp
  <1>2. W(won) = Advice!Count(Advice!Won(Industry(ind)))
    <2>1. W(won) = SumOf(snapshots, won \cap Industry(ind)) BY IndustrySum DEF Industry
    <2>2. won \cap Industry(ind) = Advice!Won(Industry(ind)) BY DEF Advice!Won, Industry
    <2> QED BY <2>1, <2>2, CountIsSum
  <1>3. W(Advice!Kinds) = Advice!Count(Industry(ind))
    <2>1. W(Advice!Kinds) = SumOf(snapshots, Advice!Kinds \cap Industry(ind)) BY IndustrySum DEF Industry
    <2>2. Advice!Kinds \cap Industry(ind) = Industry(ind) BY DEF Industry
    <2> QED BY <2>1, <2>2, CountIsSum
  <1> HIDE DEF W
  <1> QED BY <1>1, <1>2, <1>3

LEMMA SummaryStats ==
  ASSUME AdviceWorld, CountsTyped
  PROVE  LET w == Advice!Count(Advice!Won(Advice!Kinds))
             t == Advice!Count(Advice!Kinds)
         IN  Advice!get_outcome_summary = [won |-> w, total |-> t, win_rates |-> Advice!Rates(w, t)]
  <1> DEFINE W(K) == SumOp(LAMBDA k : snapshots[k] * 1, K)
             won == {k \in Advice!Kinds : k.outcome = "won"}
  <1>1. Advice!get_outcome_summary
          = [won |-> W(won), total |-> W(Advice!Kinds),
             win_rates |-> Advice!Rates(W(won), W(Advice!Kinds))]
    BY DEF Advice!get_outcome_summary, Advice!Group, Advice!MapThenSumSet,
           Advice!MapThenFoldSet, SumOp
  <1>2. W(won) = Advice!Count(Advice!Won(Advice!Kinds))
    BY PlainSum, CountIsSum DEF Advice!Won
  <1>3. W(Advice!Kinds) = Advice!Count(Advice!Kinds) BY PlainSum, CountIsSum
  <1> HIDE DEF W
  <1> QED BY <1>1, <1>2, <1>3

---------------------------------------------------------------------------
(* A rounded rate is within half a point of the rate, so the rates are     *)
(* apart by what their percentages are, but for a point.                   *)

LEMMA RateNear ==
  ASSUME NEW won \in Nat, NEW total \in Nat \ {0}, NEW r \in Advice!Rates(won, total)
  PROVE  /\ r \in Nat
         /\ 2 * (total * r) <= 200 * won + total
         /\ 200 * won <= 2 * (total * r) + total
  <1>1. r \in Nat /\ 200 * won - 2 * (r * total) \in -total..total BY DEF Advice!Rates
  <1> DEFINE p == total * r
  <1>2. p \in Nat /\ r * total = p BY <1>1
  <1> HIDE DEF p
  <1>3. 2 * p <= 200 * won + total /\ 200 * won <= 2 * p + total BY <1>1, <1>2
  <1> QED BY <1>1, <1>3 DEF p

LEMMA RateApart ==
  ASSUME NEW w1 \in Nat, NEW t1 \in Nat \ {0}, NEW w2 \in Nat, NEW t2 \in Nat \ {0},
         NEW r1 \in Advice!Rates(w1, t1), NEW r2 \in Advice!Rates(w2, t2)
  PROVE  LET d == r1 - r2
             x == 100 * (w1 * t2 - w2 * t1)
             p == t1 * t2
         IN  d \in Int /\ x \in Int /\ p \in Nat /\ x >= p * d - p /\ x <= p * d + p
  <1>1. /\ r1 \in Nat /\ r2 \in Nat
        /\ 2 * (t1 * r1) <= 200 * w1 + t1 /\ 200 * w1 <= 2 * (t1 * r1) + t1
        /\ 2 * (t2 * r2) <= 200 * w2 + t2 /\ 200 * w2 <= 2 * (t2 * r2) + t2
    BY RateNear
  <1> DEFINE p == t1 * t2
             a == p * r1
             b == p * r2
             x == w1 * t2
             y == w2 * t1
  <1>2. p \in Nat /\ a \in Nat /\ b \in Nat /\ x \in Nat /\ y \in Nat BY <1>1
  <1>3. 2 * a <= 200 * x + p /\ 200 * x <= 2 * a + p
    <2>1. /\ t2 * (2 * (t1 * r1)) <= t2 * (200 * w1 + t1)
          /\ t2 * (200 * w1) <= t2 * (2 * (t1 * r1) + t1)
      BY <1>1
    <2> QED BY <2>1, <1>1
  <1>4. 2 * b <= 200 * y + p /\ 200 * y <= 2 * b + p
    <2>1. /\ t1 * (2 * (t2 * r2)) <= t1 * (200 * w2 + t2)
          /\ t1 * (200 * w2) <= t1 * (2 * (t2 * r2) + t2)
      BY <1>1
    <2> QED BY <2>1, <1>1
  <1>5. p * (r1 - r2) = a - b BY <1>1
  <1> HIDE DEF p, a, b, x, y
  <1>6. 100 * (x - y) >= (a - b) - p /\ 100 * (x - y) <= (a - b) + p BY <1>2, <1>3, <1>4
  <1>7. p * (r1 - r2) \in Int /\ r1 - r2 \in Int /\ 100 * (x - y) \in Int BY <1>1, <1>2, <1>5
  <1> QED BY <1>2, <1>5, <1>6, <1>7 DEF x, y, p

\* A difference of d points or more (or less), in terms of the spread p.
LEMMA Spread ==
  ASSUME NEW p \in Nat, NEW d \in Int, NEW n \in Int
  PROVE  /\ d >= n => p * d >= n * p
         /\ d <= n => p * d <= n * p
  <1>1. p * d = d * p /\ p * d \in Int OBVIOUS
  <1>2. d >= n => p * (d - n) >= 0 OBVIOUS
  <1>3. d <= n => p * (n - d) >= 0 OBVIOUS
  <1>4. p * (d - n) = p * d - p * n /\ p * (n - d) = p * n - p * d OBVIOUS
  <1>5. p * n = n * p /\ p * n \in Int OBVIOUS
  <1> QED BY <1>1, <1>2, <1>3, <1>4, <1>5

LEMMA CountPart ==
  ASSUME AdviceWorld, CountsTyped, NEW K \in SUBSET Advice!Kinds, NEW J \in SUBSET K
  PROVE  /\ Advice!Count(K) \in Nat /\ Advice!Count(J) \in Nat
         /\ Advice!Count(J) <= Advice!Count(K)
         /\ Advice!Count(K) = Advice!Count(J) + Advice!Count(K \ J)
  <1>1. IsFiniteSet(K) /\ NatOn(snapshots, K) BY FiniteKinds, FS_Subset DEF NatOn, CountsTyped
  <1>2. IsFiniteSet(J) /\ K \cap J = J BY <1>1, FS_Subset
  <1>3. SumOf(snapshots, K) \in Nat BY <1>1, SumType
  <1>4. SumOf(snapshots, J) \in Nat /\ SumOf(snapshots, J) <= SumOf(snapshots, K)
    BY <1>1, SumPart
  <1>5. SumOf(snapshots, K) = SumOf(snapshots, K \cap J) + SumOf(snapshots, K \ J)
    BY <1>1, SumSplit
  <1>6. SumOf(snapshots, K) = SumOf(snapshots, J) + SumOf(snapshots, K \ J) BY <1>2, <1>5
  <1> QED BY <1>3, <1>4, <1>6, CountIsSum

\* The average, and a group beside it.
LEMMA GroupApart ==
  ASSUME AdviceWorld, CountsTyped, Advice!sufficient_data,
         NEW w \in Nat, NEW t \in Nat \ {0}, NEW g,
         g = [won |-> w, total |-> t, win_rates |-> Advice!Rates(w, t)],
         NEW d \in Advice!Differences(g), NEW n \in Int
  PROVE  /\ d \in Int
         /\ d >= n => Advice!AtLeast(w, t, n - 1)
         /\ d <= n => Advice!AtMost(w, t, n + 1)
  <1> DEFINE w0 == Advice!Count(Advice!Won(Advice!Kinds))
             t0 == Advice!Count(Advice!Kinds)
  <1>1. Advice!get_outcome_summary = [won |-> w0, total |-> t0, win_rates |-> Advice!Rates(w0, t0)]
    BY SummaryStats
  <1>2. t0 \in Nat /\ w0 \in Nat
    <2>1. Advice!Kinds \in SUBSET Advice!Kinds /\ Advice!Won(Advice!Kinds) \in SUBSET Advice!Kinds
      BY DEF Advice!Won
    <2> QED BY <2>1, CountPart
  <1>3. t0 >= MinTotal BY <1>1 DEF Advice!sufficient_data
  <1>4. t0 \in Nat \ {0} BY <1>2, <1>3 DEF AdviceWorld
  <1>5. PICK r1 \in Advice!Rates(w, t), r2 \in Advice!Rates(w0, t0) : d = r1 - r2
    BY <1>1 DEF Advice!Differences
  <1> HIDE DEF w0, t0
  <1> DEFINE x == 100 * (w * t0 - w0 * t)
             p == t * t0
  <1>6. d \in Int /\ x \in Int /\ p \in Nat /\ x >= p * d - p /\ x <= p * d + p
    BY <1>2, <1>4, <1>5, RateApart
  <1>7. /\ Advice!AtLeast(w, t, n - 1) <=> x >= (n - 1) * p
        /\ Advice!AtMost(w, t, n + 1) <=> x <= (n + 1) * p
    BY DEF Advice!AtLeast, Advice!AtMost, w0, t0
  <1> HIDE DEF x, p
  <1>8. /\ d >= n => p * d >= n * p
        /\ d <= n => p * d <= n * p
    BY <1>6, Spread
  <1>9. (n - 1) * p = n * p - p /\ (n + 1) * p = n * p + p /\ n * p \in Int /\ p * d \in Int BY <1>6
  <1>10. d >= n => x >= n * p - p BY <1>6, <1>8, <1>9
  <1>11. d <= n => x <= n * p + p BY <1>6, <1>8, <1>9
  <1> QED BY <1>6, <1>7, <1>9, <1>10, <1>11

(* A signal is advised a weight for a difference of 14 points at least,    *)
(* and none for one of 16 at most.                                         *)
LEMMA WeightEarned == ASSUME AdviceWorld, CountsTyped PROVE Advice!EarnedWeight
  <1> SUFFICES ASSUME NEW s \in Signals
               PROVE  LET won == Advice!Occurrences(s, Advice!Won(Advice!Kinds))
                          total == Advice!Occurrences(s, Advice!Kinds)
                          enough == Advice!sufficient_data /\ total >= MinGroup
                          advice == Advice!SignalAdvice(s)
                      IN  /\ "increase_weight" \in advice => Advice!AtLeast(won, total, 14)
                          /\ "decrease_weight" \in advice => Advice!AtMost(won, total, -14)
                          /\ "none" \in advice /\ enough =>
                               Advice!AtLeast(won, total, -16) /\ Advice!AtMost(won, total, 16)
    BY DEF Advice!EarnedWeight
  <1> DEFINE w == Advice!Occurrences(s, Advice!Won(Advice!Kinds))
             t == Advice!Occurrences(s, Advice!Kinds)
             g == Advice!analyze_signal_correlations(s)
             advice == Advice!SignalAdvice(s)
             enough == Advice!sufficient_data /\ t >= MinGroup
  <1>1. g = [won |-> w, total |-> t, win_rates |-> Advice!Rates(w, t)] BY SignalStats
  <1>2. w \in Nat /\ t \in Nat
    <2>1. Advice!Kinds \in SUBSET Advice!Kinds /\ Advice!Won(Advice!Kinds) \in SUBSET Advice!Kinds
      BY DEF Advice!Won
    <2> QED BY <2>1, OccurrencesNat
  <1>3. Advice!Enough(g) <=> enough BY <1>1 DEF Advice!Enough
  <1>4. enough => t \in Nat \ {0} BY <1>2 DEF AdviceWorld
  <1>5. /\ ~enough => advice = {"none"}
        /\ enough /\ "increase_weight" \in advice => \E d \in Advice!Differences(g) : d >= 15
        /\ enough /\ "decrease_weight" \in advice => \E d \in Advice!Differences(g) : d <= -15
        /\ enough /\ "none" \in advice => \E d \in Advice!Differences(g) : -15 <= d /\ d <= 15
    BY <1>3 DEF Advice!SignalAdvice
  <1> HIDE DEF w, t, g, advice
  <1>6. ASSUME enough, NEW d \in Advice!Differences(g)
        PROVE  /\ d \in Int
               /\ d >= 15 => Advice!AtLeast(w, t, 15 - 1)
               /\ d >= -15 => Advice!AtLeast(w, t, -15 - 1)
               /\ d <= 15 => Advice!AtMost(w, t, 15 + 1)
               /\ d <= -15 => Advice!AtMost(w, t, -15 + 1)
    <2>1. Advice!sufficient_data /\ t \in Nat \ {0} BY <1>4, <1>6
    <2>2. 15 \in Int /\ -15 \in Int OBVIOUS
    <2>3. \A n \in Int : /\ d \in Int
                         /\ d >= n => Advice!AtLeast(w, t, n - 1)
                         /\ d <= n => Advice!AtMost(w, t, n + 1)
      BY <1>1, <1>2, <1>6, <2>1, GroupApart
    <2> QED BY <2>2, <2>3
  <1>7. 15 - 1 = 14 /\ 15 + 1 = 16 /\ -15 - 1 = -16 /\ -15 + 1 = -14 OBVIOUS
  <1>8. enough /\ "increase_weight" \in advice => Advice!AtLeast(w, t, 14) BY <1>5, <1>6, <1>7
  <1>9. enough /\ "decrease_weight" \in advice => Advice!AtMost(w, t, -14) BY <1>5, <1>6, <1>7
  <1>10. enough /\ "none" \in advice => Advice!AtLeast(w, t, -16) /\ Advice!AtMost(w, t, 16)
    BY <1>5, <1>6, <1>7
  <1> QED BY <1>5, <1>8, <1>9, <1>10 DEF w, t, advice

(* An industry is called valuable for a difference of 19 points at least,  *)
(* and is not for one of 21 at most.                                       *)
LEMMA IndustryEarned == ASSUME AdviceWorld, CountsTyped PROVE Advice!ValuableIndustry
  <1> SUFFICES ASSUME NEW ind \in Industries
               PROVE  LET won == Advice!Count(Advice!Won(Industry(ind)))
                          total == Advice!Count(Industry(ind))
                          enough == Advice!sufficient_data /\ total >= MinGroup
                          advice == Advice!IndustryAdvice(ind)
                      IN  /\ "high_value_industry" \in advice => Advice!AtLeast(won, total, 19)
                          /\ "none" \in advice /\ enough => Advice!AtMost(won, total, 21)
    BY DEF Advice!ValuableIndustry, Industry
  <1> DEFINE w == Advice!Count(Advice!Won(Industry(ind)))
             t == Advice!Count(Industry(ind))
             g == Advice!analyze_industry_performance(ind)
             advice == Advice!IndustryAdvice(ind)
             enough == Advice!sufficient_data /\ t >= MinGroup
  <1>1. g = [won |-> w, total |-> t, win_rates |-> Advice!Rates(w, t)] BY IndustryStats
  <1>2. w \in Nat /\ t \in Nat
    <2>1. Industry(ind) \in SUBSET Advice!Kinds /\ Advice!Won(Industry(ind)) \in SUBSET Industry(ind)
      BY DEF Advice!Won, Industry
    <2> QED BY <2>1, CountPart
  <1>3. Advice!Enough(g) <=> enough BY <1>1 DEF Advice!Enough
  <1>4. enough => t \in Nat \ {0} BY <1>2 DEF AdviceWorld
  <1>5. /\ ~enough => advice = {"none"}
        /\ enough /\ "high_value_industry" \in advice => \E d \in Advice!Differences(g) : d >= 20
        /\ enough /\ "none" \in advice => \E d \in Advice!Differences(g) : d <= 20
    BY <1>3 DEF Advice!IndustryAdvice
  <1> HIDE DEF w, t, g, advice
  <1>6. ASSUME enough, NEW d \in Advice!Differences(g)
        PROVE  /\ d >= 20 => Advice!AtLeast(w, t, 20 - 1)
               /\ d <= 20 => Advice!AtMost(w, t, 20 + 1)
    <2>1. Advice!sufficient_data /\ t \in Nat \ {0} /\ 20 \in Int BY <1>4, <1>6
    <2> QED BY <1>1, <1>2, <1>6, <2>1, GroupApart
  <1>7. 20 - 1 = 19 /\ 20 + 1 = 21 OBVIOUS
  <1>8. enough /\ "high_value_industry" \in advice => Advice!AtLeast(w, t, 19) BY <1>5, <1>6, <1>7
  <1>9. enough /\ "none" \in advice => Advice!AtMost(w, t, 21) BY <1>5, <1>6, <1>7
  <1> QED BY <1>5, <1>8, <1>9 DEF w, t, advice

---------------------------------------------------------------------------
(* The snapshots are as many as were captured.                             *)

LEMMA TypedCounts == ASSUME AdviceWorld, Advice!TypeOK PROVE CountsTyped
  BY DEF AdviceWorld, Advice!TypeOK, CountsTyped

LEMMA AdviceInit == ASSUME AdviceWorld, Advice!Init PROVE Advice!TypeOK
  <1>1. snapshots \in [Advice!Kinds -> 0..MaxOutcomes] BY DEF Advice!Init, AdviceWorld
  <1>2. Advice!Count(Advice!Kinds) = 0
    <2>1. IsFiniteSet(Advice!Kinds) /\ \A k \in Advice!Kinds : snapshots[k] = 0
      BY FiniteKinds DEF Advice!Init
    <2>2. SumOf(snapshots, Advice!Kinds) = 0 BY <2>1, SumZero
    <2> QED BY <2>2, CountIsSum
  <1>3. \A i \in DOMAIN corrections : corrections[i] \in Categories BY DEF Advice!Init
  <1> QED BY <1>1, <1>2, <1>3 DEF Advice!TypeOK, AdviceWorld

LEMMA AdviceStep ==
  ASSUME AdviceWorld, Advice!TypeOK, corrections \in Seq(Categories), [Advice!Next]_(Advice!vars)
  PROVE  Advice!TypeOK'
  <1>1. CASE UNCHANGED Advice!vars
    <2>1. snapshots' = snapshots /\ corrections' = corrections BY <1>1 DEF Advice!vars
    <2>2. Advice!Count(Advice!Kinds)' = Advice!Count(Advice!Kinds)
      BY <2>1, CountIsSum DEF Advice!Count, Advice!MapThenSumSet, Advice!MapThenFoldSet, SumOf, Sums
    <2> QED BY <2>1, <2>2 DEF Advice!TypeOK, Advice!Kinds
  <1>2. ASSUME NEW k \in Advice!Kinds, Advice!CaptureOutcome(k) PROVE Advice!TypeOK'
    <2>1. /\ Advice!Count(Advice!Kinds) < MaxOutcomes
          /\ snapshots' = [snapshots EXCEPT ![k] = snapshots[k] + 1]
          /\ corrections' = corrections
      BY <1>2 DEF Advice!CaptureOutcome
    <2>2. snapshots \in [Advice!Kinds -> 0..MaxOutcomes] /\ CountsTyped
      BY TypedCounts DEF Advice!TypeOK
    <2>3. IsFiniteSet(Advice!Kinds) /\ NatOn(snapshots, Advice!Kinds)
      BY <2>2, FiniteKinds DEF NatOn, CountsTyped
    <2>4. snapshots[k] < MaxOutcomes
      <3>1. SumOf(snapshots, Advice!Kinds) = snapshots[k] + SumOf(snapshots, Advice!Kinds \ {k})
        BY <2>3, SumRemove
      <3>2. SumOf(snapshots, Advice!Kinds \ {k}) \in Nat BY <2>3, SumPart
      <3>3. snapshots[k] \in Nat /\ MaxOutcomes \in Nat BY <2>3 DEF NatOn, AdviceWorld
      <3>4. SumOf(snapshots, Advice!Kinds) < MaxOutcomes BY <2>1, CountIsSum
      <3> QED BY <3>1, <3>2, <3>3, <3>4
    <2>5. snapshots' \in [Advice!Kinds -> 0..MaxOutcomes]
      <3>1. snapshots[k] + 1 \in 0..MaxOutcomes BY <2>2, <2>4 DEF AdviceWorld
      <3> QED BY <2>1, <2>2, <3>1
    <2>6. SumOf(snapshots', Advice!Kinds) = SumOf(snapshots, Advice!Kinds) + 1
      <3>1. snapshots'[k] = snapshots[k] + 1 /\ \A x \in Advice!Kinds \ {k} : snapshots'[x] = snapshots[x]
        BY <2>1, <2>2
      <3> QED BY <2>3, <3>1, SumOneMore
    <2>7. Advice!Count(Advice!Kinds)' = SumOf(snapshots', Advice!Kinds)
      BY DEF Advice!Count, Advice!MapThenSumSet, Advice!MapThenFoldSet, SumOf, Sums, Advice!Kinds
    <2>8. SumOf(snapshots, Advice!Kinds) \in Nat BY <2>3, SumType
    <2>9. Advice!Count(Advice!Kinds)' <= MaxOutcomes
      <3>1. SumOf(snapshots, Advice!Kinds) < MaxOutcomes BY <2>1, CountIsSum
      <3>2. MaxOutcomes \in Nat BY DEF AdviceWorld
      <3> QED BY <2>6, <2>7, <2>8, <3>1, <3>2
    <2>10. \A i \in DOMAIN corrections' : corrections'[i] \in Categories BY <2>1 DEF Advice!TypeOK
    <2> QED BY <2>5, <2>9, <2>10 DEF Advice!TypeOK, Advice!Kinds
  <1>3. ASSUME NEW c \in Categories, Advice!RecordCorrection(c) PROVE Advice!TypeOK'
    <2>1. snapshots' = snapshots /\ corrections' = Append(corrections, c)
      BY <1>3 DEF Advice!RecordCorrection
    <2>2. Advice!Count(Advice!Kinds)' = Advice!Count(Advice!Kinds)
      BY <2>1, CountIsSum DEF Advice!Count, Advice!MapThenSumSet, Advice!MapThenFoldSet, SumOf, Sums
    <2>3. corrections' \in Seq(Categories) BY <2>1
    <2>4. \A i \in DOMAIN corrections' : corrections'[i] \in Categories BY <2>3
    <2> QED BY <2>1, <2>2, <2>4 DEF Advice!TypeOK, Advice!Kinds
  <1> QED BY <1>1, <1>2, <1>3 DEF Advice!Next

LEMMA AdviceTyped == Advice!Spec => [](corrections \in Seq(Categories))
  <1>1. Advice!Init => corrections \in Seq(Categories) BY DEF Advice!Init
  <1>2. corrections \in Seq(Categories) /\ [Advice!Next]_(Advice!vars)
          => (corrections \in Seq(Categories))'
    BY DEF Advice!Next, Advice!CaptureOutcome, Advice!RecordCorrection, Advice!vars
  <1> QED BY <1>1, <1>2, PTL DEF Advice!Spec

(* A category that none of the last Window corrections names gets no       *)
(* advice, for every length of the history.                                *)
LEMMA OldForgotten ==
  ASSUME Window \in Nat, corrections \in Seq(Categories) PROVE Advice!OldCorrectionsForgotten
  <1> SUFFICES ASSUME NEW c \in Categories,
                      Len(corrections) >= Window,
                      \A i \in (Len(corrections) - Window + 1)..Len(corrections) :
                        corrections[i] # c
               PROVE  c \notin Advice!PromptAdvice
    BY DEF Advice!OldCorrectionsForgotten
  <1> DEFINE n == Len(corrections)
             R == Advice!Recent
  <1>1. n \in Nat /\ DOMAIN corrections = 1 .. n /\ n >= Window OBVIOUS
  <1>2. \A i \in DOMAIN R : R[i] # c
    <2>1. CASE n <= Window
      <3>1. R = [i \in 1 .. n |-> corrections[(n - i) + 1]]
        BY <2>1 DEF Advice!Recent, Advice!Reverse
      <3>2. n = Window
        <4> HIDE DEF n
        <4> QED BY <1>1, <2>1
      <3>3. \A i \in 1 .. n : (n - i) + 1 \in (n - Window + 1) .. n BY <1>1, <3>2
      <3> QED BY <3>1, <3>3
    <2>2. CASE ~(n <= Window)
      <3>1. PICK m \in Nat : m = n - Window + 1 BY <1>1, <2>2
      <3>2. PICK s : s = SubSeq(corrections, m, n) OBVIOUS
      <3>3. /\ s = [i \in 1 .. (n - m) + 1 |-> corrections[(i + m) - 1]] /\ Len(s) = (n - m) + 1
        BY <1>1, <2>2, <3>1, <3>2
      <3>4. R = [i \in 1 .. Len(s) |-> s[(Len(s) - i) + 1]]
        BY <2>2, <3>1, <3>2 DEF Advice!Recent, Advice!Reverse
      <3>5. Len(s) = Window /\ Len(s) \in Nat BY <1>1, <3>1, <3>3
      <3>6. \A i \in 1 .. Len(s) : /\ (Len(s) - i) + 1 \in 1 .. (n - m) + 1
                                   /\ ((Len(s) - i) + 1 + m) - 1 \in (n - Window + 1) .. n
        BY <1>1, <3>1, <3>3, <3>5
      <3> QED BY <3>3, <3>4, <3>6
    <2> QED BY <2>1, <2>2
  <1>3. {i \in DOMAIN R : R[i] = c} = {} BY <1>2
  <1>4. Advice!CorrectionCount(c) = 0
    BY <1>3, SameCardinality, FS_EmptySet DEF Advice!CorrectionCount
  <1> QED BY <1>4 DEF Advice!PromptAdvice

(* Snapshots are counted, and corrections name categories.                 *)
THEOREM AdviceTypes == AdviceWorld => (Advice!Spec => []Advice!TypeOK)
  <1> SUFFICES ASSUME AdviceWorld PROVE Advice!Spec => []Advice!TypeOK OBVIOUS
  <1>1. Advice!Init => Advice!TypeOK BY AdviceInit
  <1>2. Advice!TypeOK /\ corrections \in Seq(Categories) /\ [Advice!Next]_(Advice!vars)
          => Advice!TypeOK'
    BY AdviceStep
  <1> QED BY <1>1, <1>2, AdviceTyped, PTL DEF Advice!Spec

(* Advice is earned and withheld within a point of its threshold, for any  *)
(* number of outcomes, however the rates are rounded and however often a   *)
(* lead carries a signal, and corrections that left the window earn none   *)
(* (generate_scoring_recommendations).                                     *)
THEOREM AdviceIsEarned == AdviceWorld /\ Window \in Nat => (Advice!Spec => []AdviceEarned)
  <1> SUFFICES ASSUME AdviceWorld, Window \in Nat PROVE Advice!Spec => []AdviceEarned OBVIOUS
  <1>1. Advice!Init => Advice!TypeOK BY AdviceInit
  <1>2. Advice!TypeOK /\ corrections \in Seq(Categories) /\ [Advice!Next]_(Advice!vars)
          => Advice!TypeOK'
    BY AdviceStep
  <1>3. Advice!TypeOK /\ corrections \in Seq(Categories) => AdviceEarned
    <2> SUFFICES ASSUME Advice!TypeOK, corrections \in Seq(Categories) PROVE AdviceEarned
      OBVIOUS
    <2>1. CountsTyped BY TypedCounts
    <2> QED BY <2>1, WeightEarned, IndustryEarned, OldForgotten DEF AdviceEarned
  <1> QED BY <1>1, <1>2, <1>3, AdviceTyped, PTL DEF Advice!Spec

---------------------------------------------------------------------------
(* Every component keeps its types while the others rest. *)
THEOREM TypesCorrect ==
  Attempts /\ BoundedEvidence /\ BatchBounds /\ AdviceWorld =>
    (Spec /\ Batch!Spec /\ Crawl!Spec /\ Review!Spec /\ Advice!Spec /\ LLM!Spec => []TypesOK)
  <1> SUFFICES ASSUME Attempts, BoundedEvidence, BatchBounds, AdviceWorld
               PROVE  Spec /\ Batch!Spec /\ Crawl!Spec /\ Review!Spec /\ Advice!Spec /\ LLM!Spec
                        => []TypesOK
    OBVIOUS
  <1>1. TypeOK /\ Batch!TypeOK /\ Crawl!TypeOK /\ Review!TypeOK /\ Advice!TypeOK /\ LLM!TypeOK
          => TypesOK
    BY DEF TypesOK
  <1>2. Batch!Spec => []Batch!TypeOK BY BatchTypes
  <1>3. Review!Spec => []Review!TypeOK BY ReviewTypes
  <1>4. Advice!Spec => []Advice!TypeOK BY AdviceTypes
  <1>5. LLM!Spec => []LLM!TypeOK BY CallTypes
  <1> QED BY <1>1, <1>2, <1>3, <1>4, <1>5, GrowthTypes, CrawlTypes, PTL
=============================================================================

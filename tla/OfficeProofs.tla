---------------------------- MODULE OfficeProofs ----------------------------
(***************************************************************************)
(* What the operator works with, for every set of callers, turns, requests *)
(* and channels: notifications, the Mote agent, the operational settings   *)
(* and the credentials.                                                    *)
(***************************************************************************)
EXTENDS Office, FiniteSetTheorems, TLAPS

LEMMA SameCardinality == \A S : Notes!Cardinality(S) = Cardinality(S)
  BY DEF Notes!Cardinality, Cardinality

---------------------------------------------------------------------------
(* Notifications: the events                                               *)

EventKinds == {"reply", "score", "brief", "send", "sync", "research", "territory", "security",
               "failures"}

(* The rate guard lets at least one notification through, and callers emit  *)
(* the events of notification_emitter.py.                                   *)
Emitters == RateMax \in Nat \ {0} /\ Kinds \subseteq EventKinds

(* The dedup key of an event is determined by its type and its source.      *)
Prefix(type) == IF type \in {"interested", "review_required"} THEN "reply_classified"
                ELSE IF type = "high_score_lead" THEN "high_score" ELSE type
KeyOf(type, src) ==
  IF type \in {"security", "repeated_failures"} THEN Notes!NoKey ELSE <<Prefix(type), src>>

Idleness == <<"pipeline_inactive", "none">>
Keyed(ev) == ev.key = KeyOf(ev.type, ev.src)
Emitted == UNION Notes!Emissions
Events == Emitted \cup Notes!on_repeated_failures \cup Notes!_check_pipeline_inactive(TRUE)

LEMMA EmissionShape ==
  ASSUME Emitters, NEW emits \in Notes!Emissions
  PROVE  /\ \A ev \in emits : Keyed(ev) /\ ev.key # Idleness
         /\ \A e, f \in emits : e = f
  <1>1. PICK kind \in Kinds, s \in Subjects : emits \in Notes!EmissionsOf(kind, s)
    BY DEF Notes!Emissions
  <1>2. kind \in EventKinds BY DEF Emitters
  <1> USE DEF Notes!Event, Keyed, KeyOf, Prefix, Idleness, Notes!NoKey
  <1>3. CASE kind = "reply"
    <2>1. PICK l \in {"interested", "neutral"}, x \in BOOLEAN :
            emits = Notes!on_reply_classified(s, l, x)
      BY <1>1, <1>3 DEF Notes!EmissionsOf
    <2>2. emits = {} \/ \E sev : emits = {Notes!Event("interested", "business", sev,
                                                   <<"reply_classified", s>>, s)}
                     \/ \E sv : emits = {Notes!Event("review_required", "business", sv,
                                                   <<"reply_classified", s>>, s)}
      BY <2>1 DEF Notes!on_reply_classified
    <2> QED BY <2>2
  <1>4. CASE kind = "score"
    <2>1. PICK x \in BOOLEAN : emits = Notes!on_high_score_lead(s, x)
      BY <1>1, <1>4 DEF Notes!EmissionsOf
    <2> QED BY <2>1 DEF Notes!on_high_score_lead
  <1>5. CASE kind = "brief"
    <2>1. PICK x \in BOOLEAN : emits = Notes!on_brief_generated(s, x)
      BY <1>1, <1>5 DEF Notes!EmissionsOf
    <2> QED BY <2>1 DEF Notes!on_brief_generated
  <1>6. CASE kind = "send"
    BY <1>1, <1>6 DEF Notes!EmissionsOf, Notes!on_send_failed
  <1>7. CASE kind = "sync"
    BY <1>1, <1>7 DEF Notes!EmissionsOf, Notes!on_sync_failed
  <1>8. CASE kind = "research"
    BY <1>1, <1>8 DEF Notes!EmissionsOf, Notes!on_research_completed
  <1>9. CASE kind = "territory"
    BY <1>1, <1>9 DEF Notes!EmissionsOf, Notes!on_territory_saturated
  <1>10. CASE kind = "security"
    BY <1>1, <1>10 DEF Notes!EmissionsOf, Notes!on_security_event
  <1>11. CASE kind = "failures"
    BY <1>1, <1>11 DEF Notes!EmissionsOf, Notes!on_repeated_failures
  <1> QED BY <1>2, <1>3, <1>4, <1>5, <1>6, <1>7, <1>8, <1>9, <1>10, <1>11 DEF EventKinds

LEMMA EventKeys == Emitters => \A ev \in Events : Keyed(ev)
  <1> SUFFICES ASSUME Emitters, NEW ev \in Events PROVE Keyed(ev)
    OBVIOUS
  <1>1. CASE ev \in Emitted BY <1>1, EmissionShape DEF Emitted
  <1>2. CASE ev \in Notes!on_repeated_failures
    BY <1>2 DEF Notes!on_repeated_failures, Notes!Event, Keyed, KeyOf
  <1>3. CASE ev \in Notes!_check_pipeline_inactive(TRUE)
    BY <1>3 DEF Notes!_check_pipeline_inactive, Notes!Event, Keyed, KeyOf, Prefix
  <1> QED BY <1>1, <1>2, <1>3 DEF Events

LEMMA SweepKeys ==
  /\ \A ev \in Notes!on_repeated_failures : ev.key = Notes!NoKey
  /\ \A ev \in Notes!_check_pipeline_inactive(TRUE) : ev.key = Idleness
  BY DEF Notes!on_repeated_failures, Notes!_check_pipeline_inactive, Notes!Event, Idleness

---------------------------------------------------------------------------
(* Notifications: the inductive invariant                                  *)

NoteRows == [ev : Events, status : {"unread"}, sent : SUBSET Notes!Channels]
TxRows == [pc : {"idle", "guard", "insert", "dispatch", "commit", "done"},
           emits : Notes!Emissions \cup {{}},
           own : {<<>>} \cup {<<r>> : r \in NoteRows}, work : BOOLEAN]

NotesTyped ==
  /\ rows \in Seq(NoteRows) /\ tx \in [Callers -> TxRows] /\ work \in [Callers -> BOOLEAN]

HasKey(k) == \E i \in DOMAIN rows : rows[i].ev.key = k
Noted(c) == \A ev \in tx[c].emits : ev.key # Notes!NoKey => HasKey(ev.key)

(* An uncommitted row is of the caller's event, and nobody has committed    *)
(* its key.                                                                 *)
OwnOK(c) ==
  /\ tx[c].own # <<>> =>
       /\ tx[c].pc \in {"dispatch", "commit"} /\ tx[c].own[1].ev \in tx[c].emits
       /\ tx[c].own[1].ev.key # Notes!NoKey => ~HasKey(tx[c].own[1].ev.key)
  /\ tx[c].pc = "dispatch" => tx[c].own # <<>>

(* The caller's work is lost only to a committed key.                       *)
WorkOK(c) ==
  /\ tx[c].pc \in {"guard", "insert", "dispatch"} => tx[c].work
  /\ tx[c].pc \in {"commit", "done"} /\ ~tx[c].work => \E ev \in tx[c].emits : Notes!KeyTaken(ev)
  /\ tx[c].pc = "done" => (work[c] <=> tx[c].work)

(* A caller on its way to the commit has its event noted, by a committed    *)
(* row or by its own.                                                       *)
NotedOK(c) ==
  /\ tx[c].pc = "commit" /\ tx[c].work /\ settings.enabled =>
       (tx[c].own = <<>> => Noted(c))
  /\ tx[c].pc = "done" /\ tx[c].work /\ settings.enabled => Noted(c)

OneHolder ==
  \A c, d \in Callers :
    /\ tx[c].own # <<>> /\ tx[d].own # <<>>
    /\ tx[c].own[1].ev.key = tx[d].own[1].ev.key /\ tx[c].own[1].ev.key # Notes!NoKey
    => c = d

NotesInv ==
  /\ NotesTyped /\ OneHolder /\ Notes!KeyOnce
  /\ \A c \in Callers : OwnOK(c) /\ WorkOK(c) /\ NotedOK(c)

LEMMA NotesInit == Notes!Init => NotesInv
  <1> SUFFICES ASSUME Notes!Init PROVE NotesInv
    OBVIOUS
  <1>1. Notes!Idle \in TxRows /\ Notes!Idle.pc = "idle" /\ Notes!Idle.own = <<>>
    BY DEF Notes!Idle, TxRows
  <1>2. \A c \in Callers : tx[c] = Notes!Idle BY DEF Notes!Init
  <1>3. NotesTyped BY <1>1 DEF Notes!Init, NotesTyped
  <1>4. rows = <<>> BY DEF Notes!Init
  <1> QED BY <1>1, <1>2, <1>3, <1>4 DEF NotesInv, OneHolder, Notes!KeyOnce, OwnOK, WorkOK, NotedOK

\* What a caller may become when no row is added.
LEMMA CallerMoves ==
  ASSUME NotesInv, NEW c \in Callers, NEW r \in TxRows, tx' = [tx EXCEPT ![c] = r],
         rows' = rows, settings' = settings, work' = work,
         r.own # <<>> => /\ r.pc \in {"dispatch", "commit"} /\ r.own[1].ev \in r.emits
                         /\ r.own[1].ev.key # Notes!NoKey =>
                              /\ ~HasKey(r.own[1].ev.key)
                              /\ \A d \in Callers \ {c} : ~Notes!HoldsKey(d, r.own[1].ev.key),
         r.pc = "dispatch" => r.own # <<>>,
         r.pc \in {"guard", "insert", "dispatch"} => r.work,
         r.pc = "commit" /\ ~r.work => \E ev \in r.emits : Notes!KeyTaken(ev),
         r.pc # "done",
         r.pc = "commit" /\ r.work /\ settings.enabled /\ r.own = <<>> =>
           \A ev \in r.emits : ev.key # Notes!NoKey => HasKey(ev.key)
  PROVE  NotesInv'
  <1>1. NotesTyped' BY DEF NotesInv, NotesTyped
  <1>2. /\ \A d \in Callers : tx'[d] = IF d = c THEN r ELSE tx[d]
        /\ \A k : HasKey(k)' <=> HasKey(k)
        /\ \A ev : Notes!KeyTaken(ev)' <=> Notes!KeyTaken(ev)
    BY DEF NotesInv, NotesTyped, HasKey, Notes!KeyTaken
  <1>3. OneHolder' BY <1>2 DEF NotesInv, OneHolder, Notes!HoldsKey
  <1>4. Notes!KeyOnce' BY DEF NotesInv, Notes!KeyOnce
  <1>5. ASSUME NEW d \in Callers PROVE (OwnOK(d) /\ WorkOK(d) /\ NotedOK(d))'
    <2>1. CASE d = c BY <1>2, <2>1 DEF OwnOK, WorkOK, NotedOK, Noted
    <2>2. CASE d # c
      <3>1. tx'[d] = tx[d] /\ OwnOK(d) /\ WorkOK(d) /\ NotedOK(d) BY <1>2, <2>2 DEF NotesInv
      <3> QED BY <1>2, <3>1 DEF OwnOK, WorkOK, NotedOK, Noted
    <2> QED BY <2>1, <2>2
  <1> QED BY <1>1, <1>3, <1>4, <1>5 DEF NotesInv

\* Rows are appended: keys stay, and the new ones are those of the added rows.
LEMMA RowsAdded ==
  ASSUME NotesInv, NEW s \in Seq(NoteRows), rows' = rows \o s,
         \A j \in DOMAIN s : s[j].ev.key # Notes!NoKey =>
            /\ ~HasKey(s[j].ev.key)
            /\ \A k \in DOMAIN s : s[k].ev.key = s[j].ev.key => k = j
  PROVE  /\ rows' \in Seq(NoteRows) /\ Notes!KeyOnce'
         /\ \A k : HasKey(k)' <=> HasKey(k) \/ \E j \in DOMAIN s : s[j].ev.key = k
         /\ \A ev : Notes!KeyTaken(ev) => Notes!KeyTaken(ev)'
  <1>0. /\ rows \in Seq(NoteRows) /\ Len(rows) \in Nat /\ DOMAIN rows = 1..Len(rows)
        /\ Len(s) \in Nat /\ DOMAIN s = 1..Len(s)
    BY DEF NotesInv, NotesTyped
  <1>1. /\ rows' \in Seq(NoteRows) /\ DOMAIN rows' = 1..(Len(rows) + Len(s))
        /\ \A i \in DOMAIN rows : rows'[i] = rows[i]
        /\ \A j \in DOMAIN s : rows'[Len(rows) + j] = s[j]
    BY <1>0
  <1>2. \A i \in DOMAIN rows' : \/ i \in DOMAIN rows
                               \/ \E j \in DOMAIN s : i = Len(rows) + j
    <2> SUFFICES ASSUME NEW i \in DOMAIN rows', i \notin DOMAIN rows
                 PROVE  \E j \in DOMAIN s : i = Len(rows) + j
      OBVIOUS
    <2>1. i \in Nat /\ i > Len(rows) /\ i <= Len(rows) + Len(s) BY <1>0, <1>1
    <2>2. i - Len(rows) \in DOMAIN s /\ i = Len(rows) + (i - Len(rows)) BY <1>0, <2>1
    <2> QED BY <2>2
  <1>3. \A k : HasKey(k)' <=> HasKey(k) \/ \E j \in DOMAIN s : s[j].ev.key = k
    <2> SUFFICES ASSUME NEW k
                 PROVE  HasKey(k)' <=> HasKey(k) \/ \E j \in DOMAIN s : s[j].ev.key = k
      OBVIOUS
    <2>1. ASSUME NEW i \in DOMAIN rows', rows'[i].ev.key = k
          PROVE  HasKey(k) \/ \E j \in DOMAIN s : s[j].ev.key = k
      BY <1>1, <1>2, <2>1 DEF HasKey
    <2>2. ASSUME NEW i \in DOMAIN rows, rows[i].ev.key = k PROVE HasKey(k)'
      BY <1>0, <1>1, <2>2 DEF HasKey
    <2>3. ASSUME NEW j \in DOMAIN s, s[j].ev.key = k PROVE HasKey(k)'
      <3>1. Len(rows) + j \in DOMAIN rows' BY <1>0, <1>1
      <3> QED BY <1>1, <2>3, <3>1 DEF HasKey
    <2> QED BY <2>1, <2>2, <2>3 DEF HasKey
  <1>4. Notes!KeyOnce'
    <2> SUFFICES ASSUME NEW i \in DOMAIN rows', NEW j \in DOMAIN rows',
                        rows'[i].ev.key = rows'[j].ev.key, rows'[i].ev.key # Notes!NoKey
                 PROVE  i = j
      BY DEF Notes!KeyOnce
    <2>1. CASE i \in DOMAIN rows /\ j \in DOMAIN rows
      BY <1>1, <2>1 DEF NotesInv, Notes!KeyOnce
    <2>2. ASSUME NEW m \in DOMAIN s, i = Len(rows) + m PROVE i = j
      <3>1. s[m].ev.key = rows'[j].ev.key /\ s[m].ev.key # Notes!NoKey BY <1>1, <2>2
      <3>2. j \notin DOMAIN rows BY <1>1, <3>1 DEF HasKey
      <3>3. PICK k \in DOMAIN s : j = Len(rows) + k BY <1>2, <3>2
      <3> QED BY <1>1, <2>2, <3>1, <3>3
    <2>3. ASSUME NEW m \in DOMAIN s, j = Len(rows) + m PROVE i = j
      BY <1>1, <1>2, <2>3 DEF HasKey
    <2> QED BY <1>2, <2>1, <2>2, <2>3
  <1>5. \A ev : Notes!KeyTaken(ev) => Notes!KeyTaken(ev)'
    BY <1>3 DEF Notes!KeyTaken, HasKey
  <1> QED BY <1>1, <1>3, <1>4, <1>5

\* A caller that the rate guard stops has its event noted.
LEMMA RateNoted ==
  ASSUME Emitters, NotesInv, NEW ev \in Emitted, Notes!RateHit(ev)
  PROVE  HasKey(ev.key)
  <1> DEFINE S == {i \in DOMAIN rows : rows[i].ev.type = ev.type /\ rows[i].ev.src = ev.src}
  <1>1. Cardinality(S) >= RateMax BY SameCardinality DEF Notes!RateHit
  <1>2. S # {}
    <2> SUFFICES ASSUME S = {} PROVE FALSE
      OBVIOUS
    <2>1. Cardinality(S) = 0 BY FS_EmptySet
    <2> HIDE DEF S
    <2> QED BY <1>1, <2>1 DEF Emitters
  <1>3. PICK i \in DOMAIN rows : rows[i].ev.type = ev.type /\ rows[i].ev.src = ev.src BY <1>2
  <1>4. rows[i].ev \in Events /\ ev \in Events
    <2>1. rows[i] \in NoteRows BY DEF NotesInv, NotesTyped
    <2> QED BY <2>1 DEF NoteRows, Events
  <1>5. rows[i].ev.key = ev.key BY <1>3, <1>4, EventKeys DEF Keyed
  <1> QED BY <1>5 DEF HasKey

LEMMA NewRow ==
  ASSUME NEW ev \in Events, NEW sent \in SUBSET Notes!Channels
  PROVE  Notes!Row(ev, sent) \in NoteRows /\ Notes!Row(ev, sent).ev = ev
  BY DEF Notes!Row, NoteRows

LEMMA BeginStep ==
  ASSUME NotesInv, NEW c \in Callers, NEW emits \in Notes!Emissions \cup {{}}, Notes!Begin(c, emits)
  PROVE  NotesInv'
  <1>1. PICK r : r = [Notes!Idle EXCEPT !.pc = "guard", !.emits = emits, !.work = TRUE] OBVIOUS
  <1>2. r \in TxRows /\ r.pc = "guard" /\ r.own = <<>> /\ r.work
    BY <1>1 DEF Notes!Idle, TxRows
  <1>3. tx' = [tx EXCEPT ![c] = r] /\ rows' = rows /\ settings' = settings /\ work' = work
    BY <1>1 DEF Notes!Begin
  <1> QED BY <1>2, <1>3, CallerMoves

LEMMA GuardStep ==
  ASSUME Emitters, NotesInv, NEW c \in Callers, Notes!Guard(c)
  PROVE  NotesInv'
  <1>0. PICK t \in TxRows : t = tx[c] /\ t.pc = "guard"
    BY DEF Notes!Guard, NotesInv, NotesTyped
  <1>1. PICK x \in {"insert", "commit"} :
          /\ tx' = [tx EXCEPT ![c].pc = x]
          /\ x = "commit" => \/ ~settings.enabled
                             \/ \A ev \in t.emits : Notes!DedupHit(ev) \/ Notes!RateHit(ev)
    BY <1>0 DEF Notes!Guard
  <1>2. PICK r : r = [t EXCEPT !.pc = x] OBVIOUS
  <1>3. r \in TxRows /\ r.pc = x /\ r.own = t.own /\ r.emits = t.emits /\ (r.work <=> t.work)
    BY <1>0, <1>2 DEF TxRows
  <1>4. tx' = [tx EXCEPT ![c] = r] BY <1>0, <1>1, <1>2
  <1>5. t.own = <<>> /\ t.work BY <1>0 DEF NotesInv, OwnOK, WorkOK
  <1>6. ASSUME x = "commit", settings.enabled, NEW ev \in t.emits, ev.key # Notes!NoKey
        PROVE  HasKey(ev.key)
    <2>1. ev \in Emitted BY DEF TxRows, Emitted
    <2>2. Notes!DedupHit(ev) \/ Notes!RateHit(ev) BY <1>1, <1>6
    <2> QED BY <2>1, <2>2, RateNoted DEF Notes!DedupHit, HasKey
  <1>7. rows' = rows /\ settings' = settings /\ work' = work BY DEF Notes!Guard
  <1> QED BY <1>3, <1>4, <1>5, <1>6, <1>7, CallerMoves

LEMMA InsertStep ==
  ASSUME NotesInv, NEW c \in Callers, Notes!Insert(c)
  PROVE  NotesInv'
  <1>0. PICK t \in TxRows : t = tx[c] /\ t.pc = "insert"
    BY DEF Notes!Insert, NotesInv, NotesTyped
  <1>1. PICK ev \in t.emits :
          /\ \A d \in Callers : ev.key # Notes!NoKey => ~Notes!HoldsKey(d, ev.key)
          /\ tx' = [tx EXCEPT ![c] =
               IF Notes!KeyTaken(ev) THEN [@ EXCEPT !.work = FALSE, !.pc = "commit"]
               ELSE [@ EXCEPT !.own = <<Notes!Row(ev, {})>>, !.pc = "dispatch"]]
    BY <1>0 DEF Notes!Insert
  <1>2. t.own = <<>> /\ t.work BY <1>0 DEF NotesInv, OwnOK, WorkOK
  <1>3. rows' = rows /\ settings' = settings /\ work' = work BY DEF Notes!Insert
  <1>4. CASE Notes!KeyTaken(ev)
    <2>1. PICK r : r = [t EXCEPT !.work = FALSE, !.pc = "commit"] OBVIOUS
    <2>2. r \in TxRows /\ r.pc = "commit" /\ r.own = <<>> /\ r.emits = t.emits /\ r.work = FALSE
      BY <1>2, <2>1 DEF TxRows
    <2>3. tx' = [tx EXCEPT ![c] = r] BY <1>0, <1>1, <1>4, <2>1
    <2> QED BY <1>3, <1>4, <2>2, <2>3, CallerMoves
  <1>5. CASE ~Notes!KeyTaken(ev)
    <2>0. ev \in Events BY DEF TxRows, Events, Emitted
    <2>1. PICK n \in NoteRows : n = Notes!Row(ev, {}) /\ n.ev = ev BY <2>0, NewRow
    <2>2. PICK r : r = [t EXCEPT !.own = <<n>>, !.pc = "dispatch"] OBVIOUS
    <2>3. /\ r \in TxRows /\ r.pc = "dispatch" /\ r.own = <<n>> /\ r.emits = t.emits
          /\ r.work <=> t.work
      BY <2>2 DEF TxRows
    <2>4. tx' = [tx EXCEPT ![c] = r] BY <1>0, <1>1, <1>5, <2>1, <2>2
    <2>5. r.own # <<>> /\ r.own[1].ev = ev BY <2>1, <2>3
    <2>6. ev.key # Notes!NoKey => ~HasKey(ev.key) BY <1>5 DEF Notes!KeyTaken, HasKey
    <2> QED BY <1>1, <1>2, <1>3, <2>3, <2>4, <2>5, <2>6, CallerMoves
  <1> QED BY <1>4, <1>5

LEMMA DispatchStep ==
  ASSUME NotesInv, NEW c \in Callers, Notes!Dispatch(c)
  PROVE  NotesInv'
  <1>0. PICK t \in TxRows : t = tx[c] /\ t.pc = "dispatch"
    BY DEF Notes!Dispatch, NotesInv, NotesTyped
  <1>1. t.own # <<>> /\ t.work /\ t.own[1].ev \in t.emits
    BY <1>0 DEF NotesInv, OwnOK, WorkOK
  <1>2. PICK ev : ev = t.own[1].ev OBVIOUS
  <1>3. PICK sent \in SUBSET Notes!Channels :
          tx' = [tx EXCEPT ![c].own = <<Notes!Row(ev, sent)>>, ![c].pc = "commit"]
    <2>1. \A got, answered : Notes!Recorded(Notes!Chosen(ev), got, answered) \in SUBSET Notes!Channels
      BY DEF Notes!Recorded, Notes!Chosen
    <2> QED BY <1>0, <1>2, <2>1 DEF Notes!Dispatch
  <1>4. ev \in Events BY <1>1, <1>2 DEF TxRows, Events, Emitted
  <1>5. PICK n \in NoteRows : n = Notes!Row(ev, sent) /\ n.ev = ev BY <1>4, NewRow
  <1>6. PICK r : r = [t EXCEPT !.own = <<n>>, !.pc = "commit"] OBVIOUS
  <1>7. /\ r \in TxRows /\ r.pc = "commit" /\ r.own = <<n>> /\ r.emits = t.emits
        /\ r.work <=> t.work
    BY <1>6 DEF TxRows
  <1>8. tx' = [tx EXCEPT ![c] = r]
    BY <1>0, <1>3, <1>5, <1>6 DEF NotesInv, NotesTyped
  <1>9. r.own # <<>> /\ r.own[1].ev = ev BY <1>5, <1>7
  <1>10. ev.key # Notes!NoKey =>
           ~HasKey(ev.key) /\ \A d \in Callers \ {c} : ~Notes!HoldsKey(d, ev.key)
    BY <1>0, <1>1, <1>2 DEF NotesInv, OwnOK, OneHolder, Notes!HoldsKey
  <1>11. rows' = rows /\ settings' = settings /\ work' = work BY DEF Notes!Dispatch
  <1> QED BY <1>1, <1>2, <1>7, <1>8, <1>9, <1>10, <1>11, CallerMoves

LEMMA FaultStep ==
  ASSUME NotesInv, NEW c \in Callers, Notes!Fault(c)
  PROVE  NotesInv'
  <1>1. Notes!Idle \in TxRows /\ Notes!Idle.pc = "idle" /\ Notes!Idle.own = <<>>
    BY DEF Notes!Idle, TxRows
  <1> QED BY <1>1, CallerMoves DEF Notes!Fault

LEMMA CommitStep ==
  ASSUME Emitters, NotesInv, NEW c \in Callers, Notes!Commit(c)
  PROVE  NotesInv'
  <1>0. PICK t \in TxRows : t = tx[c] /\ t.pc = "commit"
    BY DEF Notes!Commit, NotesInv, NotesTyped
  <1>1. PICK s : s = t.own OBVIOUS
  <1>2. s = <<>> \/ \E n \in NoteRows : s = <<n>> BY <1>1 DEF TxRows
  <1>3. s \in Seq(NoteRows) /\ \A j \in DOMAIN s : j = 1 /\ s # <<>>
    <2>1. CASE s = <<>> BY <2>1
    <2>2. ASSUME NEW n \in NoteRows, s = <<n>> PROVE s \in Seq(NoteRows) /\ DOMAIN s = {1} /\ s # <<>>
      BY <2>2
    <2> QED BY <1>2, <2>1, <2>2
  <1>4. rows' = rows \o s BY <1>0, <1>1 DEF Notes!Commit
  <1>5. \A j \in DOMAIN s : s[j].ev.key # Notes!NoKey => ~HasKey(s[j].ev.key)
    BY <1>0, <1>1, <1>3 DEF NotesInv, OwnOK
  <1>6. /\ rows' \in Seq(NoteRows) /\ Notes!KeyOnce'
        /\ \A k : HasKey(k)' <=> HasKey(k) \/ \E j \in DOMAIN s : s[j].ev.key = k
        /\ \A ev : Notes!KeyTaken(ev) => Notes!KeyTaken(ev)'
    BY <1>3, <1>4, <1>5, RowsAdded
  <1>7. PICK r : r = [t EXCEPT !.pc = "done", !.own = <<>>] OBVIOUS
  <1>8. r \in TxRows /\ r.pc = "done" /\ r.own = <<>> /\ r.emits = t.emits /\ (r.work <=> t.work)
    BY <1>7 DEF TxRows
  <1>9. tx' = [tx EXCEPT ![c] = r]
    BY <1>0, <1>7 DEF Notes!Commit, NotesInv, NotesTyped
  <1>10. PICK w \in BOOLEAN : w = t.work BY DEF TxRows
  <1>11. work' = [work EXCEPT ![c] = w] /\ settings' = settings
    BY <1>0, <1>10 DEF Notes!Commit
  <1>12. NotesTyped' BY <1>6, <1>8, <1>9, <1>10, <1>11 DEF NotesInv, NotesTyped
  <1>13. \A d \in Callers : tx'[d] = IF d = c THEN r ELSE tx[d]
    BY <1>9 DEF NotesInv, NotesTyped
  <1>14. OneHolder' BY <1>8, <1>13 DEF NotesInv, OneHolder
  <1>15. (OwnOK(c) /\ WorkOK(c) /\ NotedOK(c))'
    <2>1. OwnOK(c)' BY <1>8, <1>13 DEF OwnOK
    <2>2. work'[c] = w /\ (w <=> r.work)
      BY <1>8, <1>10, <1>11 DEF NotesInv, NotesTyped
    <2>3. ~t.work => \E ev \in t.emits : Notes!KeyTaken(ev)
      BY <1>0 DEF NotesInv, WorkOK
    <2>4. WorkOK(c)' BY <1>6, <1>8, <1>13, <2>2, <2>3 DEF WorkOK
    <2>5. ASSUME t.work, settings.enabled, NEW ev \in t.emits, ev.key # Notes!NoKey
          PROVE  HasKey(ev.key)'
      <3>1. CASE s = <<>> BY <1>0, <1>1, <1>6, <2>5, <3>1 DEF NotesInv, NotedOK, Noted
      <3>2. CASE s # <<>>
        <4>1. s[1].ev \in t.emits /\ 1 \in DOMAIN s
          BY <1>0, <1>1, <1>2, <3>2 DEF NotesInv, OwnOK
        <4>2. s[1].ev = ev BY <2>5, <4>1, EmissionShape DEF TxRows
        <4> QED BY <1>6, <4>1, <4>2
      <3> QED BY <3>1, <3>2
    <2>6. NotedOK(c)' BY <1>8, <1>11, <1>13, <2>5 DEF NotedOK, Noted
    <2> QED BY <2>1, <2>4, <2>6
  <1>16. ASSUME NEW d \in Callers, d # c PROVE (OwnOK(d) /\ WorkOK(d) /\ NotedOK(d))'
    <2>1. /\ tx'[d] = tx[d] /\ work'[d] = work[d] /\ OwnOK(d) /\ WorkOK(d) /\ NotedOK(d)
      BY <1>11, <1>13, <1>16 DEF NotesInv, NotesTyped
    <2>2. OwnOK(d)'
      <3>1. \A j \in DOMAIN s : tx[d].own # <<>> /\ s[j].ev.key = tx[d].own[1].ev.key =>
              s[j].ev.key = Notes!NoKey
        BY <1>0, <1>1, <1>3, <1>16 DEF NotesInv, OneHolder
      <3> QED BY <1>6, <2>1, <3>1 DEF OwnOK
    <2>3. WorkOK(d)' BY <1>6, <2>1 DEF WorkOK
    <2>4. NotedOK(d)' BY <1>6, <1>11, <2>1 DEF NotedOK, Noted
    <2> QED BY <2>2, <2>3, <2>4
  <1> QED BY <1>6, <1>12, <1>14, <1>15, <1>16 DEF NotesInv

\* The janitor's rows: none of their keys is in a caller's hands.
LEMMA SweepAdds ==
  ASSUME Emitters, NotesInv, NEW s \in Seq(NoteRows), rows' = rows \o s,
         tx' = tx, work' = work, settings' = settings,
         \A j \in DOMAIN s : s[j].ev.key = Notes!NoKey \/ s[j].ev.key = Idleness,
         \A j \in DOMAIN s : s[j].ev.key # Notes!NoKey =>
            /\ ~HasKey(s[j].ev.key)
            /\ \A k \in DOMAIN s : s[k].ev.key = s[j].ev.key => k = j
  PROVE  NotesInv'
  <1>1. /\ rows' \in Seq(NoteRows) /\ Notes!KeyOnce'
        /\ \A k : HasKey(k)' <=> HasKey(k) \/ \E j \in DOMAIN s : s[j].ev.key = k
        /\ \A ev : Notes!KeyTaken(ev) => Notes!KeyTaken(ev)'
    BY RowsAdded
  <1>2. NotesTyped' /\ OneHolder' BY <1>1 DEF NotesInv, NotesTyped, OneHolder
  <1>3. ASSUME NEW c \in Callers PROVE (OwnOK(c) /\ WorkOK(c) /\ NotedOK(c))'
    <2>1. OwnOK(c) /\ WorkOK(c) /\ NotedOK(c) /\ tx[c] \in TxRows BY DEF NotesInv, NotesTyped
    <2>2. tx[c].own # <<>> => tx[c].own[1].ev.key # Idleness
      BY <2>1, EmissionShape DEF OwnOK, TxRows
    <2>3. OwnOK(c)' BY <1>1, <2>1, <2>2 DEF OwnOK
    <2>4. WorkOK(c)' BY <1>1, <2>1 DEF WorkOK
    <2>5. NotedOK(c)' BY <1>1, <2>1 DEF NotedOK, Noted
    <2> QED BY <2>3, <2>4, <2>5
  <1> QED BY <1>1, <1>2, <1>3 DEF NotesInv

\* The rows of a sweep are one per emitted event, in some order.
Onto(f, S) == \A x \in S : \E i \in DOMAIN f : f[i] = x
AtMostOnce(f, x) == \A i, j \in DOMAIN f : f[i] = x /\ f[j] = x => i = j

LEMMA Ordered ==
  ASSUME NEW a, NEW b, a # b, NEW S, S \subseteq {a, b}, NEW n, n = Cardinality(S),
         NEW order, order \in [1..n -> S],
         Onto(order, S)
  PROVE  n \in Nat /\ AtMostOnce(order, b)
  <1> USE DEF Onto, AtMostOnce
  <1>0. S = {} \/ S = {a} \/ S = {b} \/ S = {a, b} OBVIOUS
  <1>1. CASE S = {} BY <1>1, FS_EmptySet
  <1>2. ASSUME NEW x, S = {x}
        PROVE  n \in Nat /\ \A i, j \in DOMAIN order : i = j
    <2>1. n = 1 BY <1>2, FS_Singleton
    <2> QED BY <2>1
  <1>3. CASE S = {a, b}
    <2>1. Cardinality({a}) = 1 /\ IsFiniteSet({a}) BY FS_Singleton
    <2>2. Cardinality({a} \cup {b}) = Cardinality({a}) + 1 BY <2>1, FS_AddElement, b \notin {a}
    <2>3. S = {a} \cup {b} BY <1>3
    <2>4. n = Cardinality({a}) + 1 BY <2>2, <2>3
    <2>5. n = 2 BY <2>1, <2>4
    <2>6. DOMAIN order = {1, 2} BY <2>5
    <2>7. PICK i \in {1, 2} : order[i] = a BY <1>3, <2>6
    <2> QED BY <2>5, <2>6, <2>7
  <1> QED BY <1>0, <1>1, <1>2, <1>3

LEMMA SweepStep ==
  ASSUME Emitters, NotesInv, NEW changed \in BOOLEAN, NEW many \in BOOLEAN, NEW stuck \in BOOLEAN,
         NEW idle \in BOOLEAN, Notes!SweepNotifies(changed, many, stuck, idle)
  PROVE  NotesInv' /\ \E s \in Seq(NoteRows) : rows' = rows \o s
  <1>0. tx' = tx /\ work' = work /\ settings' = settings BY DEF Notes!SweepNotifies
  <1>1. PICK a : Notes!on_repeated_failures = {a} BY DEF Notes!on_repeated_failures
  <1>2. PICK b : Notes!_check_pipeline_inactive(TRUE) = {b} BY DEF Notes!_check_pipeline_inactive
  <1>3. /\ a.key = Notes!NoKey /\ b.key = Idleness /\ a \in Events /\ b \in Events
        /\ Notes!NoKey # Idleness
    BY <1>1, <1>2, SweepKeys DEF Events, Notes!NoKey, Idleness
  <1> DEFINE e == IF settings.enabled
                    THEN Notes!sweep_zombie_leads(stuck) \cup
                         {ev \in Notes!_check_pipeline_inactive(idle) : ~Notes!DedupHit(ev)}
                    ELSE {}
  <1>4. e \in SUBSET {a, b} /\ (b \in e => ~HasKey(Idleness))
    <2>1. Notes!sweep_zombie_leads(stuck) \subseteq {a} BY <1>1 DEF Notes!sweep_zombie_leads
    <2>2. Notes!_check_pipeline_inactive(idle) \subseteq {b}
      BY <1>2 DEF Notes!_check_pipeline_inactive
    <2>3. Notes!DedupHit(b) <=> HasKey(Idleness) BY <1>3 DEF Notes!DedupHit, HasKey
    <2>4. a # b BY <1>3
    <2> QED BY <2>1, <2>2, <2>3, <2>4
  <1>5. PICK order \in [1..Cardinality(e) -> e], got \in {{}, Notes!Channels} :
          /\ {order[i] : i \in DOMAIN order} = e
          /\ rows' = IF changed
               THEN rows \o [i \in DOMAIN order |->
                      Notes!Row(order[i], Notes!Recorded(Notes!Chosen(order[i]), got, Notes!Channels))]
               ELSE rows
    BY SameCardinality DEF Notes!SweepNotifies
  <1> HIDE DEF e
  <1>6. PICK n : n = Cardinality(e) OBVIOUS
  <1>7. n \in Nat /\ \A i, j \in DOMAIN order : order[i] = b /\ order[j] = b => i = j
    <2>1. PICK E : E = e OBVIOUS
    <2>2. /\ E \subseteq {a, b} /\ n = Cardinality(E) /\ order \in [1..n -> E]
          /\ Onto(order, E)
      BY <1>4, <1>5, <1>6, <2>1 DEF Onto
    <2>3. a # b BY <1>3
    <2>4. n \in Nat /\ AtMostOnce(order, b) BY <2>2, <2>3, Ordered
    <2> QED BY <2>4 DEF AtMostOnce
  <1> DEFINE s == [i \in DOMAIN order |->
                     Notes!Row(order[i], Notes!Recorded(Notes!Chosen(order[i]), got, Notes!Channels))]
  <1>8. DOMAIN order = 1..n /\ \A i \in 1..n : order[i] \in e BY <1>5, <1>6
  <1>9. \A i \in 1..n : s[i] \in NoteRows /\ s[i].ev = order[i]
    <2> TAKE i \in 1..n
    <2>1. Notes!Recorded(Notes!Chosen(order[i]), got, Notes!Channels) \in SUBSET Notes!Channels
      BY DEF Notes!Recorded, Notes!Chosen
    <2>2. order[i] \in Events BY <1>3, <1>4, <1>8
    <2>3. s[i] = Notes!Row(order[i], Notes!Recorded(Notes!Chosen(order[i]), got, Notes!Channels))
      BY <1>8
    <2> QED BY <2>1, <2>2, <2>3, NewRow
  <1>10. s \in Seq(NoteRows) /\ DOMAIN s = 1..n
    BY <1>7, <1>8, <1>9
  <1> HIDE DEF s
  <1>11. CASE changed
    <2>1. rows' = rows \o s BY <1>5, <1>11 DEF s
    <2>2. \A j \in DOMAIN s : /\ s[j].ev = a \/ s[j].ev = b
                             /\ s[j].ev = order[j] /\ order[j] \in e
      BY <1>4, <1>8, <1>9, <1>10
    <2>3. \A j \in DOMAIN s : s[j].ev.key = Notes!NoKey \/ s[j].ev.key = Idleness BY <1>3, <2>2
    <2>4. \A j \in DOMAIN s : s[j].ev.key # Notes!NoKey => s[j].ev = b /\ order[j] = b BY <1>3, <2>2
    <2>5. \A j \in DOMAIN s : s[j].ev.key # Notes!NoKey =>
            /\ ~HasKey(s[j].ev.key)
            /\ \A k \in DOMAIN s : s[k].ev.key = s[j].ev.key => k = j
      BY <1>3, <1>4, <1>7, <1>8, <1>10, <2>2, <2>4
    <2> QED BY <1>0, <1>10, <2>1, <2>3, <2>5, SweepAdds
  <1>12. CASE ~changed
    <2>1. rows' = rows BY <1>5, <1>12
    <2>2. rows' = rows \o <<>> /\ <<>> \in Seq(NoteRows) BY <2>1 DEF NotesInv, NotesTyped
    <2>3. NotesInv'
      BY <1>0, <2>1 DEF NotesInv, NotesTyped, OneHolder, Notes!KeyOnce, OwnOK, WorkOK, NotedOK, Noted,
                        HasKey, Notes!KeyTaken
    <2> QED BY <2>2, <2>3
  <1> QED BY <1>11, <1>12

LEMMA NotesStep == Emitters /\ NotesInv /\ [Notes!Next]_(Notes!vars) => NotesInv'
  <1> SUFFICES ASSUME Emitters, NotesInv, [Notes!Next]_(Notes!vars) PROVE NotesInv'
    OBVIOUS
  <1>1. ASSUME UNCHANGED <<rows, tx, work, settings>> PROVE NotesInv'
    BY <1>1 DEF NotesInv, NotesTyped, OneHolder, Notes!KeyOnce, OwnOK, WorkOK, NotedOK, Noted,
                HasKey, Notes!KeyTaken
  <1>2. ASSUME NEW i \in DOMAIN rows, NEW s \in Notes!Statuses, Notes!PatchStatus(i, s) PROVE NotesInv'
    BY <1>1, <1>2 DEF Notes!PatchStatus
  <1>3. ASSUME NEW s \in Notes!Statuses, Notes!BulkStatus(s) PROVE NotesInv'
    BY <1>1, <1>3 DEF Notes!BulkStatus
  <1>4. CASE UNCHANGED Notes!vars BY <1>1, <1>4 DEF Notes!vars
  <1> QED BY <1>2, <1>3, <1>4, BeginStep, GuardStep, InsertStep, DispatchStep, CommitStep, FaultStep,
             SweepStep DEF Notes!Next

(* No keyed event is lost to the dedup and rate guards: a caller that        *)
(* committed its work has a committed notification with the event's key; and *)
(* notifications with one dedup key are one row, whatever callers and        *)
(* janitor passes race and however often a failed caller is run again.       *)
THEOREM OneRowPerEvent == Emitters => (Notes!Spec => []NotifiedOnce)
  <1> SUFFICES ASSUME Emitters PROVE Notes!Spec => []NotifiedOnce
    OBVIOUS
  <1>1. NotesInv => NotifiedOnce
    BY DEF NotesInv, NotesTyped, NotifiedOnce, Notes!EventNotified, WorkOK, NotedOK, Noted, HasKey
  <1>2. NotesInv /\ [Notes!Next]_(Notes!vars) => NotesInv' BY NotesStep
  <1> QED BY <1>1, <1>2, NotesInit, PTL DEF Notes!Spec

(* A caller loses the work it did before it emitted only to a committed      *)
(* notification with the key of its event, never to a failing provider.      *)
THEOREM WorkLostToKey == Emitters => (Notes!Spec => []WorkLostToRaceOnly)
  <1> SUFFICES ASSUME Emitters PROVE Notes!Spec => []WorkLostToRaceOnly
    OBVIOUS
  <1>1. NotesInv => WorkLostToRaceOnly
    BY DEF NotesInv, NotesTyped, WorkLostToRaceOnly, Notes!WorkLostToRaceOnly, WorkOK
  <1>2. NotesInv /\ [Notes!Next]_(Notes!vars) => NotesInv' BY NotesStep
  <1> QED BY <1>1, <1>2, NotesInit, PTL DEF Notes!Spec

(* The severities to try, and how much of each fault and request.            *)
NoteBounds == /\ Thresholds \subseteq DOMAIN Notes!_SEV_ORDER
              /\ MaxFaults \in Nat /\ MaxSweeps \in Nat /\ MaxPatches \in Nat

(* A status was answered for a row there is, which is never deleted; the     *)
(* janitor raises at most one alarm per pass.                                *)
NotesRest ==
  /\ settings.on \subseteq Notes!Channels /\ settings.min \in DOMAIN Notes!_SEV_ORDER
  /\ alerts \in [Notes!Channels -> [Notes!Keys -> 0..2]]
  /\ \A a \in shown : a.id \in DOMAIN rows /\ a.status \in Notes!Statuses
  /\ spent \in [faults : 0..MaxFaults, sweeps : 0..MaxSweeps, patches : 0..MaxPatches]
  /\ alarms \in Nat /\ alarms <= spent.sweeps

LEMMA RowsStay ==
  ASSUME NotesInv, NEW s \in Seq(NoteRows), rows' = rows \o s
  PROVE  DOMAIN rows \subseteq DOMAIN rows'
  BY DEF NotesInv, NotesTyped

LEMMA OwnRow ==
  ASSUME NEW o \in {<<>>} \cup {<<r>> : r \in NoteRows}
  PROVE  o \in Seq(NoteRows) /\ Len(o) <= 1
  <1>1. CASE o = <<>> BY <1>1
  <1>2. ASSUME NEW r \in NoteRows, o = <<r>> PROVE o \in Seq(NoteRows) /\ Len(o) <= 1
    BY <1>2
  <1> QED BY <1>1, <1>2

LEMMA MoreAlerts ==
  ASSUME alerts \in [Notes!Channels -> [Notes!Keys -> 0..2]], NEW evs, NEW got
  PROVE  Notes!Delivered(evs, got) \in [Notes!Channels -> [Notes!Keys -> 0..2]]
  BY DEF Notes!Delivered

LEMMA RestInit == NoteBounds /\ Notes!Init => NotesRest
  <1> SUFFICES ASSUME NoteBounds, Notes!Init PROVE NotesRest OBVIOUS
  <1>1. settings.on \subseteq Notes!Channels /\ settings.min \in Thresholds BY DEF Notes!Init
  <1>2. alerts \in [Notes!Channels -> [Notes!Keys -> 0..2]] BY DEF Notes!Init
  <1> QED BY <1>1, <1>2 DEF NotesRest, NoteBounds, Notes!Init

LEMMA RestStep ==
  NoteBounds /\ Emitters /\ NotesInv /\ NotesRest /\ [Notes!Next]_(Notes!vars) => NotesRest'
  <1> SUFFICES ASSUME NoteBounds, Emitters, NotesInv, NotesRest, [Notes!Next]_(Notes!vars)
               PROVE  NotesRest'
    OBVIOUS
  <1>0. MaxFaults \in Nat /\ MaxSweeps \in Nat /\ MaxPatches \in Nat BY DEF NoteBounds
  <1>1. ASSUME NEW c \in Callers, NEW emits, Notes!Begin(c, emits) PROVE NotesRest'
    BY <1>1 DEF Notes!Begin, NotesRest
  <1>2. ASSUME NEW c \in Callers, Notes!Guard(c) PROVE NotesRest'
    BY <1>2 DEF Notes!Guard, NotesRest
  <1>3. ASSUME NEW c \in Callers, Notes!Insert(c) PROVE NotesRest'
    BY <1>3 DEF Notes!Insert, NotesRest
  <1>4. ASSUME NEW c \in Callers, Notes!Dispatch(c) PROVE NotesRest'
    <2>1. alerts' \in [Notes!Channels -> [Notes!Keys -> 0..2]]
      BY <1>4, MoreAlerts DEF Notes!Dispatch, NotesRest
    <2> QED BY <1>4, <2>1 DEF Notes!Dispatch, NotesRest
  <1>5. ASSUME NEW c \in Callers, Notes!Commit(c) PROVE NotesRest'
    <2>1. tx[c].own \in {<<>>} \cup {<<r>> : r \in NoteRows} BY DEF NotesInv, NotesTyped, TxRows
    <2>2. tx[c].own \in Seq(NoteRows) BY <2>1, OwnRow
    <2>3. DOMAIN rows \subseteq DOMAIN rows' BY <1>5, <2>2, RowsStay DEF Notes!Commit
    <2> QED BY <1>5, <2>3 DEF Notes!Commit, NotesRest
  <1>6. ASSUME NEW c \in Callers, Notes!Fault(c) PROVE NotesRest'
    <2>1. spent' \in [faults : 0..MaxFaults, sweeps : 0..MaxSweeps, patches : 0..MaxPatches]
          /\ spent'.sweeps = spent.sweeps
      BY <1>0, <1>6 DEF Notes!Fault, NotesRest
    <2> QED BY <1>6, <2>1 DEF Notes!Fault, NotesRest
  <1>7. ASSUME NEW changed \in BOOLEAN, NEW many \in BOOLEAN, NEW stuck \in BOOLEAN,
               NEW idle \in BOOLEAN, Notes!SweepNotifies(changed, many, stuck, idle)
        PROVE  NotesRest'
    <2>1. PICK s \in Seq(NoteRows) : rows' = rows \o s BY <1>7, SweepStep
    <2>2. DOMAIN rows \subseteq DOMAIN rows' BY <2>1, RowsStay
    <2>3. spent' \in [faults : 0..MaxFaults, sweeps : 0..MaxSweeps, patches : 0..MaxPatches]
          /\ spent'.sweeps = spent.sweeps + 1
      BY <1>0, <1>7 DEF Notes!SweepNotifies, NotesRest
    <2>4. alerts' \in [Notes!Channels -> [Notes!Keys -> 0..2]]
      <3>1. \E evs, got : alerts' = Notes!Delivered(evs, got) BY <1>7 DEF Notes!SweepNotifies
      <3> QED BY <3>1, MoreAlerts DEF NotesRest
    <2>5. alarms' \in {alarms, alarms + 1} BY <1>7 DEF Notes!SweepNotifies
    <2>6. alarms' \in Nat /\ alarms' <= spent'.sweeps BY <2>3, <2>5 DEF NotesRest
    <2> QED BY <1>7, <2>2, <2>3, <2>4, <2>6 DEF Notes!SweepNotifies, NotesRest
  <1>8. ASSUME NEW i \in DOMAIN rows, NEW s \in Notes!Statuses, Notes!PatchStatus(i, s)
        PROVE  NotesRest'
    <2>1. spent' \in [faults : 0..MaxFaults, sweeps : 0..MaxSweeps, patches : 0..MaxPatches]
          /\ spent'.sweeps = spent.sweeps
      BY <1>0, <1>8 DEF Notes!PatchStatus, Notes!Patched, NotesRest
    <2> QED BY <1>8, <2>1 DEF Notes!PatchStatus, NotesRest
  <1>9. ASSUME NEW s \in Notes!Statuses, Notes!BulkStatus(s) PROVE NotesRest'
    <2>1. spent' \in [faults : 0..MaxFaults, sweeps : 0..MaxSweeps, patches : 0..MaxPatches]
          /\ spent'.sweeps = spent.sweeps
      BY <1>0, <1>9 DEF Notes!BulkStatus, Notes!Patched, NotesRest
    <2> QED BY <1>9, <2>1 DEF Notes!BulkStatus, NotesRest
  <1>10. CASE UNCHANGED Notes!vars BY <1>10 DEF Notes!vars, NotesRest
  <1> QED BY <1>1, <1>2, <1>3, <1>4, <1>5, <1>6, <1>7, <1>8, <1>9, <1>10 DEF Notes!Next

(* Notifications, callers and what a status request was answered keep their  *)
(* types; the answer is about rows that exist.                               *)
THEOREM NoteTypes == NoteBounds /\ Emitters => (Notes!Spec => []Notes!TypeOK)
  <1> SUFFICES ASSUME NoteBounds, Emitters PROVE Notes!Spec => []Notes!TypeOK
    OBVIOUS
  <1>1. NotesInv /\ NotesRest => Notes!TypeOK
    <2> SUFFICES ASSUME NotesInv, NotesRest PROVE Notes!TypeOK OBVIOUS
    <2>1. \A i \in DOMAIN rows : rows[i].status \in Notes!Statuses /\ rows[i].sent \subseteq Notes!Channels
      <3> TAKE i \in DOMAIN rows
      <3>1. rows[i] \in NoteRows BY DEF NotesInv, NotesTyped
      <3> QED BY <3>1 DEF NoteRows, Notes!Statuses
    <2>2. ASSUME NEW c \in Callers
          PROVE  /\ tx[c].pc \in {"idle", "guard", "insert", "dispatch", "commit", "done"}
                 /\ tx[c].emits \in Notes!Emissions \cup {{}} /\ Len(tx[c].own) <= 1
      <3>1. tx[c] \in TxRows BY DEF NotesInv, NotesTyped
      <3>2. tx[c].own \in {<<>>} \cup {<<r>> : r \in NoteRows} BY <3>1 DEF TxRows
      <3> QED BY <3>1, <3>2, OwnRow DEF TxRows
    <2>3. alarms \in 0..MaxSweeps BY DEF NotesRest, NoteBounds
    <2> QED BY <2>1, <2>2, <2>3 DEF NotesInv, NotesTyped, NotesRest, Notes!TypeOK
  <1>2. Notes!Init => NotesInv /\ NotesRest BY NotesInit, RestInit
  <1>3. NotesInv /\ NotesRest /\ [Notes!Next]_(Notes!vars) => (NotesInv /\ NotesRest)'
    BY NotesStep, RestStep
  <1> QED BY <1>1, <1>2, <1>3, PTL DEF Notes!Spec

---------------------------------------------------------------------------
(* The Mote agent                                                          *)

(* Of the registered tools, every one whose handler does more that no        *)
(* rollback undoes asks for confirmation.                                   *)
LEMMA LeavesConfirmed == \A tool \in registry : tool.effect = "leaves" => tool.confirm
  <1> USE DEF Tool
  <1>0. \A names : \A tool \in Reads(names) : tool.effect # "leaves" BY DEF Reads
  <1>1. \A tool \in lead_tools \cup lead_journey_tools \cup leader_tools \cup stats_tools \cup system_tools :
          tool.effect # "leaves"
    BY <1>0 DEF lead_tools, lead_journey_tools, leader_tools, stats_tools, system_tools
  <1>2. \A tool \in lead_write_tools \cup draft_tools \cup send_tools \cup whatsapp_tools :
          tool.effect = "leaves" => tool.confirm
    BY <1>0 DEF lead_write_tools, draft_tools, send_tools, whatsapp_tools
  <1>3. \A tool \in crawl_tools \cup mail_tools \cup notification_tools \cup pipeline_tools :
          tool.effect = "leaves" => tool.confirm
    BY <1>0 DEF crawl_tools, mail_tools, notification_tools, pipeline_tools
  <1>4. \A tool \in reply_tools \cup research_tools \cup research_thread_tools \cup review_tools :
          tool.effect = "leaves" => tool.confirm
    BY <1>0 DEF reply_tools, research_tools, research_thread_tools, review_tools
  <1>5. \A tool \in settings_tools \cup suppression_tools \cup territory_tools :
          tool.effect = "leaves" => tool.confirm
    BY <1>0 DEF settings_tools, suppression_tools, territory_tools
  <1> QED BY <1>1, <1>2, <1>3, <1>4, <1>5 DEF registry

ConvRows == [channel : ChatChannels \cup {"web"}, active : BOOLEAN]
MsgRows == [turn : Turns, role : {"user", "assistant", "tool"}, conv : Nat]
CallRows == [turn : Turns, loop : 0..MaxLoops, n : Nat, tool : Callable,
             status : {"pending", "completed", "failed"}]
Effects == [turn : Turns, loop : 0..MaxLoops, tool : Callable]
Sessions == [msgs : Seq(MsgRows), calls : SUBSET CallRows, effects : SUBSET Effects]
TurnRows == [pc : {"idle", "ask", "exec", "done", "audit"} \cup Ended,
             channel : ChatChannels \cup {"web"}, conv : Nat, answers : SUBSET CallRows,
             loop : 0..MaxLoops, todo : Seq(Callable), pending : BOOLEAN, tx : Sessions]

(* Stored assistant messages of a turn. *)
Responses(m, t) == Cardinality({i \in DOMAIN m : m[i].turn = t /\ m[i].role = "assistant"})

Recorded(E, C) ==
  \A e \in E : \E c \in C :
    c.turn = e.turn /\ c.loop = e.loop /\ c.tool = e.tool /\ c.status = "completed"

MoteTyped ==
  /\ convs \in Seq(ConvRows) /\ messages \in Seq(MsgRows)
  /\ \A i \in DOMAIN messages : messages[i].conv \in DOMAIN convs
  /\ calls \subseteq CallRows /\ effects \subseteq Effects /\ left \subseteq Effects
  /\ turn \in [Turns -> TurnRows]
  /\ audit \in [stored : SUBSET Turns, logged : SUBSET Turns] /\ audit.stored \subseteq audit.logged

(* One turn r with n stored responses: its session is empty between         *)
(* responses, and within one it holds at most the response's message and    *)
(* the records of its tools.                                                *)
SessionOK(t, r, n, D) ==
  /\ r.pc \in {"ask", "exec"} => r.conv \in D
  /\ r.conv \in {0} \cup D
  /\ Len(r.todo) <= MaxCalls
  /\ r.pc # "exec" => r.tx = Clean
  /\ r.tx.msgs = <<>> \/ r.tx.msgs = <<[turn |-> t, role |-> "assistant", conv |-> r.conv]>>
  /\ r.pc \in {"ask", "exec"} => n + (IF r.tx.msgs = <<>> THEN 0 ELSE 1) >= r.loop
  /\ \A c \in r.tx.calls : c.turn = t /\ c.loop = r.loop
  /\ Recorded(r.tx.effects, r.tx.calls)

TurnOK(t) == SessionOK(t, turn[t], Responses(messages, t), DOMAIN convs)

MoteInv ==
  /\ MoteTyped /\ (\A t \in Turns : TurnOK(t))
  /\ Recorded(effects, calls)
  /\ \A c \in calls : Responses(messages, c.turn) >= c.loop
  /\ OnlyAlertsLeave /\ AlertsBacked

LEMMA CleanSession == /\ Clean \in Sessions /\ Clean.msgs = <<>> /\ Clean.calls = {}
                      /\ Clean.effects = {}
  BY DEF Clean, Sessions

LEMMA FreshTurn == Fresh \in TurnRows /\ Fresh.tx = Clean /\ Fresh.pc = "idle"
                   /\ Fresh.conv = 0 /\ Fresh.todo = <<>>
  BY CleanSession, Bounds DEF Fresh, TurnRows

LEMMA MoteInit == Init => MoteInv
  <1> SUFFICES ASSUME Init PROVE MoteInv
    OBVIOUS
  <1>1. MoteTyped BY FreshTurn DEF Init, MoteTyped
  <1>2. ASSUME NEW t \in Turns PROVE TurnOK(t)
    <2>1. turn[t] = Fresh BY DEF Init
    <2> QED BY <2>1, FreshTurn, CleanSession, Bounds DEF TurnOK, SessionOK, Recorded
  <1> QED BY <1>1, <1>2 DEF Init, MoteInv, Recorded, OnlyAlertsLeave, AlertsBacked

\* Counting over a longer log.
LEMMA ResponsesGrow ==
  ASSUME NEW m \in Seq(MsgRows), NEW x \in MsgRows, NEW t
  PROVE  /\ Responses(m, t) \in Nat /\ Responses(Append(m, x), t) \in Nat
         /\ Responses(Append(m, x), t) >= Responses(m, t)
         /\ x.turn = t /\ x.role = "assistant" =>
              Responses(Append(m, x), t) >= Responses(m, t) + 1
  <1> DEFINE S == {i \in DOMAIN m : m[i].turn = t /\ m[i].role = "assistant"}
             k == Append(m, x)
             T == {i \in DOMAIN k : k[i].turn = t /\ k[i].role = "assistant"}
  <1>0. /\ Len(m) \in Nat /\ DOMAIN m = 1..Len(m) /\ DOMAIN k = 1..(Len(m) + 1)
        /\ (\A i \in DOMAIN m : k[i] = m[i]) /\ k[Len(m) + 1] = x
    <2>1. Len(m) \in Nat /\ DOMAIN m = 1..Len(m) OBVIOUS
    <2>2. k \in Seq(MsgRows) /\ Len(k) = Len(m) + 1 OBVIOUS
    <2>3. DOMAIN k = 1..(Len(m) + 1) BY <2>2
    <2>4. \A i \in 1..Len(m) : k[i] = m[i] OBVIOUS
    <2>5. k[Len(m) + 1] = x OBVIOUS
    <2> HIDE DEF k
    <2> QED BY <2>1, <2>3, <2>4, <2>5
  <1> HIDE DEF k
  <1>1. S \subseteq 1..Len(m) /\ T \subseteq 1..(Len(m) + 1) BY <1>0
  <1>2. IsFiniteSet(1..Len(m)) /\ IsFiniteSet(1..(Len(m) + 1))
    <2>1. 1 \in Int /\ Len(m) \in Int /\ Len(m) + 1 \in Int BY <1>0
    <2> HIDE DEF S, T
    <2> QED BY <2>1, FS_Interval
  <1>3. IsFiniteSet(S) /\ IsFiniteSet(T) BY <1>1, <1>2, FS_Subset
  <1>4. Cardinality(S) \in Nat /\ Cardinality(T) \in Nat BY <1>3, FS_CardinalityType
  <1>5. S \subseteq T BY <1>0
  <1>6. Cardinality(S) <= Cardinality(T) BY <1>3, <1>5, FS_Subset
  <1>7. ASSUME x.turn = t, x.role = "assistant" PROVE Cardinality(T) >= Cardinality(S) + 1
    <2>1. T = S \cup {Len(m) + 1} BY <1>0, <1>7
    <2>2. Len(m) + 1 \notin S BY <1>0
    <2> HIDE DEF S, T
    <2>3. Cardinality(S \cup {Len(m) + 1}) = Cardinality(S) + 1 BY <1>3, <2>2, FS_AddElement
    <2> QED BY <1>4, <2>1, <2>3
  <1> QED BY <1>4, <1>6, <1>7 DEF Responses, k

LEMMA ResponsesNat ==
  ASSUME MoteInv, NEW t \in Turns
  PROVE  \A u : Responses(messages, u) \in Nat
  <1>1. PICK m \in Seq(MsgRows) : m = messages BY DEF MoteInv, MoteTyped
  <1>2. [turn |-> t, role |-> "user", conv |-> 0] \in MsgRows BY DEF MsgRows
  <1> QED BY <1>1, <1>2, ResponsesGrow

LEMMA TurnMoves ==
  ASSUME MoteInv, NEW t \in Turns, NEW r \in TurnRows, turn' = [turn EXCEPT ![t] = r],
         convs' \in Seq(ConvRows), DOMAIN convs \subseteq DOMAIN convs',
         messages' \in Seq(MsgRows), \A i \in DOMAIN messages' : messages'[i].conv \in DOMAIN convs',
         \A u : /\ Responses(messages, u) \in Nat /\ Responses(messages, u)' \in Nat
               /\ Responses(messages, u)' >= Responses(messages, u),
         NEW C \in SUBSET CallRows, calls' = calls \cup C,
         \A c \in C : c.turn = t /\ c.loop <= Responses(messages, t)',
         NEW E \in SUBSET Effects, effects' = effects \cup E, Recorded(E, C),
         left \subseteq left', left' \subseteq Effects,
         \A e \in left' \ left : e \in r.tx.effects /\ e.turn = t
                               /\ \E tool \in get(e.tool) : tool.effect = "alerts",
         \/ r.pc = "crashed"
         \/ turn[t].pc # "crashed" /\ turn[t].tx.effects \subseteq r.tx.effects \cup E,
         audit' \in [stored : SUBSET Turns, logged : SUBSET Turns], audit'.stored \subseteq audit'.logged,
         SessionOK(t, r, Responses(messages, t)', DOMAIN convs')
  PROVE  MoteInv'
  <1>1. MoteTyped' BY DEF MoteInv, MoteTyped
  <1>2. ASSUME NEW u \in Turns PROVE TurnOK(u)'
    <2>1. CASE u = t BY <2>1 DEF MoteInv, MoteTyped, TurnOK
    <2>2. CASE u # t
      <3>1. turn'[u] = turn[u] /\ TurnOK(u) /\ turn[u] \in TurnRows
        BY <2>2 DEF MoteInv, MoteTyped
      <3>2. turn[u].loop \in Nat BY <3>1, Bounds DEF TurnRows
      <3> QED BY <3>1, <3>2 DEF TurnOK, SessionOK
    <2> QED BY <2>1, <2>2
  <1>3. Recorded(effects, calls)' BY DEF MoteInv, Recorded
  <1>4. ASSUME NEW c \in calls' PROVE Responses(messages, c.turn)' >= c.loop
    <2>1. c \in CallRows /\ c.loop \in Nat BY Bounds DEF MoteInv, MoteTyped, CallRows
    <2>2. CASE c \in calls BY <2>1, <2>2 DEF MoteInv
    <2>3. CASE c \in C BY <2>1, <2>3
    <2> QED BY <2>2, <2>3
  <1>5. OnlyAlertsLeave' BY DEF MoteInv, OnlyAlertsLeave
  <1>6. AlertsBacked'
    <2> SUFFICES ASSUME NEW e \in left'
                 PROVE  e \in effects' \/ e \in turn'[e.turn].tx.effects \/ turn'[e.turn].pc = "crashed"
      BY DEF AlertsBacked
    <2>1. turn'[t] = r BY DEF MoteInv, MoteTyped
    <2>2. CASE e \notin left BY <2>1, <2>2
    <2>3. CASE e \in left
      <3>1. e.turn \in Turns BY <2>3 DEF MoteInv, MoteTyped, Effects
      <3>2. \/ e \in effects \/ e \in turn[e.turn].tx.effects \/ turn[e.turn].pc = "crashed"
        BY <2>3 DEF MoteInv, AlertsBacked
      <3>3. CASE e.turn = t BY <2>1, <3>2, <3>3
      <3>4. CASE e.turn # t
        <4>1. turn'[e.turn] = turn[e.turn] BY <3>1, <3>4 DEF MoteInv, MoteTyped
        <4> QED BY <3>2, <4>1
      <3> QED BY <3>3, <3>4
    <2> QED BY <2>2, <2>3
  <1> QED BY <1>1, <1>2, <1>3, <1>4, <1>5, <1>6 DEF MoteInv

\* No row is committed.
LEMMA NothingStored ==
  ASSUME MoteInv, NEW t \in Turns, NEW r \in TurnRows, turn' = [turn EXCEPT ![t] = r],
         convs' = convs, messages' = messages, calls' = calls, effects' = effects,
         left \subseteq left', left' \subseteq Effects,
         \A e \in left' \ left : e \in r.tx.effects /\ e.turn = t
                               /\ \E tool \in get(e.tool) : tool.effect = "alerts",
         \/ r.pc = "crashed"
         \/ turn[t].pc # "crashed" /\ turn[t].tx.effects \subseteq r.tx.effects,
         audit' \in [stored : SUBSET Turns, logged : SUBSET Turns], audit'.stored \subseteq audit'.logged,
         SessionOK(t, r, Responses(messages, t), DOMAIN convs)
  PROVE  MoteInv'
  <1>1. \A u : Responses(messages, u) \in Nat BY ResponsesNat
  <1>2. \A u : Responses(messages, u)' = Responses(messages, u) BY DEF Responses
  <1>3. Recorded({}, {}) BY DEF Recorded
  <1>4. /\ calls' = calls \cup {} /\ effects' = effects \cup {}
        /\ \/ r.pc = "crashed"
           \/ turn[t].pc # "crashed" /\ turn[t].tx.effects \subseteq r.tx.effects \cup {}
    OBVIOUS
  <1>5. /\ messages' \in Seq(MsgRows) /\ \A i \in DOMAIN messages' : messages'[i].conv \in DOMAIN convs'
        /\ convs' \in Seq(ConvRows) /\ DOMAIN convs \subseteq DOMAIN convs'
    BY DEF MoteInv, MoteTyped
  <1>6. \A u : /\ Responses(messages, u) \in Nat /\ Responses(messages, u)' \in Nat
               /\ Responses(messages, u)' >= Responses(messages, u)
    BY <1>1, <1>2
  <1>7. SessionOK(t, r, Responses(messages, t)', DOMAIN convs') BY <1>2
  <1> QED BY <1>3, <1>4, <1>5, <1>6, <1>7, TurnMoves

\* A commit in the middle of a turn or at its end.
LEMMA Stored ==
  ASSUME MoteInv, NEW t \in Turns, NEW r \in TurnRows, turn' = [turn EXCEPT ![t] = r],
         turn[t].pc \in {"ask", "exec"}, r.conv = turn[t].conv, r.loop = turn[t].loop,
         r.tx = Clean, Len(r.todo) <= MaxCalls,
         NEW role \in {"assistant", "tool"},
         LET s == turn[t].tx.msgs
             more == [turn |-> t, role |-> role, conv |-> turn[t].conv] IN
         messages' = messages \o s \/ messages' = messages \o Append(s, more),
         NEW C \in SUBSET CallRows, calls' = calls \cup C,
         \A c \in C : c.turn = t /\ c.loop = turn[t].loop,
         NEW E \in SUBSET Effects, effects' = effects \cup E, Recorded(E, C),
         turn[t].tx.effects \subseteq E,
         convs' = convs, left' = left, audit' = audit
  PROVE  MoteInv'
  <1>1. PICK q \in TurnRows : q = turn[t] BY DEF MoteInv, MoteTyped
  <1>2. PICK m \in Seq(MsgRows) : m = messages BY DEF MoteInv, MoteTyped
  <1> DEFINE a == [turn |-> t, role |-> "assistant", conv |-> q.conv]
             b == [turn |-> t, role |-> role, conv |-> q.conv]
  <1>3. a \in MsgRows /\ b \in MsgRows /\ a.turn = t /\ a.role = "assistant"
        /\ a.conv = q.conv /\ b.conv = q.conv
    BY DEF MsgRows, TurnRows
  <1>4. /\ TurnOK(t) /\ q.conv \in DOMAIN convs /\ q.loop \in Nat
        /\ q.tx.msgs = <<>> \/ q.tx.msgs = <<a>>
    BY <1>1, Bounds DEF MoteInv, TurnOK, SessionOK, TurnRows
  <1> HIDE DEF a, b
  <1>5. \/ q.tx.msgs = <<>> /\ (messages' = m \/ messages' = Append(m, b))
        \/ q.tx.msgs = <<a>> /\ (messages' = Append(m, a) \/ messages' = Append(Append(m, a), b))
    <2>1. messages' = m \o q.tx.msgs \/ messages' = m \o Append(q.tx.msgs, b)
      BY <1>1, <1>2 DEF b
    <2>2. CASE q.tx.msgs = <<>>
      <3>1. m \o q.tx.msgs = m /\ Append(q.tx.msgs, b) = <<b>> /\ m \o <<b>> = Append(m, b)
        BY <1>3, <2>2
      <3> QED BY <2>1, <2>2, <3>1
    <2>3. CASE q.tx.msgs = <<a>>
      <3>1. m \o <<a>> = Append(m, a) /\ m \o Append(<<a>>, b) = Append(Append(m, a), b)
        BY <1>3
      <3> QED BY <2>1, <2>3, <3>1
    <2> QED BY <1>4, <2>2, <2>3
  <1>6. PICK k \in Seq(MsgRows) : k = messages'
    <2>1. Append(m, a) \in Seq(MsgRows) /\ Append(m, b) \in Seq(MsgRows) BY <1>3
    <2>2. Append(Append(m, a), b) \in Seq(MsgRows) BY <1>3, <2>1
    <2> QED BY <1>5, <2>1, <2>2
  <1>7. \A u : /\ Responses(m, u) \in Nat /\ Responses(k, u) \in Nat
               /\ Responses(k, u) >= Responses(m, u)
    <2> TAKE u
    <2>1. Append(m, a) \in Seq(MsgRows) BY <1>3
    <2>2. /\ Responses(m, u) \in Nat /\ Responses(Append(m, a), u) \in Nat
          /\ Responses(Append(m, b), u) \in Nat /\ Responses(Append(Append(m, a), b), u) \in Nat
          /\ Responses(Append(m, a), u) >= Responses(m, u)
          /\ Responses(Append(m, b), u) >= Responses(m, u)
          /\ Responses(Append(Append(m, a), b), u) >= Responses(Append(m, a), u)
      BY <1>3, <2>1, ResponsesGrow
    <2>3. k = m \/ k = Append(m, b) \/ k = Append(m, a) \/ k = Append(Append(m, a), b)
      BY <1>5, <1>6
    <2>4. ASSUME NEW w \in Nat, NEW x \in Nat, NEW y \in Nat, NEW z \in Nat, x >= w, y >= w, z >= x
          PROVE  w >= w /\ z >= w
      BY <2>4
    <2> QED BY <2>2, <2>3, <2>4
  <1>8. Responses(k, t) >= q.loop
    <2>1. Append(m, a) \in Seq(MsgRows) BY <1>3
    <2>2. /\ Responses(Append(m, a), t) >= Responses(m, t) + 1
          /\ Responses(Append(Append(m, a), b), t) >= Responses(Append(m, a), t)
          /\ Responses(Append(m, a), t) \in Nat /\ Responses(m, t) \in Nat
          /\ Responses(Append(Append(m, a), b), t) \in Nat
      BY <1>3, <2>1, ResponsesGrow
    <2>3. /\ q.tx.msgs = <<>> => Responses(m, t) >= q.loop
          /\ q.tx.msgs # <<>> => Responses(m, t) + 1 >= q.loop
      <3>1. SessionOK(t, q, Responses(m, t), DOMAIN convs) /\ q.pc \in {"ask", "exec"}
        BY <1>1, <1>2, <1>4 DEF TurnOK
      <3>2. Responses(m, t) + (IF q.tx.msgs = <<>> THEN 0 ELSE 1) >= q.loop
        BY <3>1 DEF SessionOK
      <3> QED BY <2>2, <3>2
    <2>4. CASE q.tx.msgs = <<>> BY <1>4, <1>7, <2>2, <2>3, <2>4
    <2>5. CASE q.tx.msgs # <<>>
      <3>1. k = Append(m, a) \/ k = Append(Append(m, a), b) BY <1>5, <1>6, <2>5
      <3>2. Responses(m, t) + 1 >= q.loop BY <2>3, <2>5
      <3>3. Responses(Append(m, a), t) >= q.loop /\ Responses(Append(Append(m, a), b), t) >= q.loop
        BY <1>4, <2>2, <3>2
      <3> QED BY <3>1, <3>3
    <2> QED BY <2>4, <2>5
  <1>9. \A i \in DOMAIN k : k[i].conv \in DOMAIN convs
    <2>1. \A i \in DOMAIN m : m[i].conv \in DOMAIN convs BY <1>2 DEF MoteInv, MoteTyped
    <2>2. ASSUME NEW l \in Seq(MsgRows), NEW x \in {a, b}, \A i \in DOMAIN l : l[i].conv \in DOMAIN convs
          PROVE  \A i \in DOMAIN Append(l, x) : Append(l, x)[i].conv \in DOMAIN convs
      <3>1. x \in MsgRows /\ x.conv \in DOMAIN convs BY <1>3, <1>4
      <3> QED BY <2>2, <3>1
    <2>3. Append(m, a) \in Seq(MsgRows) BY <1>3
    <2>4. \A i \in DOMAIN Append(m, a) : Append(m, a)[i].conv \in DOMAIN convs BY <2>1, <2>2
    <2>5. \A i \in DOMAIN Append(m, b) : Append(m, b)[i].conv \in DOMAIN convs BY <2>1, <2>2
    <2>6. \A i \in DOMAIN Append(Append(m, a), b) : Append(Append(m, a), b)[i].conv \in DOMAIN convs
      BY <2>2, <2>3, <2>4
    <2> QED BY <1>5, <1>6, <2>1, <2>4, <2>5, <2>6
  <1>10. SessionOK(t, r, Responses(k, t), DOMAIN convs)
    BY <1>1, <1>4, <1>8, <1>7, CleanSession DEF SessionOK, Recorded
  <1>11. \A u : /\ Responses(messages, u) \in Nat /\ Responses(messages, u)' \in Nat
               /\ Responses(messages, u)' >= Responses(messages, u)
    BY <1>2, <1>6, <1>7 DEF Responses
  <1>12. Responses(messages, t)' = Responses(k, t) BY <1>6 DEF Responses
  <1>13. \A c \in C : c.turn = t /\ c.loop <= Responses(messages, t)'
    BY <1>1, <1>4, <1>7, <1>8, <1>12
  <1>14. /\ messages' \in Seq(MsgRows) /\ \A i \in DOMAIN messages' : messages'[i].conv \in DOMAIN convs'
         /\ convs' \in Seq(ConvRows) /\ DOMAIN convs \subseteq DOMAIN convs'
         /\ audit' \in [stored : SUBSET Turns, logged : SUBSET Turns] /\ audit'.stored \subseteq audit'.logged
    BY <1>6, <1>9 DEF MoteInv, MoteTyped
  <1>15. left \subseteq left' /\ left' \subseteq Effects /\ left' \ left = {}
    BY DEF MoteInv, MoteTyped
  <1>16. turn[t].pc # "crashed" /\ turn[t].tx.effects \subseteq r.tx.effects \cup E OBVIOUS
  <1> QED BY <1>10, <1>11, <1>12, <1>13, <1>14, <1>15, <1>16, TurnMoves

LEMMA NewCall ==
  ASSUME MoteInv, NEW t \in Turns, turn[t].todo # <<>>,
         NEW status \in {"pending", "completed", "failed"}
  PROVE  LET call == Call(t, CallNo(t), Next1(t), status) IN
         /\ call \in CallRows /\ call.turn = t /\ call.loop = turn[t].loop
         /\ call.tool = Next1(t) /\ call.status = status
         /\ Next1(t) \in Callable
         /\ Tail(turn[t].todo) \in Seq(Callable) /\ Len(Tail(turn[t].todo)) <= MaxCalls
  <1>1. PICK q \in TurnRows : q = turn[t] BY DEF MoteInv, MoteTyped
  <1>2. q.todo \in Seq(Callable) /\ Len(q.todo) <= MaxCalls /\ q.todo # <<>> /\ q.loop \in 0..MaxLoops
    BY <1>1 DEF MoteInv, TurnOK, SessionOK, TurnRows
  <1>3. Len(q.todo) \in Nat /\ MaxCalls - Len(q.todo) \in Nat /\ Head(q.todo) \in Callable
        /\ Tail(q.todo) \in Seq(Callable) /\ Len(Tail(q.todo)) <= MaxCalls
    BY <1>2, Bounds
  <1> QED BY <1>1, <1>2, <1>3 DEF Call, CallNo, Next1, CallRows

LEMMA ReceiveStep ==
  ASSUME MoteInv, NEW t \in Turns, NEW ch \in ChatChannels, Receive(t, ch)
  PROVE  MoteInv'
  <1>1. PICK place \in (IF ch = "web" THEN {<<i, convs>> : i \in DOMAIN convs} ELSE FindConversation(ch)),
             yes \in {{}, {c \in calls : c.status = "pending"}} :
          /\ convs' = place[2]
          /\ turn' = [turn EXCEPT ![t] =
               [Fresh EXCEPT !.pc = "ask", !.channel = ch, !.conv = place[1], !.answers = yes]]
          /\ messages' = Append(messages, [turn |-> t, role |-> "user", conv |-> place[1]])
    BY DEF Receive
  <1>2. PICK i, cs : /\ place = <<i, cs>> /\ cs \in Seq(ConvRows) /\ i \in DOMAIN cs
                     /\ DOMAIN convs \subseteq DOMAIN cs
    <2>0. convs \in Seq(ConvRows) /\ Len(convs) \in Nat BY DEF MoteInv, MoteTyped
    <2>1. [channel |-> ch, active |-> TRUE] \in ConvRows BY DEF ConvRows
    <2>2. /\ Append(convs, [channel |-> ch, active |-> TRUE]) \in Seq(ConvRows)
          /\ DOMAIN Append(convs, [channel |-> ch, active |-> TRUE]) = 1..(Len(convs) + 1)
          /\ DOMAIN convs = 1..Len(convs)
      BY <2>0, <2>1
    <2>3. CASE \E j \in DOMAIN convs : place = <<j, convs>> BY <2>0, <2>3
    <2>4. CASE place = <<Len(convs) + 1, Append(convs, [channel |-> ch, active |-> TRUE])>>
      <3> DEFINE cs == Append(convs, [channel |-> ch, active |-> TRUE])
      <3>1. cs \in Seq(ConvRows) /\ Len(convs) + 1 \in DOMAIN cs /\ DOMAIN convs \subseteq DOMAIN cs
        BY <2>0, <2>2
      <3> HIDE DEF cs
      <3> QED BY <2>4, <3>1 DEF cs
    <2> QED BY <2>3, <2>4 DEF FindConversation
  <1>3. convs' = cs /\ place[1] = i BY <1>1, <1>2
  <1>4. i \in Nat BY <1>2
  <1>5. yes \in SUBSET CallRows BY DEF MoteInv, MoteTyped
  <1>6. PICK r : r = [Fresh EXCEPT !.pc = "ask", !.channel = ch, !.conv = i, !.answers = yes] OBVIOUS
  <1>7. /\ r \in TurnRows /\ r.pc = "ask" /\ r.conv = i /\ r.tx = Clean /\ r.loop = 0
        /\ r.todo = <<>>
    BY <1>4, <1>5, <1>6, FreshTurn DEF Fresh, TurnRows
  <1>8. PICK m \in Seq(MsgRows) : m = messages BY DEF MoteInv, MoteTyped
  <1>9. PICK x : x = [turn |-> t, role |-> "user", conv |-> i] OBVIOUS
  <1>10. x \in MsgRows /\ x.conv = i BY <1>4, <1>9 DEF MsgRows
  <1>11. messages' = Append(m, x) /\ turn' = [turn EXCEPT ![t] = r]
    BY <1>1, <1>3, <1>6, <1>8, <1>9
  <1>12. \A u : /\ Responses(messages, u) \in Nat /\ Responses(messages, u)' \in Nat
               /\ Responses(messages, u)' >= Responses(messages, u)
    <2>1. \A u : /\ Responses(m, u) \in Nat /\ Responses(Append(m, x), u) \in Nat
                 /\ Responses(Append(m, x), u) >= Responses(m, u)
      BY <1>10, ResponsesGrow
    <2> QED BY <1>8, <1>11, <2>1 DEF Responses
  <1>13. /\ messages' \in Seq(MsgRows) /\ \A j \in DOMAIN messages' : messages'[j].conv \in DOMAIN convs'
    <2>1. \A j \in DOMAIN m : m[j].conv \in DOMAIN cs BY <1>2, <1>8 DEF MoteInv, MoteTyped
    <2>2. \A j \in DOMAIN Append(m, x) : Append(m, x)[j].conv \in DOMAIN cs
      BY <1>2, <1>10, <2>1
    <2> QED BY <1>3, <1>10, <1>11, <2>2
  <1>14. SessionOK(t, r, Responses(messages, t)', DOMAIN convs')
    BY <1>2, <1>3, <1>7, <1>12, CleanSession, Bounds DEF SessionOK, Recorded
  <1>15. calls' = calls \cup {} /\ effects' = effects \cup {} /\ left' = left /\ audit' = audit
    BY DEF Receive
  <1>16. Recorded({}, {}) BY DEF Recorded
  <1>17. convs' \in Seq(ConvRows) /\ DOMAIN convs \subseteq DOMAIN convs' BY <1>2, <1>3
  <1>18. audit' \in [stored : SUBSET Turns, logged : SUBSET Turns] /\ audit'.stored \subseteq audit'.logged
    BY <1>15 DEF MoteInv, MoteTyped
  <1>19. turn[t].pc # "crashed" /\ turn[t].tx.effects \subseteq r.tx.effects \cup {}
    <2>1. turn[t].pc = "idle" BY DEF Receive
    <2>2. turn[t].tx = Clean BY <2>1 DEF MoteInv, TurnOK, SessionOK
    <2> QED BY <2>1, <2>2, CleanSession
  <1>20. left \subseteq left' /\ left' \subseteq Effects /\ left' \ left = {}
    BY <1>15 DEF MoteInv, MoteTyped
  <1> QED BY <1>7, <1>11, <1>12, <1>13, <1>14, <1>15, <1>16, <1>17, <1>18, <1>19, <1>20, TurnMoves

\* Steps that end a turn, or drop its session, and store nothing.
LEMMA EndStep ==
  ASSUME MoteInv, NEW t \in Turns, StreamError(t) \/ LoopLimit(t) \/ Crash(t) \/ Audit(t)
  PROVE  MoteInv'
  <1>0. PICK q \in TurnRows : q = turn[t] BY DEF MoteInv, MoteTyped
  <1>1. SessionOK(t, q, Responses(messages, t), DOMAIN convs) BY <1>0 DEF MoteInv, TurnOK
  <1>2. /\ convs' = convs /\ messages' = messages /\ calls' = calls /\ effects' = effects
        /\ left \subseteq left' /\ left' \subseteq Effects /\ left' \ left = {}
    BY DEF StreamError, LoopLimit, Crash, Audit, MoteInv, MoteTyped
  <1>3. ASSUME NEW pc \in {"error", "audit", "complete"}, q.pc \in {"ask", "audit"},
               turn' = [turn EXCEPT ![t].pc = pc], audit'.stored \subseteq audit'.logged,
               audit' \in [stored : SUBSET Turns, logged : SUBSET Turns]
        PROVE  MoteInv'
    <2>1. PICK r : r = [q EXCEPT !.pc = pc] OBVIOUS
    <2>2. /\ r \in TurnRows /\ r.pc = pc /\ r.conv = q.conv /\ r.todo = q.todo /\ r.tx = q.tx
          /\ r.loop = q.loop
      BY <2>1 DEF TurnRows, Ended
    <2>3. turn' = [turn EXCEPT ![t] = r] BY <1>0, <1>3, <2>1
    <2>4. SessionOK(t, r, Responses(messages, t), DOMAIN convs)
      BY <1>1, <1>3, <2>2 DEF SessionOK
    <2>5. turn[t].pc # "crashed" /\ turn[t].tx.effects \subseteq r.tx.effects BY <1>0, <1>3, <2>2
    <2> QED BY <1>2, <1>3, <2>2, <2>3, <2>4, <2>5, NothingStored
  <1>4. audit.stored \subseteq audit.logged /\ audit \in [stored : SUBSET Turns, logged : SUBSET Turns]
    BY DEF MoteInv, MoteTyped
  <1>5. CASE StreamError(t) \/ LoopLimit(t)
    <2>1. q.pc = "ask" /\ audit' = audit BY <1>0, <1>5 DEF StreamError, LoopLimit
    <2>2. PICK pc \in {"error", "audit", "complete"} : turn' = [turn EXCEPT ![t].pc = pc]
      BY <1>5 DEF StreamError, LoopLimit
    <2> QED BY <1>3, <1>4, <2>1, <2>2
  <1>6. CASE Audit(t)
    <2>1. q.pc = "audit" /\ turn' = [turn EXCEPT ![t].pc = "complete"] BY <1>0, <1>6 DEF Audit
    <2>2. /\ audit' \in [stored : SUBSET Turns, logged : SUBSET Turns]
          /\ audit'.stored \subseteq audit'.logged
      BY <1>4, <1>6 DEF Audit
    <2> QED BY <1>3, <1>4, <2>1, <2>2
  <1>7. CASE Crash(t)
    <2>a. <<>> \in Seq(Callable) OBVIOUS
    <2>0. PICK z \in Sessions, e \in Seq(Callable) : z = Clean /\ e = <<>> BY <2>a, CleanSession
    <2>1. PICK r : r = [q EXCEPT !.pc = "crashed", !.tx = z, !.todo = e] OBVIOUS
    <2>2. /\ r \in TurnRows /\ r.pc = "crashed" /\ r.conv = q.conv /\ r.todo = <<>> /\ r.tx = Clean
          /\ r.loop = q.loop
      BY <2>0, <2>1 DEF TurnRows, Ended
    <2>3. turn' = [turn EXCEPT ![t] = r] /\ audit' = audit
      BY <1>0, <1>7, <2>0, <2>1 DEF Crash, MoteInv, MoteTyped
    <2>4. SessionOK(t, r, Responses(messages, t), DOMAIN convs)
      BY <1>1, <2>2, CleanSession, Bounds DEF SessionOK, Recorded
    <2>5. r.pc = "crashed" BY <2>2
    <2> QED BY <1>2, <1>4, <2>2, <2>3, <2>4, <2>5, NothingStored
  <1> QED BY <1>5, <1>6, <1>7

LEMMA AskStep ==
  ASSUME MoteInv, NEW t \in Turns, NEW k \in 1..MaxCalls, NEW names \in [1..k -> Callable],
         AskTools(t, names)
  PROVE  MoteInv'
  <1>0. PICK q \in TurnRows : q = turn[t] BY DEF MoteInv, MoteTyped
  <1>1. SessionOK(t, q, Responses(messages, t), DOMAIN convs) BY <1>0 DEF MoteInv, TurnOK
  <1>2. q.pc = "ask" /\ q.loop < MaxLoops BY <1>0 DEF AskTools
  <1>3. q.tx = Clean /\ q.conv \in DOMAIN convs /\ q.conv \in Nat /\ q.loop \in 0..MaxLoops
        /\ Responses(messages, t) >= q.loop
    <2>1. q.tx = Clean /\ q.conv \in DOMAIN convs BY <1>1, <1>2 DEF SessionOK
    <2>2. q.conv \in Nat /\ q.loop \in 0..MaxLoops BY DEF TurnRows
    <2>3. Responses(messages, t) + 0 >= q.loop BY <1>1, <1>2, <2>1, CleanSession DEF SessionOK
    <2>4. Responses(messages, t) \in Nat BY ResponsesNat
    <2> QED BY <2>1, <2>2, <2>3, <2>4
  <1>4. PICK a : a = [turn |-> t, role |-> "assistant", conv |-> q.conv] OBVIOUS
  <1>5. a \in MsgRows BY <1>3, <1>4 DEF MsgRows
  <1>6. PICK s : s = [q.tx EXCEPT !.msgs = Append(@, a)] OBVIOUS
  <1>7. s \in Sessions /\ s.msgs = <<a>> /\ s.calls = {} /\ s.effects = {}
    <2>1. q.tx \in Sessions /\ q.tx.msgs = <<>> /\ q.tx.calls = {} /\ q.tx.effects = {}
      BY <1>3, CleanSession
    <2>a. <<a>> \in Seq(MsgRows) BY <1>5
    <2>2. PICK x \in Seq(MsgRows) : x = <<a>> BY <2>a
    <2>3. Append(q.tx.msgs, a) = x BY <1>5, <2>1, <2>2
    <2>4. s = [q.tx EXCEPT !.msgs = x] BY <1>6, <2>3
    <2> QED BY <2>1, <2>2, <2>4 DEF Sessions
  <1>8. names \in Seq(Callable) /\ Len(names) = k BY Bounds
  <1>9. PICK r : r = [q EXCEPT !.pc = "exec", !.loop = @ + 1, !.todo = names, !.pending = TRUE, !.tx = s]
    OBVIOUS
  <1>10. q.loop + 1 \in 0..MaxLoops BY <1>2, <1>3, Bounds
  <1>11. /\ r \in TurnRows /\ r.pc = "exec" /\ r.loop = q.loop + 1 /\ r.todo = names /\ r.tx = s
         /\ r.conv = q.conv
    BY <1>7, <1>8, <1>9, <1>10 DEF TurnRows
  <1>12. turn' = [turn EXCEPT ![t] = r]
    BY <1>0, <1>4, <1>6, <1>9 DEF AskTools, _save_message, MoteInv, MoteTyped
  <1>13. Responses(messages, t) \in Nat BY ResponsesNat
  <1>14. SessionOK(t, r, Responses(messages, t), DOMAIN convs)
    <2>1. Len(names) <= MaxCalls BY <1>8, Bounds
    <2>2. s.msgs # <<>> BY <1>7
    <2>3. Responses(messages, t) + 1 >= q.loop + 1 BY <1>3, <1>13
    <2> QED BY <1>3, <1>4, <1>7, <1>11, <2>1, <2>2, <2>3 DEF SessionOK, Recorded
  <1>15. /\ convs' = convs /\ messages' = messages /\ calls' = calls /\ effects' = effects
         /\ left \subseteq left' /\ left' \subseteq Effects /\ left' \ left = {} /\ audit' = audit
    BY DEF AskTools, MoteInv, MoteTyped
  <1>16. audit' \in [stored : SUBSET Turns, logged : SUBSET Turns] /\ audit'.stored \subseteq audit'.logged
    BY <1>15 DEF MoteInv, MoteTyped
  <1>17. turn[t].pc # "crashed" /\ turn[t].tx.effects \subseteq r.tx.effects
    BY <1>0, <1>2, <1>3, CleanSession
  <1> QED BY <1>11, <1>12, <1>14, <1>15, <1>16, <1>17, NothingStored

\* Steps that commit the session: a pending record, the end of a response, the
\* end of the turn.
LEMMA CommitSteps ==
  ASSUME MoteInv, NEW t \in Turns,
         Answer(t) \/ Confirmation(t) \/ LoopAgain(t) \/ StopPending(t)
  PROVE  MoteInv'
  <1>0. PICK q \in TurnRows : q = turn[t] BY DEF MoteInv, MoteTyped
  <1>1. SessionOK(t, q, Responses(messages, t), DOMAIN convs) BY <1>0 DEF MoteInv, TurnOK
  <1>2. q.pc \in {"ask", "exec"} /\ convs' = convs /\ left' = left /\ audit' = audit
    BY <1>0 DEF Answer, Confirmation, LoopAgain, StopPending
  <1>3. PICK x \in Sessions : x = q.tx BY DEF TurnRows
  <1>4. PICK z \in Sessions : z = Clean BY CleanSession
  <1>5. /\ x.calls \in SUBSET CallRows /\ x.effects \in SUBSET Effects
        /\ (\A c \in x.calls : c.turn = t /\ c.loop = q.loop) /\ Recorded(x.effects, x.calls)
    BY <1>1, <1>3 DEF SessionOK, Sessions
  <1>6. q.todo \in Seq(Callable) /\ Len(q.todo) <= MaxCalls BY <1>1 DEF SessionOK, TurnRows
  <1>7. CASE Answer(t) \/ LoopAgain(t) \/ StopPending(t)
    <2>1. PICK pc \in {"ask", "complete", "audit"} :
            turn' = [turn EXCEPT ![t].pc = pc, ![t].tx = Clean]
      BY <1>7 DEF Answer, LoopAgain, StopPending
    <2>2. PICK r : r = [q EXCEPT !.pc = pc, !.tx = z] OBVIOUS
    <2>3. /\ r \in TurnRows /\ r.conv = q.conv /\ r.loop = q.loop /\ r.tx = Clean
          /\ r.todo = q.todo
      BY <1>4, <2>2 DEF TurnRows, Ended
    <2>4. turn' = [turn EXCEPT ![t] = r]
      BY <1>0, <1>4, <2>1, <2>2 DEF MoteInv, MoteTyped
    <2>5. PICK role \in {"assistant", "tool"} :
            /\ \/ messages' = messages \o x.msgs
               \/ messages' = messages \o Append(x.msgs, [turn |-> t, role |-> role, conv |-> q.conv])
            /\ calls' = calls \cup x.calls /\ effects' = effects \cup x.effects
      <3>1. ASSUME NEW role PROVE
              LET y == _save_message(x, t, role) IN
              /\ y.msgs = Append(x.msgs, [turn |-> t, role |-> role, conv |-> q.conv])
              /\ y.calls = x.calls /\ y.effects = x.effects
        BY <1>0 DEF _save_message, Sessions
      <3>2. CASE Answer(t) BY <1>0, <1>3, <3>1, <3>2 DEF Answer, Commit
      <3>3. CASE LoopAgain(t) BY <1>0, <1>3, <3>1, <3>3 DEF LoopAgain, Commit
      <3>4. CASE StopPending(t) BY <1>0, <1>3, <3>4 DEF StopPending, Commit
      <3> QED BY <1>7, <3>2, <3>3, <3>4
    <2> QED BY <1>0, <1>2, <1>3, <1>5, <1>6, <2>3, <2>4, <2>5, Stored
  <1>8. CASE Confirmation(t)
    <2>1. PICK call : call = Call(t, CallNo(t), Next1(t), "pending") OBVIOUS
    <2>2. /\ call \in CallRows /\ call.turn = t /\ call.loop = q.loop
          /\ Tail(q.todo) \in Seq(Callable) /\ Len(Tail(q.todo)) <= MaxCalls
      BY <1>0, <1>8, <2>1, NewCall DEF Confirmation
    <2>3. PICK r : r = [q EXCEPT !.todo = Tail(@), !.tx = z] OBVIOUS
    <2>4. /\ r \in TurnRows /\ r.conv = q.conv /\ r.loop = q.loop /\ r.tx = Clean
          /\ r.todo = Tail(q.todo)
      BY <1>4, <2>2, <2>3 DEF TurnRows
    <2>5. turn' = [turn EXCEPT ![t] = r]
      BY <1>0, <1>4, <1>8, <2>3 DEF Confirmation, MoteInv, MoteTyped
    <2>6. PICK C \in SUBSET CallRows : C = x.calls \cup {call} BY <1>5, <2>2
    <2>7. /\ messages' = messages \o x.msgs /\ calls' = calls \cup C
          /\ effects' = effects \cup x.effects
      BY <1>0, <1>3, <1>8, <2>1, <2>6 DEF Confirmation, Commit, _save_tool_call, Sessions
    <2>8. (\A c \in C : c.turn = t /\ c.loop = q.loop) /\ Recorded(x.effects, C)
      BY <1>5, <2>2, <2>6 DEF Recorded
    <2> QED BY <1>0, <1>2, <1>3, <1>5, <2>2, <2>4, <2>5, <2>7, <2>8, Stored
  <1> QED BY <1>7, <1>8

\* A handler runs, or fails: its record goes into the session, with its change.
LEMMA ToolStep ==
  ASSUME MoteInv, NEW t \in Turns, ToolRuns(t) \/ ToolFails(t)
  PROVE  MoteInv'
  <1>0. PICK q \in TurnRows : q = turn[t] BY DEF MoteInv, MoteTyped
  <1>1. SessionOK(t, q, Responses(messages, t), DOMAIN convs) BY <1>0 DEF MoteInv, TurnOK
  <1>2. /\ q.pc = "exec" /\ q.todo # <<>> /\ ~NeedsConfirmation(Next1(t))
        /\ messages' = messages /\ calls' = calls /\ effects' = effects
        /\ convs' = convs /\ audit' = audit
    BY <1>0 DEF ToolRuns, ToolFails, Uncommitted
  <1>3. PICK x \in Sessions : x = q.tx BY DEF TurnRows
  <1>4. audit' \in [stored : SUBSET Turns, logged : SUBSET Turns] /\ audit'.stored \subseteq audit'.logged
    BY <1>2 DEF MoteInv, MoteTyped
  <1>5. ASSUME NEW call \in CallRows, call.turn = t, call.loop = q.loop, NEW E \in SUBSET Effects,
               \A e \in E : /\ e.turn = call.turn /\ e.loop = call.loop /\ e.tool = call.tool
                            /\ call.status = "completed",
               NEW y \in Sessions, y.msgs = x.msgs, y.calls = x.calls \cup {call},
               y.effects = x.effects \cup E,
               turn' = [turn EXCEPT ![t].todo = Tail(@), ![t].pending = FALSE, ![t].tx = y],
               left \subseteq left', left' \subseteq left \cup E,
               \A e \in left' \ left : \E tool \in get(e.tool) : tool.effect = "alerts"
        PROVE  MoteInv'
    <2>1. Tail(q.todo) \in Seq(Callable) /\ Len(Tail(q.todo)) <= MaxCalls
      BY <1>0, <1>2, NewCall
    <2>2. PICK r : r = [q EXCEPT !.todo = Tail(@), !.pending = FALSE, !.tx = y] OBVIOUS
    <2>3. /\ r \in TurnRows /\ r.pc = q.pc /\ r.conv = q.conv /\ r.loop = q.loop /\ r.tx = y
          /\ r.todo = Tail(q.todo)
      BY <2>1, <2>2 DEF TurnRows
    <2>4. turn' = [turn EXCEPT ![t] = r]
      BY <1>0, <1>5, <2>2 DEF MoteInv, MoteTyped
    <2>5. Recorded(y.effects, y.calls)
      BY <1>1, <1>3, <1>5 DEF SessionOK, Recorded
    <2>6. SessionOK(t, r, Responses(messages, t), DOMAIN convs)
      BY <1>1, <1>2, <1>3, <1>5, <2>1, <2>3, <2>5 DEF SessionOK
    <2>7. left' \subseteq Effects
          /\ \A e \in left' \ left : e \in r.tx.effects /\ e.turn = t
                                   /\ \E tool \in get(e.tool) : tool.effect = "alerts"
      BY <1>5, <2>3 DEF MoteInv, MoteTyped
    <2>8. turn[t].pc # "crashed" /\ turn[t].tx.effects \subseteq r.tx.effects
      BY <1>0, <1>2, <1>3, <1>5, <2>3
    <2>9. left \subseteq left' BY <1>5
    <2> QED BY <1>2, <1>4, <2>3, <2>4, <2>6, <2>7, <2>8, <2>9, NothingStored
  <1>6. CASE ToolFails(t)
    <2>1. PICK call : call = Call(t, CallNo(t), Next1(t), "failed") OBVIOUS
    <2>2. call \in CallRows /\ call.turn = t /\ call.loop = q.loop BY <1>0, <1>2, <2>1, NewCall
    <2>3. PICK y : y = _save_tool_call(x, call) OBVIOUS
    <2>4. /\ y \in Sessions /\ y.msgs = x.msgs /\ y.calls = x.calls \cup {call}
          /\ y.effects = x.effects \cup {}
      BY <2>2, <2>3 DEF _save_tool_call, Sessions
    <2>5. /\ turn' = [turn EXCEPT ![t].todo = Tail(@), ![t].pending = FALSE, ![t].tx = y]
          /\ left \subseteq left' /\ left' \subseteq left \cup {} /\ left' \ left = {}
      BY <1>0, <1>3, <1>6, <2>1, <2>3 DEF ToolFails
    <2> QED BY <1>5, <2>2, <2>4, <2>5
  <1>7. CASE ToolRuns(t)
    <2>1. PICK call : call = Call(t, CallNo(t), Next1(t), "completed") OBVIOUS
    <2>2. /\ call \in CallRows /\ call.turn = t /\ call.loop = q.loop /\ call.tool = Next1(t)
          /\ call.status = "completed" /\ Next1(t) \in Callable
      BY <1>0, <1>2, <2>1, NewCall
    <2>3. PICK e : e = [turn |-> t, loop |-> turn[t].loop, tool |-> Next1(t)] OBVIOUS
    <2>4. /\ e \in Effects /\ e.turn = call.turn /\ e.loop = call.loop /\ e.tool = call.tool
      BY <1>0, <2>2, <2>3 DEF Effects, TurnRows
    <2>5. PICK tool \in get(Next1(t)) :
            /\ \/ tool.effect # "leaves" /\ left' = left
               \/ tool.effect \in {"leaves", "alerts"} /\ left' = left \cup {e}
            /\ turn' = [turn EXCEPT ![t].todo = Tail(@), ![t].pending = FALSE,
                 ![t].tx = LET w == _save_tool_call(@, call) IN
                           IF tool.effect \in Writing THEN [w EXCEPT !.effects = @ \cup {e}] ELSE w]
      BY <1>7, <2>1, <2>3 DEF ToolRuns
    <2>6. tool.effect # "leaves"
      BY <1>2, LeavesConfirmed DEF NeedsConfirmation, get
    <2>7. PICK w : w = _save_tool_call(x, call) OBVIOUS
    <2>8. /\ w \in Sessions /\ w.msgs = x.msgs /\ w.calls = x.calls \cup {call}
          /\ w.effects = x.effects
      BY <2>2, <2>7 DEF _save_tool_call, Sessions
    <2>9. CASE tool.effect \in Writing
      <3>1. PICK y : y = [w EXCEPT !.effects = @ \cup {e}] OBVIOUS
      <3>2. /\ y \in Sessions /\ y.msgs = x.msgs /\ y.calls = x.calls \cup {call}
            /\ y.effects = x.effects \cup {e}
        BY <2>4, <2>8, <3>1 DEF Sessions
      <3>3. turn' = [turn EXCEPT ![t].todo = Tail(@), ![t].pending = FALSE, ![t].tx = y]
        BY <1>0, <1>3, <2>5, <2>7, <2>9, <3>1
      <3>4. PICK E \in SUBSET Effects : E = {e} BY <2>4
      <3>5. \A f \in E : /\ f.turn = call.turn /\ f.loop = call.loop /\ f.tool = call.tool
                        /\ call.status = "completed"
        BY <2>2, <2>4, <3>4
      <3>6. y.effects = x.effects \cup E BY <3>2, <3>4
      <3>7. tool \in get(e.tool) BY <2>3, <2>5
      <3>8. left \subseteq left' /\ left' \subseteq left \cup E BY <2>5, <3>4
      <3>9. \A f \in left' \ left : f = e /\ tool.effect = "alerts" BY <2>5, <2>6
      <3>10. \A f \in left' \ left : \E u \in get(f.tool) : u.effect = "alerts"
        BY <3>7, <3>9
      <3> QED BY <1>5, <2>2, <3>2, <3>3, <3>5, <3>6, <3>8, <3>10
    <2>10. CASE tool.effect \notin Writing
      <3>1. turn' = [turn EXCEPT ![t].todo = Tail(@), ![t].pending = FALSE, ![t].tx = w]
        BY <1>0, <1>3, <2>5, <2>7, <2>10
      <3>2. w.effects = x.effects \cup {} BY <2>8
      <3>3. left \subseteq left' /\ left' \subseteq left \cup {} /\ left' \ left = {}
        BY <2>5, <2>6, <2>10 DEF Writing
      <3> QED BY <1>5, <2>2, <2>8, <3>1, <3>2, <3>3
    <2> QED BY <2>9, <2>10
  <1> QED BY <1>6, <1>7

LEMMA MoteStep == MoteInv /\ [Next]_vars => MoteInv'
  <1> SUFFICES ASSUME MoteInv, [Next]_vars PROVE MoteInv'
    OBVIOUS
  \* Conversations are created and closed; nothing else changes.
  <1>1. ASSUME convs' \in Seq(ConvRows), DOMAIN convs \subseteq DOMAIN convs',
               UNCHANGED <<messages, calls, effects, left, turn, audit>>
        PROVE  MoteInv'
    <2>1. MoteTyped' BY <1>1 DEF MoteInv, MoteTyped
    <2>2. \A u : Responses(messages, u)' = Responses(messages, u) BY <1>1 DEF Responses
    <2>3. ASSUME NEW t \in Turns PROVE TurnOK(t)'
      BY <1>1, <2>2 DEF MoteInv, TurnOK, SessionOK
    <2>4. (OnlyAlertsLeave /\ AlertsBacked)'
      BY <1>1 DEF MoteInv, OnlyAlertsLeave, AlertsBacked
    <2> QED BY <1>1, <2>1, <2>2, <2>3, <2>4 DEF MoteInv
  <1>2. convs \in Seq(ConvRows) BY DEF MoteInv, MoteTyped
  <1>3. CASE CreateConversation
    <2>1. [channel |-> "web", active |-> TRUE] \in ConvRows BY DEF ConvRows
    <2>2. convs' \in Seq(ConvRows) /\ DOMAIN convs \subseteq DOMAIN convs'
      BY <1>2, <1>3, <2>1 DEF CreateConversation
    <2> QED BY <1>1, <1>3, <2>2 DEF CreateConversation
  <1>4. ASSUME NEW i \in DOMAIN convs, DeleteConversation(i) PROVE MoteInv'
    <2>1. PICK c \in ConvRows : c = convs[i] BY <1>2
    <2>2. PICK d \in ConvRows : d = [c EXCEPT !.active = FALSE] BY DEF ConvRows
    <2>3. convs' = [convs EXCEPT ![i] = d] BY <1>4, <2>1, <2>2 DEF DeleteConversation
    <2>4. convs' \in Seq(ConvRows) /\ DOMAIN convs \subseteq DOMAIN convs' BY <1>2, <2>3
    <2> QED BY <1>1, <1>4, <2>4 DEF DeleteConversation
  <1>5. ASSUME NEW t \in Turns, TurnStep(t) PROVE MoteInv'
    BY <1>5, EndStep, AskStep, CommitSteps, ToolStep DEF TurnStep
  <1>6. CASE UNCHANGED vars BY <1>1, <1>2, <1>6 DEF vars
  <1> QED BY <1>3, <1>4, <1>5, <1>6, ReceiveStep, EndStep DEF Next

(* Conversations, messages, tool calls and sessions keep their types. *)
THEOREM MoteTypes == "web" \in ChatChannels => (Spec => []TypeOK)
  <1> SUFFICES ASSUME "web" \in ChatChannels PROVE Spec => []TypeOK
    OBVIOUS
  <1>1. MoteInv => TypeOK
    <2> SUFFICES ASSUME MoteInv PROVE TypeOK
      OBVIOUS
    <2>1. \A i \in DOMAIN convs : convs[i] \in ConvRows BY DEF MoteInv, MoteTyped
    <2>2. \A i \in DOMAIN messages : messages[i] \in MsgRows BY DEF MoteInv, MoteTyped
    <2>3. \A t \in Turns : TurnOK(t) /\ turn[t] \in TurnRows BY DEF MoteInv, MoteTyped
    <2>4. \A i \in DOMAIN convs : convs[i].channel \in ChatChannels /\ convs[i].active \in BOOLEAN
      BY <2>1 DEF ConvRows
    <2>5. \A t \in Turns : /\ turn[t].pc \in {"idle", "ask", "exec", "done", "audit"} \cup Ended
                          /\ turn[t].loop \in 0..MaxLoops /\ Len(turn[t].todo) <= MaxCalls
                          /\ turn[t].conv \in {0} \cup DOMAIN convs
      BY <2>3 DEF TurnRows, TurnOK, SessionOK
    <2>6. \A c \in calls : c.status \in {"pending", "completed", "failed"}
      BY DEF MoteInv, MoteTyped, CallRows
    <2> QED BY <2>2, <2>4, <2>5, <2>6 DEF TypeOK, MoteInv, MoteTyped, MsgRows, Effects
  <1> QED BY <1>1, MoteInit, MoteStep, PTL DEF Spec

(* Whatever tools the model asks for, in however many responses and turns at *)
(* once, and wherever a turn fails: without a confirmation at most an alert   *)
(* to the operator leaves, of a change that is committed unless the turn      *)
(* crashes, and a tool's change is in the database only with its completed    *)
(* record, which has its assistant message (run_agent_turn).                  *)
THEOREM ToolsAccounted == Spec => []ToolsAccountable
  <1>1. MoteInv => ToolsAccountable
    BY DEF MoteInv, MoteTyped, ToolsAccountable, EffectsRecorded, CallsHaveMessage,
           Recorded, Responses
  <1> QED BY <1>1, MoteInit, MoteStep, PTL DEF Spec

---------------------------------------------------------------------------
(* Operational settings                                                    *)

Values == Ops!Bool \cup Ops!Modes
Valid(f, v) == IF f = "runtime_mode" THEN v \in Ops!Modes ELSE v \in Ops!Bool

SettingsRows == {r \in [Ops!Fields -> Values] : \A f \in Ops!Fields : Valid(f, r[f])}
ReqRows == [pc : {"idle", "read", "ok", "error"}, ask : Ops!Updates \cup {Ops!NoRow},
            read : SettingsRows \cup {Ops!NoRow}, fresh : BOOLEAN]

(* A request that has read the row read all of it, and one that found a row  *)
(* finds one when it commits.                                                *)
OpsInv ==
  /\ opsRow \in SettingsRows \cup {Ops!NoRow} /\ req \in [Requests -> ReqRows]
  /\ \A r \in Requests : req[r].pc = "read" =>
       /\ req[r].ask \in Ops!Updates /\ req[r].read \in SettingsRows
       /\ ~req[r].fresh => opsRow # Ops!NoRow

LEMMA FieldValues ==
  /\ \A f \in Ops!Fields : f = "runtime_mode" \/ f \in Ops!Toggles
  /\ "runtime_mode" \notin Ops!Toggles /\ "runtime_mode" \in Ops!Fields
  BY DEF Ops!Fields, Ops!Toggles

LEMMA UpdateValues ==
  ASSUME NEW ask \in Ops!Updates
  PROVE  DOMAIN ask \subseteq Ops!Fields /\ \A f \in DOMAIN ask : Valid(f, ask[f])
  <1>1. CASE ask \in Ops!to_update_dict
    <2>1. PICK t \in Ops!Toggles \ {"auto_pipeline_enabled"}, v \in Ops!Bool :
            ask = [f \in {t} |-> v]
      <3> DEFINE One(t, v) == [f \in {t} |-> v]
      <3>1. Ops!to_update_dict = {One(t, v) : t \in Ops!Toggles \ {"auto_pipeline_enabled"}, v \in Ops!Bool}
        BY DEF Ops!to_update_dict
      <3> HIDE DEF One
      <3>2. \E t \in Ops!Toggles \ {"auto_pipeline_enabled"}, v \in Ops!Bool : ask = One(t, v)
        BY <1>1, <3>1
      <3> QED BY <3>2 DEF One
    <2> QED BY <2>1, FieldValues DEF Valid, Ops!Fields
  <1>2. CASE ask \in {Ops!ModeUpdate(m) : m \in Ops!Modes}
    <2>1. PICK m \in Ops!Modes : ask = Ops!ModeUpdate(m) BY <1>2
    <2>2. \A on : \A t \in Ops!Toggles : Ops!Set(on)[t] \in Ops!Bool BY DEF Ops!Set, Ops!Bool
    <2>3. \A t \in Ops!Toggles : Ops!_RUNTIME_MODE_PRESETS[m][t] \in Ops!Bool
      BY <2>2 DEF Ops!Modes, Ops!_RUNTIME_MODE_PRESETS
    <2> QED BY <2>1, <2>3, FieldValues DEF Ops!ModeUpdate, Valid
  <1> QED BY <1>1, <1>2 DEF Ops!Updates

LEMMA DefaultsValid == Ops!Defaults \in SettingsRows
  <1>1. \A on : \A t \in Ops!Toggles : Ops!Set(on)[t] \in Ops!Bool BY DEF Ops!Set, Ops!Bool
  <1>2. \A f \in Ops!Fields : Valid(f, Ops!Defaults[f]) /\ Ops!Defaults[f] \in Values
    BY <1>1, FieldValues DEF Ops!Defaults, Valid, Values, Ops!Modes
  <1> QED BY <1>2 DEF SettingsRows, Ops!Defaults

LEMMA OpsInit == Ops!Init => OpsInv
  BY DEF Ops!Init, OpsInv, Ops!Idle, ReqRows

LEMMA OpsStep == OpsInv /\ [Ops!Next]_(Ops!vars) => OpsInv'
  <1> SUFFICES ASSUME OpsInv, [Ops!Next]_(Ops!vars) PROVE OpsInv'
    OBVIOUS
  <1>1. ASSUME NEW r \in Requests, NEW ask \in Ops!Updates, Ops!get_or_create(r, ask) PROVE OpsInv'
    <2>1. PICK q : q = [pc |-> "read", ask |-> ask,
                        read |-> IF opsRow = Ops!NoRow THEN Ops!Defaults ELSE opsRow,
                        fresh |-> opsRow = Ops!NoRow]
      OBVIOUS
    <2>2. /\ q \in ReqRows /\ q.pc = "read" /\ q.ask = ask /\ q.read \in SettingsRows
          /\ ~q.fresh => opsRow # Ops!NoRow
      BY <2>1, DefaultsValid DEF ReqRows, OpsInv
    <2>3. req' = [req EXCEPT ![r] = q] /\ opsRow' = opsRow BY <1>1, <2>1 DEF Ops!get_or_create
    <2> QED BY <2>2, <2>3 DEF OpsInv
  <1>2. ASSUME NEW r \in Requests, Ops!Commit(r) PROVE OpsInv'
    <2>1. PICK q \in ReqRows : q = req[r] /\ q.pc = "read" BY <1>2 DEF Ops!Commit, OpsInv
    <2>2. q.ask \in Ops!Updates /\ q.read \in SettingsRows /\ (~q.fresh => opsRow \in SettingsRows)
      BY <2>1 DEF OpsInv
    <2>3. \A f \in Ops!Fields : Valid(f, opsRow'[f])
      BY <1>2, <2>1, <2>2, UpdateValues DEF Ops!Commit, Ops!Written, Ops!Changed, SettingsRows
    <2>4. opsRow' \in SettingsRows
      <3>1. opsRow' = [f \in Ops!Fields |-> opsRow'[f]] BY <1>2 DEF Ops!Commit, Ops!Written
      <3>2. \A f \in Ops!Fields : opsRow'[f] \in Values BY <2>3 DEF Valid, Values
      <3> QED BY <2>3, <3>1, <3>2 DEF SettingsRows
    <2>5. opsRow' # Ops!NoRow
      <3>1. DOMAIN opsRow' = Ops!Fields BY <2>4 DEF SettingsRows
      <3> QED BY <3>1, FieldValues DEF Ops!NoRow
    <2>6. PICK p \in ReqRows : p = [q EXCEPT !.pc = "ok"] /\ p.pc = "ok"
      <3>1. PICK p : p = [q EXCEPT !.pc = "ok"] OBVIOUS
      <3>2. p \in ReqRows /\ p.pc = "ok" BY <3>1 DEF ReqRows
      <3> QED BY <3>1, <3>2
    <2>7. req' = [req EXCEPT ![r] = p] BY <1>2, <2>1, <2>6 DEF Ops!Commit
    <2> QED BY <2>4, <2>5, <2>6, <2>7 DEF OpsInv
  <1>3. ASSUME NEW r \in Requests, Ops!SingletonTaken(r) PROVE OpsInv'
    <2>1. PICK q \in ReqRows : q = req[r] BY DEF OpsInv
    <2>2. PICK p \in ReqRows : p = [q EXCEPT !.pc = "error"] /\ p.pc = "error"
      <3>1. PICK p : p = [q EXCEPT !.pc = "error"] OBVIOUS
      <3>2. p \in ReqRows /\ p.pc = "error" BY <3>1 DEF ReqRows
      <3> QED BY <3>1, <3>2
    <2>3. req' = [req EXCEPT ![r] = p] /\ opsRow' = opsRow
      BY <1>3, <2>1, <2>2 DEF Ops!SingletonTaken
    <2> QED BY <2>2, <2>3 DEF OpsInv
  <1>4. CASE UNCHANGED Ops!vars BY <1>4 DEF Ops!vars, OpsInv
  <1> QED BY <1>1, <1>2, <1>3, <1>4 DEF Ops!Next

(* The settings row is complete, with a mode and toggles of their types.     *)
THEOREM SettingsTypes == Ops!Spec => []Ops!TypeOK
  <1>1. OpsInv => Ops!TypeOK
    <2> SUFFICES ASSUME OpsInv PROVE Ops!TypeOK
      OBVIOUS
    <2>1. \A r \in Requests : req[r].pc \in {"idle", "read", "ok", "error"} BY DEF OpsInv, ReqRows
    <2>2. ASSUME opsRow \in SettingsRows
          PROVE  /\ DOMAIN opsRow = Ops!Fields /\ opsRow["runtime_mode"] \in Ops!Modes
                 /\ \A t \in Ops!Toggles : opsRow[t] \in Ops!Bool
      BY <2>2, FieldValues DEF SettingsRows, Valid, Ops!Fields
    <2> QED BY <2>1, <2>2 DEF OpsInv, Ops!TypeOK
  <1> QED BY <1>1, OpsInit, OpsStep, PTL DEF Ops!Spec

(* No lost update between requests for different settings: a commit leaves   *)
(* alone every setting its request did not name, whoever committed since it  *)
(* read the row (update_operational_settings).                               *)
THEOREM OtherSettingsKept == Ops!Spec => OthersKept
  <1>1. OpsInv /\ [Ops!Next]_(Ops!vars) =>
          \A r \in Requests : req[r].pc = "read" /\ req'[r].pc = "ok" /\ opsRow # Ops!NoRow =>
            \A f \in Ops!Fields \ DOMAIN req[r].ask : opsRow'[f] = opsRow[f]
    <2> SUFFICES ASSUME OpsInv, [Ops!Next]_(Ops!vars), NEW r \in Requests, req[r].pc = "read",
                        req'[r].pc = "ok", opsRow # Ops!NoRow,
                        NEW f \in Ops!Fields \ DOMAIN req[r].ask
                 PROVE  opsRow'[f] = opsRow[f]
      OBVIOUS
    <2>1. Ops!Commit(r)
      <3>1. ASSUME NEW u \in Requests, NEW ask \in Ops!Updates, Ops!get_or_create(u, ask) PROVE FALSE
        BY <3>1 DEF Ops!get_or_create, OpsInv
      <3>2. ASSUME NEW u \in Requests, Ops!SingletonTaken(u) PROVE FALSE
        BY <3>2 DEF Ops!SingletonTaken, OpsInv, ReqRows
      <3>3. ASSUME NEW u \in Requests, Ops!Commit(u) PROVE u = r
        BY <3>3 DEF Ops!Commit, OpsInv
      <3>4. CASE UNCHANGED Ops!vars BY <3>4 DEF Ops!vars
      <3> QED BY <3>1, <3>2, <3>3, <3>4 DEF Ops!Next
    <2>2. ~req[r].fresh /\ f \notin Ops!Changed(req[r]) BY <2>1 DEF Ops!Commit, Ops!Changed
    <2> QED BY <2>1, <2>2 DEF Ops!Commit, Ops!Written
  <1> QED BY <1>1, OpsInit, OpsStep, PTL DEF Ops!Spec, OthersKept, Ops!OthersKept

---------------------------------------------------------------------------
(* Credentials and setup                                                   *)

CredRow == [addr : BOOLEAN, ok : {"none", "true", "false"}, secret : Seq(Nat)]

Setup == Active \subseteq Creds!Channels /\ 1 \in Plain /\ Plain \subseteq Nat

SecretOK(s) == s = Creds!None \/ Head(s) \in Plain

CredsTyped ==
  /\ ops \subseteq {"brand", "from"} /\ row \in [Creds!Channels -> CredRow]
  /\ keyRow \in [ApiKeys -> Seq(Nat)]
  /\ \A c \in Creds!Channels : SecretOK(row[c].secret)
  /\ \A k \in ApiKeys : SecretOK(keyRow[k])
  /\ secretKey \in Creds!SecretKeys /\ health \in {"ok", "degraded", "error"}
  /\ test = Creds!NoTest \/ \E c \in Creds!Channels : \E cfg : test = <<c, cfg>>
  /\ DOMAIN tested = Creds!Channels

CredsInv == CredsTyped /\ Creds!TickWasTested

LEMMA Encrypted ==
  ASSUME NEW v, v = Creds!None \/ (\E p \in Plain : v = <<p>>), Setup, secretKey \in Creds!SecretKeys
  PROVE  Creds!encrypt_if_needed(v) \in Seq(Nat) /\ SecretOK(Creds!encrypt_if_needed(v))
  <1>1. secretKey \in Nat BY DEF Creds!SecretKeys
  <1>2. CASE v = Creds!None BY <1>2 DEF Creds!encrypt_if_needed, Creds!None, SecretOK
  <1>3. ASSUME NEW p \in Plain, v = <<p>>
        PROVE  Creds!encrypt_if_needed(v) \in Seq(Nat) /\ SecretOK(Creds!encrypt_if_needed(v))
    <2>1. p \in Nat /\ Len(v) = 1 /\ v # <<>> BY <1>3 DEF Setup
    <2>2. Creds!encrypt_if_needed(v) = Append(<<p>>, secretKey)
      BY <1>3, <2>1 DEF Creds!encrypt_if_needed, Creds!is_encrypted, Creds!None
    <2>3. Append(<<p>>, secretKey) \in Seq(Nat) /\ Head(Append(<<p>>, secretKey)) = p
      BY <1>1, <2>1
    <2> QED BY <2>2, <2>3 DEF SecretOK
  <1> QED BY <1>2, <1>3

LEMMA CredsInit == Setup /\ Creds!Init => CredsInv
  <1> SUFFICES ASSUME Setup, Creds!Init PROVE CredsInv
    OBVIOUS
  <1>1. PICK token \in {Creds!None, <<1>>} :
          row = [c \in Creds!Channels |->
                   [addr |-> FALSE, ok |-> "none",
                    secret |-> IF c = "telegram" /\ c \in Active THEN token ELSE Creds!None]]
    BY DEF Creds!Init
  <1>2. token \in Seq(Nat) /\ Creds!None \in Seq(Nat) /\ SecretOK(token) /\ SecretOK(Creds!None)
    <2>1. <<1>> \in Seq(Nat) /\ Head(<<1>>) = 1 /\ <<>> \in Seq(Nat) OBVIOUS
    <2> QED BY <2>1 DEF Creds!None, SecretOK, Setup
  <1>3. \A c \in Creds!Channels : /\ row[c] \in CredRow /\ SecretOK(row[c].secret)
                                 /\ row[c].ok = "none"
    BY <1>1, <1>2 DEF CredRow
  <1>4. row \in [Creds!Channels -> CredRow] BY <1>1, <1>3
  <1>5. /\ keyRow \in [ApiKeys -> Seq(Nat)] /\ \A k \in ApiKeys : SecretOK(keyRow[k])
    BY <1>2 DEF Creds!Init
  <1> QED BY <1>3, <1>4, <1>5 DEF Creds!Init, CredsInv, CredsTyped, Creds!TickWasTested, Creds!SecretKeys

LEMMA CredsStep == Setup /\ CredsInv /\ [Creds!Next]_(Creds!vars) => CredsInv'
  <1> SUFFICES ASSUME Setup, CredsInv, [Creds!Next]_(Creds!vars) PROVE CredsInv'
    OBVIOUS
  <1>0. /\ row \in [Creds!Channels -> CredRow] /\ keyRow \in [ApiKeys -> Seq(Nat)]
        /\ secretKey \in Creds!SecretKeys
    BY DEF CredsInv, CredsTyped
  \* The credentials and tests stay as they are.
  <1>1. ASSUME UNCHANGED <<row, keyRow, test, tested>>, ops' \subseteq {"brand", "from"},
               secretKey' \in Creds!SecretKeys, health' \in {"ok", "degraded", "error"}
        PROVE  CredsInv'
    BY <1>1 DEF CredsInv, CredsTyped, Creds!TickWasTested
  <1>2. /\ ops \subseteq {"brand", "from"} /\ health \in {"ok", "degraded", "error"}
    BY DEF CredsInv, CredsTyped
  \* One row changes.
  <1>3. ASSUME NEW c \in Creds!Channels, NEW r \in CredRow, row' = [row EXCEPT ![c] = r],
               SecretOK(r.secret), r.ok = row[c].ok,
               UNCHANGED <<ops, keyRow, test, tested, secretKey, health>>
        PROVE  CredsInv'
    <2>1. row' \in [Creds!Channels -> CredRow] BY <1>0, <1>3
    <2>2. \A d \in Creds!Channels : row'[d].ok = row[d].ok /\ SecretOK(row'[d].secret)
      BY <1>0, <1>3 DEF CredsInv, CredsTyped
    <2>3. CredsTyped' BY <1>3, <2>1, <2>2 DEF CredsInv, CredsTyped
    <2>4. Creds!TickWasTested' BY <1>3, <2>2 DEF CredsInv, Creds!TickWasTested
    <2> QED BY <2>3, <2>4 DEF CredsInv
  <1>4. ASSUME NEW c \in Active, Creds!update_credentials(c) PROVE CredsInv'
    <2>1. c \in Creds!Channels /\ UNCHANGED <<ops, keyRow, test, tested, secretKey, health>>
      BY <1>4 DEF Setup, Creds!update_credentials
    <2>2. PICK q \in CredRow : q = row[c] BY <1>0, <2>1
    <2>3. SecretOK(q.secret) BY <2>1, <2>2 DEF CredsInv, CredsTyped
    <2>4. ASSUME NEW a \in BOOLEAN, row' = [row EXCEPT ![c].addr = a] PROVE CredsInv'
      <3>1. PICK r : r = [q EXCEPT !.addr = a] OBVIOUS
      <3>2. r \in CredRow /\ r.secret = q.secret /\ r.ok = q.ok BY <3>1 DEF CredRow
      <3>3. row' = [row EXCEPT ![c] = r] BY <2>2, <2>4, <3>1
      <3> QED BY <1>3, <2>1, <2>2, <2>3, <3>2, <3>3
    <2>5. ASSUME NEW v, v = Creds!None \/ (\E p \in Plain : v = <<p>>),
                 row' = [row EXCEPT ![c].secret = Creds!encrypt_if_needed(v)]
          PROVE  CredsInv'
      <3>0. PICK s \in Seq(Nat) : s = Creds!encrypt_if_needed(v) /\ SecretOK(s)
        BY <1>0, <2>5, Encrypted
      <3>1. PICK r : r = [q EXCEPT !.secret = s] OBVIOUS
      <3>2. r \in CredRow /\ r.secret = s /\ r.ok = q.ok BY <3>1 DEF CredRow
      <3>3. row' = [row EXCEPT ![c] = r] BY <2>2, <2>5, <3>0, <3>1
      <3> QED BY <1>3, <2>1, <2>2, <3>0, <3>2, <3>3
    <2> QED BY <1>4, <2>4, <2>5 DEF Creds!update_credentials
  <1>5. ASSUME NEW c \in Active, Creds!TestBegin(c) PROVE CredsInv'
    <2>1. test' = <<c, Creds!Effective(c)>> /\ c \in Creds!Channels
      BY <1>5 DEF Creds!TestBegin, Setup
    <2> QED BY <1>5, <2>1 DEF Creds!TestBegin, CredsInv, CredsTyped, Creds!TickWasTested
  <1>6. CASE Creds!TestEnd
    <2>1. PICK c \in Creds!Channels, cfg \in {test[2]} : test = <<c, cfg>>
      BY <1>6 DEF Creds!TestEnd, CredsInv, CredsTyped
    <2>2. PICK ok \in {"true", "false"} : /\ ok = "true" => Creds!Testable(c, cfg)
                                          /\ row' = [row EXCEPT ![c].ok = ok]
      BY <1>6, <2>1 DEF Creds!TestEnd
    <2>3. tested' = [tested EXCEPT ![c] = <<cfg>>] /\ test' = Creds!NoTest
          /\ UNCHANGED <<ops, keyRow, secretKey, health>>
      BY <1>6, <2>1 DEF Creds!TestEnd
    <2>4. PICK q \in CredRow : q = row[c] BY <1>0
    <2>5. PICK r : r = [q EXCEPT !.ok = ok] OBVIOUS
    <2>6. r \in CredRow /\ r.ok = ok /\ r.secret = q.secret BY <2>5 DEF CredRow
    <2>7. row' = [row EXCEPT ![c] = r] BY <2>2, <2>4, <2>5
    <2>8. /\ row' \in [Creds!Channels -> CredRow]
          /\ \A d \in Creds!Channels : row'[d].secret = row[d].secret
          /\ row'[c].ok = ok /\ \A d \in Creds!Channels \ {c} : row'[d] = row[d]
      BY <1>0, <2>4, <2>6, <2>7
    <2>9. /\ tested'[c] = <<cfg>> /\ DOMAIN tested' = Creds!Channels
          /\ \A d \in Creds!Channels \ {c} : tested'[d] = tested[d]
      BY <2>3 DEF CredsInv, CredsTyped
    <2>10. CredsTyped' BY <2>3, <2>8, <2>9 DEF CredsInv, CredsTyped
    <2>11. Creds!TickWasTested'
      <3>1. <<cfg>> # Creds!NoTest /\ <<cfg>>[1] = cfg BY DEF Creds!NoTest
      <3>2. SUFFICES ASSUME NEW d \in Creds!Channels, row'[d].ok = "true"
                     PROVE  tested'[d] # Creds!NoTest /\ Creds!Testable(d, tested'[d][1])
        BY DEF Creds!TickWasTested
      <3>3. CASE d = c BY <2>2, <2>8, <2>9, <3>1, <3>2, <3>3
      <3>4. CASE d # c
        <4>1. row'[d] = row[d] /\ tested'[d] = tested[d] BY <2>8, <2>9, <3>4
        <4> QED BY <3>2, <4>1 DEF CredsInv, Creds!TickWasTested
      <3> QED BY <3>3, <3>4
    <2> QED BY <2>10, <2>11 DEF CredsInv
  <1>7. ASSUME keyRow' \in [ApiKeys -> Seq(Nat)], \A k \in ApiKeys : SecretOK(keyRow'[k]),
               UNCHANGED <<ops, row, test, tested, secretKey, health>>
        PROVE  CredsInv'
    BY <1>7 DEF CredsInv, CredsTyped, Creds!TickWasTested
  <1>8. ASSUME NEW k \in ApiKeys, Creds!set_api_key(k) PROVE CredsInv'
    <2>1. PICK p \in Plain : keyRow' = [keyRow EXCEPT ![k] = Creds!encrypt_if_needed(<<p>>)]
      BY <1>8 DEF Creds!set_api_key
    <2>2. PICK v : v = <<p>> OBVIOUS
    <2>3. PICK s \in Seq(Nat) : s = Creds!encrypt_if_needed(v) /\ SecretOK(s)
      BY <1>0, <2>2, Encrypted
    <2>4. keyRow' = [keyRow EXCEPT ![k] = s] BY <2>1, <2>2, <2>3
    <2> QED BY <1>0, <1>7, <1>8, <2>3, <2>4 DEF Creds!set_api_key, CredsInv, CredsTyped
  <1>9. CASE Creds!clear_google_maps_api_key
    <2>1. Creds!None \in Seq(Nat) /\ SecretOK(Creds!None) BY DEF Creds!None, SecretOK
    <2> QED BY <1>0, <1>7, <1>9, <2>1 DEF Creds!clear_google_maps_api_key, CredsInv, CredsTyped
  <1>10. CASE Creds!PatchOps \/ Creds!register_telegram_webhook \/ Creds!HealthChanges
              \/ Creds!ReplaceSecretKey
    BY <1>0, <1>1, <1>2, <1>10
       DEF Creds!PatchOps, Creds!register_telegram_webhook, Creds!HealthChanges,
           Creds!ReplaceSecretKey, Creds!SecretKeys
  <1>11. CASE UNCHANGED Creds!vars BY <1>0, <1>1, <1>2, <1>11 DEF Creds!vars
  <1> QED BY <1>4, <1>5, <1>6, <1>8, <1>9, <1>10, <1>11 DEF Creds!Next

(* Stored credentials keep their types; a secret begins with a plain value. *)
THEOREM CredentialTypes == Setup => (Creds!Spec => []Creds!TypeOK)
  <1> SUFFICES ASSUME Setup PROVE Creds!Spec => []Creds!TypeOK
    OBVIOUS
  <1>1. CredsInv => Creds!TypeOK
    BY DEF CredsInv, CredsTyped, Creds!TypeOK, CredRow, SecretOK
  <1>2. Creds!Init => CredsInv BY CredsInit
  <1>3. CredsInv /\ [Creds!Next]_(Creds!vars) => CredsInv' BY CredsStep
  <1> QED BY <1>1, <1>2, <1>3, PTL DEF Creds!Spec

(* In every state the three answers of GET /setup/readiness agree, and the   *)
(* key source shown is the one used: both are computed twice from one row.   *)
LEMMA SetupAnswersAgree == Creds!ReadinessAgrees /\ Creds!KeyStatusTrue
  <1>1. Creds!ReadinessAgrees
    <2>1. (Creds!overall = "ready") <=> Creds!dashboard_unlocked
      BY DEF Creds!overall, Creds!dashboard_unlocked
    <2>2. ASSUME Creds!runtime_ready, ~Creds!dashboard_unlocked PROVE Creds!wizard_steps # {}
      <3>1. CASE ~Creds!has_outreach_channel BY <3>1 DEF Creds!wizard_steps
      <3>2. CASE Creds!has_outreach_channel
        <4>1. Creds!step.brand = "incomplete" BY <2>2, <3>2 DEF Creds!dashboard_unlocked
        <4>2. "brand" \in DOMAIN Creds!step \ Creds!optional_steps
          BY DEF Creds!step, Creds!optional_steps
        <4>3. Creds!step["brand"] # "complete" BY <4>1
        <4> QED BY <4>2, <4>3, <3>2 DEF Creds!wizard_steps
      <3> QED BY <3>1, <3>2
    <2> QED BY <2>1, <2>2 DEF Creds!ReadinessAgrees
  <1>2. Creds!KeyStatusTrue
    BY DEF Creds!KeyStatusTrue, Creds!get_api_key_status, Creds!get_effective_key, Creds!Or
  <1> QED BY <1>1, <1>2

(* What is shown of the credentials is true, whatever was changed while a    *)
(* test was under way: the tick of a channel was set by a test that had      *)
(* something to connect with, the answers of GET /setup/readiness agree, and *)
(* the key source shown is the one used.                                     *)
THEOREM CredentialsShownTrue == Setup => (Creds!Spec => []ShownIsTrue)
  <1> SUFFICES ASSUME Setup PROVE Creds!Spec => []ShownIsTrue
    OBVIOUS
  <1>1. CredsInv => ShownIsTrue BY SetupAnswersAgree DEF CredsInv, ShownIsTrue
  <1>2. Creds!Init => CredsInv BY CredsInit
  <1>3. CredsInv /\ [Creds!Next]_(Creds!vars) => CredsInv' BY CredsStep
  <1> QED BY <1>1, <1>2, <1>3, PTL DEF Creds!Spec

---------------------------------------------------------------------------
(* Every component keeps its types while the others rest. *)
THEOREM TypesCorrect ==
  NoteBounds /\ Emitters /\ "web" \in ChatChannels /\ Setup =>
    (Spec /\ Notes!Spec /\ Ops!Spec /\ Creds!Spec => []TypesOK)
  <1> SUFFICES ASSUME NoteBounds, Emitters, "web" \in ChatChannels, Setup
               PROVE  Spec /\ Notes!Spec /\ Ops!Spec /\ Creds!Spec => []TypesOK
    OBVIOUS
  <1>1. TypeOK /\ Notes!TypeOK /\ Ops!TypeOK /\ Creds!TypeOK => TypesOK BY DEF TypesOK
  <1>2. Spec => []TypeOK BY MoteTypes
  <1>3. Notes!Spec => []Notes!TypeOK BY NoteTypes
  <1>4. Creds!Spec => []Creds!TypeOK BY CredentialTypes
  <1> QED BY <1>1, <1>2, <1>3, <1>4, SettingsTypes, PTL
=============================================================================

--------------------------- MODULE Notifications ---------------------------
(***************************************************************************)
(* Notifications: the emitters (notification_emitter.py) called in the     *)
(* middle of a caller's transaction, create_notification with its dedup    *)
(* and rate guards, the dispatch to WhatsApp, Telegram and Slack before    *)
(* the commit, the janitor's own notifications, and the status endpoints.  *)
(* Titles, messages and metadata are left out.                             *)
(***************************************************************************)
EXTENDS Naturals, Sequences, FiniteSets

CONSTANTS Callers,      \* transactions that do work and emit
          Subjects,     \* leads, messages, deliveries: the source_id of an event
          Kinds,        \* kinds of event the callers emit
          Thresholds,   \* severities to try as whatsapp_min_severity
          RateMax,      \* _RATE_LIMIT_MAX
          DryRun,       \* WHATSAPP_DRY_RUN and TELEGRAM_DRY_RUN
          MaxFaults,    \* bound: failed or lost callers
          MaxSweeps,    \* bound: janitor passes
          MaxPatches    \* bound: status requests

VARIABLES rows,      \* committed notifications, in commit order
          settings,  \* the OperationalSettings columns that matter here
          tx,        \* each caller: where it is, its event, its uncommitted row and work
          work,      \* has the caller's own work been committed?
          alerts,    \* history: alerts delivered per channel and dedup key
          shown,     \* history: what the last status request was answered
          alarms,    \* history: pipeline_health alarms the janitor raised
          spent      \* bound counters

vars == <<rows, settings, tx, work, alerts, shown, alarms, spent>>

_SEV_ORDER == [info |-> 0, warning |-> 1, high |-> 2, critical |-> 3]
Channels == {"whatsapp", "telegram", "slack"}
Statuses == {"unread", "read", "acknowledged", "resolved"}
NoKey == <<"none", "none">>

Event(type, cat, sev, key, src) ==
  [type |-> type, cat |-> cat, sev |-> sev, key |-> key, src |-> src]

---------------------------------------------------------------------------
(* The emitters; the empty set is an early return.                         *)

on_reply_classified(s, label, escalate) ==
  LET high == label \in {"interested", "asked_for_quote", "asked_for_meeting"} IN
  IF ~high /\ ~escalate THEN {}
  ELSE {Event(IF high THEN label ELSE "review_required", "business",
              IF high THEN "high" ELSE "warning", <<"reply_classified", s>>, s)}

on_high_score_lead(s, above) ==
  IF above THEN {Event("high_score_lead", "business", "warning", <<"high_score", s>>, s)} ELSE {}

on_send_failed(s) == {Event("send_failed", "system", "high", <<"send_failed", s>>, s)}
on_sync_failed(s) == {Event("sync_failed", "system", "high", <<"sync_failed", s>>, s)}
on_research_completed(s) ==
  {Event("research_completed", "business", "info", <<"research_completed", s>>, s)}
on_brief_generated(s, call) ==
  {Event("brief_generated", "business", IF call THEN "high" ELSE "warning",
         <<"brief_generated", s>>, s)}
on_territory_saturated(s) ==
  {Event("territory_saturated", "business", "warning", <<"territory_saturated", s>>, s)}
on_security_event(s) == {Event("security", "security", "high", NoKey, s)}
on_repeated_failures == {Event("repeated_failures", "system", "high", NoKey, "none")}

\* What the events of one kind can emit about one subject.
EmissionsOf(kind, s) ==
  CASE kind = "reply" -> {on_reply_classified(s, l, x) : l \in {"interested", "neutral"}, x \in BOOLEAN}
    [] kind = "score" -> {on_high_score_lead(s, a) : a \in BOOLEAN}
    [] kind = "brief" -> {on_brief_generated(s, c) : c \in BOOLEAN}
    [] kind = "send" -> {on_send_failed(s)}
    [] kind = "sync" -> {on_sync_failed(s)}
    [] kind = "research" -> {on_research_completed(s)}
    [] kind = "territory" -> {on_territory_saturated(s)}
    [] kind = "security" -> {on_security_event(s)}
    [] kind = "failures" -> {on_repeated_failures}

Emissions == UNION {EmissionsOf(kind, s) : kind \in Kinds, s \in Subjects}

Row(ev, sent) == [ev |-> ev, status |-> "unread", sent |-> sent]
Keys == {ev.key : ev \in UNION Emissions} \cup {NoKey, <<"pipeline_inactive", "none">>}
Idle == [pc |-> "idle", emits |-> {}, own |-> <<>>, work |-> FALSE]

TypeOK ==
  /\ \A i \in DOMAIN rows : rows[i].status \in Statuses /\ rows[i].sent \subseteq Channels
  /\ settings.on \subseteq Channels /\ settings.min \in DOMAIN _SEV_ORDER
  /\ \A c \in Callers : /\ tx[c].pc \in {"idle", "guard", "insert", "dispatch", "commit", "done"}
                        /\ tx[c].emits \in Emissions \cup {{}}
                        /\ Len(tx[c].own) <= 1
  /\ work \in [Callers -> BOOLEAN]
  /\ alerts \in [Channels -> [Keys -> 0..2]]
  /\ \A a \in shown : a.id \in DOMAIN rows /\ a.status \in Statuses
  /\ alarms \in 0..MaxSweeps
  /\ spent.faults \in 0..MaxFaults /\ spent.sweeps \in 0..MaxSweeps
  /\ spent.patches \in 0..MaxPatches

Init ==
  /\ rows = <<>>
  /\ settings \in [enabled : BOOLEAN, on : {{}, Channels}, min : Thresholds,
                   cats : {{"business", "security"}}]
  /\ settings.enabled \/ settings.on = {}    \* nothing is emitted: one case is enough
  /\ tx = [c \in Callers |-> Idle]
  /\ work = [c \in Callers |-> FALSE]
  /\ alerts = [c \in Channels |-> [k \in Keys |-> 0]]
  /\ shown = {} /\ alarms = 0
  /\ spent = [faults |-> 0, sweeps |-> 0, patches |-> 0]

---------------------------------------------------------------------------
(* create_notification.                                                    *)

HoldsKey(c, k) == tx[c].own # <<>> /\ tx[c].own[1].ev.key = k

\* Mutant of DedupHit: keys are remembered in memory before they are committed.
DedupHitPending(ev) ==
  /\ ev.key # NoKey
  /\ \/ \E i \in DOMAIN rows : rows[i].ev.key = ev.key
     \/ \E c \in Callers : HoldsKey(c, ev.key)

DedupHit(ev) == ev.key # NoKey /\ \E i \in DOMAIN rows : rows[i].ev.key = ev.key

\* The window of 15 minutes is longer than the behaviours explored.
RateHit(ev) ==
  /\ ev.src # "none"
  /\ Cardinality({i \in DOMAIN rows : rows[i].ev.type = ev.type /\ rows[i].ev.src = ev.src}) >= RateMax

_maybe_dispatch_whatsapp(ev) ==
  /\ "whatsapp" \in settings.on /\ _SEV_ORDER[ev.sev] >= _SEV_ORDER[settings.min]
  /\ ev.cat \in settings.cats
_maybe_dispatch_telegram(ev) ==
  /\ "telegram" \in settings.on /\ _SEV_ORDER[ev.sev] >= _SEV_ORDER[settings.min]
  /\ ev.cat \in settings.cats
_maybe_dispatch_slack(ev) ==
  "slack" \in settings.on /\ _SEV_ORDER[ev.sev] >= _SEV_ORDER[settings.min]

Chosen(ev) ==
  {c \in Channels : \/ c = "whatsapp" /\ _maybe_dispatch_whatsapp(ev)
                    \/ c = "telegram" /\ _maybe_dispatch_telegram(ev)
                    \/ c = "slack" /\ _maybe_dispatch_slack(ev)}

\* A dry run answers success for WhatsApp and Telegram without sending.
Live == IF DryRun THEN {"slack"} ELSE Channels

Delivered(evs, got) ==
  [c \in Channels |-> [k \in Keys |->
     IF c \in got \cap Live /\ alerts[c][k] < 2 /\ \E ev \in evs : ev.key = k /\ c \in Chosen(ev)
       THEN alerts[c][k] + 1 ELSE alerts[c][k]]]

\* channel_state holds "sent" where the provider answered success: a message
\* whose answer timed out was delivered and is recorded as failed, and a dry
\* run of WhatsApp or Telegram is recorded as sent.
Recorded(chosen, got, answered) ==
  chosen \cap ((got \cap answered) \cup (Channels \ Live))

---------------------------------------------------------------------------
(* A caller: do and flush some work, emit, commit.                         *)

\* The caller's own change is flushed before it emits.
Begin(c, emits) ==
  /\ tx[c].pc = "idle" /\ ~work[c]
  /\ tx' = [tx EXCEPT ![c] = [Idle EXCEPT !.pc = "guard", !.emits = emits, !.work = TRUE]]
  /\ UNCHANGED <<rows, settings, work, alerts, shown, alarms, spent>>

\* _emit and the two guards; READ COMMITTED shows committed rows only.
Guard(c) ==
  /\ tx[c].pc = "guard"
  /\ tx' = [tx EXCEPT ![c].pc =
       IF settings.enabled /\ \E ev \in tx[c].emits : ~DedupHit(ev) /\ ~RateHit(ev)
         THEN "insert" ELSE "commit"]
  /\ UNCHANGED <<rows, settings, work, alerts, shown, alarms, spent>>

\* The unique index uq_notifications_dedup_key.
KeyTaken(ev) == ev.key # NoKey /\ \E i \in DOMAIN rows : rows[i].ev.key = ev.key

\* The flush waits for a transaction holding the same key in the unique
\* index; a committed one makes it fail, and the handler rolls back the
\* whole session, the caller's flushed work included.
Insert(c) ==
  /\ tx[c].pc = "insert"
  /\ \E ev \in tx[c].emits :
       /\ \A d \in Callers : ev.key # NoKey => ~HoldsKey(d, ev.key)
       /\ tx' = [tx EXCEPT ![c] =
            IF KeyTaken(ev) THEN [@ EXCEPT !.work = FALSE, !.pc = "commit"]
            ELSE [@ EXCEPT !.own = <<Row(ev, {})>>, !.pc = "dispatch"]]
  /\ UNCHANGED <<rows, settings, work, alerts, shown, alarms, spent>>

\* Mutant of Dispatch: a provider that raises rolls the caller's session back.
DispatchRollsBack(c) ==
  /\ tx[c].pc = "dispatch"
  /\ \E got \in {{}, Channels} :
       /\ alerts' = Delivered({tx[c].own[1].ev}, got)
       /\ tx' = [tx EXCEPT ![c].own = IF got = {} THEN <<>> ELSE @, ![c].work = @ /\ got # {},
                           ![c].pc = "commit"]
  /\ UNCHANGED <<rows, settings, work, shown, alarms, spent>>

Dispatch(c) ==
  /\ tx[c].pc = "dispatch"
  /\ LET ev == tx[c].own[1].ev IN
     \E got, answered \in {{}, Channels} :
       /\ alerts' = Delivered({ev}, got)
       /\ tx' = [tx EXCEPT ![c].own = <<Row(ev, Recorded(Chosen(ev), got, answered))>>,
                           ![c].pc = "commit"]
  /\ UNCHANGED <<rows, settings, work, shown, alarms, spent>>

Commit(c) ==
  /\ tx[c].pc = "commit"
  /\ rows' = rows \o tx[c].own
  /\ work' = [work EXCEPT ![c] = tx[c].work]
  /\ tx' = [tx EXCEPT ![c].pc = "done", ![c].own = <<>>]
  /\ UNCHANGED <<settings, alerts, shown, alarms, spent>>

\* The caller raises after emitting, or its worker is lost; it runs again.
Fault(c) ==
  /\ tx[c].pc \notin {"idle", "done"} /\ spent.faults < MaxFaults
  /\ tx' = [tx EXCEPT ![c] = Idle]
  /\ spent' = [spent EXCEPT !.faults = @ + 1]
  /\ UNCHANGED <<rows, settings, work, alerts, shown, alarms>>

---------------------------------------------------------------------------
(* The janitor emits in its own transaction: zombies and an inactive       *)
(* pipeline before its commit, the alarm about stale tasks after it, in    *)
(* the same session, which is then closed.                                 *)

sweep_zombie_leads(stuck) == IF stuck THEN on_repeated_failures ELSE {}
_check_pipeline_inactive(idle) ==
  IF idle THEN {Event("pipeline_inactive", "system", "warning", <<"pipeline_inactive", "none">>, "none")}
  ELSE {}

SweepNotifies(changed, many, stuck, idle) ==
  LET emitted == IF settings.enabled
                   THEN sweep_zombie_leads(stuck) \cup
                        {ev \in _check_pipeline_inactive(idle) : ~DedupHit(ev)}
                   ELSE {}
      late == IF many /\ settings.enabled THEN on_repeated_failures ELSE {} IN
  /\ spent.sweeps < MaxSweeps /\ (many => changed)
  /\ spent' = [spent EXCEPT !.sweeps = @ + 1]
  /\ \E order \in [1..Cardinality(emitted) -> emitted] :
       /\ {order[i] : i \in DOMAIN order} = emitted
       /\ \E got \in {{}, Channels} :
            /\ alerts' = Delivered(emitted \cup late, got)
            /\ rows' = IF changed
                 THEN rows \o [i \in DOMAIN order |-> Row(order[i], Recorded(Chosen(order[i]), got, Channels))]
                 ELSE rows
  /\ alarms' = IF late # {} THEN alarms + 1 ELSE alarms
  /\ UNCHANGED <<settings, tx, work, shown>>

---------------------------------------------------------------------------
(* PATCH /notifications/{id} and POST /notifications/bulk: the session     *)
(* they update is closed by get_db without a commit.                       *)

Patched == spent.patches < MaxPatches /\ spent' = [spent EXCEPT !.patches = @ + 1]

PatchStatus(i, s) ==
  /\ i \in DOMAIN rows /\ s \in {"read", "acknowledged", "resolved"}
  /\ shown' = {[id |-> i, status |-> s]}
  /\ Patched
  /\ UNCHANGED <<rows, settings, tx, work, alerts, alarms>>

BulkStatus(s) ==
  /\ s \in {"read", "resolved"}
  /\ shown' = {[id |-> i, status |-> s] : i \in {j \in DOMAIN rows : rows[j].status = "unread"}}
  /\ Patched
  /\ UNCHANGED <<rows, settings, tx, work, alerts, alarms>>

---------------------------------------------------------------------------
Next ==
  \/ \E c \in Callers : \/ \E emits \in Emissions \cup {{}} : Begin(c, emits)
                        \/ Guard(c) \/ Insert(c) \/ Dispatch(c) \/ Commit(c) \/ Fault(c)
  \/ \E changed, many, stuck, idle \in BOOLEAN : SweepNotifies(changed, many, stuck, idle)
  \/ \E i \in DOMAIN rows, s \in Statuses : PatchStatus(i, s)
  \/ \E s \in Statuses : BulkStatus(s)

Spec == Init /\ [][Next]_vars

---------------------------------------------------------------------------
(* No event is lost to the dedup guard: a caller that committed its work   *)
(* after a keyed event has, by then, a committed notification with that    *)
(* key, its own or the one that made the guard stop.                       *)
EventNotified ==
  \A c \in DOMAIN tx : tx[c].pc = "done" /\ work[c] /\ settings.enabled =>
    \A ev \in tx[c].emits : ev.key # NoKey => \E i \in DOMAIN rows : rows[i].ev.key = ev.key

(* Notifications with one dedup key are one row, whatever callers race     *)
(* and however often a failed caller is run again.                         *)
KeyOnce ==
  \A i, j \in DOMAIN rows : rows[i].ev.key = rows[j].ev.key /\ rows[i].ev.key # NoKey => i = j

(* A caller that commits and finds its work gone has lost a race: another  *)
(* transaction had committed a notification with the key of its event.     *)
(* Nothing else in create_notification, a failing provider in particular,  *)
(* costs the caller its work.                                              *)
WorkLostToRaceOnly ==
  \A c \in DOMAIN tx : tx[c].pc = "done" /\ ~work[c] => \E ev \in tx[c].emits : KeyTaken(ev)

(* The emitters promise to be safe to call: a caller that goes on to       *)
(* commit commits the work it did before it emitted.                       *)
WorkKept == \A c \in DOMAIN tx : tx[c].pc = "done" => work[c]

(* The alert of a deduplicated notification goes out once per channel.     *)
AlertedOnce == \A c \in Channels, k \in Keys \ {NoKey} : alerts[c][k] <= 1

(* Every alarm the janitor raises about stale tasks is there to be read.   *)
AlarmKept ==
  alarms <= Cardinality({i \in DOMAIN rows : rows[i].ev.type = "repeated_failures"})

(* The status the last request was answered with is the stored one.        *)
StatusStored == \A a \in shown : rows[a.id].status = a.status
===========================================================================

------------------------- MODULE OperationalSettings -------------------------
(***************************************************************************)
(* The operational settings singleton: PATCH /settings/operational and     *)
(* POST /settings/runtime-mode, each in a session of its own.  A request   *)
(* reads the row, assigns attributes and commits; the UPDATE carries the   *)
(* attributes whose value differs from what was read.  Kept are the        *)
(* toggles a runtime mode presets.                                         *)
(***************************************************************************)
EXTENDS Naturals, FiniteSets

CONSTANT Requests

Toggles == {"require_approved_drafts", "auto_classify_inbound", "reply_assistant_enabled",
            "reviewer_enabled", "whatsapp_outreach_enabled", "auto_pipeline_enabled"}
Modes == {"safe", "assisted", "auto"}
Fields == Toggles \cup {"runtime_mode"}

\* Attribute values as strings, so that toggles and mode share one function.
Bool == {"on", "off"}
Set(on) == [t \in Toggles |-> IF t \in on THEN "on" ELSE "off"]

_RUNTIME_MODE_PRESETS ==
  [safe |-> Set({"require_approved_drafts"}),
   assisted |-> Set({"require_approved_drafts", "auto_classify_inbound",
                     "reply_assistant_enabled", "reviewer_enabled"}),
   auto |-> Set(Toggles \ {"require_approved_drafts"})]

\* The column defaults of OperationalSettings.
Defaults ==
  [f \in Fields |->
     IF f = "runtime_mode" THEN "safe"
     ELSE Set({"require_approved_drafts", "auto_classify_inbound", "reply_assistant_enabled"})[f]]

NoRow == [f \in {} |-> "off"]

VARIABLES row,    \* the committed row, NoRow before it exists
          req,    \* each request: where it is, what it asked for, what it read
          last    \* history: for each field, what the last committed request
                  \* that named it asked for

vars == <<row, req, last>>

\* What update_operational_settings is given: a mode's preset, or a toggle of
\* a PATCH body, whose schema does not have auto_pipeline_enabled.
ModeUpdate(mode) ==
  [f \in Fields |-> IF f = "runtime_mode" THEN mode ELSE _RUNTIME_MODE_PRESETS[mode][f]]
to_update_dict == {[f \in {t} |-> v] : t \in Toggles \ {"auto_pipeline_enabled"}, v \in Bool}
Updates == to_update_dict \cup {ModeUpdate(m) : m \in Modes}

TypeOK ==
  /\ row = NoRow \/ (/\ DOMAIN row = Fields /\ row["runtime_mode"] \in Modes
                     /\ \A t \in Toggles : row[t] \in Bool)
  /\ \A r \in Requests : req[r].pc \in {"idle", "read", "ok", "error"}

Idle == [pc |-> "idle", ask |-> NoRow, read |-> NoRow, fresh |-> FALSE]

Init == row = NoRow /\ req = [r \in Requests |-> Idle] /\ last = Defaults

---------------------------------------------------------------------------
\* get_or_create: the row, or an insert of the defaults in this session.
get_or_create(r, ask) ==
  /\ req[r].pc = "idle"
  /\ req' = [req EXCEPT ![r] =
       [pc |-> "read", ask |-> ask, read |-> IF row = NoRow THEN Defaults ELSE row,
        fresh |-> row = NoRow]]
  /\ UNCHANGED <<row, last>>

\* The attributes whose assignment is a change.
Changed(q) == {f \in DOMAIN q.ask : q.ask[f] # q.read[f]}

\* Mutant of Written: the row is written back as it was read.
WrittenWhole(q) == [f \in Fields |-> IF f \in DOMAIN q.ask THEN q.ask[f] ELSE q.read[f]]

\* The row after the session's INSERT or UPDATE.
Written(q) ==
  [f \in Fields |-> IF f \in Changed(q) THEN q.ask[f] ELSE IF q.fresh THEN q.read[f] ELSE row[f]]

Commit(r) ==
  /\ req[r].pc = "read" /\ ~(req[r].fresh /\ row # NoRow)
  /\ row' = Written(req[r])
  /\ last' = [f \in Fields |-> IF f \in DOMAIN req[r].ask THEN req[r].ask[f] ELSE last[f]]
  /\ req' = [req EXCEPT ![r].pc = "ok"]

\* Another session has inserted the row first: the flush violates the key.
SingletonTaken(r) ==
  /\ req[r].pc = "read" /\ req[r].fresh /\ row # NoRow
  /\ req' = [req EXCEPT ![r].pc = "error"]
  /\ UNCHANGED <<row, last>>

Next ==
  \E r \in Requests : (\E ask \in Updates : get_or_create(r, ask)) \/ Commit(r) \/ SingletonTaken(r)

Spec == Init /\ [][Next]_vars

---------------------------------------------------------------------------
(* No lost update between requests for different settings: a commit leaves *)
(* alone every setting its request did not name, even when other requests  *)
(* have committed since it read the row.                                   *)
OthersKept ==
  [][\A r \in Requests : req[r].pc = "read" /\ req'[r].pc = "ok" /\ row # NoRow =>
       \A f \in Fields \ DOMAIN req[r].ask : row'[f] = row[f]]_vars

(* A runtime mode is applied as a whole: when the last request to commit   *)
(* was a mode's, the toggles are that mode's.                              *)
ModeAtomic ==
  \A m \in Modes : (row # NoRow /\ last = ModeUpdate(m)) => row = ModeUpdate(m)

(* The mode the settings name is the mode the toggles are in.              *)
ModeMeansToggles ==
  row # NoRow => \A t \in Toggles : row[t] = _RUNTIME_MODE_PRESETS[row["runtime_mode"]][t]
=============================================================================

------------------------------- MODULE Office -------------------------------
(***************************************************************************)
(* What the operator works with: the Mote agent (MoteAgent),               *)
(* notifications, the operational settings, the credentials and the setup  *)
(* checklist.  In the models they share no variable.                       *)
(***************************************************************************)
EXTENDS MoteAgent

CONSTANTS
  Callers, Subjects, Kinds, Thresholds, RateMax, DryRun, MaxFaults, MaxSweeps, MaxPatches,
                                          \* Notifications
  Requests,                               \* OperationalSettings
  Active, ApiKeys, Plain, EnvSecrets      \* Credentials (ApiKeys: its Keys)

VARIABLES part,   \* the component that moves, in the runs that move one at a time
          rows, settings, tx, work, alerts, shown, alarms, spent,
          opsRow, req, last,
          ops, row, keyRow, test, tested, secretKey, hook, health

Notes == INSTANCE Notifications
Ops == INSTANCE OperationalSettings WITH row <- opsRow
Creds == INSTANCE Credentials WITH Keys <- ApiKeys

noteVars == <<rows, settings, tx, work, alerts, shown, alarms, spent>>
opsVars == <<opsRow, req, last>>
credVars == <<ops, row, keyRow, test, tested, secretKey, hook, health>>

---------------------------------------------------------------------------
\* The rows, turns and requests of the component that moves keep their types.
TypesOK ==
  /\ part = "mote" => TypeOK
  /\ part = "events" => Notes!TypeOK
  /\ part = "settings" => Ops!TypeOK
  /\ part = "reach" => Creds!TypeOK

\* A caller that committed its work after a keyed event finds exactly one committed
\* notification with that key: create_notification's dedup guard loses no event, and
\* no race of callers stores it twice.
NotifiedOnce == Notes!EventNotified /\ Notes!KeyOnce

\* A caller loses the work it did before it emitted only to a race on the dedup key
\* (the IntegrityError handler of create_notification), never to a failing provider.
WorkLostToRaceOnly == Notes!WorkLostToRaceOnly

\* update_operational_settings leaves alone every setting its request did not name,
\* even when others have committed since it read the row.
OthersKept == Ops!OthersKept

\* What the operator is shown of the credentials is true: the answers of GET
\* /setup/readiness agree with each other, the tick of a channel comes from a test
\* that had something to connect with (test_smtp, test_telegram), and the key source
\* of get_api_key_status is the one get_effective_key uses, after a change of
\* SECRET_KEY too.
ShownIsTrue == Creds!ReadinessAgrees /\ Creds!TickWasTested /\ Creds!KeyStatusTrue
=============================================================================

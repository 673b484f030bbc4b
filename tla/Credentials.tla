---------------------------- MODULE Credentials ----------------------------
(***************************************************************************)
(* Credentials of the four channels and the two integration keys: how they *)
(* are stored, encrypted, tested and shown in the setup checklist, and the *)
(* registration of the Telegram webhook.  A connection test reads the      *)
(* configuration, talks to the server and records its outcome later; other *)
(* requests may commit in between.  The SECRET_KEY the secrets are         *)
(* encrypted with may be replaced once.                                    *)
(***************************************************************************)
EXTENDS Naturals, Sequences, SequencesExt, FiniteSets

CONSTANTS Active,       \* the channels requests are about in this instance
          Keys,         \* the integration keys requests are about
          Plain,        \* values of secrets, small numbers
          EnvSecrets    \* channels and keys with a fallback value in .env

Channels == {"smtp", "imap", "whatsapp", "telegram"}


\* A secret column: empty, a plain value, or a value followed by the keys it
\* is encrypted with, the outermost last.
None == <<>>
EnvValue == <<3>>
SecretKeys == {11, 12}
WebhookValue == <<4>>

VARIABLES ops,       \* which of brand and From address are filled in
          row,       \* per channel: address part, secret and last test
          keyRow,    \* the stored integration keys
          test,      \* the connection test in flight: <<>> or its channel and
                     \* the configuration it read
          tested,    \* history: the configuration the recorded test used
          secretKey, \* the SECRET_KEY in force
          hook,      \* the webhook: stored secret, secret given to Telegram,
                     \* last answer to the operator
          health     \* the worst status get_system_health reports

vars == <<ops, row, keyRow, test, tested, secretKey, hook, health>>

is_encrypted(s) == Len(s) > 1

encrypt_if_needed(s) ==
  IF s = None \/ is_encrypted(s) THEN s ELSE Append(s, secretKey)

\* Both derivations of decrypt_safe come from the same SECRET_KEY.
decrypt_safe(s) ==
  IF ~is_encrypted(s) THEN s ELSE IF Last(s) = secretKey THEN Front(s) ELSE None

Or(s, fallback) == IF s = None THEN fallback ELSE s
Env(c) == IF c \in EnvSecrets THEN EnvValue ELSE None

\* get_effective_smtp and get_effective_imap; the other channels have no .env.
Effective(c) ==
  IF c \in {"smtp", "imap"}
  THEN [addr |-> row[c].addr \/ c \in EnvSecrets, secret |-> Or(decrypt_safe(row[c].secret), Env(c))]
  ELSE [addr |-> row[c].addr, secret |-> decrypt_safe(row[c].secret)]

Statuses == {"incomplete", "warning", "complete"}
NoTest == <<>>

TypeOK ==
  /\ ops \subseteq {"brand", "from"}
  /\ \A c \in Channels :
       /\ row[c].addr \in BOOLEAN /\ row[c].ok \in {"none", "true", "false"}
       /\ row[c].secret = None \/ Head(row[c].secret) \in Plain
  /\ \A k \in Keys : keyRow[k] = None \/ Head(keyRow[k]) \in Plain
  /\ secretKey \in SecretKeys
  /\ health \in {"ok", "degraded", "error"}

\* A deployment from before encryption has its Telegram token in plain text.
Init ==
  /\ ops = {} /\ test = NoTest /\ secretKey = 11 /\ health = "ok"
  /\ \E token \in {None, <<1>>} :
       row = [c \in Channels |->
                [addr |-> FALSE, ok |-> "none",
                 secret |-> IF c = "telegram" /\ c \in Active THEN token ELSE None]]
  /\ keyRow = [k \in Keys |-> None]
  /\ tested = [c \in Channels |-> NoTest]
  /\ hook = [stored |-> None, telegram |-> None, answer |-> "none"]

---------------------------------------------------------------------------
\* PATCH of the operational settings, as far as the checklist reads them.
PatchOps ==
  /\ \E o \in SUBSET {"brand", "from"} : ops' = o /\ o # ops
  /\ UNCHANGED <<row, keyRow, test, tested, secretKey, hook, health>>

\* update_credentials of the mail, WhatsApp and Telegram services.  Only the
\* mail schema lets a field be cleared.
update_credentials(c) ==
  /\ \/ \E a \in (IF c \in {"smtp", "imap"} THEN BOOLEAN ELSE {TRUE}) : row' = [row EXCEPT ![c].addr = a]
     \/ \E v \in {<<p>> : p \in Plain} \cup (IF c \in {"smtp", "imap"} THEN {None} ELSE {}) :
          row' = [row EXCEPT ![c].secret = encrypt_if_needed(v)]
  /\ UNCHANGED <<ops, keyRow, test, tested, secretKey, hook, health>>

\* The first half of a test: the configuration is read and the server called.
\* Bound: one test is in flight at a time.
TestBegin(c) ==
  /\ test = NoTest /\ test' = <<c, Effective(c)>>
  /\ UNCHANGED <<ops, row, keyRow, tested, secretKey, hook, health>>

\* What a test must have before it can come out well: test_smtp logs in only
\* with a user and a password, test_telegram needs no chat.
Testable(c, cfg) ==
  CASE c = "smtp" -> cfg.addr
    [] c \in {"imap", "whatsapp"} -> cfg.addr /\ cfg.secret # None
    [] c = "telegram" -> cfg.secret # None

\* Mutant of TestEnd: a test that could not be run counts as passed.
TestEndLenient ==
  /\ test # NoTest
  /\ \E ok \in {"true", "false"} : row' = [row EXCEPT ![test[1]].ok = ok]
  /\ tested' = [tested EXCEPT ![test[1]] = <<test[2]>>]
  /\ test' = NoTest
  /\ UNCHANGED <<ops, keyRow, secretKey, hook, health>>

\* The second half: the outcome is written to the row and committed.
TestEnd ==
  /\ test # NoTest
  /\ \E ok \in {"true", "false"} :
       /\ ok = "true" => Testable(test[1], test[2])
       /\ row' = [row EXCEPT ![test[1]].ok = ok]
  /\ tested' = [tested EXCEPT ![test[1]] = <<test[2]>>]
  /\ test' = NoTest
  /\ UNCHANGED <<ops, keyRow, secretKey, hook, health>>

\* set_google_maps_api_key and set_kapso_api_key, after their validation.
set_api_key(k) ==
  /\ \E p \in Plain : keyRow' = [keyRow EXCEPT ![k] = encrypt_if_needed(<<p>>)]
  /\ UNCHANGED <<ops, row, test, tested, secretKey, hook, health>>

clear_google_maps_api_key ==
  /\ "google" \in Keys /\ keyRow["google"] # None
  /\ keyRow' = [keyRow EXCEPT !["google"] = None]
  /\ UNCHANGED <<ops, row, test, tested, secretKey, hook, health>>

\* The bot token and the secret go to Telegram as they are stored; Telegram
\* knows tokens only in plain text.  The answer may also be lost.
register_telegram_webhook ==
  /\ "telegram" \in Active
  /\ LET token == row["telegram"].secret
         secret == Or(hook.stored, WebhookValue)
     IN  /\ token # None
         /\ \/ /\ ~is_encrypted(token)
               /\ hook' = [stored |-> encrypt_if_needed(secret), telegram |-> secret, answer |-> "ok"]
            \/ /\ is_encrypted(token)
               /\ hook' = [hook EXCEPT !.answer = "rejected"]
            \/ /\ hook' = [hook EXCEPT !.answer = "unreachable",
                                       !.telegram = IF is_encrypted(token) THEN @ ELSE secret]
            \/ hook' = [hook EXCEPT !.answer = "unreachable"]
  /\ UNCHANGED <<ops, row, keyRow, test, tested, secretKey, health>>

\* The operator replaces SECRET_KEY, or loses the .env that had it.
ReplaceSecretKey ==
  /\ secretKey = 11 /\ secretKey' = 12
  /\ UNCHANGED <<ops, row, keyRow, test, tested, hook, health>>

HealthChanges ==
  /\ \E h \in {"ok", "degraded", "error"} : h # health /\ health' = h
  /\ UNCHANGED <<ops, row, keyRow, test, tested, secretKey, hook>>

Next ==
  \/ PatchOps
  \/ \E c \in Active : update_credentials(c) \/ TestBegin(c)
  \/ TestEnd
  \/ \E k \in Keys : set_api_key(k)
  \/ clear_google_maps_api_key
  \/ register_telegram_webhook
  \/ ReplaceSecretKey
  \/ HealthChanges

Spec == Init /\ [][Next]_vars

---------------------------------------------------------------------------
\* get_setup_status.
Tested(c) == IF row[c].ok = "true" THEN "complete" ELSE "warning"

brandStep == IF "brand" \in ops THEN "complete" ELSE "incomplete"
whatsappStep ==
  IF row["whatsapp"].addr /\ row["whatsapp"].secret # None THEN Tested("whatsapp") ELSE "incomplete"
mailOutStep ==
  IF Effective("smtp").addr /\ Effective("smtp").secret # None /\ "from" \in ops
  THEN Tested("smtp") ELSE "incomplete"
mailInStep ==
  IF Effective("imap").addr /\ Effective("imap").secret # None THEN Tested("imap") ELSE "incomplete"
telegramStep ==
  IF row["telegram"].addr /\ row["telegram"].secret # None THEN Tested("telegram") ELSE "incomplete"

step ==
  [brand |-> brandStep, whatsapp |-> whatsappStep, mail_out |-> mailOutStep,
   mail_in |-> mailInStep, telegram |-> telegramStep, rules |-> "complete"]

ready_to_send ==
  /\ Effective("smtp").addr /\ Effective("smtp").secret # None /\ "from" \in ops
  /\ row["smtp"].ok = "true"
has_outreach_channel == step.whatsapp # "incomplete" \/ step.mail_out # "incomplete"

\* _config_steps: which steps are optional and which the wizard asks for.
optional_steps ==
  {"mail_in", "telegram"}
    \cup (IF step.whatsapp # "incomplete" THEN {"mail_out"} ELSE {})
    \cup (IF step.mail_out # "incomplete" THEN {"whatsapp"} ELSE {})

wizard_steps ==
  LET asked == {s \in DOMAIN step \ optional_steps : step[s] # "complete"}
      shown == asked \cup (IF "mail_out" \in asked THEN {"credentials"} ELSE {})
  IN  IF ~has_outreach_channel /\ shown \cap {"whatsapp", "credentials"} = {}
      THEN shown \cup {"whatsapp"} ELSE shown

\* get_setup_readiness on the supported platform.
runtime_ready == health # "error"
dashboard_unlocked ==
  runtime_ready /\ step.brand # "incomplete" /\ has_outreach_channel
overall ==
  CASE ~runtime_ready -> "setup_required"
    [] runtime_ready /\ step.brand = "incomplete" -> "config_required"
    [] runtime_ready /\ step.brand # "incomplete" /\ ~has_outreach_channel -> "config_required"
    [] OTHER -> "ready"

get_effective_key(k) == Or(IF keyRow[k] # None THEN decrypt_safe(keyRow[k]) ELSE None, Env(k))

get_api_key_status(k) ==
  CASE keyRow[k] # None /\ decrypt_safe(keyRow[k]) # None -> "db"
    [] (keyRow[k] = None \/ decrypt_safe(keyRow[k]) = None) /\ Env(k) # None -> "env"
    [] OTHER -> "none"

---------------------------------------------------------------------------
(* The three answers of GET /setup/readiness agree: "ready" exactly when   *)
(* the dashboard is unlocked, and a dashboard locked for configuration     *)
(* alone comes with a wizard step to take (setup_service.py).              *)
ReadinessAgrees ==
  /\ (overall = "ready") <=> dashboard_unlocked
  /\ runtime_ready /\ ~dashboard_unlocked => wizard_steps # {}

(* A recorded good test was a test the configuration allowed: the tick of  *)
(* a channel is never set by a test that had nothing to connect with.      *)
TickWasTested ==
  \A c \in Channels : row[c].ok = "true" => tested[c] # NoTest /\ Testable(c, tested[c][1])

(* The key status the settings page shows and the key the crawler and the  *)
(* WhatsApp client use are of one source, after a change of SECRET_KEY too *)
(* (deploy_config_service.py computes them separately).                    *)
KeyStatusTrue ==
  \A k \in DOMAIN keyRow :
    /\ (get_api_key_status(k) = "none") <=> (get_effective_key(k) = None)
    /\ get_api_key_status(k) = "env" => get_effective_key(k) = Env(k)

(* A channel the checklist shows complete was tested as it is now.         *)
ReadyMeansTested ==
  ready_to_send => tested["smtp"] # NoTest /\ tested["smtp"][1] = Effective("smtp")

(* A credential that cannot be decrypted is not shown as configured.       *)
UnavailableSurfaced ==
  whatsappStep # "incomplete" => decrypt_safe(row["whatsapp"].secret) # None

(* A registration that Telegram refuses was made without a usable token.   *)
RegistrationWorks == hook.answer = "rejected" => decrypt_safe(row["telegram"].secret) = None

(* After a registration the secret Telegram sends is the one the webhook   *)
(* compares with.                                                          *)
WebhookUsable == hook.answer = "ok" => hook.telegram = hook.stored
=============================================================================

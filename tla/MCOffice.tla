------------------------------ MODULE MCOffice ------------------------------
(***************************************************************************)
(* Small instances of Office.  One component moves (`part') while the      *)
(* others rest in an initial state.                                        *)
(***************************************************************************)
EXTENDS Office, TLC

\* The configuration has the agent's turn beside another one, one call in a response.
\* Here is one turn of several calls, with an unknown tool and a mail among them.
Long == INSTANCE MoteAgent
          WITH Turns <- {"t"},
               Callable <- {"mark_notification_read", "classify_inbound_message", "send_draft",
                            "no_such_tool"},
               MaxLoops <- 2, MaxCalls <- 2

\* The configuration has two callers of few kinds.  Here is one caller of every kind of
\* event beside the janitor and a status request.
Alert == INSTANCE Notifications
           WITH Callers <- {"c1"},
                Kinds <- {"reply", "score", "brief", "send", "sync", "research", "territory",
                          "security", "failures"},
                Thresholds <- {"high"}, RateMax <- 2, MaxSweeps <- 1, MaxPatches <- 1

\* The configuration has the channels a lead is reached through.  Here are the bot and
\* the integration keys.
Bot == INSTANCE Credentials WITH Active <- {"telegram"}, Keys <- ApiKeys, Plain <- {1, 2}
Integration == INSTANCE Credentials
                 WITH Active <- {}, Keys <- {"google", "kapso"}, Plain <- {1, 2}

mcVars == <<part, vars, noteVars, opsVars, credVars>>

\* Turns are interchangeable.
Symmetry == Permutations(Turns)

MCInit ==
  /\ part \in {"events", "channels", "mote", "long", "settings", "reach", "bot", "keys"}
  /\ IF part = "long" THEN Long!Init ELSE Init
  /\ IF part = "channels" THEN Alert!Init ELSE Notes!Init
  /\ part \in {"events", "channels"} \/ ~settings.enabled
  /\ Ops!Init
  /\ CASE part = "bot" -> Bot!Init [] part = "keys" -> Integration!Init [] OTHER -> Creds!Init

MCNext ==
  /\ UNCHANGED part
  /\ \/ part = "mote" /\ Next /\ UNCHANGED <<noteVars, opsVars, credVars>>
     \/ part = "long" /\ Long!Next /\ UNCHANGED <<noteVars, opsVars, credVars>>
     \/ part = "events" /\ Notes!Next /\ UNCHANGED <<vars, opsVars, credVars>>
     \/ part = "channels" /\ Alert!Next /\ UNCHANGED <<vars, opsVars, credVars>>
     \/ part = "settings" /\ Ops!Next /\ UNCHANGED <<vars, noteVars, credVars>>
     \/ part = "reach" /\ Creds!Next /\ UNCHANGED <<vars, noteVars, opsVars>>
     \/ part = "bot" /\ Bot!Next /\ UNCHANGED <<vars, noteVars, opsVars>>
     \/ part = "keys" /\ Integration!Next /\ UNCHANGED <<vars, noteVars, opsVars>>

MCSpec == MCInit /\ [][MCNext]_mcVars
=============================================================================

----------------------------- MODULE AgentTools -----------------------------
(***************************************************************************)
(* The tool registry of the Mote agent: for every tool under agent/tools/, *)
(* whether it asks for confirmation and what its handler does to the       *)
(* session it is given:                                                    *)
(*   "read"      nothing                                                   *)
(*   "flush"     rows are written and flushed; the caller commits          *)
(*   "alerts"    as "flush", and create_notification may send the operator *)
(*               a WhatsApp, Telegram or Slack message before the commit   *)
(*   "leaves"    something else that no rollback undoes: a Celery message, *)
(*               an e-mail, a message to a lead, or a commit of its own    *)
(***************************************************************************)
EXTENDS Naturals, FiniteSets

Tool(name, confirm, effect) == [name |-> name, confirm |-> confirm, effect |-> effect]
Reads(names) == {Tool(n, FALSE, "read") : n \in names}

lead_tools == Reads({"search_leads", "get_lead_detail", "count_leads_by_status"})
lead_journey_tools == Reads({"get_lead_journey"})
lead_write_tools ==
  {Tool("create_lead", TRUE, "flush"), Tool("update_lead_status", TRUE, "flush")}

draft_tools ==
  Reads({"list_drafts"}) \cup
  {Tool(n, TRUE, "flush") : n \in {"generate_draft", "approve_draft", "reject_draft"}}
send_tools ==
  {Tool("send_draft", TRUE, "leaves"), Tool("update_draft_content", FALSE, "flush")}
whatsapp_tools ==
  Reads({"list_outreach_logs"}) \cup
  {Tool("generate_whatsapp_draft", TRUE, "leaves"), Tool("send_whatsapp_draft", TRUE, "leaves")}

crawl_tools ==
  Reads({"get_crawl_status"}) \cup {Tool("start_territory_crawl", TRUE, "leaves")}

mail_tools ==
  Reads({"list_inbound_messages"}) \cup
  {Tool("sync_inbound_mail", TRUE, "leaves"), Tool("classify_inbound_message", FALSE, "alerts")}
notification_tools ==
  Reads({"list_notifications", "get_notification_counts"}) \cup
  {Tool("mark_notification_read", FALSE, "flush")}
pipeline_tools ==
  Reads({"get_pipeline_status"}) \cup
  {Tool("run_full_pipeline", TRUE, "leaves"), Tool("run_batch_pipeline", TRUE, "leaves")}
reply_tools ==
  {Tool("generate_reply_draft", TRUE, "flush"), Tool("send_reply_draft", TRUE, "leaves")}
research_tools ==
  Reads({"get_lead_dossier", "get_commercial_brief", "export_leads"}) \cup
  {Tool("run_lead_research", TRUE, "flush"), Tool("generate_commercial_brief", TRUE, "alerts")}
research_thread_tools ==
  Reads({"get_investigation_thread"}) \cup {Tool("trigger_scout_investigation", TRUE, "leaves")}
review_tools == {Tool("review_lead", FALSE, "flush"), Tool("review_draft", FALSE, "flush")}
settings_tools == Reads({"get_operational_settings"}) \cup {Tool("update_setting", TRUE, "flush")}
suppression_tools ==
  Reads({"list_suppression"}) \cup
  {Tool("add_to_suppression", TRUE, "flush"), Tool("remove_from_suppression", TRUE, "flush")}
territory_tools ==
  Reads({"list_territories"}) \cup
  {Tool(n, TRUE, "flush") : n \in {"create_territory", "update_territory", "delete_territory"}}
leader_tools ==
  Reads({"get_system_overview", "list_top_leads", "get_reply_summary", "list_recent_activity"})
stats_tools ==
  Reads({"get_dashboard_stats", "get_pipeline_breakdown", "get_industry_breakdown",
         "get_city_breakdown", "get_source_performance", "get_time_series"})
system_tools == Reads({"health_check", "get_current_time"})

\* registry.list_all()
registry ==
  lead_tools \cup lead_journey_tools \cup lead_write_tools \cup draft_tools \cup send_tools \cup whatsapp_tools \cup
  crawl_tools \cup mail_tools \cup notification_tools \cup pipeline_tools \cup reply_tools \cup
  research_tools \cup research_thread_tools \cup review_tools \cup settings_tools \cup suppression_tools \cup
  territory_tools \cup leader_tools \cup stats_tools \cup system_tools

\* registry.get(name) as a set: empty for a name that is not registered.
get(name) == {t \in registry : t.name = name}
=============================================================================

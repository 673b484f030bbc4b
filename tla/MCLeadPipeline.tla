--------------------------- MODULE MCLeadPipeline ---------------------------
(***************************************************************************)
(* Instances of LeadPipeline.  The low lane (enrichment, scoring, analysis, *)
(* draft) and the high lane (research, brief, review in between) are        *)
(* checked apart: Qualities says which the analysis may choose.             *)
(***************************************************************************)
EXTENDS LeadPipeline

LowLane == {FALSE}
HighLane == {TRUE}
=============================================================================

------------------------------- MODULE Policy -------------------------------
(***************************************************************************)
(* The deterministic security layer: the permission registry, the argument *)
(* check against the discovered schema and the policy decision.            *)
(*                                                                         *)
(* The arguments of a call are what those rules look at: whether the model *)
(* wrote valid JSON, whether they fit the schema the tool has, and how     *)
(* many addresses the "to" and "cc" of an email hold.                      *)
(***************************************************************************)
EXTENDS Integers

PermissionLevel == {"read", "write", "high_risk"}
UserRole == {"viewer", "operator", "admin"}
PolicyOutcome == {"allow", "require_approval", "deny"}

ReadTools ==
  {"crm__get_leads", "crm__get_lead", "crm__search_leads", "tasks__get_tasks",
   "tasks__get_overdue_tasks", "spreadsheets__get_sales_summary",
   "spreadsheets__generate_weekly_report", "calendar__get_todays_meetings",
   "calendar__get_events", "email__draft_email"}
WriteTools ==
  {"crm__create_lead", "crm__update_lead_status", "tasks__create_task",
   "tasks__complete_task", "spreadsheets__add_sales_record"}
HighRiskTools == {"calendar__create_event", "email__send_email"}
Registered == ReadTools \cup WriteTools \cup HighRiskTools

(* Mutant: a tool nobody classified is taken for a harmless one.           *)
ClassifyOpen(t) ==
  IF t \in HighRiskTools THEN "high_risk"
  ELSE IF t \in WriteTools THEN "write"
  ELSE "read"

(* A tool that is not registered is HIGH_RISK.                             *)
Classify(t) ==
  IF t \in ReadTools THEN "read"
  ELSE IF t \in WriteTools THEN "write"
  ELSE "high_risk"

(* validate_arguments: a schema without properties accepts any argument,   *)
(* also the key that stands for unparseable JSON.                          *)
Accepts(schema, x) == schema = "open" \/ (x.fits /\ ~ x.malformed)

MaxRecipients == 50

(* Mutant: copies are not counted.                                         *)
RecipientsWithoutCopies(x) == x.to

Recipients(x) == x.to + x.cc

Denied(t, x, role) ==
  \/ x.malformed
  \/ role = "viewer" /\ Classify(t) # "read"
  \/ t = "email__send_email" /\ Recipients(x) > MaxRecipients

Gated(t, gateWrites) ==
  \/ Classify(t) = "high_risk"
  \/ Classify(t) = "write" /\ gateWrites

(* The first rule that applies decides: a denial is never downgraded.      *)
Evaluate(t, x, role, gateWrites) ==
  CASE Denied(t, x, role) -> "deny"
    [] ~ Denied(t, x, role) /\ Gated(t, gateWrites) -> "require_approval"
    [] OTHER -> "allow"
==============================================================================

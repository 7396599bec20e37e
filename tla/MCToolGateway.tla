---------------------------- MODULE MCToolGateway ----------------------------
EXTENDS ToolGateway

CONSTANTS c1, owner, other

(* One tool of every class, and one that is in no registry.                *)
MCTools == {"crm__get_leads", "crm__create_lead", "email__send_email", "wiki__purge"}

(* The unregistered server publishes no properties for its tool.           *)
MCSchema == [t \in MCTools |-> IF t = "wiki__purge" THEN "open" ELSE "strict"]

(* At the recipient limit, over it only with the copies, and bad payloads. *)
MCArguments ==
  {[malformed |-> FALSE, fits |-> TRUE, to |-> 50, cc |-> 0],
   [malformed |-> FALSE, fits |-> TRUE, to |-> 50, cc |-> 1],
   [malformed |-> FALSE, fits |-> FALSE, to |-> 0, cc |-> 0],
   [malformed |-> TRUE, fits |-> FALSE, to |-> 0, cc |-> 0]}
==============================================================================

----------------------------- MODULE ToolGateway -----------------------------
(***************************************************************************)
(* ToolExecutionService.execute, the one path between the agent and a tool *)
(* server, for calls that live through a changing deployment: tools come   *)
(* and go, roles change, and a restart may change the settings while a     *)
(* call waits for its approval.                                            *)
(*                                                                         *)
(* A decision of the policy is taken within one step of the event loop;    *)
(* between it and the dispatch lie awaits on the database.  What happens   *)
(* to the approval row itself is the subject of module Approvals.          *)
(***************************************************************************)
EXTENDS Policy

CONSTANTS
  Calls,      \* calls a model proposes
  Users,      \* authenticated callers
  Tools,      \* tools that servers may offer or a model may name
  Schema,     \* [Tools -> {"open", "strict"}]: inputs the schema lets through
  Arguments   \* argument payloads considered

ASSUME SchemaAssumption == Schema \in [Tools -> {"open", "strict"}]
ASSUME ArgumentsAssumption ==
  Arguments \subseteq [malformed : BOOLEAN, fits : BOOLEAN, to : Nat, cc : Nat]

VARIABLES
  gateWrites, \* require_approval_for_writes, read once per process
  catalog,    \* the tools of the catalog snapshot
  role,       \* users.role
  asked,      \* who proposes what: the run's user, the tool, the arguments
  stage,      \* where a call stands
  actor,      \* role of the caller of the request that handles it, as loaded
  granted,    \* a grant was minted for it
  checked,    \* verify_grant accepted it
  row         \* its approval row

vars == <<gateWrites, catalog, role, asked, stage, actor, granted, checked, row>>

Stages == {"proposed", "loaded", "waiting", "confirmed", "starting", "sent",
           "refused", "unavailable", "done", "lost"}
InFlight == {"loaded", "confirmed", "starting", "sent"}

Init ==
  /\ gateWrites \in BOOLEAN
  /\ catalog \in SUBSET Tools
  /\ role \in [Users -> UserRole]
  /\ asked \in [Calls -> [user : Users, tool : Tools, args : Arguments]]
  /\ stage = [c \in Calls |-> "proposed"]
  /\ actor = [c \in Calls |-> "viewer"]
  /\ granted = [c \in Calls |-> FALSE] /\ checked = [c \in Calls |-> FALSE]
  /\ row = [c \in Calls |-> "none"]

Goto(c, from, to) == stage[c] \in from /\ stage' = [stage EXCEPT ![c] = to]

Verdict(c) == Evaluate(asked[c].tool, asked[c].args, actor[c], gateWrites)

-----------------------------------------------------------------------------
(* POST /chat: the caller is loaded once, the run goes on with that role.  *)
Authenticate(c) ==
  /\ Goto(c, {"proposed"}, "loaded")
  /\ actor' = [actor EXCEPT ![c] = role[asked[c].user]]
  /\ UNCHANGED <<gateWrites, catalog, role, asked, granted, checked, row>>

Usable(c) ==
  /\ asked[c].tool \in catalog
  /\ Accepts(Schema[asked[c].tool], asked[c].args)

(* Unknown tool, arguments the schema rejects, or a denial by the policy.  *)
Refuse(c) ==
  /\ ~ Usable(c) \/ Verdict(c) = "deny"
  /\ Goto(c, {"loaded", "confirmed"}, "refused")
  /\ UNCHANGED <<gateWrites, catalog, role, asked, actor, granted, checked, row>>

RequestApproval(c) ==
  /\ Usable(c) /\ Verdict(c) = "require_approval"
  /\ Goto(c, {"loaded"}, "waiting")
  /\ row' = [row EXCEPT ![c] = "pending"]
  /\ UNCHANGED <<gateWrites, catalog, role, asked, actor, granted, checked>>

(* POST /approvals/{id}/confirm wins the claim.  The call goes on in that  *)
(* request, with the role its caller had when it was loaded.               *)
Confirm(c, u) ==
  /\ row[c] = "pending"
  /\ role[u] # "viewer" /\ (role[u] = "admin" \/ asked[c].user = u)
  /\ Goto(c, {"waiting"}, "confirmed")
  /\ actor' = [actor EXCEPT ![c] = role[u]]
  /\ granted' = [granted EXCEPT ![c] = TRUE]
  /\ row' = [row EXCEPT ![c] = "approved"]
  /\ UNCHANGED <<gateWrites, catalog, role, asked, checked>>

(* The policy asks for approval again and the grant is proved against the  *)
(* row; an expired or altered row ends the request.                        *)
VerifyGrant(c) ==
  /\ Usable(c) /\ Verdict(c) = "require_approval"
  /\ \/ /\ Goto(c, {"confirmed"}, "starting")
        /\ checked' = [checked EXCEPT ![c] = TRUE]
        /\ UNCHANGED row
     \/ /\ Goto(c, {"confirmed"}, "refused")
        /\ \E s \in {"expired", "failed"} : row' = [row EXCEPT ![c] = s]
        /\ UNCHANGED checked
  /\ UNCHANGED <<gateWrites, catalog, role, asked, actor, granted>>

Allow(c) ==
  /\ Usable(c) /\ Verdict(c) = "allow"
  /\ Goto(c, {"loaded", "confirmed"}, "starting")
  /\ UNCHANGED <<gateWrites, catalog, role, asked, actor, granted, checked, row>>

(* Mutant: only an answer of the tool settles the row.                     *)
SettleAnswered(c, s) ==
  row' = IF checked[c] /\ stage[c] = "sent" THEN [row EXCEPT ![c] = s] ELSE row

(* Only a verified grant hands its row to _run.                            *)
Settle(c, s) == row' = IF checked[c] THEN [row EXCEPT ![c] = s] ELSE row

(* call_tool looks the tool up again: the catalog may have changed.        *)
Dispatch(c) ==
  /\ asked[c].tool \in catalog
  /\ Goto(c, {"starting"}, "sent")
  /\ UNCHANGED <<gateWrites, catalog, role, asked, actor, granted, checked, row>>

(* Not in the catalog any more, or its server is not connected.            *)
DispatchFails(c) ==
  /\ Goto(c, {"starting"}, "unavailable")
  /\ Settle(c, "failed")
  /\ UNCHANGED <<gateWrites, catalog, role, asked, actor, granted, checked>>

(* The tool's answer, an error or a timeout.                               *)
Finish(c) ==
  /\ Goto(c, {"sent"}, "done")
  /\ Settle(c, "executed") \/ Settle(c, "failed")
  /\ UNCHANGED <<gateWrites, catalog, role, asked, actor, granted, checked>>

(* A statement or an audit entry fails, and the request with it.           *)
Abandon(c) ==
  /\ Goto(c, InFlight, "lost")
  /\ UNCHANGED <<gateWrites, catalog, role, asked, actor, granted, checked, row>>

-----------------------------------------------------------------------------
(* Somebody rejects it, or a sweep finds the deadline passed.              *)
TurnDown(c) ==
  /\ row[c] = "pending"
  /\ \E s \in {"rejected", "expired"} : row' = [row EXCEPT ![c] = s]
  /\ UNCHANGED <<gateWrites, catalog, role, asked, stage, actor, granted, checked>>

(* _expire and _fail_integrity of a request with a copy from earlier on    *)
(* write the row by its primary key, whatever it has become.               *)
Condemn(c) ==
  /\ row[c] # "none"
  /\ \E s \in {"expired", "failed"} : row' = [row EXCEPT ![c] = s]
  /\ UNCHANGED <<gateWrites, catalog, role, asked, stage, actor, granted, checked>>

(* A refresh of the catalog, by a request of its own.                      *)
Rediscover ==
  /\ catalog' \in SUBSET Tools
  /\ UNCHANGED <<gateWrites, role, asked, stage, actor, granted, checked, row>>

(* The process is replaced by one with other settings.                     *)
Redeploy ==
  /\ gateWrites' \in BOOLEAN
  /\ catalog' \in SUBSET Tools
  /\ stage' = [c \in Calls |-> IF stage[c] \in InFlight THEN "lost" ELSE stage[c]]
  /\ UNCHANGED <<role, asked, actor, granted, checked, row>>

(* An administrator edits users.role.                                      *)
ChangeRole(u, r) ==
  /\ role' = [role EXCEPT ![u] = r]
  /\ UNCHANGED <<gateWrites, catalog, asked, stage, actor, granted, checked, row>>

Execute(c) ==
  \/ Refuse(c) \/ RequestApproval(c) \/ VerifyGrant(c) \/ Allow(c)
  \/ Dispatch(c) \/ DispatchFails(c) \/ Finish(c) \/ Abandon(c)

Next ==
  \/ \E c \in Calls : Authenticate(c) \/ Execute(c) \/ TurnDown(c) \/ Condemn(c)
  \/ \E c \in Calls, u \in Users : Confirm(c, u)
  \/ Rediscover \/ Redeploy
  \/ \E u \in Users, r \in UserRole : ChangeRole(u, r)

Spec == Init /\ [][Next]_vars
-----------------------------------------------------------------------------
(* Types of the deployment and of the calls.                               *)
TypeOK ==
  /\ gateWrites \in BOOLEAN /\ catalog \subseteq Tools
  /\ role \in [Users -> UserRole]
  /\ asked \in [Calls -> [user : Users, tool : Tools, args : Arguments]]
  /\ stage \in [Calls -> Stages]
  /\ actor \in [Calls -> UserRole]
  /\ granted \in [Calls -> BOOLEAN] /\ checked \in [Calls -> BOOLEAN]
  /\ row \in [Calls -> {"none", "pending", "approved", "executed", "failed", "expired",
                     "rejected"}]

Sent(c) == stage[c] = "sent"

(* A tool that is registered as high risk, or that nobody registered, runs *)
(* only after a human confirmed it and the confirmation was verified, also *)
(* across refreshes of the catalog, role changes and redeployments; the    *)
(* same holds for a write tool while writes are gated.                     *)
RiskNeedsHuman ==
  \A c \in Calls : Sent(c) =>
    /\ asked[c].tool \notin ReadTools \cup WriteTools => granted[c] /\ checked[c]
    /\ asked[c].tool \notin ReadTools /\ gateWrites => granted[c] /\ checked[c]

(* No approval unlocks what the policy forbids: an email to more than 50   *)
(* addresses, arguments the model did not write as JSON, or a change asked *)
(* for by a viewer.                                                        *)
ForbiddenNeverRuns ==
  \A c \in Calls : Sent(c) =>
    /\ ~ asked[c].args.malformed
    /\ asked[c].tool = "email__send_email" => asked[c].args.to + asked[c].args.cc <= 50
    /\ actor[c] = "viewer" => asked[c].tool \in ReadTools

(* What a call leaves on its approval row, whatever was refreshed,         *)
(* redeployed or re-assigned while it waited, and whoever else writes the  *)
(* row.  A call that was confirmed and is over has no row that still says  *)
(* approved, except a write that was proposed while writes were gated and  *)
(* ran when they no longer were: it ran unverified, and its row is left    *)
(* alone (execute hands _run no approval then).  Nothing high risk or      *)
(* unregistered ends that way.  A row says executed only if the tool       *)
(* answered a verified call; a call that asked nobody has no row.          *)
Over(c) == stage[c] \in {"done", "unavailable"}
LeftApproved(c) == asked[c].tool \in WriteTools /\ ~ checked[c]

OnRecord(c) ==
  /\ Over(c) /\ granted[c] =>
       row[c] \in {"executed", "failed", "expired"} \/ (row[c] = "approved" /\ LeftApproved(c))
  /\ Over(c) /\ ~ granted[c] => row[c] = "none"
  /\ row[c] = "executed" => stage[c] = "done" /\ checked[c]

RunIsOnRecord == \A c \in Calls : OnRecord(c)

-----------------------------------------------------------------------------
(* The inductive invariant behind them: on the way to a server the policy, *)
(* asked again, would still not forbid the call, and would ask for exactly *)
(* the approval that was verified.                                         *)
ClearedInv ==
  \A c \in Calls : stage[c] \in {"starting", "sent"} =>
    /\ ~ Denied(asked[c].tool, asked[c].args, actor[c])
    /\ Gated(asked[c].tool, gateWrites) => granted[c] /\ checked[c]

GrantInv == \A c \in Calls : stage[c] = "confirmed" => granted[c]

(* Where the row stands at each stage: it is asked for by a call that is   *)
(* no read, claimed by who confirms it, and then approved or condemned.    *)
RowInv(c) ==
  /\ stage[c] \in {"waiting", "confirmed"} => Classify(asked[c].tool) # "read"
  /\ stage[c] \in {"proposed", "loaded"} => row[c] = "none"
  /\ stage[c] \in {"proposed", "loaded", "waiting"} => ~ granted[c]
  /\ stage[c] \in {"proposed", "loaded", "waiting", "confirmed"} => ~ checked[c]
  /\ checked[c] => granted[c]
  /\ stage[c] \in {"confirmed", "starting", "sent"} =>
       row[c] \in IF granted[c] THEN {"approved", "expired", "failed"} ELSE {"none"}
  /\ stage[c] \in {"starting", "sent"} /\ granted[c] /\ ~ checked[c] => LeftApproved(c)
  /\ row[c] = "executed" => Over(c)

IInv == TypeOK /\ ClearedInv /\ GrantInv /\ \A c \in Calls : RowInv(c) /\ OnRecord(c)

==============================================================================

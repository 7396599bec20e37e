-------------------------- MODULE ToolGatewayProofs --------------------------
(***************************************************************************)
(* The guarantees of the gateway for any set of calls, users, tools,       *)
(* schemas and arguments, from one inductive invariant.                    *)
(***************************************************************************)
EXTENDS ToolGateway, TLAPS

(* A verdict other than "deny" means that no rule forbids the call, and    *)
(* "allow" that no approval is asked for (_first_applicable_rule).         *)
LEMMA VerdictMeans ==
  ASSUME NEW c \in Calls
  PROVE  /\ Verdict(c) # "deny" => ~ Denied(asked[c].tool, asked[c].args, actor[c])
         /\ Verdict(c) = "allow" => ~ Gated(asked[c].tool, gateWrites)
<1>1. CASE Denied(asked[c].tool, asked[c].args, actor[c])
  <2>1. Verdict(c) = "deny"
    BY <1>1 DEF Verdict, Evaluate
  <2> QED BY <2>1
<1>2. CASE ~ Denied(asked[c].tool, asked[c].args, actor[c])
  <2>1. CASE Gated(asked[c].tool, gateWrites)
    <3>1. Verdict(c) = "require_approval"
      BY <1>2, <2>1 DEF Verdict, Evaluate
    <3> QED BY <1>2, <3>1
  <2>2. CASE ~ Gated(asked[c].tool, gateWrites)
    BY <1>2, <2>2
  <2> QED BY <2>1, <2>2
<1> QED BY <1>1, <1>2

LEMMA InitIInv == Init => IInv
BY DEF Init, IInv, TypeOK, ClearedInv, GrantInv, RowInv, OnRecord, Over, Stages, UserRole

(* What is known of the policy, apart from the rows.                       *)
Guards == TypeOK /\ ClearedInv /\ GrantInv

(* Every step keeps the invariant: a call is cleared by one evaluation of  *)
(* the policy, and what that evaluation read is only changed by a          *)
(* redeployment, which takes the calls on their way with it.               *)
LEMMA StepGuards == Guards /\ [Next]_vars => Guards'
<1> SUFFICES ASSUME Guards, [Next]_vars
             PROVE  Guards'
  OBVIOUS
<1> USE DEF Guards
<1>1. ASSUME NEW c \in Calls, Authenticate(c)
      PROVE  Guards'
  BY <1>1 DEF Authenticate, Goto, TypeOK, ClearedInv, GrantInv, Stages
<1>2. ASSUME NEW c \in Calls, Refuse(c)
      PROVE  Guards'
  BY <1>2 DEF Refuse, Goto, TypeOK, ClearedInv, GrantInv, Stages
<1>3. ASSUME NEW c \in Calls, RequestApproval(c)
      PROVE  Guards'
  BY <1>3 DEF RequestApproval, Goto, TypeOK, ClearedInv, GrantInv, Stages
<1>4. ASSUME NEW c \in Calls, VerifyGrant(c)
      PROVE  Guards'
  <2>1. ~ Denied(asked[c].tool, asked[c].args, actor[c])
    BY <1>4, VerdictMeans DEF VerifyGrant
  <2>2. stage[c] = "confirmed" /\ granted[c]
    BY <1>4 DEF VerifyGrant, Goto, GrantInv
  <2>3. TypeOK'
    BY <1>4 DEF VerifyGrant, Goto, TypeOK, Stages
  <2>4. ClearedInv'
    BY <1>4, <2>1, <2>2 DEF VerifyGrant, Goto, TypeOK, ClearedInv
  <2>5. GrantInv'
    BY <1>4 DEF VerifyGrant, Goto, TypeOK, GrantInv
  <2> QED BY <2>3, <2>4, <2>5
<1>5. ASSUME NEW c \in Calls, Allow(c)
      PROVE  Guards'
  <2>1. /\ ~ Denied(asked[c].tool, asked[c].args, actor[c])
        /\ ~ Gated(asked[c].tool, gateWrites)
    BY <1>5, VerdictMeans DEF Allow
  <2> QED
    BY <1>5, <2>1 DEF Allow, Goto, TypeOK, ClearedInv, GrantInv, Stages
<1>6. ASSUME NEW c \in Calls, Dispatch(c)
      PROVE  Guards'
  BY <1>6 DEF Dispatch, Goto, TypeOK, ClearedInv, GrantInv, Stages
<1>7. ASSUME NEW c \in Calls, DispatchFails(c)
      PROVE  Guards'
  BY <1>7 DEF DispatchFails, Settle, Goto, TypeOK, ClearedInv, GrantInv, Stages
<1>8. ASSUME NEW c \in Calls, Finish(c)
      PROVE  Guards'
  BY <1>8 DEF Finish, Settle, Goto, TypeOK, ClearedInv, GrantInv, Stages
<1>9. ASSUME NEW c \in Calls, NEW u \in Users, Confirm(c, u)
      PROVE  Guards'
  BY <1>9 DEF Confirm, Goto, TypeOK, ClearedInv, GrantInv, Stages
<1>10. CASE Rediscover
  BY <1>10 DEF Rediscover, TypeOK, ClearedInv, GrantInv
<1>11. CASE Redeploy
  BY <1>11 DEF Redeploy, InFlight, TypeOK, ClearedInv, GrantInv, Stages
<1>12. ASSUME NEW u \in Users, NEW r \in UserRole, ChangeRole(u, r)
       PROVE  Guards'
  BY <1>12 DEF ChangeRole, TypeOK, ClearedInv, GrantInv
<1>13. CASE UNCHANGED vars
  BY <1>13 DEF vars, TypeOK, ClearedInv, GrantInv
<1>14. ASSUME NEW c \in Calls, Abandon(c)
       PROVE  Guards'
  BY <1>14 DEF Abandon, InFlight, Goto, TypeOK, ClearedInv, GrantInv, Stages
<1>15. ASSUME NEW c \in Calls, TurnDown(c) \/ Condemn(c)
       PROVE  Guards'
  BY <1>15 DEF TurnDown, Condemn, TypeOK, ClearedInv, GrantInv
<1> QED
  BY <1>1, <1>2, <1>3, <1>4, <1>5, <1>6, <1>7, <1>8, <1>9, <1>10, <1>11, <1>12, <1>13, <1>14, <1>15
  DEF Next, Execute

(* The step of one call changes the row of that call only.                 *)
OthersKept(c) ==
  \A d \in Calls \ {c} :
    /\ stage'[d] = stage[d] /\ granted'[d] = granted[d]
    /\ checked'[d] = checked[d] /\ row'[d] = row[d]

RowOf(c) == RowInv(c) /\ OnRecord(c)

(* A call that no approval is asked for is a read, or a write while writes *)
(* are not gated; one that is asked for is no read.                        *)
LEMMA GateMeans ==
  ASSUME NEW t, NEW g
  PROVE  /\ ~ Gated(t, g) => t \in ReadTools \cup WriteTools
         /\ Gated(t, g) => Classify(t) # "read"
         /\ Classify(t) # "read" => t \notin ReadTools
BY DEF Gated, Classify

(* Each step of one call keeps what its row says.                          *)
LEMMA RowOfCall ==
  ASSUME Guards, NEW c \in Calls, RowOf(c),
         Authenticate(c) \/ Execute(c) \/ TurnDown(c) \/ Condemn(c)
           \/ \E u \in Users : Confirm(c, u)
  PROVE  RowOf(c)' /\ OthersKept(c) /\ asked' = asked
<1> USE DEF RowOf, RowInv, OnRecord, OthersKept, Goto, Guards, TypeOK, Over, LeftApproved
<1>1. CASE Authenticate(c)
  BY <1>1 DEF Authenticate
<1>2. CASE Refuse(c)
  BY <1>2 DEF Refuse
<1>3. CASE RequestApproval(c)
  <2>1. Classify(asked[c].tool) # "read"
    <3>1. Verdict(c) = "require_approval"
      BY <1>3 DEF RequestApproval
    <3>2. Gated(asked[c].tool, gateWrites)
      BY <3>1 DEF Verdict, Evaluate
    <3> QED BY <3>2, GateMeans
  <2> QED BY <1>3, <2>1 DEF RequestApproval
<1>4. CASE VerifyGrant(c)
  BY <1>4 DEF VerifyGrant, GrantInv
<1>5. CASE Allow(c)
  <2>1. asked[c].tool \in ReadTools \cup WriteTools
    BY <1>5, VerdictMeans, GateMeans DEF Allow
  <2>2. stage[c] = "confirmed" => asked[c].tool \in WriteTools
    BY <2>1, GateMeans
  <2> QED BY <1>5, <2>2 DEF Allow
<1>6. CASE Dispatch(c)
  BY <1>6 DEF Dispatch
<1>7. CASE DispatchFails(c)
  BY <1>7 DEF DispatchFails, Settle
<1>8. CASE Finish(c)
  BY <1>8 DEF Finish, Settle
<1>9. ASSUME NEW u \in Users, Confirm(c, u) PROVE RowOf(c)' /\ OthersKept(c) /\ asked' = asked
  BY <1>9 DEF Confirm
<1>10. CASE Abandon(c)
  BY <1>10 DEF Abandon, InFlight
<1>11. CASE TurnDown(c)
  BY <1>11 DEF TurnDown
<1>12. CASE Condemn(c)
  BY <1>12 DEF Condemn
<1> QED
  BY <1>1, <1>2, <1>3, <1>4, <1>5, <1>6, <1>7, <1>8, <1>9, <1>10, <1>11, <1>12 DEF Execute

LEMMA StepIInv == IInv /\ [Next]_vars => IInv'
<1> SUFFICES ASSUME IInv, [Next]_vars PROVE IInv'
  OBVIOUS
<1>1. Guards /\ \A c \in Calls : RowOf(c)
  BY DEF IInv, Guards, RowOf
<1>2. Guards'
  BY <1>1, StepGuards
<1>3. \A c \in Calls : RowOf(c)'
  <2>1. ASSUME NEW c \in Calls, Authenticate(c) \/ Execute(c) \/ TurnDown(c) \/ Condemn(c)
                                   \/ \E u \in Users : Confirm(c, u)
        PROVE  \A d \in Calls : RowOf(d)'
    <3>1. RowOf(c)' /\ OthersKept(c) /\ asked' = asked
      BY <1>1, <2>1, RowOfCall
    <3>2. ASSUME NEW d \in Calls \ {c} PROVE RowOf(d)'
      <4>1. RowOf(d)
        BY <1>1
      <4> QED
        BY <3>1, <4>1 DEF OthersKept, RowOf, RowInv, OnRecord, Over, LeftApproved
    <3> QED BY <3>1, <3>2
  <2>2. CASE Redeploy
    <3> SUFFICES ASSUME NEW c \in Calls PROVE RowOf(c)'
      OBVIOUS
    <3>1. RowOf(c) /\ stage \in [Calls -> Stages]
      BY <1>1 DEF Guards, TypeOK
    <3> QED
      BY <2>2, <3>1
         DEF Redeploy, InFlight, Stages, RowOf, RowInv, OnRecord, Over, LeftApproved
  <2>3. CASE Rediscover \/ (\E u \in Users, r \in UserRole : ChangeRole(u, r)) \/ UNCHANGED vars
    <3> SUFFICES ASSUME NEW c \in Calls PROVE RowOf(c)'
      OBVIOUS
    <3>1. UNCHANGED <<asked, stage, granted, checked, row>>
      BY <2>3 DEF Rediscover, ChangeRole, vars
    <3> QED
      BY <1>1, <3>1 DEF RowOf, RowInv, OnRecord, Over, LeftApproved
  <2> QED BY <2>1, <2>2, <2>3 DEF Next
<1> QED
  BY <1>2, <1>3 DEF IInv, Guards, RowOf

(* The invariant holds throughout, TypeOK and the clearance included.      *)
THEOREM Invariant == Spec => []IInv
BY InitIInv, StepIInv, PTL DEF Spec

(* High risk and unregistered tools, and write tools while writes are      *)
(* gated, only run after a verified confirmation, in every deployment.     *)
THEOREM RiskIsConfirmed == Spec => []RiskNeedsHuman
<1>1. IInv => RiskNeedsHuman
  <2> SUFFICES ASSUME IInv, NEW c \in Calls, Sent(c)
               PROVE  /\ asked[c].tool \notin ReadTools \cup WriteTools
                           => granted[c] /\ checked[c]
                      /\ asked[c].tool \notin ReadTools /\ gateWrites
                           => granted[c] /\ checked[c]
    BY DEF RiskNeedsHuman
  <2>1. Gated(asked[c].tool, gateWrites) => granted[c] /\ checked[c]
    BY DEF IInv, ClearedInv, Sent
  <2>2. asked[c].tool \notin ReadTools \cup WriteTools => Gated(asked[c].tool, gateWrites)
    BY DEF Gated, Classify
  <2>3. asked[c].tool \notin ReadTools /\ gateWrites => Gated(asked[c].tool, gateWrites)
    BY DEF Gated, Classify
  <2> QED BY <2>1, <2>2, <2>3
<1> QED BY <1>1, Invariant, PTL

(* What the policy forbids never runs, with or without an approval.        *)
THEOREM ForbiddenIsFinal == Spec => []ForbiddenNeverRuns
<1>1. IInv => ForbiddenNeverRuns
  <2> SUFFICES ASSUME IInv, NEW c \in Calls, Sent(c)
               PROVE  /\ ~ asked[c].args.malformed
                      /\ asked[c].tool = "email__send_email"
                           => asked[c].args.to + asked[c].args.cc <= 50
                      /\ actor[c] = "viewer" => asked[c].tool \in ReadTools
    BY DEF ForbiddenNeverRuns
  <2>1. ~ Denied(asked[c].tool, asked[c].args, actor[c])
    BY DEF IInv, ClearedInv, Sent
  <2>2. asked[c].args \in [malformed : BOOLEAN, fits : BOOLEAN, to : Nat, cc : Nat]
    BY ArgumentsAssumption DEF IInv, TypeOK
  <2>3. ~ asked[c].args.malformed
    BY <2>1 DEF Denied
  <2>4. asked[c].tool = "email__send_email" => asked[c].args.to + asked[c].args.cc <= 50
    BY <2>1, <2>2 DEF Denied, Recipients, MaxRecipients
  <2>5. actor[c] = "viewer" => asked[c].tool \in ReadTools
    BY <2>1 DEF Denied, Classify
  <2> QED BY <2>3, <2>4, <2>5
<1> QED BY <1>1, Invariant, PTL

(* A call that was confirmed and is over has left no approved row behind,  *)
(* or was a write that no longer needed the approval, in every deployment. *)
THEOREM RunsAreOnRecord == Spec => []RunIsOnRecord
<1>1. IInv => RunIsOnRecord
  BY DEF IInv, RunIsOnRecord
<1> QED BY <1>1, Invariant, PTL

(* The deployment and the calls keep their types.                          *)
THEOREM TypeCorrect == Spec => []TypeOK
<1>1. IInv => TypeOK
  BY DEF IInv
<1> QED BY <1>1, Invariant, PTL
==============================================================================

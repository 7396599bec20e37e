--------------------------- MODULE ApprovalsProofs ---------------------------
(***************************************************************************)
(* Proofs, for every set of approvals, handlers, users and payloads, every *)
(* TTL and every environment, of what the runs of MCApprovals check on     *)
(* small instances.                                                        *)
(***************************************************************************)
EXTENDS ApprovalsRefinement, TLAPS

(* The building blocks of the actions keep the types of what they write.   *)
LEMMA RecordType ==
  ASSUME TypeOK, NEW h \in Handlers, NEW e \in Events, Record(h, e)
  PROVE  audit' \in [Approvals -> SUBSET Events] /\ poisoned' \in [Handlers -> BOOLEAN]
<1>1. CASE ~ poisoned[h] /\ Log(Target(h), e) /\ UNCHANGED poisoned
  BY <1>1 DEF TypeOK, Log, Target
<1>2. CASE poisoned' = [poisoned EXCEPT ![h] = TRUE] /\ UNCHANGED audit
  BY <1>2 DEF TypeOK
<1>3. CASE UNCHANGED <<audit, poisoned>>
  BY <1>3 DEF TypeOK
<1> QED BY <1>1, <1>2, <1>3 DEF Record

LEMMA MoveType ==
  ASSUME TypeOK, NEW h \in Handlers, NEW l \in Labels, NEW k, Move(h, k, l)
  PROVE  pc' \in [Handlers -> Labels]
  BY DEF TypeOK, Move

LEMMA LogType ==
  ASSUME TypeOK, NEW h \in Handlers, NEW e \in Events, Log(Target(h), e)
  PROVE  audit' \in [Approvals -> SUBSET Events]
  BY DEF TypeOK, Log, Target

LEMMA StatusType ==
  ASSUME TypeOK, NEW h \in Handlers, NEW s \in Status, SetStatus(Target(h), s)
  PROVE  status' \in [Approvals -> Status]
  BY DEF TypeOK, SetStatus, Target

LEMMA Names ==
  /\ {"expired", "tampered", "blocked", "started", "succeeded", "call_failed", "executed",
      "not_executed", "confirmed", "rejected"} \subseteq Events
  /\ {"refused", "reported", "started", "mark_failed", "mark_executed", "close_executed",
      "close_failed", "answered", "error", "granted", "declined"} \subseteq Labels
  /\ {"failed", "expired", "executed", "approved", "rejected"} \subseteq Status
  BY DEF Events, Labels, Replied, Status

(* Every variable keeps its type.                                          *)
LEMMA TypeStep == TypeOK /\ [Next]_vars => TypeOK'
<1> SUFFICES ASSUME TypeOK, [Next]_vars PROVE TypeOK'
  OBVIOUS
<1> USE TimeAssumption DEF TypeOK, SetStatus, Log, Move, Target, row
<1>1. CASE \E a \in Approvals, x \in Args : CreateRequest(a, x)
  BY <1>1 DEF CreateRequest, Deadline, Status, Events
<1>2. ASSUME NEW h \in Handlers, Arrive(h) PROVE TypeOK'
  BY <1>2 DEF Arrive, Labels
<1>3. ASSUME NEW h \in Handlers, Decide(h) PROVE TypeOK'
  <2>1. CASE RefuseConfirm(h) BY <2>1 DEF RefuseConfirm, Labels, Replied
  <2>2. CASE DetectTampering(h) BY <2>2 DEF DetectTampering, Labels, Replied
  <2>3. CASE DetectExpiry(h) BY <2>3 DEF DetectExpiry, Labels, Replied
  <2>4. CASE BeginClaim(h) BY <2>4 DEF BeginClaim, Labels, Replied
  <2>5. CASE FailIntegrity(h)
    <3>1. pc' \in [Handlers -> Labels] BY <2>5, MoveType, Names DEF FailIntegrity
    <3>2. audit' \in [Approvals -> SUBSET Events] BY <2>5, LogType, Names DEF FailIntegrity
    <3>3. status' \in [Approvals -> Status] BY <2>5, StatusType, Names DEF FailIntegrity
    <3> QED BY <2>5, <3>1, <3>2, <3>3 DEF FailIntegrity
  <2>6. CASE Expire(h)
    <3>1. pc' \in [Handlers -> Labels] BY <2>6, MoveType, Names DEF Expire
    <3>2. audit' \in [Approvals -> SUBSET Events] BY <2>6, LogType, Names DEF Expire
    <3>3. status' \in [Approvals -> Status] BY <2>6, StatusType, Names DEF Expire
    <3> QED BY <2>6, <3>1, <3>2, <3>3 DEF Expire
  <2>7. CASE Claim(h) BY <2>7, Names DEF Claim
  <2>8. CASE LoseClaim(h) BY <2>8 DEF LoseClaim, Labels, Replied
  <2>9. CASE DecisionRolledBack(h) BY <2>9 DEF DecisionRolledBack, Labels, Replied
  <2>10. CASE RefuseReject(h) BY <2>10 DEF RefuseReject, Labels, Replied
  <2>11. CASE BeginReject(h) BY <2>11 DEF BeginReject, Labels, Replied
  <2>12. CASE Reject(h) BY <2>12, Names DEF Reject
  <2>13. CASE LoseReject(h) BY <2>13 DEF LoseReject, Labels, Replied
  <2> QED BY <1>3, <2>1, <2>2, <2>3, <2>4, <2>5, <2>6, <2>7, <2>8, <2>9, <2>10, <2>11,
             <2>12, <2>13 DEF Decide
<1>4. ASSUME NEW h \in Handlers, ExecuteApproved(h) PROVE TypeOK'
  <2>1. CASE ToolGone(h) BY <2>1, RecordType, Names DEF ToolGone
  <2>2. CASE VerifyGrant(h) BY <2>2 DEF VerifyGrant, Labels, Replied
  <2>3. CASE GrantExpired(h) BY <2>3 DEF GrantExpired, Labels, Replied
  <2>4. CASE GrantTampered(h) BY <2>4 DEF GrantTampered, Labels, Replied
  <2>5. CASE RecordStart(h) BY <2>5, RecordType, Names DEF RecordStart
  <2>6. CASE Dispatch(h) BY <2>6 DEF Dispatch, Labels, Replied
  <2>7. CASE DispatchFails(h) BY <2>7, RecordType, Names DEF DispatchFails
  <2>8. CASE CallSucceeds(h) BY <2>8, RecordType, Names DEF CallSucceeds
  <2>9. CASE CallFails(h) BY <2>9, RecordType, Names DEF CallFails
  <2>10. CASE MarkExecuted(h) BY <2>10, Names DEF MarkExecuted
  <2>11. CASE MarkFailed(h) BY <2>11, Names DEF MarkFailed
  <2>12. CASE MarkRaises(h) BY <2>12 DEF MarkRaises, Labels, Replied
  <2>13. CASE Close(h)
    <3>1. pc' \in [Handlers -> Labels] BY <2>13, MoveType, Names DEF Close
    <3>2. audit' \in [Approvals -> SUBSET Events] BY <2>13, LogType, Names DEF Close
    <3> QED BY <2>13, <3>1, <3>2 DEF Close
  <2> QED BY <1>4, <2>1, <2>2, <2>3, <2>4, <2>5, <2>6, <2>7, <2>8, <2>9, <2>10, <2>11,
             <2>12, <2>13 DEF ExecuteApproved
<1>5. ASSUME NEW h \in Handlers, Perform(h) \/ RefuseCall(h) PROVE TypeOK'
  BY <1>5 DEF Perform, RefuseCall
<1>6. ASSUME NEW h \in Handlers, Crash(h) PROVE TypeOK'
  BY <1>6 DEF Crash, Labels, Replied
<1>7. CASE \E a \in Approvals, x \in Args : Tamper(a, x)
  BY <1>7 DEF Tamper
<1>8. CASE ExpireStale
  BY <1>8 DEF ExpireStale, Status
<1>9. CASE Tick
  BY <1>9 DEF Tick
<1>10. CASE Quiescent \/ UNCHANGED vars
  BY <1>10 DEF Quiescent, vars
<1> QED
  BY <1>1, <1>2, <1>3, <1>4, <1>5, <1>6, <1>7, <1>8, <1>9, <1>10 DEF Next

LEMMA TypeInit == Init => TypeOK
  BY DEF Init, TypeOK, Status, Labels, Replied

(* Every reachable state is well typed.                                    *)
THEOREM TypeCorrect == Spec => []TypeOK
<1> QED BY TypeInit, TypeStep, PTL DEF Spec

(* Every step keeps the inductive invariant: the right to act on a row is  *)
(* taken by one handler, on record, and is never handed out again.         *)
LEMMA InvStep == IInv /\ [Next]_vars => IInv'
<1> SUFFICES ASSUME IInv, [Next]_vars PROVE IInv'
  OBVIOUS
<1>0. TypeOK'
  BY TypeStep DEF IInv
<1> DEFINE Rest == RowInv /\ AuditInv /\ HolderInv /\ HandlerInv /\ ExecutedWasPerformed
<1> SUFFICES Rest' BY <1>0 DEF IInv
<1> USE DEF Move, SetStatus, Log, Target, Sent, Holder, Decided, Acting, row, TypeOK, IInv, RowInv, AuditInv, HolderInv, HandlerInv, ExecutedWasPerformed, MayDecide
<1>1. ASSUME NEW a \in Approvals, NEW x \in Args, CreateRequest(a, x) PROVE Rest'
  BY <1>1 DEF CreateRequest
<1>2. ASSUME NEW h \in Handlers, Arrive(h) PROVE Rest'
  BY <1>2 DEF Arrive
<1>3. ASSUME NEW h \in Handlers, Decide(h) PROVE Rest'
  <2>1. CASE RefuseConfirm(h) BY <2>1 DEF RefuseConfirm
  <2>2. CASE DetectTampering(h) BY <2>2 DEF DetectTampering, Authorized
  <2>3. CASE DetectExpiry(h) BY <2>3 DEF DetectExpiry, Authorized
  <2>4. CASE BeginClaim(h) BY <2>4 DEF BeginClaim, Authorized
  <2>5. CASE FailIntegrity(h)
    <3>1. CASE SetStatus(Target(h), "failed") /\ Log(Target(h), "tampered")
      BY <2>5, <3>1 DEF FailIntegrity
    <3>2. CASE UNCHANGED status /\ Log(Target(h), "tampered")
      BY <2>5, <3>2 DEF FailIntegrity
    <3>3. CASE UNCHANGED <<status, audit>>
      BY <2>5, <3>3 DEF FailIntegrity
    <3> QED BY <2>5, <3>1, <3>2, <3>3 DEF FailIntegrity
  <2>6. CASE Expire(h)
    <3>1. CASE SetStatus(Target(h), "expired") /\ Log(Target(h), "expired")
      BY <2>6, <3>1 DEF Expire
    <3>2. CASE UNCHANGED <<status, audit>>
      BY <2>6, <3>2 DEF Expire
    <3> QED BY <2>6, <3>1, <3>2 DEF Expire
  <2>7. CASE Claim(h) BY <2>7 DEF Claim, Claimable
  <2>8. CASE LoseClaim(h) BY <2>8 DEF LoseClaim
  <2>9. CASE DecisionRolledBack(h) BY <2>9 DEF DecisionRolledBack, Claimable
  <2>10. CASE RefuseReject(h) BY <2>10 DEF RefuseReject, Authorized
  <2>11. CASE BeginReject(h) BY <2>11 DEF BeginReject, Authorized
  <2>12. CASE Reject(h) BY <2>12 DEF Reject
  <2>13. CASE LoseReject(h) BY <2>13 DEF LoseReject
  <2> QED BY <1>3, <2>1, <2>2, <2>3, <2>4, <2>5, <2>6, <2>7, <2>8, <2>9, <2>10, <2>11, <2>12, <2>13 DEF Decide
<1>4. ASSUME NEW h \in Handlers, ExecuteApproved(h) PROVE Rest'
  <2>1. CASE ToolGone(h)
    <3>1. CASE Log(Target(h), "blocked") BY <2>1, <3>1 DEF ToolGone
    <3>2. CASE UNCHANGED audit BY <2>1, <3>2 DEF ToolGone
    <3> QED BY <2>1, <3>1, <3>2 DEF ToolGone, Record
  <2>2. CASE VerifyGrant(h) BY <2>2, DigestAssumption DEF VerifyGrant, Intact
  <2>3. CASE GrantExpired(h) BY <2>3 DEF GrantExpired
  <2>4. CASE GrantTampered(h) BY <2>4 DEF GrantTampered
  <2>5. CASE RecordStart(h)
    <3>1. CASE Log(Target(h), "started") BY <2>5, <3>1 DEF RecordStart
    <3>2. CASE UNCHANGED audit BY <2>5, <3>2 DEF RecordStart
    <3> QED BY <2>5, <3>1, <3>2 DEF RecordStart, Record
  <2>6. CASE Dispatch(h) BY <2>6 DEF Dispatch
  <2>7. CASE DispatchFails(h)
    <3>1. CASE Log(Target(h), "call_failed") BY <2>7, <3>1 DEF DispatchFails
    <3>2. CASE UNCHANGED audit BY <2>7, <3>2 DEF DispatchFails
    <3> QED BY <2>7, <3>1, <3>2 DEF DispatchFails, Record
  <2>8. CASE CallSucceeds(h)
    <3>1. CASE Log(Target(h), "succeeded") BY <2>8, <3>1 DEF CallSucceeds
    <3>2. CASE UNCHANGED audit BY <2>8, <3>2 DEF CallSucceeds
    <3> QED BY <2>8, <3>1, <3>2 DEF CallSucceeds, Record
  <2>9. CASE CallFails(h)
    <3>1. CASE Log(Target(h), "call_failed") BY <2>9, <3>1 DEF CallFails
    <3>2. CASE UNCHANGED audit BY <2>9, <3>2 DEF CallFails
    <3> QED BY <2>9, <3>1, <3>2 DEF CallFails, Record
  <2>10. CASE MarkExecuted(h) BY <2>10 DEF MarkExecuted
  <2>11. CASE MarkFailed(h) BY <2>11 DEF MarkFailed
  <2>12. CASE MarkRaises(h) BY <2>12 DEF MarkRaises
  <2>13. CASE Close(h)
    <3>1. CASE pc' = [pc EXCEPT ![h] = "answered"] /\ Log(Target(h), "executed")
      BY <2>13, <3>1 DEF Close
    <3>2. CASE pc' = [pc EXCEPT ![h] = "reported"] /\ Log(Target(h), "not_executed")
      BY <2>13, <3>2 DEF Close
    <3>3. CASE pc' = [pc EXCEPT ![h] = "error"] /\ UNCHANGED audit
      BY <2>13, <3>3 DEF Close
    <3> QED BY <2>13, <3>1, <3>2, <3>3 DEF Close
  <2> QED BY <1>4, <2>1, <2>2, <2>3, <2>4, <2>5, <2>6, <2>7, <2>8, <2>9, <2>10, <2>11, <2>12, <2>13 DEF ExecuteApproved
<1>5. ASSUME NEW h \in Handlers, Perform(h) \/ RefuseCall(h) PROVE Rest'
  BY <1>5 DEF Perform, RefuseCall
<1>6. ASSUME NEW h \in Handlers, Crash(h) PROVE Rest'
  BY <1>6 DEF Crash, Replied
<1>7. ASSUME NEW a \in Approvals, NEW x \in Args, Tamper(a, x) PROVE Rest'
  BY <1>7 DEF Tamper
<1>8. CASE ExpireStale
  BY <1>8 DEF ExpireStale
<1>9. CASE Tick
  BY <1>9 DEF Tick
<1>10. CASE Quiescent \/ UNCHANGED vars
  BY <1>10 DEF Quiescent, vars
<1> QED
  BY <1>1, <1>2, <1>3, <1>4, <1>5, <1>6, <1>7, <1>8, <1>9, <1>10 DEF Next

LEMMA InvInit == Init => IInv
  BY TypeInit DEF Init, IInv, RowInv, AuditInv, HolderInv, HandlerInv, ExecutedWasPerformed,
     Holder, Acting, Sent

(* The inductive invariant holds in every reachable state.                 *)
THEOREM Invariant == Spec => []IInv
<1> QED BY InvInit, InvStep, PTL DEF Spec

(* An approval authorises one execution: no two requests send its call.    *)
THEOREM SingleUse == Spec => []AtMostOneDispatch
<1>1. IInv => AtMostOneDispatch
  BY DEF IInv, HolderInv, Holder, AtMostOneDispatch
<1> QED BY <1>1, Invariant, PTL

(* What is sent is what the human was shown, whoever edits the row when.   *)
THEOREM PayloadBound == Spec => []SentAsShown
<1>1. IInv => SentAsShown
  BY DEF IInv, HolderInv, HandlerInv, Holder, SentAsShown
<1> QED BY <1>1, Invariant, PTL

(* What is sent was confirmed, on record, by somebody entitled to, and was *)
(* not rejected.                                                           *)
THEOREM Consent == Spec => []SentWithConsent
<1>1. IInv => SentWithConsent
  BY DEF IInv, TypeOK, AuditInv, HolderInv, Holder, Target, SentWithConsent
<1> QED BY <1>1, Invariant, PTL

(* A refusal means nothing was sent; a success means it was performed.     *)
THEOREM TrueAnswers == Spec => []AnswersAreTrue
<1>1. IInv => AnswersAreTrue
  BY DEF IInv, HandlerInv, AnswersAreTrue
<1> QED BY <1>1, Invariant, PTL

(* An EXECUTED row has a confirmation and a performed call behind it.      *)
THEOREM ExecutedIsTrue == Spec => []ExecutedWasPerformed
<1> QED BY Invariant, PTL DEF IInv

-----------------------------------------------------------------------------
(* A step that changes the status of a decided row writes what _expire,    *)
(* _fail_integrity, mark_executed or mark_failed write.                    *)
LEMMA DecidedStep ==
  IInv /\ [Next]_vars =>
    \A a \in Approvals : Decided(a) /\ status'[a] # status[a]
                           => status'[a] \in {"expired", "executed", "failed"}
<1> SUFFICES ASSUME IInv, [Next]_vars, NEW a \in Approvals, Decided(a), status'[a] # status[a]
             PROVE  status'[a] \in {"expired", "executed", "failed"}
  OBVIOUS
<1> USE DEF IInv, TypeOK, Decided, Target, SetStatus, row
<1>1. CASE \E b \in Approvals, x \in Args : CreateRequest(b, x)
  BY <1>1 DEF CreateRequest
<1>2. ASSUME NEW h \in Handlers, Decide(h)
      PROVE  status'[a] \in {"expired", "executed", "failed"}
  BY <1>2 DEF Decide, RefuseConfirm, DetectTampering, DetectExpiry, BeginClaim, FailIntegrity,
     Expire, Claim, Claimable, LoseClaim, DecisionRolledBack, RefuseReject, BeginReject, Reject,
     LoseReject
<1>3. ASSUME NEW h \in Handlers, ExecuteApproved(h)
      PROVE  status'[a] \in {"expired", "executed", "failed"}
  BY <1>3 DEF ExecuteApproved, ToolGone, VerifyGrant, GrantExpired, GrantTampered, RecordStart,
     Dispatch, DispatchFails, CallSucceeds, CallFails, MarkExecuted, MarkFailed, MarkRaises, Close
<1>4. CASE \E h \in Handlers : Arrive(h) \/ Perform(h) \/ RefuseCall(h) \/ Crash(h)
  BY <1>4 DEF Arrive, Perform, RefuseCall, Crash
<1>5. CASE (\E b \in Approvals, x \in Args : Tamper(b, x)) \/ Tick \/ Quiescent \/ UNCHANGED vars
  BY <1>5 DEF Tamper, Tick, Quiescent, vars
<1>6. CASE ExpireStale
  BY <1>6 DEF ExpireStale
<1> QED BY <1>1, <1>2, <1>3, <1>4, <1>5, <1>6 DEF Next

(* A decision is never taken twice or taken back.                          *)
THEOREM DecisionStands == Spec => DecidedOnce
<1>1. IInv /\ [Next]_vars =>
        [\A a \in Approvals :
           status[a] \notin {"absent", "pending"} /\ status'[a] # status[a]
             => status'[a] \in {"expired", "executed", "failed"}]_vars
  BY DecidedStep DEF Decided
<1> QED BY <1>1, Invariant, PTL DEF Spec, DecidedOnce

-----------------------------------------------------------------------------
(* The abstract effect, without CHOOSE: whoever sent the call sent what    *)
(* was shown.                                                              *)
Released(a) == \E h \in Handlers : Sent(h) /\ Target(h) = a

EffectShown == effect = [a \in Approvals |-> IF Released(a) THEN shown[a] ELSE NoArgs]

LEMMA EffectIsShown == IInv => EffectShown
<1> SUFFICES ASSUME IInv PROVE EffectShown
  OBVIOUS
<1>1. ASSUME NEW a \in Approvals, Released(a)
      PROVE  seen[CHOOSE h \in Handlers : Sent(h) /\ Target(h) = a].args = shown[a]
  <2> DEFINE c == CHOOSE h \in Handlers : Sent(h) /\ Target(h) = a
  <2>1. c \in Handlers /\ Sent(c) /\ Target(c) = a
    BY <1>1 DEF Released
  <2> QED
    BY <2>1 DEF IInv, HolderInv, HandlerInv, Holder
<1> QED
  BY <1>1 DEF effect, Released, EffectShown

LEMMA EffectStep == IInv /\ [Next]_vars => EffectShown /\ EffectShown'
BY EffectIsShown, InvStep, PTL

(* A step that neither sends a call nor creates a row releases nothing.    *)
LEMMA EffectKept ==
  ASSUME EffectShown, EffectShown', UNCHANGED <<shown, call, req>>
  PROVE  effect' = effect
<1>1. \A a \in Approvals : Released(a)' <=> Released(a)
  BY DEF Released, Sent, Target
<1> QED
  BY <1>1 DEF EffectShown

(* Such a step is invisible when it also leaves who is allowed, open or    *)
(* barred as it is.                                                        *)
LEMMA Invisible ==
  ASSUME EffectShown, EffectShown', UNCHANGED <<decision, shown, call, req>>
  PROVE  UNCHANGED Gate!gate
  BY EffectKept DEF Gate!gate

(* An audit entry other than a confirmation allows nothing.                *)
OtherEvents == Events \ {"confirmed"}

LEMMA LogKeepsDecision ==
  ASSUME TypeOK, NEW h \in Handlers, NEW e \in OtherEvents,
         Log(Target(h), e) \/ Record(h, e) \/ UNCHANGED audit
  PROVE  \A a \in Approvals : "confirmed" \in audit'[a] <=> "confirmed" \in audit[a]
<1>1. CASE Log(Target(h), e)
  BY <1>1 DEF Log, Target, TypeOK, OtherEvents
<1>2. CASE UNCHANGED audit
  BY <1>2
<1> QED BY <1>1, <1>2 DEF Record

LEMMA OtherNames ==
  {"expired", "tampered", "blocked", "started", "succeeded", "call_failed", "executed",
   "not_executed", "rejected"} \subseteq OtherEvents
  BY DEF OtherEvents, Events

(* Every step of the subsystem is a step of the gate or invisible to it.   *)
LEMMA GateStep ==
  ASSUME IInv, EffectShown, EffectShown', [Next]_vars
  PROVE  [Gate!Next]_Gate!gate
<1> USE DEF IInv, TypeOK, Target, SetStatus, row
<1>1. ASSUME NEW a \in Approvals, NEW x \in Args, CreateRequest(a, x)
      PROVE  Gate!Next
  <2>1. decision[a] = "none" /\ decision' = [decision EXCEPT ![a] = "open"]
    BY <1>1 DEF CreateRequest, Log, decision, AuditInv, Decided
  <2>2. ~ Released(a) /\ \A b \in Approvals : Released(b)' <=> Released(b)
    BY <1>1 DEF CreateRequest, Released, Sent, HolderInv, Holder, Decided
  <2>3. effect' = effect
    BY <1>1, <2>2 DEF CreateRequest, EffectShown
  <2> QED
    BY <1>1, <2>1, <2>3 DEF CreateRequest, Gate!Next, Gate!Propose
<1>2. ASSUME NEW h \in Handlers, Claim(h)
      PROVE  Gate!Next
  <2>1. decision[Target(h)] = "open" /\ decision' = [decision EXCEPT ![Target(h)] = "allowed"]
    BY <1>2 DEF Claim, Claimable, Log, decision, AuditInv, Decided
  <2>2. effect' = effect
    BY <1>2, EffectKept DEF Claim
  <2> QED
    BY <1>2, <2>1, <2>2 DEF Claim, Gate!Next, Gate!Allow
<1>3. ASSUME NEW h \in Handlers, Dispatch(h)
      PROVE  Gate!Next
  <2>1. decision[Target(h)] = "allowed" /\ UNCHANGED decision
    BY <1>3 DEF Dispatch, Move, decision, HolderInv, Holder, Acting
  <2>2. ~ Released(Target(h))
    BY <1>3 DEF Dispatch, Move, Released, HolderInv, HandlerInv, Holder, Acting
  <2>3. \A b \in Approvals : Released(b)' <=> Released(b) \/ b = Target(h)
    BY <1>3 DEF Dispatch, Released, Sent
  <2>4. effect[Target(h)] = NoArgs /\ effect' = [effect EXCEPT ![Target(h)] = shown[Target(h)]]
    BY <1>3, <2>2, <2>3 DEF Dispatch, EffectShown
  <2> QED
    BY <1>3, <2>1, <2>4 DEF Dispatch, Gate!Next, Gate!Release
<1>4. ASSUME NEW S \in SUBSET Approvals, \A a \in S : status[a] = "pending",
             \A a \in S : status'[a] \in {"rejected", "expired", "failed"},
             \A a \in Approvals \ S : status'[a] = status[a],
             \A a \in Approvals : "confirmed" \in audit'[a] <=> "confirmed" \in audit[a],
             UNCHANGED <<shown, call, req>>
      PROVE  Gate!Next
  <2>1. \A a \in S : decision[a] = "open"
    BY <1>4 DEF decision, AuditInv, Decided
  <2>2. decision' = [a \in Approvals |-> IF a \in S THEN "barred" ELSE decision[a]]
    BY <1>4 DEF decision, AuditInv, Decided
  <2> QED
    BY <1>4, <2>1, <2>2, EffectKept DEF Gate!Next, Gate!Bar
<1>5. ASSUME \A a \in Approvals : status'[a] # status[a] => Decided(a) /\ Decided(a)',
             \A a \in Approvals : "confirmed" \in audit'[a] <=> "confirmed" \in audit[a],
             UNCHANGED <<shown, call, req>>
      PROVE  UNCHANGED Gate!gate
  <2>1. UNCHANGED decision
    BY <1>5 DEF decision, Decided
  <2> QED
    BY <1>5, <2>1, Invisible
<1>6. ASSUME NEW h \in Handlers, Reject(h)
      PROVE  Gate!Next
  <2> DEFINE S == {Target(h)}
  <2>1. \A a \in Approvals : "confirmed" \in audit'[a] <=> "confirmed" \in audit[a]
    BY <1>6, LogKeepsDecision, OtherNames DEF Reject
  <2>2. S \in SUBSET Approvals /\ \A a \in S : status[a] = "pending"
    BY <1>6 DEF Reject
  <2>3. (\A a \in S : status'[a] = "rejected") /\ \A a \in Approvals \ S : status'[a] = status[a]
    BY <1>6 DEF Reject
  <2>4. UNCHANGED <<shown, call, req>>
    BY <1>6 DEF Reject
  <2> HIDE DEF S
  <2> QED
    BY <2>1, <2>2, <2>3, <2>4, <1>4
<1>7. ASSUME NEW h \in Handlers, FailIntegrity(h) \/ Expire(h)
      PROVE  Gate!Next \/ UNCHANGED Gate!gate
  <2>1. status[Target(h)] # "absent" /\ UNCHANGED <<shown, call, req>>
    BY <1>7 DEF FailIntegrity, Expire, Move, HandlerInv
  <2>2. \A a \in Approvals : "confirmed" \in audit'[a] <=> "confirmed" \in audit[a]
    <3>1. CASE FailIntegrity(h) BY <3>1, LogKeepsDecision, OtherNames DEF FailIntegrity
    <3>2. CASE Expire(h) BY <3>2, LogKeepsDecision, OtherNames DEF Expire
    <3> QED BY <1>7, <3>1, <3>2
  <2>3. CASE status' = status
    BY <2>1, <2>2, <2>3, <1>5
  <2>4. CASE SetStatus(Target(h), "failed") \/ SetStatus(Target(h), "expired")
    <3> DEFINE S == {Target(h)}
    <3>1. CASE status[Target(h)] = "pending"
      <4>1. S \in SUBSET Approvals /\ \A a \in S : status[a] = "pending"
        BY <3>1
      <4>2. \A a \in S : status'[a] \in {"rejected", "expired", "failed"}
        BY <2>4
      <4>3. \A a \in Approvals \ S : status'[a] = status[a]
        BY <2>4
      <4> QED
        BY <2>1, <2>2, <4>1, <4>2, <4>3, <1>4
    <3>2. CASE Decided(Target(h))
      BY <2>1, <2>2, <2>4, <3>2, <1>5 DEF Decided
    <3> QED BY <2>1, <3>1, <3>2 DEF Decided
  <2> QED BY <1>7, <2>3, <2>4 DEF FailIntegrity, Expire
<1>8. ASSUME ExpireStale
      PROVE  Gate!Next
  <2> DEFINE S == {a \in Approvals : status[a] = "pending" /\ Expired(a)}
  <2>1. S \in SUBSET Approvals /\ \A a \in S : status[a] = "pending"
    OBVIOUS
  <2>2. (\A a \in S : status'[a] = "expired") /\ \A a \in Approvals \ S : status'[a] = status[a]
    BY <1>8 DEF ExpireStale
  <2>3. UNCHANGED <<shown, call, req, audit>>
    BY <1>8 DEF ExpireStale
  <2> HIDE DEF S
  <2> QED BY <2>1, <2>2, <2>3, <1>4
<1>9. ASSUME NEW h \in Handlers, MarkExecuted(h) \/ MarkFailed(h)
      PROVE  UNCHANGED Gate!gate
  BY <1>9, <1>5 DEF MarkExecuted, MarkFailed, Move, HolderInv, Holder, Acting, Decided
<1>10. ASSUME NEW h \in Handlers, ExecuteApproved(h), ~ Dispatch(h), ~ (MarkExecuted(h) \/ MarkFailed(h))
       PROVE  UNCHANGED Gate!gate
  <2>1. UNCHANGED <<status, shown, call, req>>
    BY <1>10 DEF ExecuteApproved, ToolGone, VerifyGrant, GrantExpired, GrantTampered, RecordStart,
       DispatchFails, CallSucceeds, CallFails, MarkRaises, Close
  <2>2. \A a \in Approvals : "confirmed" \in audit'[a] <=> "confirmed" \in audit[a]
    BY <1>10, LogKeepsDecision, OtherNames DEF ExecuteApproved, ToolGone, VerifyGrant, GrantExpired,
       GrantTampered, RecordStart, DispatchFails, CallSucceeds, CallFails, MarkRaises, Close
  <2> QED BY <2>1, <2>2, <1>5
<1>11. ASSUME NEW h \in Handlers, Decide(h),
              ~ (Claim(h) \/ Reject(h) \/ FailIntegrity(h) \/ Expire(h))
       PROVE  UNCHANGED Gate!gate
  <2>1. UNCHANGED <<status, shown, call, req, audit>>
    BY <1>11 DEF Decide, RefuseConfirm, DetectTampering, DetectExpiry, BeginClaim, LoseClaim,
       DecisionRolledBack, RefuseReject, BeginReject, LoseReject
  <2> QED BY <2>1, <1>5
<1>12. ASSUME NEW h \in Handlers, Perform(h) \/ RefuseCall(h)
       PROVE  UNCHANGED Gate!gate
  <2>1. UNCHANGED decision /\ UNCHANGED shown
    BY <1>12 DEF Perform, RefuseCall, decision
  <2>2. \A b \in Approvals : Released(b)' <=> Released(b)
    BY <1>12 DEF Perform, RefuseCall, Released, Sent
  <2>3. effect' = effect
    BY <2>1, <2>2 DEF EffectShown
  <2> QED BY <2>1, <2>3 DEF Gate!gate
<1>13. CASE (\E h \in Handlers : Arrive(h) \/ Crash(h)) \/ (\E a \in Approvals, x \in Args : Tamper(a, x))
            \/ Tick \/ Quiescent \/ UNCHANGED vars
  <2>1. UNCHANGED <<status, shown, call, req, audit>>
    BY <1>13 DEF Arrive, Crash, Tamper, Tick, Quiescent, vars
  <2> QED BY <2>1, <1>5
<1> QED
  BY <1>1, <1>2, <1>3, <1>6, <1>7, <1>8, <1>9, <1>10, <1>11, <1>12, <1>13 DEF Next, Decide, ExecuteApproved

LEMMA GateInit == Init => Gate!Init
  BY DEF Init, decision, effect, Sent, Gate!Init

(* The approval subsystem implements the abstract gate.                    *)
THEOREM Refinement == Spec => ImplementsGate
<1>1. IInv /\ EffectShown /\ EffectShown' /\ [Next]_vars => [Gate!Next]_Gate!gate
  BY GateStep
<1> QED
  BY <1>1, GateInit, EffectStep, Invariant, PTL DEF Spec, ImplementsGate, Gate!Spec
==============================================================================

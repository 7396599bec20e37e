------------------------------ MODULE Approvals ------------------------------
(***************************************************************************)
(* The human-in-the-loop gate: ApprovalService, ApprovalRepository and the *)
(* part of ToolExecutionService that runs an approved action.              *)
(*                                                                         *)
(* A row of approval_requests is shared by every HTTP request that decides *)
(* it.  Each request (a "handler") runs with a session of its own, reads   *)
(* the row once and works on that cached copy while other handlers, a      *)
(* clock and the external tool server move on.  One action below is what a *)
(* handler does between two points where the others can interleave: a      *)
(* commit, or an await on the database or on the tool server.              *)
(***************************************************************************)
EXTENDS Naturals

CONSTANTS
  Approvals,     \* approval request ids
  Handlers,      \* HTTP requests to /approvals/{id}/confirm and /reject
  Users,         \* authenticated callers
  Role,          \* [Users -> UserRole]
  Args,          \* argument payloads of a proposed tool call
  NoArgs,        \* the arguments of a row that does not exist
  Digest,        \* hash_payload: canonical JSON, then SHA-256
  TTL,           \* approval_ttl_minutes, in clock units
  MaxTime,       \* bound on the clock
  Environment    \* which things outside the code's control may happen

ASSUME RoleAssumption == Role \in [Users -> {"viewer", "operator", "admin"}]
ASSUME DigestAssumption == \A x, y \in Args : Digest[x] = Digest[y] => x = y
ASSUME NoArgsAssumption == NoArgs \notin Args
ASSUME TimeAssumption == TTL \in Nat \ {0} /\ MaxTime \in Nat
ASSUME EnvironmentAssumption ==
  Environment \subseteq {"crash", "audit", "tamper", "catalog", "sweeper"}

VARIABLES
  status,    \* approval_requests.status, "absent" before the INSERT
  args,      \* approval_requests.arguments
  digest,    \* approval_requests.arguments_hash
  shown,     \* approval_requests.summary: the arguments a human reads
  expires,   \* approval_requests.expires_at
  owner,     \* approval_requests.user_id
  audit,     \* audit entries about the row; entries are only ever added
  clock,     \* wall clock
  pc,        \* where a handler stands
  req,       \* what a handler was asked
  seen,      \* the handler's copy of the row in its session's identity map
  moment,    \* the timestamp bound into the claiming UPDATE
  poisoned,  \* the handler's session holds a failed flush
  call       \* what became of the tool call a handler sent

row  == <<status, args, digest, shown, expires, owner>>
vars == <<row, audit, clock, pc, req, seen, moment, poisoned, call>>

Status == {"absent", "pending", "approved", "rejected", "expired", "executed", "failed"}
Terminal == {"rejected", "expired", "executed", "failed"}
Events == {"requested", "confirmed", "rejected", "expired", "tampered", "blocked",
           "started", "succeeded", "call_failed", "executed", "not_executed"}

Replied == {"answered",   \* 200, the action ran
            "reported",   \* 200, the action did not succeed
            "declined",   \* 200, the request was rejected
            "refused",    \* 4xx
            "error",      \* 500
            "lost"}       \* the process died first
Labels == {"idle", "confirming", "rejecting", "failing", "expiring", "claiming",
           "declining", "granted", "verified", "started", "waiting",
           "mark_executed", "mark_failed", "close_executed", "close_failed"} \cup Replied

Init ==
  /\ status  = [a \in Approvals |-> "absent"]
  /\ args    = [a \in Approvals |-> NoArgs]
  /\ digest  = [a \in Approvals |-> NoArgs]
  /\ shown   = [a \in Approvals |-> NoArgs]
  /\ expires = [a \in Approvals |-> 0]
  /\ owner   \in [Approvals -> Users]
  /\ audit   = [a \in Approvals |-> {}]
  /\ clock   = 0
  /\ pc      = [h \in Handlers |-> "idle"]
  /\ req     \in [Handlers -> [op : {"confirm", "reject"}, user : Users, id : Approvals]]
  /\ seen    = [h \in Handlers |-> [status |-> "absent", args |-> NoArgs]]
  /\ moment  = [h \in Handlers |-> 0]
  /\ poisoned = [h \in Handlers |-> FALSE]
  /\ call    = [h \in Handlers |-> "none"]

-----------------------------------------------------------------------------
Target(h) == req[h].id

Expired(a) == expires[a] <= clock

Intact(h) == Digest[seen[h].args] = digest[Target(h)]

(* _assert_can_decide: viewers decide nothing, operators only their own.   *)
MayDecide(u, a) ==
  /\ Role[u] # "viewer"
  /\ Role[u] = "admin" \/ owner[a] = u

Move(h, from, to) ==
  /\ pc[h] = from
  /\ pc' = [pc EXCEPT ![h] = to]

SetStatus(a, s) == status' = [status EXCEPT ![a] = s]

Log(a, e) == audit' = [audit EXCEPT ![a] = @ \cup {e}]

(* AuditService.record commits on the caller's session and swallows its    *)
(* own failure, which leaves that session unusable until it is rolled back.*)
Record(h, e) ==
  \/ ~poisoned[h] /\ Log(Target(h), e) /\ UNCHANGED poisoned
  \/ ~poisoned[h] /\ "audit" \in Environment
     /\ poisoned' = [poisoned EXCEPT ![h] = TRUE] /\ UNCHANGED audit
  \/ poisoned[h] /\ UNCHANGED <<audit, poisoned>>

-----------------------------------------------------------------------------
(* create_request: utcnow() plus the approval_ttl_minutes of the settings. *)
Deadline == clock + TTL

(* ToolExecutionService._request_approval, reached from an agent run of    *)
(* the owner.  The policy denies a viewer before it asks for approval.     *)
CreateRequest(a, x) ==
  /\ status[a] = "absent"
  /\ Role[owner[a]] # "viewer"
  /\ SetStatus(a, "pending")
  /\ args' = [args EXCEPT ![a] = x]
  /\ digest' = [digest EXCEPT ![a] = Digest[x]]
  /\ shown' = [shown EXCEPT ![a] = x]
  /\ expires' = [expires EXCEPT ![a] = Deadline]
  /\ Log(a, "requested")
  /\ UNCHANGED <<owner, clock, pc, req, seen, moment, poisoned, call>>

(* A request comes in: authentication and get() put one copy of the row    *)
(* into the session, where it stays until it is refreshed.                 *)
Arrive(h) ==
  /\ Move(h, "idle", IF req[h].op = "confirm" THEN "confirming" ELSE "rejecting")
  /\ seen' = [seen EXCEPT ![h] = [status |-> status[Target(h)], args |-> args[Target(h)]]]
  /\ UNCHANGED <<row, audit, clock, req, moment, poisoned, call>>

(* Mutant: the role and the ownership of the caller are not looked at.     *)
AuthorizedByExistence(h) == seen[h].status # "absent"

Authorized(h) == seen[h].status # "absent" /\ MayDecide(req[h].user, Target(h))

RefuseConfirm(h) ==
  /\ ~ Authorized(h) \/ (Intact(h) /\ seen[h].status # "pending")
  /\ Move(h, "confirming", "refused")
  /\ UNCHANGED <<row, audit, clock, req, seen, moment, poisoned, call>>

DetectTampering(h) ==
  /\ Authorized(h) /\ ~ Intact(h)
  /\ Move(h, "confirming", "failing")
  /\ UNCHANGED <<row, audit, clock, req, seen, moment, poisoned, call>>

DetectExpiry(h) ==
  /\ Authorized(h) /\ Intact(h) /\ seen[h].status = "pending" /\ Expired(Target(h))
  /\ Move(h, "confirming", "expiring")
  /\ UNCHANGED <<row, audit, clock, req, seen, moment, poisoned, call>>

(* The timestamp of the conditional UPDATE is taken in Python.             *)
BeginClaim(h) ==
  /\ Authorized(h) /\ Intact(h) /\ seen[h].status = "pending" /\ ~ Expired(Target(h))
  /\ Move(h, "confirming", "claiming")
  /\ moment' = [moment EXCEPT ![h] = clock]
  /\ UNCHANGED <<row, audit, clock, req, seen, poisoned, call>>

(* _fail_integrity and _expire write by primary key whatever the row holds *)
(* by now; the unit of work leaves a column out when the cached value is   *)
(* already the new one.                                                    *)
FailIntegrity(h) ==
  /\ Move(h, "failing", "refused")
  /\ \/ /\ IF seen[h].status = "failed" THEN UNCHANGED status
                                        ELSE SetStatus(Target(h), "failed")
        /\ Log(Target(h), "tampered")
     \/ "audit" \in Environment /\ UNCHANGED <<status, audit>>
  /\ UNCHANGED <<args, digest, shown, expires, owner, clock, req, seen, moment, poisoned, call>>

Expire(h) ==
  /\ Move(h, "expiring", "refused")
  /\ \/ SetStatus(Target(h), "expired") /\ Log(Target(h), "expired")
     \/ "audit" \in Environment /\ UNCHANGED <<status, audit>>
  /\ UNCHANGED <<args, digest, shown, expires, owner, clock, req, seen, moment, poisoned, call>>

(* Mutant: the conditional UPDATE forgets the status.                      *)
ClaimableByTime(h) == moment[h] < expires[Target(h)]

(* UPDATE ... WHERE status = 'pending' AND expires_at > :moment            *)
Claimable(h) == status[Target(h)] = "pending" /\ moment[h] < expires[Target(h)]

Claim(h) ==
  /\ Claimable(h)
  /\ Move(h, "claiming", "granted")
  /\ SetStatus(Target(h), "approved")
  /\ seen' = [seen EXCEPT ![h] = [status |-> "approved", args |-> args[Target(h)]]]
  /\ Log(Target(h), "confirmed")
  /\ UNCHANGED <<args, digest, shown, expires, owner, clock, req, moment, poisoned, call>>

(* Mutant: a lost claim is tried again instead of refused.                 *)
LoseClaimRetries(h) ==
  /\ ~ Claimable(h)
  /\ Move(h, "claiming", "claiming")
  /\ UNCHANGED <<row, audit, clock, req, seen, moment, poisoned, call>>

LoseClaim(h) ==
  /\ ~ Claimable(h)
  /\ Move(h, "claiming", "refused")
  /\ UNCHANGED <<row, audit, clock, req, seen, moment, poisoned, call>>

(* The audit entry of a decision cannot be written: the commit that        *)
(* follows raises and the request's whole transaction is rolled back.      *)
DecisionRolledBack(h) ==
  /\ "audit" \in Environment
  /\ \/ Claimable(h) /\ Move(h, "claiming", "error")
     \/ status[Target(h)] = "pending" /\ Move(h, "declining", "error")
  /\ UNCHANGED <<row, audit, clock, req, seen, moment, poisoned, call>>

RefuseReject(h) ==
  /\ ~ Authorized(h) \/ seen[h].status # "pending"
  /\ Move(h, "rejecting", "refused")
  /\ UNCHANGED <<row, audit, clock, req, seen, moment, poisoned, call>>

BeginReject(h) ==
  /\ Authorized(h) /\ seen[h].status = "pending"
  /\ Move(h, "rejecting", "declining")
  /\ UNCHANGED <<row, audit, clock, req, seen, moment, poisoned, call>>

(* Mutant: the rejection is written whatever the row holds by now.         *)
RejectUnconditionally(h) ==
  /\ Move(h, "declining", "declined")
  /\ SetStatus(Target(h), "rejected")
  /\ Log(Target(h), "rejected")
  /\ UNCHANGED <<args, digest, shown, expires, owner, clock, req, seen, moment, poisoned, call>>

Reject(h) ==
  /\ status[Target(h)] = "pending"
  /\ Move(h, "declining", "declined")
  /\ SetStatus(Target(h), "rejected")
  /\ Log(Target(h), "rejected")
  /\ UNCHANGED <<args, digest, shown, expires, owner, clock, req, seen, moment, poisoned, call>>

LoseReject(h) ==
  /\ status[Target(h)] # "pending"
  /\ Move(h, "declining", "refused")
  /\ UNCHANGED <<row, audit, clock, req, seen, moment, poisoned, call>>

-----------------------------------------------------------------------------
(* ToolExecutionService.execute with a grant.  The grant's arguments are   *)
(* those of the refreshed copy, so the copy stands for both.               *)

(* The tool left the catalog, or its schema no longer accepts the          *)
(* arguments: the call is denied and the row is not touched.               *)
ToolGone(h) ==
  /\ "catalog" \in Environment
  /\ Move(h, "granted", "reported")
  /\ Record(h, "blocked")
  /\ UNCHANGED <<row, clock, req, seen, moment, call>>

(* Mutant: the hash is not verified again before the execution.            *)
VerifyGrantWithoutHash(h) ==
  /\ seen[h].status = "approved" /\ ~ Expired(Target(h))
  /\ Move(h, "granted", "verified")
  /\ UNCHANGED <<row, audit, clock, req, seen, moment, poisoned, call>>

VerifyGrant(h) ==
  /\ seen[h].status = "approved" /\ ~ Expired(Target(h)) /\ Intact(h)
  /\ Move(h, "granted", "verified")
  /\ UNCHANGED <<row, audit, clock, req, seen, moment, poisoned, call>>

GrantExpired(h) ==
  /\ Expired(Target(h))
  /\ Move(h, "granted", "expiring")
  /\ UNCHANGED <<row, audit, clock, req, seen, moment, poisoned, call>>

GrantTampered(h) ==
  /\ ~ Expired(Target(h)) /\ ~ Intact(h)
  /\ Move(h, "granted", "failing")
  /\ UNCHANGED <<row, audit, clock, req, seen, moment, poisoned, call>>

RecordStart(h) ==
  /\ Move(h, "verified", "started")
  /\ Record(h, "started")
  /\ UNCHANGED <<row, clock, req, seen, moment, call>>

Dispatch(h) ==
  /\ Move(h, "started", "waiting")
  /\ call' = [call EXCEPT ![h] = "sent"]
  /\ UNCHANGED <<row, audit, clock, req, seen, moment, poisoned>>

(* No connected server, or no such tool: nothing is sent.                  *)
DispatchFails(h) ==
  /\ Move(h, "started", "mark_failed")
  /\ Record(h, "call_failed")
  /\ UNCHANGED <<row, clock, req, seen, moment, call>>

CallSucceeds(h) ==
  /\ call[h] = "performed"
  /\ Move(h, "waiting", "mark_executed")
  /\ Record(h, "succeeded")
  /\ UNCHANGED <<row, clock, req, seen, moment, call>>

(* Mutant: a timeout counts as success.                                    *)
TimeoutCountsAsSuccess(h) ==
  /\ Move(h, "waiting", "mark_executed")
  /\ Record(h, "succeeded")
  /\ UNCHANGED <<row, clock, req, seen, moment, call>>

(* The tool reported an error, or the answer did not come within           *)
(* agent_tool_timeout_seconds, whatever the server did or will do.         *)
CallFails(h) ==
  /\ Move(h, "waiting", "mark_failed")
  /\ Record(h, "call_failed")
  /\ UNCHANGED <<row, clock, req, seen, moment, call>>

MarkExecuted(h) ==
  /\ ~ poisoned[h]
  /\ Move(h, "mark_executed", "close_executed")
  /\ SetStatus(Target(h), "executed")
  /\ UNCHANGED <<args, digest, shown, expires, owner, audit, clock, req, seen, moment, poisoned, call>>

(* Mutant: a failed execution leaves the row APPROVED.                     *)
MarkFailedForgotten(h) ==
  /\ ~ poisoned[h]
  /\ Move(h, "mark_failed", "close_failed")
  /\ UNCHANGED <<row, audit, clock, req, seen, moment, poisoned, call>>

MarkFailed(h) ==
  /\ ~ poisoned[h]
  /\ Move(h, "mark_failed", "close_failed")
  /\ SetStatus(Target(h), "failed")
  /\ UNCHANGED <<args, digest, shown, expires, owner, audit, clock, req, seen, moment, poisoned, call>>

(* The flush of mark_executed / mark_failed hits the poisoned session.     *)
MarkRaises(h) ==
  /\ poisoned[h]
  /\ Move(h, "mark_executed", "error") \/ Move(h, "mark_failed", "error")
  /\ UNCHANGED <<row, audit, clock, req, seen, moment, poisoned, call>>

(* Last audit entry; when it is lost the conversation writes that follow   *)
(* raise on the poisoned session.                                          *)
Close(h) ==
  /\ \/ /\ Move(h, "close_executed", "answered") /\ Log(Target(h), "executed")
     \/ /\ Move(h, "close_failed", "reported") /\ Log(Target(h), "not_executed")
     \/ /\ "audit" \in Environment /\ UNCHANGED audit
        /\ Move(h, "close_executed", "error") \/ Move(h, "close_failed", "error")
  /\ UNCHANGED <<row, clock, req, seen, moment, poisoned, call>>

-----------------------------------------------------------------------------
(* The tool server: it performs a call it was sent, or refuses it, at any  *)
(* time, also when nobody waits for the answer any more.                   *)
Perform(h) ==
  /\ call[h] = "sent"
  /\ call' = [call EXCEPT ![h] = "performed"]
  /\ UNCHANGED <<row, audit, clock, pc, req, seen, moment, poisoned>>

RefuseCall(h) ==
  /\ call[h] = "sent"
  /\ call' = [call EXCEPT ![h] = "not_performed"]
  /\ UNCHANGED <<row, audit, clock, pc, req, seen, moment, poisoned>>

(* The API process dies or is redeployed; what was not committed is gone.  *)
Crash(h) ==
  /\ "crash" \in Environment
  /\ pc[h] \notin Replied \cup {"idle"}
  /\ pc' = [pc EXCEPT ![h] = "lost"]
  /\ UNCHANGED <<row, audit, clock, req, seen, moment, poisoned, call>>

(* expire_stale: one bulk UPDATE; no component of the application calls it.*)
ExpireStale ==
  /\ "sweeper" \in Environment
  /\ status' = [a \in Approvals |->
                  IF status[a] = "pending" /\ Expired(a) THEN "expired" ELSE status[a]]
  /\ UNCHANGED <<args, digest, shown, expires, owner, audit, clock, pc, req, seen,
                 moment, poisoned, call>>

(* Somebody edits the stored arguments behind the application's back.      *)
Tamper(a, x) ==
  /\ "tamper" \in Environment
  /\ status[a] # "absent"
  /\ args' = [args EXCEPT ![a] = x]
  /\ UNCHANGED <<status, digest, shown, expires, owner, audit, clock, pc, req, seen,
                 moment, poisoned, call>>

Tick ==
  /\ clock < MaxTime
  /\ clock' = clock + 1
  /\ UNCHANGED <<row, audit, pc, req, seen, moment, poisoned, call>>

(* Every request has been answered; nothing more is asked of the service.  *)
Quiescent ==
  /\ \A h \in Handlers : pc[h] \in Replied
  /\ UNCHANGED vars

-----------------------------------------------------------------------------
Decide(h) ==
  \/ RefuseConfirm(h) \/ DetectTampering(h) \/ DetectExpiry(h) \/ BeginClaim(h)
  \/ FailIntegrity(h) \/ Expire(h) \/ Claim(h) \/ LoseClaim(h) \/ DecisionRolledBack(h)
  \/ RefuseReject(h) \/ BeginReject(h) \/ Reject(h) \/ LoseReject(h)

ExecuteApproved(h) ==
  \/ ToolGone(h) \/ VerifyGrant(h) \/ GrantExpired(h) \/ GrantTampered(h)
  \/ RecordStart(h) \/ Dispatch(h) \/ DispatchFails(h) \/ CallSucceeds(h) \/ CallFails(h)
  \/ MarkExecuted(h) \/ MarkFailed(h) \/ MarkRaises(h) \/ Close(h)

Next ==
  \/ \E a \in Approvals, x \in Args : CreateRequest(a, x)
  \/ \E h \in Handlers : Arrive(h)
  \/ \E h \in Handlers : Decide(h)
  \/ \E h \in Handlers : ExecuteApproved(h)
  \/ \E h \in Handlers : Perform(h) \/ RefuseCall(h)
  \/ \E h \in Handlers : Crash(h)
  \/ \E a \in Approvals, x \in Args : Tamper(a, x)
  \/ ExpireStale
  \/ Tick
  \/ Quiescent

Spec == Init /\ [][Next]_vars

(* The event loop keeps running a request it has started: every await of a *)
(* handler returns, the one on the tool server at the latest when its      *)
(* timeout fires.  Nothing is assumed of callers, of the clock, of the     *)
(* tool server or of the environment.                                      *)
Fairness == \A h \in Handlers : WF_vars(Decide(h) \/ ExecuteApproved(h))

FairSpec == Spec /\ Fairness
-----------------------------------------------------------------------------
(* Types of the row, of the handlers and of the calls they send.           *)
TypeOK ==
  /\ status \in [Approvals -> Status]
  /\ args \in [Approvals -> Args \cup {NoArgs}]
  /\ DOMAIN digest = Approvals
  /\ shown \in [Approvals -> Args \cup {NoArgs}]
  /\ expires \in [Approvals -> Nat]
  /\ owner \in [Approvals -> Users]
  /\ audit \in [Approvals -> SUBSET Events]
  /\ clock \in Nat
  /\ pc \in [Handlers -> Labels]
  /\ req \in [Handlers -> [op : {"confirm", "reject"}, user : Users, id : Approvals]]
  /\ seen \in [Handlers -> [status : Status, args : Args \cup {NoArgs}]]
  /\ moment \in [Handlers -> Nat]
  /\ poisoned \in [Handlers -> BOOLEAN]
  /\ call \in [Handlers -> {"none", "sent", "performed", "not_performed"}]

Sent(h) == call[h] # "none"

(* An approval authorises one execution: however confirmations, retries,   *)
(* crashes and late answers interleave, two requests never both send the   *)
(* call of one approval (approval_service.py, "atomic and single-use").    *)
AtMostOneDispatch ==
  \A g, h \in Handlers : Sent(g) /\ Sent(h) /\ Target(g) = Target(h) => g = h

(* The payload sent is the one whose summary the human read, even when the *)
(* stored arguments are edited at any moment in between.                   *)
SentAsShown == \A h \in Handlers : Sent(h) => seen[h].args = shown[Target(h)]

(* Nothing is sent without the durable record of a confirmation by someone *)
(* entitled to it, and a rejected request is never sent at all.            *)
SentWithConsent ==
  \A h \in Handlers : Sent(h) =>
    /\ "confirmed" \in audit[Target(h)]
    /\ "rejected" \notin audit[Target(h)]
    /\ MayDecide(req[h].user, Target(h))

(* A caller told no (4xx) caused nothing; a caller told the action ran may *)
(* rely on the tool server having performed it.                            *)
AnswersAreTrue ==
  \A h \in Handlers :
    /\ pc[h] \in {"refused", "declined"} => ~ Sent(h)
    /\ pc[h] = "answered" => call[h] = "performed" /\ "executed" \in audit[Target(h)]

(* A row that says EXECUTED has a performed call behind it, and an audit   *)
(* trail that starts with the confirmation.                                *)
ExecutedWasPerformed ==
  \A a \in Approvals : status[a] = "executed" =>
    /\ "confirmed" \in audit[a]
    /\ \E h \in Handlers : Target(h) = a /\ call[h] = "performed"

(* A decision is never taken twice or taken back: once a request has left  *)
(* PENDING, no stale write, late sweep or replay makes it pending, approved*)
(* or rejected again.                                                      *)
DecidedOnce ==
  [][\A a \in Approvals :
       status[a] \notin {"absent", "pending"} /\ status'[a] # status[a]
         => status'[a] \in {"expired", "executed", "failed"}]_vars

(* Every request that has arrived is answered.                             *)
RequestsEnd == \A h \in Handlers : pc[h] # "idle" ~> pc[h] \in Replied

(* With no crash, no lost audit entry and no vanished tool, an approved    *)
(* request does not stay APPROVED: it ends executed, failed or expired.    *)
ApprovedIsSettled ==
  \A a \in Approvals : status[a] = "approved" ~> status[a] \in Terminal

-----------------------------------------------------------------------------
(* The inductive invariant behind the safety properties above.             *)

Acting == {"granted", "verified", "started", "waiting", "mark_executed", "mark_failed",
           "close_executed", "close_failed", "answered"}
Holder(h) == pc[h] \in Acting \/ Sent(h)
Decided(a) == status[a] \notin {"absent", "pending"}

(* A row that exists carries the digest of what was shown.                 *)
RowInv ==
  \A a \in Approvals : status[a] # "absent" =>
    args[a] \in Args /\ shown[a] \in Args /\ digest[a] = Digest[shown[a]]

(* The two decisions exclude each other and leave PENDING for good.        *)
AuditInv ==
  \A a \in Approvals :
    /\ "confirmed" \in audit[a] \/ "rejected" \in audit[a] => Decided(a)
    /\ ~ ("confirmed" \in audit[a] /\ "rejected" \in audit[a])

(* At most one handler ever holds the right to act on a row, and it got it *)
(* by a claim that is on record.                                           *)
HolderInv ==
  /\ \A g, h \in Handlers : Holder(g) /\ Holder(h) /\ Target(g) = Target(h) => g = h
  /\ \A h \in Handlers : Holder(h) =>
       /\ Decided(Target(h))
       /\ "confirmed" \in audit[Target(h)]
       /\ MayDecide(req[h].user, Target(h))
       /\ seen[h].args \in Args
       /\ pc[h] = "granted" \/ seen[h].args = shown[Target(h)]

(* Where a handler stands tells what it may have sent and what it knows.   *)
HandlerInv ==
  \A h \in Handlers :
    /\ seen[h].status # "absent" \/ pc[h] \in {"failing", "expiring"}
         => status[Target(h)] # "absent"
    /\ pc[h] \in {"claiming", "declining"} => MayDecide(req[h].user, Target(h))
    /\ pc[h] \in {"idle", "confirming", "rejecting", "failing", "expiring", "claiming",
                   "declining", "granted", "verified", "started", "refused", "declined"}
         => ~ Sent(h)
    /\ pc[h] \in {"mark_executed", "close_executed", "answered"} => call[h] = "performed"
    /\ pc[h] = "answered" => "executed" \in audit[Target(h)]

IInv ==
  /\ TypeOK /\ RowInv /\ AuditInv /\ HolderInv /\ HandlerInv
  /\ ExecutedWasPerformed

-----------------------------------------------------------------------------
(* What comments of the repository say and the code does not do.           *)

(* approval.py: "Statuses from which no further transition is possible."   *)
TerminalIsFinal ==
  [][\A a \in Approvals : status[a] \in Terminal => status'[a] = status[a]]_vars

(* audit_service.py: a failure to write an audit row does not propagate,   *)
(* so no request ends in a server error because of it.                     *)
AuditNeverBreaksRequest == \A h \in Handlers : pc[h] # "error"
==============================================================================

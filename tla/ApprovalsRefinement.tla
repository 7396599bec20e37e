------------------------- MODULE ApprovalsRefinement -------------------------
(***************************************************************************)
(* The approval subsystem implements the abstract gate.  The decision is   *)
(* read off the audit trail and not off the status alone, because a stale  *)
(* EXPIRED or FAILED may overwrite the status of a request already allowed.*)
(***************************************************************************)
EXTENDS Approvals

decision ==
  [a \in Approvals |->
     IF "confirmed" \in audit[a] THEN "allowed"
     ELSE IF status[a] = "absent" THEN "none"
     ELSE IF status[a] = "pending" THEN "open"
     ELSE "barred"]

effect ==
  [a \in Approvals |->
     IF \E h \in Handlers : Sent(h) /\ Target(h) = a
     THEN seen[CHOOSE h \in Handlers : Sent(h) /\ Target(h) = a].args
     ELSE NoArgs]

Gate == INSTANCE ApprovalGate WITH proposal <- shown

(* Every step of the subsystem is a step of the gate, or changes nothing   *)
(* the gate speaks of.                                                     *)
ImplementsGate == Gate!Spec
==============================================================================

----------------------------- MODULE ApprovalGate -----------------------------
(***************************************************************************)
(* What the approval subsystem promises, without handlers, sessions,       *)
(* expiry or integrity checks: an action is proposed with a payload, one   *)
(* decision is taken, and an action that was allowed is released at most   *)
(* once, with the payload that was proposed.                               *)
(***************************************************************************)
CONSTANTS Approvals, Args, NoArgs

VARIABLES
  decision,   \* "none" before the proposal, then open, and allowed or barred
  proposal,   \* the payload proposed
  effect      \* the payload released, NoArgs if none

gate == <<decision, proposal, effect>>

Init ==
  /\ decision = [a \in Approvals |-> "none"]
  /\ proposal = [a \in Approvals |-> NoArgs]
  /\ effect = [a \in Approvals |-> NoArgs]

Propose(a, x) ==
  /\ decision[a] = "none"
  /\ decision' = [decision EXCEPT ![a] = "open"]
  /\ proposal' = [proposal EXCEPT ![a] = x]
  /\ UNCHANGED effect

Allow(a) ==
  /\ decision[a] = "open"
  /\ decision' = [decision EXCEPT ![a] = "allowed"]
  /\ UNCHANGED <<proposal, effect>>

(* Rejected, expired or taken out of play; a sweep bars several at once.   *)
Bar(S) ==
  /\ \A a \in S : decision[a] = "open"
  /\ decision' = [a \in Approvals |-> IF a \in S THEN "barred" ELSE decision[a]]
  /\ UNCHANGED <<proposal, effect>>

Release(a) ==
  /\ decision[a] = "allowed"
  /\ effect[a] = NoArgs
  /\ effect' = [effect EXCEPT ![a] = proposal[a]]
  /\ UNCHANGED <<decision, proposal>>

Next ==
  \/ \E a \in Approvals, x \in Args : Propose(a, x)
  \/ \E a \in Approvals : Allow(a) \/ Release(a)
  \/ \E S \in SUBSET Approvals : Bar(S)

Spec == Init /\ [][Next]_gate
==============================================================================

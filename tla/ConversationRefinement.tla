----------------------- MODULE ConversationRefinement -----------------------
(***************************************************************************)
(* The approvals of a conversation implement the abstract gate as well,    *)
(* with the call a chat proposed as the payload: the gate does not depend  *)
(* on how far the transcript around it got.                                *)
(***************************************************************************)
EXTENDS Conversation

(* What was claimed stays allowed, whatever its row says later.            *)
decision ==
  [a \in Chats |->
     CASE \E k \in granted : decides[k] = a -> "allowed"
       [] OTHER -> CASE approval[a].status = "none" -> "none"
                     [] approval[a].status = "pending" -> "open"
                     [] OTHER -> "barred"]

proposal == [a \in Chats |-> approval[a].call]

(* What was carried out more than once is no payload of the gate.          *)
effect ==
  [a \in Chats |->
     CASE performed[a] = 0 -> NoCall
       [] performed[a] = 1 -> approval[a].call
       [] OTHER -> Call(Nobody, performed[a])]

Proposable(a) == {Call(a, n) : n \in 1 .. MaxRounds[a] * MaxCalls[a]}

Gate == INSTANCE ApprovalGate WITH
          Approvals <- Chats, Args <- UNION {Proposable(a) : a \in Chats}, NoArgs <- NoCall

(* Every step of a conversation is a step of the gate, or changes nothing  *)
(* the gate speaks of.                                                     *)
ConfirmsOnce == Gate!Spec
=============================================================================

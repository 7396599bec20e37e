--------------------------- MODULE MCConversation ---------------------------
EXTENDS ConversationRefinement, TLC

CONSTANTS c1, c2, k1, k2

(* One chat may call tools, two of them at once; another one only answers. *)
MCRounds == [c \in Chats |-> IF c = c1 THEN 1 ELSE 0]
MCCalls == [c \in Chats |-> 2]

(* The bound of the run: any two requests race, whatever came before them. *)
TwoAtWork == Cardinality({r \in Requests : pc[r] \notin Over \cup {"idle"}}) <= 2

ConfirmSymmetry == Permutations(Confirms)
==============================================================================

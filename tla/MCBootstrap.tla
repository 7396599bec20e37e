----------------------------- MODULE MCBootstrap -----------------------------
EXTENDS Bootstrap

CONSTANTS p1, p2, r1

(* The request is sent to the first of the two processes.                  *)
MCHost == [r \in Requests |-> p1]
==============================================================================

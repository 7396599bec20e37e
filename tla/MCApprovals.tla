---------------------------- MODULE MCApprovals ----------------------------
EXTENDS ApprovalsRefinement, TLC

CONSTANTS ann, bob, root, h1, h2, h3, a1, a2, benign, altered

MCRole == [u \in Users |-> CASE u = ann -> "operator" [] u = bob -> "viewer" [] OTHER -> "admin"]

(* The digest is one to one on the payloads and is none of them.           *)
MCDigest == [x \in Args \cup {NoArgs} |-> <<"sha256", x>>]

HandlerSymmetry == Permutations(Handlers)
==============================================================================

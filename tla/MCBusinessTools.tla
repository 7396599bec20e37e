---------------------------- MODULE MCBusinessTools ----------------------------
EXTENDS BusinessTools, TLC

CONSTANTS c1, c2, c3, ada, Ada, a_a, ann, bob

(* One address in two spellings, and one that is a wildcard for the other. *)
MCSpellings == {Ada, a_a}
MCNormal == (Ada :> ada) @@ (a_a :> a_a)
MCFits == {<<Ada, ada>>, <<a_a, a_a>>, <<a_a, ada>>}

(* Today is the ticks 3 to 5: into today, its last tick, and backwards.    *)
MCSlots == {<<2, 4>>, <<3, 6>>, <<5, 6>>, <<4, 3>>}

(* Day 1 is in this week, day -7 begins the previous one, -8 is in neither. *)
MCSales ==
  {[day |-> 0, product |-> "p", region |-> None, amount |-> 1],
   [day |-> 1, product |-> "q", region |-> "r", amount |-> 2],
   [day |-> -7, product |-> "q", region |-> "r", amount |-> 4],
   [day |-> 0, product |-> "p", region |-> "r", amount |-> -1]}
MCPeriods == {<<1, 0>>}

MCMessages ==
  {[to |-> {ann}, cc |-> {}, valid |-> TRUE], [to |-> {ann}, cc |-> {bob}, valid |-> TRUE],
   [to |-> {}, cc |-> {bob}, valid |-> TRUE], [to |-> {ann}, cc |-> {}, valid |-> FALSE]}

MCSymmetry == Permutations(Calls)
================================================================================

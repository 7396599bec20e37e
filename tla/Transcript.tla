------------------------------ MODULE Transcript ------------------------------
(***************************************************************************)
(* How stored turns are read back for the model: the newest ones, in       *)
(* order, without the tool results whose call is not among them.           *)
(*                                                                         *)
(* A turn is a record with its sequence number, its role, the calls an     *)
(* assistant turn proposes and the call a tool turn answers.               *)
(***************************************************************************)
EXTENDS Integers, Sequences, SequencesExt

(* Turns by their sequence numbers, which run from 1 without a gap.        *)
InOrder(rows) ==
  [i \in 1 .. Cardinality({m.seq : m \in rows}) |-> CHOOSE m \in rows : m.seq = i]

(* Mutant: the limit is applied before the order is reversed.              *)
WindowOldest(rows, limit) ==
  LET t == InOrder(rows)
      n == IF limit < 1 THEN 1 ELSE limit
  IN  SubSeq(t, 1, IF Len(t) <= n THEN Len(t) ELSE n)

(* list_messages: newest turns first, cut at the clamped limit, reversed.  *)
Window(rows, limit) ==
  LET t == InOrder(rows)
      n == IF limit < 1 THEN 1 ELSE limit
  IN  IF Len(t) <= n THEN t ELSE SubSeq(t, Len(t) - n + 1, Len(t))

(* Mutant: only the calls of the latest assistant turn are known.          *)
RepairLatest(turns) ==
  FoldLeft(LAMBDA acc, m :
             CASE m.role = "assistant" -> [known |-> m.calls, kept |-> Append(acc.kept, m)]
               [] m.role = "tool" /\ m.answers \notin acc.known -> acc
               [] OTHER -> [acc EXCEPT !.kept = Append(@, m)],
           [known |-> {}, kept |-> <<>>], turns).kept

(* _repair_dangling_tool_messages: one pass with the calls met so far.     *)
Repair(turns) ==
  FoldLeft(LAMBDA acc, m :
             CASE m.role = "assistant" ->
                    [known |-> acc.known \cup m.calls, kept |-> Append(acc.kept, m)]
               [] m.role = "tool" /\ m.answers \notin acc.known -> acc
               [] OTHER -> [acc EXCEPT !.kept = Append(@, m)],
           [known |-> {}, kept |-> <<>>], turns).kept

Replay(rows, limit) == Repair(Window(rows, limit))

(* What the pass is for, without a pass: the turns of the window stay in   *)
(* their order, a tool result exactly if an earlier one proposed its call. *)
Anchored(turns, m) ==
  m.role = "tool" => \E x \in ToSet(turns) : x.seq < m.seq /\ m.answers \in x.calls

Repaired(turns, kept) ==
  /\ ToSet(kept) = {m \in ToSet(turns) : Anchored(turns, m)}
  /\ \A i, j \in DOMAIN kept : i < j => kept[i].seq < kept[j].seq
==============================================================================

------------------------------- MODULE AgentRun -------------------------------
(***************************************************************************)
(* One run of the LangGraph workflow: load_context, discover_tools, then   *)
(* plan / execute_tools / validate_results in a loop, then respond.        *)
(*                                                                         *)
(* Calls are numbered in the order the model proposes them, so the calls a *)
(* plan adds are the numbers after those proposed before.  execute_tools   *)
(* awaits twice per call, on the tool and on the commit of its result, and *)
(* a run that is killed or raises may end between the two.                 *)
(***************************************************************************)
EXTENDS Naturals

CONSTANTS
  MaxIterations,   \* largest agent_max_iterations considered
  MaxCalls         \* most calls one completion proposes

ASSUME LimitsAssumption == MaxIterations \in Nat /\ MaxCalls \in Nat \ {0}

VARIABLES
  node,        \* the node that runs, or how the run ended
  budget,      \* state.max_iterations
  iteration,   \* state.iteration
  calls,       \* state.tool_calls not executed yet
  outcome,     \* what became of the call in hand, "none" before it ran
  ok,          \* calls with a successful result in state.tool_results
  failed,      \* calls with a failed result
  pending,     \* state.pending_approval is set
  status,      \* state.status
  final,       \* state.final_response is a non-empty string
  errors,      \* kinds of entries of state.errors
  proposed,    \* calls persisted in assistant messages of this run
  performed,   \* calls a tool server carried out
  completions, \* calls made to the language model
  steps        \* nodes the graph has run

vars == <<node, budget, iteration, calls, outcome, ok, failed, pending, status,
          final, errors, proposed, performed, completions, steps>>

Nodes == {"load_context", "discover_tools", "plan", "execute_tools", "validate_results",
          "respond"}
Answered == ok \cup failed

Init ==
  /\ node = "load_context"
  /\ budget \in 0 .. MaxIterations
  /\ iteration = 0
  /\ calls = {} /\ outcome = "none" /\ ok = {} /\ failed = {}
  /\ pending = FALSE
  /\ status = "running"
  /\ final = FALSE
  /\ errors = {}
  /\ proposed = 0 /\ performed = {} /\ completions = 0 /\ steps = 0

Leave(from, to) == node = from /\ node' = to /\ steps' = steps + 1

Exhausted == iteration >= budget

-----------------------------------------------------------------------------
(* add_user_message has run; the history is read back, repaired.           *)
LoadContext ==
  /\ Leave("load_context", "discover_tools")
  /\ UNCHANGED <<budget, iteration, calls, outcome, ok, failed, pending, status, final,
                 errors, proposed, performed, completions>>

(* The catalog snapshot may be empty; the run goes on all the same.        *)
DiscoverTools ==
  /\ Leave("discover_tools", "plan")
  /\ errors' \in {errors, errors \cup {"no_tools"}}
  /\ UNCHANGED <<budget, iteration, calls, outcome, ok, failed, pending, status, final,
                 proposed, performed, completions>>

PlanBudget ==
  /\ Exhausted
  /\ Leave("plan", "respond")
  /\ errors' = errors \cup {"step_limit"}
  /\ calls' = {} /\ final' = FALSE /\ status' = "running"
  /\ UNCHANGED <<budget, iteration, outcome, ok, failed, pending, proposed, performed,
                 completions>>

PlanFails ==
  /\ ~ Exhausted
  /\ Leave("plan", "respond")
  /\ completions' = completions + 1
  /\ status' = "failed"
  /\ errors' = errors \cup {"llm"}
  /\ final' = TRUE
  /\ UNCHANGED <<budget, iteration, calls, outcome, ok, failed, pending, proposed,
                 performed>>

(* The model answers; its text may be empty.                               *)
PlanAnswers ==
  /\ ~ Exhausted
  /\ Leave("plan", "respond")
  /\ completions' = completions + 1
  /\ iteration' = iteration + 1
  /\ calls' = {}
  /\ final' \in BOOLEAN
  /\ UNCHANGED <<budget, outcome, ok, failed, pending, status, errors, proposed,
                 performed>>

PlanCalls ==
  /\ ~ Exhausted
  /\ Leave("plan", "execute_tools")
  /\ completions' = completions + 1
  /\ iteration' = iteration + 1
  /\ \E n \in 1 .. MaxCalls : /\ proposed' = proposed + n
                              /\ calls' = (proposed + 1) .. (proposed + n)
  /\ final' = FALSE
  /\ UNCHANGED <<budget, outcome, ok, failed, pending, status, errors, performed>>

-----------------------------------------------------------------------------
(* Calls run one after the other, in the order proposed.                   *)
InHand(c) == c \in calls /\ \A d \in calls : c <= d

(* The tool carries the call out; the answer may be an error or too late.  *)
CallPerformed(c) ==
  /\ node = "execute_tools" /\ outcome = "none" /\ InHand(c)
  /\ performed' = performed \cup {c}
  /\ outcome' \in {"success", "failure"}
  /\ UNCHANGED <<node, budget, iteration, calls, ok, failed, pending, status, final,
                 errors, proposed, completions, steps>>

(* Unknown tool, invalid arguments, policy denial, no server, AppError.    *)
CallBlocked(c) ==
  /\ node = "execute_tools" /\ outcome = "none" /\ InHand(c)
  /\ outcome' = "failure"
  /\ UNCHANGED <<node, budget, iteration, calls, ok, failed, pending, status, final,
                 errors, proposed, performed, completions, steps>>

CallNeedsApproval(c) ==
  /\ node = "execute_tools" /\ outcome = "none" /\ InHand(c)
  /\ outcome' = "approval"
  /\ UNCHANGED <<node, budget, iteration, calls, ok, failed, pending, status, final,
                 errors, proposed, performed, completions, steps>>

FileResult(c) ==
  IF outcome = "success"
  THEN ok' = ok \cup {c} /\ UNCHANGED failed
  ELSE failed' = failed \cup {c} /\ UNCHANGED ok

(* Mutant: the calls after the one that needs approval are run as well.    *)
QueueContinued(c) == calls \ {c}

(* The first call that needs approval breaks the loop.                     *)
Queue(c) == IF outcome = "approval" THEN {} ELSE calls \ {c}

(* Mutant: the node does not end after its last call.                      *)
EndlessExecution == UNCHANGED <<node, steps>>

EndExecution ==
  IF calls' = {} THEN Leave("execute_tools", "validate_results")
                 ELSE UNCHANGED <<node, steps>>

(* The result is committed to the transcript; then the next call, or the   *)
(* node ends: after the last call, or early when an approval is needed.    *)
RecordResult(c) ==
  /\ node = "execute_tools" /\ outcome # "none" /\ InHand(c)
  /\ FileResult(c)
  /\ pending' = (outcome = "approval")
  /\ errors' = IF outcome = "failure" THEN errors \cup {"tool"} ELSE errors
  /\ calls' = Queue(c)
  /\ outcome' = "none"
  /\ EndExecution
  /\ UNCHANGED <<budget, iteration, status, final, proposed, performed, completions>>

-----------------------------------------------------------------------------
(* tool_calls is empty by now, so "recent" is every result of the run.     *)
AllFailed == failed # {} /\ ok = {}

ValidatePaused ==
  /\ pending
  /\ Leave("validate_results", "respond")
  /\ status' = "awaiting_approval"
  /\ UNCHANGED <<budget, iteration, calls, outcome, ok, failed, pending, final, errors,
                 proposed, performed, completions>>

(* The warning about repeated failures changes nothing in the routing.     *)
Validate ==
  /\ ~ pending
  /\ IF AllFailed /\ iteration >= 2
     THEN /\ errors' = errors \cup {"repeated"}
          /\ status' = "running" /\ final' = FALSE
     ELSE UNCHANGED <<errors, status, final>>
  /\ Leave("validate_results", IF final' \/ Exhausted THEN "respond" ELSE "plan")
  /\ UNCHANGED <<budget, iteration, calls, outcome, ok, failed, pending, proposed,
                 performed, completions>>

(* Mutant: a failure recorded upstream is overwritten.                     *)
ClosingStatusOverwritten == IF pending THEN "awaiting_approval" ELSE "completed"

ClosingStatus ==
  IF status = "failed" THEN "failed"
  ELSE IF pending THEN "awaiting_approval"
  ELSE "completed"

(* An empty answer is replaced by a summary of what was gathered.          *)
Respond ==
  /\ Leave("respond", "end")
  /\ status' = ClosingStatus
  /\ final' = TRUE
  /\ UNCHANGED <<budget, iteration, calls, outcome, ok, failed, pending, errors,
                 proposed, performed, completions>>

(* A commit fails, or the process goes away: the run ends where it stands. *)
Abort ==
  /\ node \in Nodes
  /\ node' = "aborted"
  /\ UNCHANGED <<budget, iteration, calls, outcome, ok, failed, pending, status, final,
                 errors, proposed, performed, completions, steps>>

Ended == node \in {"end", "aborted"} /\ UNCHANGED vars

Plan == PlanBudget \/ PlanFails \/ PlanAnswers \/ PlanCalls

ExecuteTools ==
  \E c \in calls : \/ CallPerformed(c) \/ CallBlocked(c) \/ CallNeedsApproval(c)
                   \/ RecordResult(c)

Run ==
  \/ LoadContext \/ DiscoverTools
  \/ Plan \/ ExecuteTools
  \/ ValidatePaused \/ Validate
  \/ Respond

Next == Run \/ Abort \/ Ended

Spec == Init /\ [][Next]_vars

(* The graph runs its next node as long as the process lives: every await  *)
(* inside a node returns or times out.                                     *)
FairSpec == Spec /\ WF_vars(Run)
-----------------------------------------------------------------------------
(* Types of the graph state.                                               *)
TypeOK ==
  /\ node \in Nodes \cup {"end", "aborted"}
  /\ budget \in 0 .. MaxIterations
  /\ iteration \in Nat
  /\ calls \in SUBSET Nat /\ ok \in SUBSET Nat /\ failed \in SUBSET Nat
  /\ outcome \in {"none", "success", "failure", "approval"}
  /\ pending \in BOOLEAN
  /\ status \in {"running", "completed", "awaiting_approval", "failed"}
  /\ final \in BOOLEAN
  /\ errors \subseteq {"no_tools", "step_limit", "llm", "tool", "repeated"}
  /\ proposed \in Nat /\ performed \in SUBSET Nat
  /\ completions \in Nat /\ steps \in Nat

(* The loop is bounded by the iteration ceiling whatever the model asks    *)
(* for: in completions paid for and in nodes run (architecture.md).        *)
Bounded == completions <= budget /\ steps <= 3 * budget + 4

(* Once the approval of a call is asked for, the run neither calls another *)
(* tool nor asks the model again: a human acts first.                      *)
PauseStops ==
  [][outcome = "approval" \/ pending =>
       performed' = performed /\ completions' = completions /\ proposed' = proposed]_vars

(* The model is only asked when every call it proposed has a result, and   *)
(* exactly one: an unanswered or twice answered call is a protocol error.  *)
PlannerSeesAnswers ==
  /\ node = "plan" => Answered = 1 .. proposed
  /\ ok \cap failed = {}

(* The persisted transcript keeps up with the effects: whenever the run    *)
(* stops, at most the one call in hand was carried out without a result    *)
(* on record, and an answered run has none.                                *)
TranscriptKeepsUp ==
  /\ performed \subseteq Answered \cup {c \in calls : InHand(c)}
  /\ node = "end" => performed \subseteq Answered

(* What the caller is told agrees with what happened in the run.           *)
HonestStatus ==
  node = "end" =>
    /\ status = "failed" <=> "llm" \in errors
    /\ status = "awaiting_approval" <=> pending
    /\ status # "running"

(* Effects happen in the order the model proposed the calls.               *)
EffectsInOrder ==
  [][\A c \in performed' \ performed : \A d \in performed : d < c]_vars

(* A run ends, however often the model asks for more tools.                *)
Termination == <>(node \in {"end", "aborted"})

-----------------------------------------------------------------------------
(* The inductive invariant behind the safety properties above.             *)

(* Each node is reached after a number of steps the iteration tells.       *)
LoopInv ==
  /\ node = "load_context" => steps = 0 /\ iteration = 0
  /\ node = "discover_tools" => steps = 1 /\ iteration = 0
  /\ node = "plan" => steps = 3 * iteration + 2
  /\ node = "execute_tools" => steps = 3 * iteration /\ iteration > 0
  /\ node = "validate_results" => steps = 3 * iteration + 1 /\ iteration > 0
  /\ node = "respond" => steps <= 3 * budget + 3
  /\ node \in {"load_context", "discover_tools", "plan", "execute_tools", "validate_results"}
       => completions = iteration /\ status = "running" /\ "llm" \notin errors
  /\ iteration <= budget

(* Calls leave the queue as their results come in, and only while the run  *)
(* is not paused is every proposed call either answered or queued.         *)
CallInv ==
  /\ node \in {"load_context", "discover_tools", "plan", "execute_tools"} => ~ pending
  /\ node \in Nodes => ((node = "execute_tools") <=> (calls # {}))
  /\ node \in Nodes \ {"execute_tools"} => outcome = "none"
  /\ \A a \in Answered, c \in calls : a < c
  /\ node \in {"load_context", "discover_tools", "plan", "execute_tools"}
       => Answered \cup calls = 1 .. proposed
  /\ node = "validate_results" /\ ~ pending => Answered = 1 .. proposed
  /\ outcome = "none" /\ node \in Nodes => performed \subseteq Answered

StatusInv ==
  node = "respond" => /\ status = "failed" <=> "llm" \in errors
                      /\ status = "failed" => ~ pending

IInv ==
  /\ TypeOK /\ LoopInv /\ CallInv /\ StatusInv
  /\ Bounded /\ PlannerSeesAnswers /\ TranscriptKeepsUp /\ HonestStatus
==============================================================================

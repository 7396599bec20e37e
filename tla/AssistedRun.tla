------------------------------ MODULE AssistedRun ------------------------------
(***************************************************************************)
(* AgentRun with the providers that answer its planner.  The provider for  *)
(* OpenAI-compatible endpoints retries a request that failed in transit;   *)
(* the heuristic planner, the default, matches the request against a table *)
(* of intents and calls the next tool of the intent that has no result in  *)
(* this turn.                                                              *)
(*                                                                         *)
(* A request and the pause that follows its failure are one step: nothing  *)
(* of the run changes before the next request.  Fewer steps of an intent   *)
(* are on offer when a server is missing or the user is a viewer.          *)
(***************************************************************************)
EXTENDS AgentRun, Sequences, FiniteSets, FiniteSetsExt

CONSTANTS
  MaxRetries,   \* llm_max_retries
  IntentSteps   \* most steps of an intent

ASSUME RetriesAssumption == MaxRetries \in Nat /\ IntentSteps \in Nat

VARIABLES
  provider,   \* the provider of the run
  offered,    \* steps of the matched intent whose tools are on offer
  planned,    \* the step each call was proposed for, in the order of calls
  attempts,   \* requests sent for the last completion
  last,       \* how the last request ended
  raised,     \* the exception the provider raised
  requests    \* requests sent in the run, counted up to one more than the bill

planner == <<provider, offered, planned>>
wire == <<attempts, last, raised, requests>>
assisted == <<vars, planner, wire>>

AssistedInit ==
  /\ Init
  /\ provider \in {"openai", "heuristic"}
  /\ offered \in IF provider = "heuristic" THEN SUBSET (1 .. IntentSteps) ELSE {{}}
  /\ planned = <<>>
  /\ attempts = 0 /\ last = "none" /\ raised = "none" /\ requests = 0

-----------------------------------------------------------------------------
(* An OpenAI-compatible endpoint.                                          *)
Asking(p) == node = "plan" /\ ~ Exhausted /\ provider = p

(* What the retry loop tries again.  It does not try again what it has a   *)
(* status for, a server error (HTTP 5xx) that may pass as little as        *)
(* refused credentials or a malformed request, nor what it does not know.  *)
Retried == {"timeout", "connection", "rate_limit"}
NotRetried == {"refused", "server_error", "library"}

AttemptsLeft == attempts <= MaxRetries

(* Mutant: an attempt is not counted.                                      *)
Uncounted == attempts

Counted == attempts + 1

Bill == budget * (MaxRetries + 1)

Billed == requests' = IF requests <= Bill THEN requests + 1 ELSE requests

Request(result) == last' = result /\ attempts' = Counted /\ Billed

(* The failure is kept and, unless it was the last attempt, slept upon.    *)
RequestFails ==
  /\ Asking("openai") /\ AttemptsLeft /\ last \in Retried \cup {"none"}
  /\ \E t \in Retried : Request(t)
  /\ UNCHANGED <<vars, planner, raised>>

(* Mutant: the broader handler swallows the timeout.                       *)
VerdictBroad == "error"

Verdict == IF last = "timeout" THEN "timeout" ELSE "error"

GiveUp ==
  /\ Asking("openai") /\ ~ AttemptsLeft
  /\ PlanFails
  /\ raised' = Verdict
  /\ UNCHANGED <<planner, attempts, last, requests>>

(* The other failures end the completion at once.                          *)
RequestFailsForGood ==
  /\ Asking("openai") /\ AttemptsLeft
  /\ PlanFails
  /\ \E f \in NotRetried : Request(f)
  /\ raised' = "error"
  /\ UNCHANGED planner

RequestAnswered ==
  /\ Asking("openai") /\ AttemptsLeft
  /\ PlanAnswers \/ PlanCalls
  /\ last' = "none" /\ attempts' = 0 /\ Billed
  /\ UNCHANGED <<planner, raised>>

(* The endpoint answers without a choice; no handler catches that.         *)
RequestUnreadable ==
  /\ Asking("openai") /\ AttemptsLeft
  /\ Abort
  /\ Request("unreadable")
  /\ raised' = "other"
  /\ UNCHANGED planner

-----------------------------------------------------------------------------
(* The heuristic planner.                                                  *)

(* Mutant: a step whose call failed is taken again.                        *)
GatheredSuccesses == {planned[c] : c \in ok}

(* Results of this turn, failures among them: each is a tool message.      *)
Gathered == {planned[c] : c \in Answered}

Open == offered \ Gathered

NextStep ==
  /\ Asking("heuristic") /\ Open # {}
  /\ PlanCalls /\ proposed' = proposed + 1
  /\ planned' = Append(planned, Min(Open))
  /\ UNCHANGED <<provider, offered, wire>>

(* The summary of the results is never empty.                              *)
Summarise ==
  /\ Asking("heuristic") /\ Open = {}
  /\ PlanAnswers /\ final'
  /\ UNCHANGED <<planner, wire>>

-----------------------------------------------------------------------------
Complete == RequestFails \/ GiveUp \/ RequestFailsForGood \/ RequestAnswered \/ NextStep \/ Summarise

AssistedStep ==
  \/ Complete
  \/ /\ LoadContext \/ DiscoverTools \/ PlanBudget \/ ExecuteTools \/ ValidatePaused
        \/ Validate \/ Respond
     /\ UNCHANGED <<planner, wire>>

AssistedNext ==
  \/ AssistedStep
  \/ RequestUnreadable
  \/ (Abort \/ Ended) /\ UNCHANGED <<planner, wire>>

AssistedSpec == AssistedInit /\ [][AssistedNext]_assisted /\ WF_assisted(AssistedStep)

-----------------------------------------------------------------------------
(* Types of the providers' variables.                                      *)
AssistedTypeOK ==
  /\ provider \in {"openai", "heuristic"}
  /\ offered \subseteq 1 .. IntentSteps
  /\ planned \in Seq(1 .. IntentSteps)
  /\ provider = "heuristic" => Len(planned) = proposed
  /\ attempts \in 0 .. MaxRetries + 1
  /\ last \in Retried \cup NotRetried \cup {"none", "unreadable"}
  /\ raised \in {"none", "timeout", "error", "other"}
  /\ requests \in Nat

(* agents/state.py and openai_provider.py together: whatever the endpoint  *)
(* does, the bill of a run is bounded by both budgets.                     *)
RequestsBounded == requests <= Bill

(* openai_provider.py: a run fails either on a failure the client never    *)
(* retries, a server error among them however soon it would have passed,   *)
(* or with every attempt spent on rate limits, timeouts and lost           *)
(* connections; nothing else is ever asked again, no answer is taken for a *)
(* failure, and a run that failed is reported as timed out exactly if its  *)
(* last attempt was.                                                       *)
FailureIsClassified ==
  /\ status = "failed" =>
       /\ provider = "openai"
       /\ last \in NotRetried \/ (last \in Retried /\ attempts = MaxRetries + 1)
       /\ raised = "timeout" <=> last = "timeout"
  /\ node = "plan" /\ attempts > 0 => last \in Retried
  /\ raised = "other" => node = "aborted"

(* heuristic_provider.py: in one turn no tool of an intent is called twice *)
(* nor before one that precedes it, so that a failing tool cannot make the *)
(* planner loop: it only runs into a limit shorter than its intent.        *)
PlannerMakesProgress ==
  /\ \A i, j \in DOMAIN planned : i < j => planned[i] < planned[j]
  /\ provider = "heuristic" /\ "step_limit" \in errors => budget <= Cardinality(offered)

(* The run as the workflow sees it, with a planner that answers anything.  *)
ImplementsRun == FairSpec
================================================================================

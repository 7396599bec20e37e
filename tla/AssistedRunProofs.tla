--------------------------- MODULE AssistedRunProofs ---------------------------
(***************************************************************************)
(* A run with its provider is a run of AgentRun, so that all that is       *)
(* proved of AgentRun holds for it; and what only the two have together,   *)
(* for every budget of iterations and of retries.                          *)
(***************************************************************************)
EXTENDS AssistedRun, AgentRunProofs, FiniteSetTheorems, WellFoundedInduction

(* Each step with the provider is a step of the run, or none to it.        *)
LEMMA AssistedIsRun == [AssistedNext]_assisted => [Next]_vars
<1> SUFFICES ASSUME [AssistedNext]_assisted PROVE [Next]_vars
  OBVIOUS
<1> USE DEF Next, Run, Plan
<1>1. CASE Complete
  BY <1>1 DEF Complete, RequestFails, GiveUp, RequestFailsForGood, RequestAnswered, NextStep,
              Summarise
<1>2. CASE LoadContext \/ DiscoverTools \/ PlanBudget \/ ExecuteTools \/ ValidatePaused
           \/ Validate \/ Respond
  BY <1>2
<1>3. CASE RequestUnreadable
  BY <1>3 DEF RequestUnreadable
<1>4. CASE Abort \/ Ended
  BY <1>4
<1>5. CASE UNCHANGED assisted
  BY <1>5 DEF assisted
<1> QED
  BY <1>1, <1>2, <1>3, <1>4, <1>5 DEF AssistedNext, AssistedStep

(* Whatever answers the planner, the workflow is the one of AgentRun.      *)
THEOREM Implements == AssistedSpec => Spec
<1>1. AssistedInit => Init
  BY DEF AssistedInit
<1> QED
  BY <1>1, AssistedIsRun, PTL DEF AssistedSpec, Spec

-----------------------------------------------------------------------------
(* Where the provider stands at each node, and what it has cost.           *)
WireInv ==
  /\ attempts \in 0 .. MaxRetries + 1 /\ requests \in Nat
  /\ node \in Nodes \ {"plan", "respond"} => attempts = 0 /\ last = "none"
  /\ node = "plan" => /\ \/ attempts = 0 /\ last = "none"
                         \/ attempts > 0 /\ last \in Retried
                      /\ attempts > 0 => ~ Exhausted /\ provider = "openai"
                      /\ requests <= completions * (MaxRetries + 1) + attempts
  /\ node \in Nodes \ {"plan"} => requests <= completions * (MaxRetries + 1)
  /\ node \in Nodes => raised # "other"
  /\ node \in Nodes \ {"respond"} => raised = "none" /\ status # "failed"

ProviderInv == WireInv /\ RequestsBounded /\ FailureIsClassified

(* Bills are compared by the completions they are for.                     *)
LEMMA BillGrows ==
  ASSUME NEW b \in Nat, NEW c \in Nat, NEW k \in Nat
  PROVE  /\ (c + 1) * k = c * k + k
         /\ c <= b => c * k <= b * k
         /\ c < b => c * k + k <= b * k
         /\ c * k \in Nat
<1>1. (c + 1) * k = c * k + k /\ c * k \in Nat
  BY SMT
<1>2. c <= b => c * k <= b * k
  BY SMT
<1>3. c < b => (c + 1) * k <= b * k
  BY SMT
<1> QED
  BY <1>1, <1>2, <1>3

LEMMA ProviderInit == AssistedInit => ProviderInv
<1> SUFFICES ASSUME AssistedInit PROVE ProviderInv
  OBVIOUS
<1> USE RetriesAssumption, LimitsAssumption DEF AssistedInit, Init, Nodes
<1>1. 0 <= Bill
  <2>1. budget \in Nat /\ MaxRetries + 1 \in Nat
    OBVIOUS
  <2> QED
    BY <2>1, BillGrows DEF Bill
<1>2. completions * (MaxRetries + 1) = 0
  OBVIOUS
<1> QED
  BY <1>1, <1>2 DEF ProviderInv, WireInv, RequestsBounded, FailureIsClassified

(* A step of the workflow that asks no provider leaves the account alone.  *)
LEMMA QuietStep ==
  ASSUME IInv, ProviderInv, UNCHANGED <<planner, wire>>,
         \/ LoadContext \/ DiscoverTools \/ PlanBudget \/ ExecuteTools \/ ValidatePaused
         \/ Validate \/ Respond \/ Abort \/ Ended \/ UNCHANGED vars
  PROVE  ProviderInv'
<1>0. completions * (MaxRetries + 1) \in Nat /\ completions * (MaxRetries + 1) + 0 =
        completions * (MaxRetries + 1)
  BY RetriesAssumption, BillGrows DEF IInv, TypeOK
<1> USE DEF ProviderInv, WireInv, RequestsBounded, FailureIsClassified, Bill, planner, wire, Nodes,
            Leave
<1>1. CASE LoadContext \/ DiscoverTools
  <2>1. /\ node \in {"load_context", "discover_tools"} /\ node' \in {"discover_tools", "plan"}
        /\ UNCHANGED <<status, budget, completions>>
    BY <1>1 DEF LoadContext, DiscoverTools
  <2>2. /\ attempts = 0 /\ last = "none" /\ raised = "none" /\ status # "failed"
        /\ requests <= completions * (MaxRetries + 1) + attempts
    BY <2>1, <1>0
  <2>3. requests' <= completions' * (MaxRetries + 1) + attempts'
    BY <2>1, <2>2
  <2>4. requests' <= completions' * (MaxRetries + 1)
    BY <2>1, <2>2, <1>0
  <2> QED
    BY <2>1, <2>2, <2>3, <2>4
<1>2. CASE PlanBudget
  <2>1. /\ node = "plan" /\ Exhausted /\ node' = "respond" /\ status' = "running"
        /\ UNCHANGED <<budget, completions>>
    BY <1>2 DEF PlanBudget
  <2>2. attempts = 0 /\ last = "none"
    BY <2>1
  <2> QED
    BY <2>1, <2>2, <1>0
<1>3. CASE ExecuteTools
  <2>1. node = "execute_tools" /\ node' \in {"execute_tools", "validate_results"}
    BY <1>3 DEF ExecuteTools, CallPerformed, CallBlocked, CallNeedsApproval, RecordResult,
                EndExecution
  <2>2. UNCHANGED <<status, budget, completions>>
    BY <1>3 DEF ExecuteTools, CallPerformed, CallBlocked, CallNeedsApproval, RecordResult
  <2> QED
    BY <2>1, <2>2
<1>4. CASE ValidatePaused \/ Validate
  <2>1. node = "validate_results" /\ node' \in {"plan", "respond"}
    BY <1>4 DEF ValidatePaused, Validate
  <2>2. status' # "failed" /\ UNCHANGED <<budget, completions>>
    BY <1>4 DEF ValidatePaused, Validate
  <2>3. /\ attempts = 0 /\ last = "none" /\ raised = "none" /\ status # "failed"
        /\ requests <= completions * (MaxRetries + 1) + attempts
        /\ requests <= completions * (MaxRetries + 1)
    BY <2>1, <1>0
  <2>4. requests' <= completions' * (MaxRetries + 1) + attempts'
    BY <2>2, <2>3
  <2>5. requests' <= completions' * (MaxRetries + 1)
    BY <2>2, <2>3
  <2> QED
    BY <2>1, <2>2, <2>3, <2>4, <2>5
<1>5. CASE Respond
  <2>1. node = "respond" /\ node' = "end" /\ (status' = "failed" => status = "failed")
    BY <1>5 DEF Respond, ClosingStatus
  <2>2. UNCHANGED <<budget, completions>>
    BY <1>5 DEF Respond
  <2> QED
    BY <2>1, <2>2
<1>6. CASE Abort
  BY <1>6 DEF Abort
<1>7. CASE Ended \/ UNCHANGED vars
  BY <1>7 DEF Ended, vars, Exhausted
<1> QED
  BY <1>1, <1>2, <1>3, <1>4, <1>5, <1>6, <1>7

(* One more request stays within the bill of the completion in hand.       *)
LEMMA RequestStep ==
  ASSUME IInv, ProviderInv, node = "plan", ~ Exhausted, AttemptsLeft, Billed
  PROVE  /\ requests' \in Nat
         /\ requests' <= completions * (MaxRetries + 1) + attempts + 1
         /\ requests' <= (completions + 1) * (MaxRetries + 1)
         /\ requests' <= Bill
<1> DEFINE k == MaxRetries + 1
<1>1. /\ completions \in Nat /\ budget \in Nat /\ completions < budget
      /\ k \in Nat /\ attempts \in Nat /\ attempts + 1 <= k /\ requests \in Nat
  BY RetriesAssumption, LimitsAssumption
     DEF IInv, TypeOK, LoopInv, Exhausted, AttemptsLeft, ProviderInv, WireInv
<1>2. requests <= completions * k + attempts
  BY DEF ProviderInv, WireInv
<1>3. requests' \in Nat /\ requests' <= requests + 1
  BY <1>1 DEF Billed
<1>4. /\ (completions + 1) * k = completions * k + k
      /\ completions * k + k <= budget * k
      /\ completions * k \in Nat /\ budget * k \in Nat
  BY <1>1, BillGrows
<1> HIDE DEF k
<1>5. requests' <= completions * k + attempts + 1 /\ requests' <= (completions + 1) * k
  BY <1>1, <1>2, <1>3, <1>4
<1>6. requests' <= budget * k
  BY <1>1, <1>2, <1>3, <1>4
<1> QED
  BY <1>3, <1>5, <1>6 DEF k, Bill

(* A completion closes its account.                                        *)
LEMMA CompleteStep == IInv /\ ProviderInv /\ Complete => ProviderInv'
<1> SUFFICES ASSUME IInv, ProviderInv, Complete PROVE ProviderInv'
  OBVIOUS
<1> DEFINE k == MaxRetries + 1
<1>1. /\ k \in Nat /\ MaxRetries \in Nat /\ completions \in Nat /\ budget \in Nat
      /\ attempts \in 0 .. MaxRetries + 1 /\ requests \in Nat
      /\ node = "plan" => raised = "none" /\ status = "running"
  BY RetriesAssumption, LimitsAssumption DEF IInv, TypeOK, LoopInv, ProviderInv, WireInv, Nodes
<1>2. CASE RequestFails
  <2>1. PICK t \in Retried : Request(t)
    BY <1>2 DEF RequestFails
  <2>2. /\ node = "plan" /\ ~ Exhausted /\ provider = "openai" /\ AttemptsLeft
        /\ UNCHANGED <<vars, planner, raised>>
    BY <1>2 DEF RequestFails, Asking
  <2>3. last' = t /\ attempts' = attempts + 1 /\ Billed
    BY <2>1 DEF Request, Counted
  <2>4. /\ requests' \in Nat /\ requests' <= completions * k + (attempts + 1)
        /\ requests' <= Bill
    <3>1. completions * k \in Nat
      BY <1>1, BillGrows
    <3> QED
      BY <2>2, <2>3, <3>1, <1>1, RequestStep
  <2>5. attempts + 1 \in 0 .. MaxRetries + 1 /\ attempts + 1 > 0
    BY <1>1, <2>2 DEF AttemptsLeft
  <2> QED
    BY <1>1, <2>1, <2>2, <2>3, <2>4, <2>5
       DEF ProviderInv, WireInv, RequestsBounded, FailureIsClassified, Bill, vars, planner,
           Exhausted, Nodes
<1>3. CASE GiveUp
  <2>1. /\ node = "plan" /\ node' = "respond" /\ attempts = MaxRetries + 1
        /\ UNCHANGED <<planner, attempts, last, requests, budget>> /\ raised' = Verdict
        /\ provider = "openai" /\ ~ Exhausted
        /\ completions' = completions + 1
    BY <1>1, <1>3 DEF GiveUp, Asking, AttemptsLeft, PlanFails, Leave
  <2>2. requests <= completions * k + k /\ (completions + 1) * k = completions * k + k
    <3>1. requests <= completions * k + attempts
      BY <2>1 DEF ProviderInv, WireInv
    <3> QED
      BY <1>1, <2>1, <3>1, BillGrows
  <2>3. raised' \in {"timeout", "error"} /\ (raised' = "timeout" <=> last = "timeout")
    BY <2>1 DEF Verdict
  <2> QED
    BY <1>1, <2>1, <2>2, <2>3
       DEF ProviderInv, WireInv, RequestsBounded, FailureIsClassified, Bill, planner, Nodes
<1>4. CASE RequestFailsForGood
  <2>1. /\ node = "plan" /\ node' = "respond" /\ AttemptsLeft /\ ~ Exhausted
        /\ last' \in NotRetried /\ attempts' = attempts + 1 /\ Billed
        /\ raised' = "error" /\ UNCHANGED <<planner, budget>> /\ provider = "openai"
        /\ completions' = completions + 1
    BY <1>4 DEF RequestFailsForGood, Asking, PlanFails, Leave, Request, Counted
  <2>2. /\ requests' \in Nat /\ requests' <= (completions + 1) * k /\ requests' <= Bill
    BY <2>1, RequestStep
  <2>3. attempts + 1 \in 0 .. MaxRetries + 1
    BY <1>1, <2>1 DEF AttemptsLeft
  <2>4. last' # "timeout"
    BY <2>1 DEF NotRetried
  <2> QED
    BY <1>1, <2>1, <2>2, <2>3, <2>4
       DEF ProviderInv, WireInv, RequestsBounded, FailureIsClassified, Bill, planner, Nodes
<1>5. CASE RequestAnswered
  <2>1. /\ node = "plan" /\ node' \in {"respond", "execute_tools"} /\ AttemptsLeft
        /\ ~ Exhausted /\ last' = "none" /\ attempts' = 0 /\ Billed
        /\ UNCHANGED <<planner, raised, budget, status>>
        /\ completions' = completions + 1
    BY <1>5 DEF RequestAnswered, Asking, PlanAnswers, PlanCalls, Leave
  <2>2. /\ requests' \in Nat /\ requests' <= (completions + 1) * k /\ requests' <= Bill
    BY <2>1, RequestStep
  <2> QED
    BY <1>1, <2>1, <2>2
       DEF ProviderInv, WireInv, RequestsBounded, FailureIsClassified, Bill, planner, Nodes
<1>6. CASE NextStep \/ Summarise
  <2>1. /\ node = "plan" /\ node' \in {"respond", "execute_tools"} /\ provider = "heuristic"
        /\ UNCHANGED <<wire, budget, status>> /\ completions' = completions + 1
        /\ UNCHANGED provider
    BY <1>6 DEF NextStep, Summarise, Asking, PlanAnswers, PlanCalls, Leave, planner
  <2>2. attempts = 0 /\ last = "none"
    BY <1>1, <2>1 DEF ProviderInv, WireInv
  <2>3. requests <= (completions + 1) * k
    <3>1. requests <= completions * k
      BY <1>1, <2>1, <2>2 DEF ProviderInv, WireInv
    <3> QED
      BY <1>1, <3>1, BillGrows
  <2> QED
    BY <1>1, <2>1, <2>2, <2>3
       DEF ProviderInv, WireInv, RequestsBounded, FailureIsClassified, Bill, wire, Nodes
<1> QED
  BY <1>2, <1>3, <1>4, <1>5, <1>6 DEF Complete

LEMMA ProviderStep == IInv /\ ProviderInv /\ [AssistedNext]_assisted => ProviderInv'
<1> SUFFICES ASSUME IInv, ProviderInv, [AssistedNext]_assisted PROVE ProviderInv'
  OBVIOUS
<1>1. CASE Complete
  BY <1>1, CompleteStep
<1>2. CASE RequestUnreadable
  <2>1. /\ node = "plan" /\ node' = "aborted" /\ AttemptsLeft /\ ~ Exhausted
        /\ attempts' = attempts + 1 /\ Billed /\ raised' = "other"
        /\ UNCHANGED <<budget, status>>
    BY <1>2 DEF RequestUnreadable, Asking, Abort, Request, Counted
  <2>2. requests' \in Nat /\ requests' <= Bill
    BY <2>1, RequestStep
  <2>3. attempts + 1 \in 0 .. MaxRetries + 1
    BY <2>1, RetriesAssumption DEF AttemptsLeft, ProviderInv, WireInv
  <2>4. status = "running"
    BY <2>1 DEF IInv, LoopInv
  <2> QED
    BY <2>1, <2>2, <2>3, <2>4
       DEF ProviderInv, WireInv, RequestsBounded, FailureIsClassified, Bill, Nodes
<1>3. CASE UNCHANGED <<planner, wire>> /\
           \/ LoadContext \/ DiscoverTools \/ PlanBudget \/ ExecuteTools \/ ValidatePaused
           \/ Validate \/ Respond \/ Abort \/ Ended \/ UNCHANGED vars
  BY <1>3, QuietStep
<1> QED
  BY <1>1, <1>2, <1>3 DEF AssistedNext, AssistedStep, assisted

LEMMA ProviderInvariant == AssistedSpec => [](IInv /\ ProviderInv)
<1>1. AssistedSpec => []IInv
  BY Implements, Invariant, PTL
<1>2. IInv /\ ProviderInv /\ [AssistedNext]_assisted => ProviderInv'
  BY ProviderStep
<1> QED
  BY <1>1, <1>2, ProviderInit, PTL DEF AssistedSpec

(* A run never sends more requests than both budgets allow together.       *)
THEOREM BillIsBounded == AssistedSpec => []RequestsBounded
<1>1. ProviderInv => RequestsBounded
  BY DEF ProviderInv
<1> QED
  BY <1>1, ProviderInvariant, PTL

(* A run fails on a failure the client never retries, HTTP 5xx included,   *)
(* or after every attempt was spent on failures it does retry.             *)
THEOREM FailuresAreClassified == AssistedSpec => []FailureIsClassified
<1>1. ProviderInv => FailureIsClassified
  BY DEF ProviderInv
<1> QED
  BY <1>1, ProviderInvariant, PTL
-----------------------------------------------------------------------------
(* What the heuristic planner has proposed so far: one call in each round, *)
(* steps on offer in their order, and none of them left out.               *)
IntentInv ==
  /\ provider \in {"openai", "heuristic"}
  /\ offered \subseteq 1 .. IntentSteps
  /\ planned \in Seq(1 .. IntentSteps)
  /\ provider = "openai" => planned = <<>>
  /\ provider = "heuristic" => /\ Len(planned) = proposed
                               /\ node \in Nodes \ {"respond"} => proposed = iteration
  /\ \A i, j \in 1 .. Len(planned) : i < j => planned[i] < planned[j]
  /\ \A i \in 1 .. Len(planned) :
       /\ planned[i] \in offered
       /\ \A s \in offered : s < planned[i] => \E j \in 1 .. Len(planned) : planned[j] = s
  /\ provider = "heuristic" /\ "step_limit" \in errors => budget <= Cardinality(offered)

(* The least step of those left.                                           *)
LEMMA LeastStep ==
  ASSUME NEW S, S \subseteq Nat, S # {}
  PROVE  Min(S) \in S /\ \A y \in S : Min(S) <= y
<1> DEFINE Less == {ss \in Nat \X Nat : ss[1] < ss[2]}
<1>1. IsWellFoundedOn(Less, Nat)
  BY NatLessThanWellFounded DEF OpToRel
<1> HIDE DEF Less
<1>2. PICK x \in S : \A y \in S : ~ (<<y, x>> \in Less)
  BY <1>1, WFMin
<1>3. ASSUME NEW y \in S PROVE x <= y
  <2>1. ~ (<<y, x>> \in Less)
    BY <1>2
  <2>2. y < x => <<y, x>> \in Less
    BY DEF Less
  <2> QED
    BY <2>1, <2>2
<1> QED
  BY <1>3 DEF Min

(* A plan without repetition is no longer than what is on offer.           *)
LEMMA PlanFits ==
  ASSUME IntentInv
  PROVE  Len(planned) <= Cardinality(offered)
<1> DEFINE n == Len(planned)
           f == [i \in 1 .. n |-> planned[i]]
<1>1. IsFiniteSet(offered)
  <2>1. IsFiniteSet(1 .. IntentSteps)
    BY RetriesAssumption, FS_Interval
  <2> QED
    BY <2>1, FS_Subset DEF IntentInv
<1>2. n \in Nat /\ \A i \in 1 .. n : planned[i] \in Nat
  <2>1. planned \in Seq(1 .. IntentSteps)
    BY DEF IntentInv
  <2>2. \A T : \A q \in Seq(T) : Len(q) \in Nat /\ \A i \in 1 .. Len(q) : q[i] \in T
    OBVIOUS
  <2>3. n \in Nat /\ \A i \in 1 .. n : planned[i] \in 1 .. IntentSteps
    BY <2>1, <2>2
  <2> QED
    BY <2>3
<1>3. \A i, j \in 1 .. n : planned[i] = planned[j] => i = j
  <2> SUFFICES ASSUME NEW i \in 1 .. n, NEW j \in 1 .. n, i # j PROVE planned[i] # planned[j]
    OBVIOUS
  <2>1. i < j \/ j < i
    BY <1>2
  <2>2. planned[i] < planned[j] \/ planned[j] < planned[i]
    BY <2>1 DEF IntentInv
  <2> QED
    BY <1>2, <2>2
<1>4. f \in Injection(1 .. n, offered)
  BY <1>3 DEF Injection, IsInjective, IntentInv
<1> HIDE DEF f, n
<1>5. Cardinality(1 .. n) = n
  BY <1>2, FS_Interval
<1>6. Cardinality(1 .. n) <= Cardinality(offered)
  BY <1>1, <1>4, FS_Injection
<1> QED
  BY <1>5, <1>6 DEF n

LEMMA IntentInit == AssistedInit => IntentInv
<1> SUFFICES ASSUME AssistedInit PROVE IntentInv
  OBVIOUS
<1>1. /\ provider \in {"openai", "heuristic"} /\ offered \subseteq 1 .. IntentSteps
      /\ planned = <<>> /\ proposed = 0 /\ iteration = 0 /\ errors = {}
  BY DEF AssistedInit, Init
<1>2. planned \in Seq(1 .. IntentSteps) /\ Len(planned) = 0 /\ 1 .. Len(planned) = {}
  BY <1>1
<1> QED
  BY <1>1, <1>2 DEF IntentInv

(* A step that plans nothing.                                              *)
LEMMA IntentKept ==
  ASSUME IntentInv, UNCHANGED <<planner, budget, proposed>>,
         node' \in Nodes \ {"respond"} => node \in Nodes \ {"respond"} /\ iteration' = iteration,
         "step_limit" \in errors' => "step_limit" \in errors
  PROVE  IntentInv'
BY DEF IntentInv, planner

(* The planner stops at a limit only if it is shorter than the intent.     *)
LEMMA LimitStep ==
  ASSUME IInv, IntentInv, PlanBudget, UNCHANGED planner
  PROVE  IntentInv'
<1>1. node = "plan" /\ node' = "respond" /\ iteration >= budget /\ budget' = budget /\ proposed' = proposed
  BY DEF PlanBudget, Leave, Exhausted
<1>2. provider = "heuristic" => budget <= Cardinality(offered)
  <2> SUFFICES ASSUME provider = "heuristic" PROVE budget <= Cardinality(offered)
    OBVIOUS
  <2>1. Len(planned) = iteration /\ iteration = budget
    BY <1>1, LimitsAssumption DEF IntentInv, IInv, TypeOK, LoopInv, Nodes
  <2> QED
    BY <2>1, PlanFits
<1> QED
  BY <1>1, <1>2 DEF IntentInv, planner

LEMMA NextStepStep ==
  ASSUME IInv, IntentInv, NextStep
  PROVE  IntentInv'
<1>1. /\ node = "plan" /\ node' = "execute_tools" /\ provider = "heuristic" /\ Open # {}
      /\ iteration' = iteration + 1 /\ proposed' = proposed + 1
      /\ UNCHANGED <<provider, offered, budget, errors>>
  BY DEF NextStep, Asking, PlanCalls, Leave
<1>2. PICK x : x = Min(Open)
  OBVIOUS
<1>3. planned' = Append(planned, x)
  BY <1>2 DEF NextStep
<1>4. Gathered = {planned[c] : c \in 1 .. Len(planned)}
  BY <1>1 DEF Gathered, IInv, PlannerSeesAnswers, IntentInv
<1>5. x \in Open /\ \A y \in Open : x <= y
  <2>1. Open \subseteq Nat
    <3>1. offered \subseteq 1 .. IntentSteps
      BY DEF IntentInv
    <3>2. \A m \in Nat : 1 .. m \subseteq Nat
      OBVIOUS
    <3> QED
      BY <3>1, <3>2, RetriesAssumption DEF Open
  <2> QED
    BY <1>1, <1>2, <2>1, LeastStep
<1>6. x \in offered /\ x \in 1 .. IntentSteps /\ \A i \in 1 .. Len(planned) : planned[i] # x
  BY <1>4, <1>5 DEF Open, IntentInv
<1>7. \A i \in 1 .. Len(planned) : planned[i] < x
  <2> SUFFICES ASSUME NEW i \in 1 .. Len(planned) PROVE planned[i] < x
    OBVIOUS
  <2>1. planned[i] \in 1 .. IntentSteps /\ ~ (x < planned[i]) /\ planned[i] # x
    BY <1>6 DEF IntentInv
  <2> QED
    BY <1>6, <2>1, RetriesAssumption
<1>8. ASSUME NEW s \in offered, s < x PROVE \E j \in 1 .. Len(planned) : planned[j] = s
  <2>1. s \in 1 .. IntentSteps
    BY DEF IntentInv
  <2>2. s \notin Open
    BY <1>5, <1>6, <1>8, <2>1, RetriesAssumption
  <2> QED
    BY <1>4, <2>2 DEF Open
<1> DEFINE n == Len(planned)
<1>9. /\ n \in Nat /\ Len(planned') = n + 1 /\ planned'[n + 1] = x
      /\ \A i \in 1 .. n : planned'[i] = planned[i]
      /\ planned' \in Seq(1 .. IntentSteps)
  BY <1>3, <1>6 DEF IntentInv
<1> HIDE DEF n
<1>10. 1 .. Len(planned') = (1 .. n) \cup {n + 1}
  <2>1. \A m \in Nat : 1 .. (m + 1) = (1 .. m) \cup {m + 1}
    OBVIOUS
  <2> QED
    BY <1>9, <2>1
<1>11. \A i, j \in 1 .. Len(planned') : i < j => planned'[i] < planned'[j]
  <2> SUFFICES ASSUME NEW i \in 1 .. Len(planned'), NEW j \in 1 .. Len(planned'), i < j
               PROVE  planned'[i] < planned'[j]
    OBVIOUS
  <2>1. i \in 1 .. n
    BY <1>9, <1>10
  <2>2. CASE j = n + 1
    BY <1>7, <1>9, <2>1, <2>2 DEF n
  <2>3. CASE j \in 1 .. n
    BY <1>9, <2>1, <2>3 DEF n, IntentInv
  <2> QED
    BY <1>10, <2>2, <2>3
<1>12. \A i \in 1 .. Len(planned') :
         /\ planned'[i] \in offered
         /\ \A s \in offered : s < planned'[i] => \E j \in 1 .. Len(planned') : planned'[j] = s
  <2> SUFFICES ASSUME NEW i \in 1 .. Len(planned')
               PROVE  /\ planned'[i] \in offered
                      /\ \A s \in offered : s < planned'[i] => \E j \in 1 .. n : planned[j] = s
    BY <1>9, <1>10
  <2>1. CASE i = n + 1
    BY <1>6, <1>8, <1>9, <2>1 DEF n
  <2>2. CASE i \in 1 .. n
    BY <1>9, <2>2 DEF n, IntentInv
  <2> QED
    BY <1>10, <2>1, <2>2
<1>13. Len(planned') = proposed' /\ proposed' = iteration'
  BY <1>1, <1>9 DEF n, IntentInv, Nodes
<1> QED
  BY <1>1, <1>9, <1>11, <1>12, <1>13 DEF IntentInv

LEMMA IntentStep == IInv /\ IntentInv /\ [AssistedNext]_assisted => IntentInv'
<1> SUFFICES ASSUME IInv, IntentInv, [AssistedNext]_assisted PROVE IntentInv'
  OBVIOUS
<1>1. CASE NextStep
  BY <1>1, NextStepStep
<1>2. CASE PlanBudget /\ UNCHANGED planner
  BY <1>2, LimitStep
<1>3. CASE RequestFails
  BY <1>3, IntentKept DEF RequestFails, vars
<1>4. CASE GiveUp \/ RequestFailsForGood
  BY <1>4, IntentKept DEF GiveUp, RequestFailsForGood, PlanFails, Leave
<1>5. CASE RequestAnswered
  <2>1. /\ provider = "openai" /\ UNCHANGED <<planner, budget, errors>>
    BY <1>5 DEF RequestAnswered, Asking, PlanAnswers, PlanCalls
  <2> QED
    BY <2>1 DEF IntentInv, planner
<1>6. CASE Summarise
  BY <1>6, IntentKept DEF Summarise, PlanAnswers, Leave
<1>7. CASE (LoadContext \/ DiscoverTools) /\ UNCHANGED planner
  BY <1>7, IntentKept DEF LoadContext, DiscoverTools, Leave, Nodes
<1>8. CASE ExecuteTools /\ UNCHANGED planner
  <2>1. UNCHANGED <<budget, proposed, iteration>> /\ node = "execute_tools"
    BY <1>8 DEF ExecuteTools, CallPerformed, CallBlocked, CallNeedsApproval, RecordResult
  <2>2. errors' \in {errors, errors \cup {"tool"}}
    BY <1>8 DEF ExecuteTools, CallPerformed, CallBlocked, CallNeedsApproval, RecordResult
  <2> QED
    BY <1>8, <2>1, <2>2, IntentKept DEF Nodes
<1>9. CASE (ValidatePaused \/ Validate) /\ UNCHANGED planner
  <2>1. UNCHANGED <<budget, proposed, iteration>> /\ node = "validate_results"
    BY <1>9 DEF ValidatePaused, Validate, Leave
  <2>2. errors' \in {errors, errors \cup {"repeated"}}
    BY <1>9 DEF ValidatePaused, Validate
  <2> QED
    BY <1>9, <2>1, <2>2, IntentKept DEF Nodes
<1>10. CASE (Respond \/ Abort) /\ UNCHANGED planner
  BY <1>10, IntentKept DEF Respond, Leave, Abort, Nodes
<1>11. CASE RequestUnreadable
  BY <1>11, IntentKept DEF RequestUnreadable, Abort, Nodes
<1>12. CASE UNCHANGED <<vars, planner>>
  BY <1>12, IntentKept DEF vars
<1> QED
  BY <1>1, <1>2, <1>3, <1>4, <1>5, <1>6, <1>7, <1>8, <1>9, <1>10, <1>11, <1>12
     DEF AssistedNext, AssistedStep, Complete, Ended, assisted

LEMMA IntentInvariant == AssistedSpec => []IntentInv
<1>1. AssistedSpec => []IInv
  BY Implements, Invariant, PTL
<1> QED
  BY <1>1, IntentInit, IntentStep, PTL DEF AssistedSpec

(* Whatever fails, the heuristic planner calls no tool of its intent twice *)
(* in a run nor before one that precedes it, and meets the limit only if   *)
(* it is shorter than the intent.                                          *)
THEOREM PlannerAdvances == AssistedSpec => []PlannerMakesProgress
<1>1. IntentInv => PlannerMakesProgress
  <2> SUFFICES ASSUME IntentInv PROVE PlannerMakesProgress
    OBVIOUS
  <2>1. DOMAIN planned = 1 .. Len(planned)
    BY DEF IntentInv
  <2> QED
    BY <2>1 DEF IntentInv, PlannerMakesProgress
<1> QED
  BY <1>1, IntentInvariant, PTL

(* The variables of the providers keep their types.                        *)
THEOREM AssistedTypes == AssistedSpec => []AssistedTypeOK
<1> DEFINE Ends == /\ last \in Retried \cup NotRetried \cup {"none", "unreadable"}
                   /\ raised \in {"none", "timeout", "error", "other"}
<1>1. AssistedInit => Ends
  BY DEF AssistedInit
<1>2. Ends /\ [AssistedNext]_assisted => Ends'
  <2> SUFFICES ASSUME Ends, [AssistedNext]_assisted PROVE Ends'
    OBVIOUS
  <2>1. CASE UNCHANGED wire
    BY <2>1 DEF wire
  <2>2. CASE RequestFails \/ GiveUp \/ RequestFailsForGood \/ RequestAnswered \/ RequestUnreadable
    BY <2>2 DEF RequestFails, GiveUp, RequestFailsForGood, RequestAnswered, RequestUnreadable, Request,
                Verdict
  <2> QED
    BY <2>1, <2>2 DEF AssistedNext, AssistedStep, Complete, NextStep, Summarise, assisted
<1>3. ProviderInv /\ IntentInv /\ Ends => AssistedTypeOK
  BY DEF ProviderInv, WireInv, IntentInv, AssistedTypeOK
<1> QED
  BY <1>1, <1>2, <1>3, ProviderInvariant, IntentInvariant, PTL DEF AssistedSpec
================================================================================

---------------------------- MODULE AgentRunProofs ----------------------------
(***************************************************************************)
(* The bounds and the pause of an agent run, for every iteration ceiling   *)
(* and every number of calls per completion.                               *)
(***************************************************************************)
EXTENDS AgentRun, TLAPS

(* The invariant holds when a run starts.                                  *)
LEMMA InvInit == Init => IInv
<1> SUFFICES ASSUME Init PROVE IInv
  OBVIOUS
<1> USE LimitsAssumption DEF Init, Nodes, Answered
<1>1. TypeOK
  BY DEF TypeOK
<1>2. LoopInv /\ Bounded
  BY DEF LoopInv, Bounded
<1>3. CallInv /\ PlannerSeesAnswers /\ TranscriptKeepsUp
  <2>1. 1 .. proposed = {}
    OBVIOUS
  <2> QED
    BY <2>1 DEF CallInv, PlannerSeesAnswers, TranscriptKeepsUp, InHand
<1>4. StatusInv /\ HonestStatus
  BY DEF StatusInv, HonestStatus
<1> QED
  BY <1>1, <1>2, <1>3, <1>4 DEF IInv

(* Steps of the planning node, which alone opens a new round.              *)
LEMMA PlanStep == IInv /\ Plan => IInv'
<1> SUFFICES ASSUME IInv, Plan PROVE IInv'
  OBVIOUS
<1> USE LimitsAssumption
        DEF IInv, TypeOK, LoopInv, CallInv, StatusInv, Bounded, PlannerSeesAnswers,
            TranscriptKeepsUp, HonestStatus, Nodes, Answered, Leave, Exhausted
<1>1. CASE PlanBudget
  <2>1. TypeOK'
    <3>1. errors' \subseteq {"no_tools", "step_limit", "llm", "tool", "repeated"}
      BY <1>1 DEF PlanBudget
    <3>2. calls' \in SUBSET Nat /\ final' \in BOOLEAN
      BY <1>1 DEF PlanBudget
    <3> QED
      BY <1>1, <3>1, <3>2 DEF PlanBudget
  <2>4. StatusInv' /\ HonestStatus'
    BY <1>1 DEF PlanBudget
  <2>2. LoopInv' /\ Bounded'
    <3>1. iteration = budget /\ steps' = 3 * iteration + 3
      BY <1>1 DEF PlanBudget
    <3> QED
      BY <1>1, <3>1 DEF PlanBudget
  <2>3. CallInv' /\ PlannerSeesAnswers' /\ TranscriptKeepsUp'
    BY <1>1 DEF PlanBudget, InHand
  <2> QED
    BY <2>1, <2>2, <2>3, <2>4
<1>2. CASE PlanFails
  BY <1>2 DEF PlanFails, InHand
<1>3. CASE PlanAnswers
  BY <1>3 DEF PlanAnswers, InHand
<1>4. CASE PlanCalls
  <2>1. PICK n \in 1 .. MaxCalls : /\ proposed' = proposed + n
                                   /\ calls' = (proposed + 1) .. (proposed + n)
    BY <1>4 DEF PlanCalls
  <2>2. n \in Nat /\ n > 0
    BY <2>1
  <2>3. TypeOK'
    <3>1. proposed' \in Nat /\ calls' \in SUBSET Nat
      BY <2>1, <2>2
    <3>2. final' \in BOOLEAN
      BY <1>4 DEF PlanCalls
    <3> QED
      BY <1>4, <3>1, <3>2 DEF PlanCalls
  <2>8. StatusInv' /\ HonestStatus'
    BY <1>4, <2>1, <2>2 DEF PlanCalls
  <2>7. LoopInv' /\ Bounded'
    <3>1. steps' = 3 * iteration' /\ iteration' = iteration + 1 /\ iteration < budget
      BY <1>4 DEF PlanCalls
    <3> QED
      BY <1>4, <3>1 DEF PlanCalls
  <2>4. Answered = 1 .. proposed /\ Answered' = Answered
    BY <1>4 DEF PlanCalls
  <2>5. CallInv'
    <3>1. node' = "execute_tools" /\ ~ pending' /\ outcome' = "none"
      BY <1>4 DEF PlanCalls
    <3>5. calls' # {}
      <4>1. proposed + 1 \in calls'
        BY <2>1, <2>2
      <4> QED
        BY <4>1
    <3>2. \A a \in Answered', d \in calls' : a < d
      BY <2>1, <2>4
    <3>3. Answered' \cup calls' = 1 .. proposed'
      BY <2>1, <2>2, <2>4
    <3>4. performed' \subseteq Answered'
      BY <1>4, <2>4 DEF PlanCalls
    <3> QED
      BY <3>1, <3>2, <3>3, <3>4, <3>5
  <2>6. PlannerSeesAnswers' /\ TranscriptKeepsUp'
    BY <1>4, <2>1, <2>4 DEF PlanCalls, InHand
  <2> QED
    BY <2>3, <2>5, <2>6, <2>7, <2>8
<1> QED
  BY <1>1, <1>2, <1>3, <1>4 DEF Plan

(* Steps of the execution node.                                            *)
LEMMA ExecuteStep == IInv /\ ExecuteTools => IInv'
<1> SUFFICES ASSUME IInv, ExecuteTools PROVE IInv'
  OBVIOUS
<1> USE DEF IInv, TypeOK, LoopInv, CallInv, StatusInv, Bounded, PlannerSeesAnswers,
            TranscriptKeepsUp, HonestStatus, Nodes, Answered
<1>1. PICK c \in calls : CallPerformed(c) \/ CallBlocked(c) \/ CallNeedsApproval(c)
                         \/ RecordResult(c)
  BY DEF ExecuteTools
<1>2. c \in Nat
  BY <1>1
<1>3. CASE CallPerformed(c)
  BY <1>2, <1>3 DEF CallPerformed, InHand
<1>4. CASE CallBlocked(c)
  BY <1>2, <1>4 DEF CallBlocked, InHand
<1>5. CASE CallNeedsApproval(c)
  BY <1>2, <1>5 DEF CallNeedsApproval, InHand
<1>6. CASE RecordResult(c)
  <2>1. node = "execute_tools" /\ InHand(c) /\ c \notin Answered
    BY <1>2, <1>6 DEF RecordResult, FileResult, Queue, EndExecution
  <2>2. Answered' = Answered \cup {c}
    BY <1>6 DEF RecordResult, FileResult, Queue, EndExecution
  <2>3. TypeOK'
    BY <1>2, <1>6 DEF RecordResult, FileResult, Queue, EndExecution, Leave
  <2>4. LoopInv' /\ StatusInv' /\ Bounded' /\ HonestStatus'
    BY <1>6 DEF RecordResult, FileResult, Queue, EndExecution, Leave
  <2>5. CallInv'
    <3>1. \A a \in Answered', d \in calls' : a < d
      BY <1>2, <1>6, <2>1, <2>2 DEF RecordResult, FileResult, Queue, EndExecution, InHand
    <3>2. performed \subseteq Answered'
      BY <2>1, <2>2 DEF InHand
    <3>3. calls' = {} \/ calls' = calls \ {c}
      BY <1>6 DEF RecordResult, FileResult, Queue, EndExecution
    <3>4. ~ pending' => Answered' \cup calls' = 1 .. proposed
      BY <1>6, <2>1, <2>2 DEF RecordResult, FileResult, Queue, EndExecution
    <3> QED
      BY <1>6, <2>1, <2>2, <3>1, <3>2, <3>3, <3>4 DEF RecordResult, FileResult, Queue, EndExecution, Leave
  <2>6. PlannerSeesAnswers' /\ TranscriptKeepsUp'
    BY <1>6, <2>1, <2>2 DEF RecordResult, FileResult, Queue, EndExecution, InHand, Leave
  <2> QED
    BY <2>3, <2>4, <2>5, <2>6
<1> QED
  BY <1>1, <1>3, <1>4, <1>5, <1>6

(* Every step of a run preserves the invariant.                            *)
LEMMA InvStep == IInv /\ [Next]_vars => IInv'
<1> SUFFICES ASSUME IInv, [Next]_vars PROVE IInv'
  OBVIOUS
<1> USE DEF IInv, TypeOK, LoopInv, CallInv, StatusInv, Bounded, PlannerSeesAnswers,
            TranscriptKeepsUp, HonestStatus, Nodes, Answered
<1>1. CASE LoadContext
  BY <1>1 DEF LoadContext, Leave, InHand
<1>2. CASE DiscoverTools
  BY <1>2 DEF DiscoverTools, Leave, InHand
<1>3. CASE Plan
  BY <1>3, PlanStep
<1>4. CASE ExecuteTools
  BY <1>4, ExecuteStep
<1>5. CASE ValidatePaused
  BY <1>5 DEF ValidatePaused, Leave, InHand
<1>6. CASE Validate
  <2>0. status = "running" /\ "llm" \notin errors /\ final \in BOOLEAN
    BY <1>6 DEF Validate, Leave
  <2>1. status' = "running" /\ "llm" \notin errors'
    BY <1>6, <2>0 DEF Validate
  <2>6. final' \in BOOLEAN
    BY <1>6, <2>0 DEF Validate
  <2>2. errors' \subseteq {"no_tools", "step_limit", "llm", "tool", "repeated"}
    BY <1>6 DEF Validate
  <2>3. TypeOK' /\ StatusInv' /\ HonestStatus'
    BY <1>6, <2>1, <2>2, <2>6 DEF Validate, Leave
  <2>4. LoopInv' /\ Bounded'
    <3>1. steps' = 3 * iteration + 2 /\ iteration' = iteration /\ budget' = budget
      BY <1>6 DEF Validate, Leave
    <3>2. node' \in {"plan", "respond"} /\ completions' = completions
      BY <1>6 DEF Validate, Leave
    <3>3. completions = iteration /\ iteration <= budget
      BY <1>6 DEF Validate, Leave
    <3> QED
      BY <2>1, <3>1, <3>2, <3>3
  <2>5. CallInv' /\ PlannerSeesAnswers' /\ TranscriptKeepsUp'
    BY <1>6 DEF Validate, Leave, InHand
  <2> QED
    BY <2>3, <2>4, <2>5
<1>7. CASE Respond
  BY <1>7 DEF Respond, ClosingStatus, Leave, InHand
<1>8. CASE Abort
  BY <1>8 DEF Abort, InHand
<1>9. CASE UNCHANGED vars
  BY <1>9 DEF vars, InHand
<1> QED
  BY <1>1, <1>2, <1>3, <1>4, <1>5, <1>6, <1>7, <1>8, <1>9 DEF Next, Run, Ended

(* The inductive invariant holds throughout a run.                         *)
THEOREM Invariant == Spec => []IInv
BY InvInit, InvStep, PTL DEF Spec

(* The iteration ceiling bounds completions and graph steps.               *)
THEOREM LoopIsBounded == Spec => []Bounded
<1>1. IInv => Bounded
  BY DEF IInv
<1> QED
  BY Invariant, <1>1, PTL

(* The model is never asked over an unanswered or twice answered call.     *)
THEOREM AnswersBeforePlanning == Spec => []PlannerSeesAnswers
<1>1. IInv => PlannerSeesAnswers
  BY DEF IInv
<1> QED
  BY Invariant, <1>1, PTL

(* At most the call in hand is carried out and not on record.              *)
THEOREM TranscriptIsCurrent == Spec => []TranscriptKeepsUp
<1>1. IInv => TranscriptKeepsUp
  BY DEF IInv
<1> QED
  BY Invariant, <1>1, PTL

(* The status told to the caller is the one of the run.                    *)
THEOREM StatusIsHonest == Spec => []HonestStatus
<1>1. IInv => HonestStatus
  BY DEF IInv
<1> QED
  BY Invariant, <1>1, PTL

(* After an approval was asked for, nothing more is run or planned.        *)
THEOREM PauseIsFinal == Spec => PauseStops
<1>1. IInv /\ [Next]_vars =>
        [outcome = "approval" \/ pending =>
           performed' = performed /\ completions' = completions /\ proposed' = proposed]_vars
  <2> SUFFICES ASSUME IInv, Next, outcome = "approval" \/ pending
               PROVE  performed' = performed /\ completions' = completions
                      /\ proposed' = proposed
    BY DEF vars
  <2>1. node # "plan"
    BY DEF IInv, CallInv, Nodes
  <2>2. CASE ExecuteTools
    <3>1. PICK c \in calls : CallPerformed(c) \/ CallBlocked(c) \/ CallNeedsApproval(c)
                             \/ RecordResult(c)
      BY <2>2 DEF ExecuteTools
    <3>2. ~ CallPerformed(c)
      BY DEF IInv, CallInv, CallPerformed
    <3> QED
      BY <3>1, <3>2 DEF CallBlocked, CallNeedsApproval, RecordResult
  <2>3. ~ Plan
    BY <2>1 DEF Plan, PlanBudget, PlanFails, PlanAnswers, PlanCalls, Leave
  <2> QED
    BY <2>2, <2>3 DEF Next, Run, LoadContext, DiscoverTools, ValidatePaused, Validate, Respond,
                      Abort, Ended, vars
<1> QED
  BY Invariant, <1>1, PTL DEF Spec, PauseStops

(* Tools are called in the order the model proposed the calls.             *)
THEOREM OrderedEffects == Spec => EffectsInOrder
<1>1. IInv /\ [Next]_vars => [\A c \in performed' \ performed : \A d \in performed : d < c]_vars
  <2> SUFFICES ASSUME IInv, Next, NEW c \in performed' \ performed, NEW d \in performed
               PROVE  d < c
    BY DEF vars
  <2>1. PICK b \in calls : CallPerformed(b)
    BY DEF Next, Run, ExecuteTools, CallBlocked, CallNeedsApproval, RecordResult, FileResult,
           Queue, EndExecution, LoadContext, DiscoverTools, Plan, PlanBudget, PlanFails, PlanAnswers, PlanCalls, ValidatePaused,
           Validate, Respond, Abort, Ended, vars
  <2>2. c = b
    BY <2>1 DEF CallPerformed
  <2>3. d \in Answered
    BY <2>1 DEF CallPerformed, IInv, CallInv, Nodes
  <2> QED
    BY <2>1, <2>2, <2>3 DEF IInv, CallInv
<1> QED
  BY Invariant, <1>1, PTL DEF Spec, EffectsInOrder
==============================================================================

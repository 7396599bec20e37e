-------------------------- MODULE ConversationProofs --------------------------
(***************************************************************************)
(* However the requests of one conversation race, collide and die, its     *)
(* turns stay contiguous, answer the calls they propose, tell of approvals *)
(* and report what was carried out, are replayed without orphans through   *)
(* every window, and its approvals implement the abstract gate, for every  *)
(* number of requests and for every budget.                                *)
(***************************************************************************)
EXTENDS ConversationRefinement, FiniteSetTheorems, WellFoundedInduction, TLAPS

(* A nonempty set of natural numbers has a least element.                  *)
LEMMA LeastNatural ==
  ASSUME NEW S, S \subseteq Nat, S # {}
  PROVE  \E x \in S : \A y \in S : x <= y
<1> DEFINE Less == {ss \in Nat \X Nat : ss[1] < ss[2]}
<1>1. IsWellFoundedOn(Less, Nat)
  BY NatLessThanWellFounded DEF OpToRel
<1> HIDE DEF Less
<1>2. PICK x \in S : \A y \in S : ~ (<<y, x>> \in Less)
  BY <1>1, WFMin
<1>3. ASSUME NEW y \in S PROVE x <= y
  <2>1. ~ (<<y, x>> \in Less)
    BY <1>2
  <2>2. y < x => <<y, x>> \in Less
    BY DEF Less
  <2> QED
    BY <2>1, <2>2
<1> QED
  BY <1>3

-------------------------------------------------------------------------------
ChatStages == {"idle", "asking", "loading", "planning", "proposing", "resulting", "pausing",
               "noticing", "answering", "syncing"} \cup Over
ConfirmStages == {"idle", "deciding", "claimed", "executing", "marking", "reporting", "loading", "closing",
                  "activating"} \cup Over

(* Where chats and confirmations may be, and what a confirmation decides.  *)
StageInv ==
  /\ \A a \in Chats : pc[a] \in ChatStages
  /\ \A k \in Confirms : /\ pc[k] \in ConfirmStages
                         /\ pc[k] # "idle" => decides[k] \in Chats

(* A sequence number that was read is at most the next one, for good.      *)
SeqInv ==
  /\ IsFiniteSet(rows)
  /\ Contiguous
  /\ \A r \in Requests : slot[r] <= Cardinality(rows) + 1

(* The calls in hand are calls of this chat, and there is one to answer    *)
(* wherever a result is written.                                           *)
TodoInv ==
  /\ \A a \in Chats : /\ todo[a] \subseteq Proposable(a)
                      /\ pc[a] \in {"proposing", "resulting", "pausing"} => todo[a] # {}
  /\ \A k \in Confirms : todo[k] = {}

(* A chat asks once; what was claimed was claimed by one confirmation, and *)
(* nothing is carried out but by it, once, whatever the row says later.    *)
Unasked == {"idle", "asking", "loading", "planning", "proposing", "resulting"}
Granted(a) == {k \in granted : decides[k] = a}
Acting == {"claimed", "executing", "marking", "reporting", "loading", "closing", "activating",
           "answered"}

GateInv ==
  /\ \A a \in Chats : /\ pc[a] \in Unasked => approval[a].status = "none"
                      /\ performed[a] <= 1
                      /\ performed[a] > 0 => Granted(a) # {}
  /\ \A k \in Confirms : /\ pc[k] # "idle" => approval[decides[k]].status # "none"
                         /\ pc[k] \in Acting => k \in granted
                         /\ undecided[k] => pc[k] = "deciding"
  /\ \A k \in granted : /\ pc[k] \in Acting \cup {"error"}
                        /\ approval[decides[k]].status # "pending"
                        /\ pc[k] \in {"claimed", "executing"} => performed[decides[k]] = 0
  /\ \A j, k \in granted : decides[j] = decides[k] => j = k

IInv == TypeOK /\ StageInv /\ SeqInv /\ TodoInv /\ GateInv
-------------------------------------------------------------------------------
LEMMA InvInit == Init => IInv
<1> SUFFICES ASSUME Init PROVE IInv
  OBVIOUS
<1> USE BoundsAssumption DEF Init, Requests
<1>1. TypeOK
  BY DEF TypeOK, CallIds, Writing, Over, Decided
<1>2. StageInv
  BY DEF StageInv, ChatStages, ConfirmStages, Over
<1>3. SeqInv
  <2>1. IsFiniteSet({}) /\ Cardinality({}) = 0
    BY FS_EmptySet
  <2>2. {m.seq : m \in {}} = 1 .. 0
    OBVIOUS
  <2> QED
    BY <2>1, <2>2 DEF SeqInv, Contiguous
<1>4. TodoInv
  BY DEF TodoInv
<1>5. GateInv
  BY DEF GateInv, Unasked, Acting, Granted
<1> QED
  BY <1>1, <1>2, <1>3, <1>4, <1>5 DEF IInv

(* The call in hand is one of the calls that are left.                     *)
LEMMA NextCallIsLeft ==
  ASSUME NEW a \in Chats, todo[a] \subseteq Proposable(a), todo[a] # {},
         MaxRounds[a] * MaxCalls[a] \in Nat
  PROVE  NextCall(a) \in todo[a]
<1> DEFINE S == {c.n : c \in todo[a]}
<1>1. \A c \in todo[a] : c.n \in Nat
  BY DEF Proposable, Call
<1>2. S \subseteq Nat /\ S # {}
  BY <1>1
<1>3. PICK x \in S : \A y \in S : x <= y
  BY <1>2, LeastNatural
<1>4. \E c \in todo[a] : \A d \in todo[a] : c.n <= d.n
  BY <1>3
<1> QED
  BY <1>4 DEF NextCall

LEMMA Products ==
  ASSUME NEW a \in Chats
  PROVE  /\ MaxRounds[a] \in Nat /\ MaxCalls[a] \in Nat
         /\ MaxRounds[a] * MaxCalls[a] \in Nat
         /\ \A n \in Nat, i \in 1 .. MaxCalls[a] :
              n < MaxRounds[a] => n * MaxCalls[a] + i \in 1 .. MaxRounds[a] * MaxCalls[a]
<1>1. MaxRounds[a] \in Nat /\ MaxCalls[a] \in Nat
  BY BoundsAssumption
<1>2. \A m, c \in Nat : m * c \in Nat
  OBVIOUS
<1>3. \A n, m, c \in Nat : n < m => n * c + c <= m * c
  OBVIOUS
<1>4. ASSUME NEW n \in Nat, NEW i \in 1 .. MaxCalls[a], n < MaxRounds[a]
      PROVE  n * MaxCalls[a] + i \in 1 .. MaxRounds[a] * MaxCalls[a]
  <2> DEFINE p == n * MaxCalls[a]
             q == MaxRounds[a] * MaxCalls[a]
  <2>1. p \in Nat /\ q \in Nat /\ p + MaxCalls[a] <= q
    BY <1>1, <1>2, <1>3, <1>4
  <2> HIDE DEF p, q
  <2>2. p + i \in 1 .. q
    BY <1>1, <2>1
  <2> QED
    BY <2>2 DEF p, q
<1> QED
  BY <1>1, <1>2, <1>4

-------------------------------------------------------------------------------
Turns == [seq : Nat, by : Requests, role : {"user", "assistant", "tool"}, calls : SUBSET CallIds,
          answers : CallIds, approval_required : BOOLEAN, executed : BOOLEAN]

LEMMA ProposableAreCalls ==
  ASSUME NEW a \in Chats PROVE Proposable(a) \subseteq CallIds
BY Products DEF Proposable, CallIds, Call, Requests

(* The turn a request writes bears the number it read.                     *)
LEMMA TurnIsTyped ==
  ASSUME IInv, NEW r \in Requests, pc[r] \in Writing
  PROVE  Turn(r) \in Turns /\ Turn(r).seq = slot[r]
<1> USE DEF IInv, TypeOK, Turn, Turns
<1>0. NoCall \in CallIds /\ {} \in SUBSET CallIds /\ todo[r] \in SUBSET CallIds /\ slot[r] \in Nat
  BY DEF CallIds
<1>1. CASE pc[r] = "asking"
  BY <1>0, <1>1
<1>2. CASE pc[r] = "proposing"
  BY <1>0, <1>2
<1>3. CASE pc[r] \in {"resulting", "pausing"}
  <2>1. r \in Chats
    BY <1>3 DEF StageInv, ConfirmStages, Over, Requests
  <2>2. NextCall(r) \in CallIds
    BY <1>3, <2>1, NextCallIsLeft, Products, ProposableAreCalls DEF TodoInv
  <2> QED
    BY <1>0, <1>3, <2>2
<1>4. CASE pc[r] = "reporting"
  <2>1. r \in Confirms
    BY <1>4 DEF StageInv, ChatStages, Over, Requests
  <2>2. Call(decides[r], 0) \in CallIds
    BY <1>4, <2>1 DEF StageInv, CallIds, Call, Requests
  <2> QED
    BY <1>0, <1>4, <2>2
<1>5. CASE pc[r] \in {"noticing", "answering", "closing"}
  BY <1>0, <1>5
<1> QED
  BY <1>1, <1>2, <1>3, <1>4, <1>5 DEF Writing

LEMMA NextSequenceIs ==
  ASSUME SeqInv PROVE NextSequence = Cardinality(rows) + 1
<1>1. Cardinality(rows) \in Nat
  BY FS_CardinalityType DEF SeqInv
<1>2. {m.seq : m \in rows} \cup {0} = 0 .. Cardinality(rows)
  BY <1>1 DEF SeqInv, Contiguous
<1>3. Max(0 .. Cardinality(rows)) = Cardinality(rows)
  BY <1>1 DEF Max
<1> QED
  BY <1>2, <1>3 DEF NextSequence

-------------------------------------------------------------------------------
LEMMA TypeStep ==
  ASSUME IInv, [Next]_vars PROVE TypeOK'
<1> USE DEF TypeOK, Goto, Load, Begin, End, turns, gate, session, row, Requests
<1>0. TypeOK /\ StageInv /\ SeqInv /\ TodoInv
  BY DEF IInv
<1>1. ASSUME NEW r \in Requests, Chat(r) PROVE TypeOK'
  BY <1>0, <1>1 DEF Chat, Writing
<1>2. ASSUME NEW r \in Requests, LoadHistory(r) PROVE TypeOK'
  BY <1>0, <1>2 DEF LoadHistory, Writing
<1>3. ASSUME NEW r \in Requests, Complete(r) PROVE TypeOK'
  <2>0. r \in Chats
    BY <1>0, <1>3 DEF Complete, StageInv, ConfirmStages, Over
  <2>1. MaxRounds[r] \in Nat /\ MaxCalls[r] \in Nat /\ rounds[r] \in Nat
    BY <1>0, <2>0, BoundsAssumption
  <2>2. rounds[r] * MaxCalls[r] \in Nat
    BY <2>1
  <2>3. \A n \in 1 .. MaxCalls[r] :
          {Call(r, rounds[r] * MaxCalls[r] + i) : i \in 1 .. n} \subseteq CallIds
    BY <2>1, <2>2 DEF CallIds, Call
  <2>4. todo' \in [Requests -> SUBSET CallIds]
    BY <1>0, <1>3, <2>3 DEF Complete
  <2>5. rounds' \in [Requests -> Nat] /\ \A q \in Chats : rounds'[q] <= MaxRounds[q]
    BY <1>0, <1>3, <2>0, <2>1 DEF Complete, BudgetLeft
  <2> QED
    BY <1>0, <1>3, <2>4, <2>5 DEF Complete, Writing
<1>4. ASSUME NEW r \in Requests, AskApproval(r) PROVE TypeOK'
  <2>0. r \in Chats
    BY <1>0, <1>4 DEF AskApproval, StageInv, ConfirmStages, Over
  <2>1. NextCall(r) \in CallIds
    BY <1>0, <1>4, <2>0, NextCallIsLeft, Products DEF AskApproval, TodoInv
  <2> QED
    BY <1>0, <1>4, <2>0, <2>1 DEF AskApproval, Writing
<1>5. ASSUME NEW k \in Confirms, NEW a \in Chats, Arrive(k, a) PROVE TypeOK'
  BY <1>0, <1>5 DEF Arrive
<1>5a. ASSUME NEW k \in Requests, Confirm(k) PROVE TypeOK'
  <2>1. k \in Confirms
    BY <1>0, <1>5a DEF Confirm, StageInv, ChatStages, Over
  <2> QED
    BY <1>0, <1>5a, <2>1 DEF Confirm, Decide, Decided
<1>5b. ASSUME NEW k \in Requests, Condemn(k) PROVE TypeOK'
  <2>1. approval' \in [Chats -> [status : {"none", "pending"} \cup Decided, call : CallIds]]
    BY <1>0, <1>5b DEF Condemn, Decide, Decided
  <2>2. End(k, "error") /\ UNCHANGED <<rows, decides, granted, performed, row, alone>>
    BY <1>5b DEF Condemn
  <2>3. \A a \in Chats : rounds'[a] <= MaxRounds[a]
    BY <1>0, <2>2, BoundsAssumption
  <2> QED
    BY <1>0, <2>1, <2>2, <2>3 DEF Over
<1>6. ASSUME NEW a \in Chats, TurnDown(a) PROVE TypeOK'
  BY <1>0, <1>6 DEF TurnDown, Decide, Decided
<1>7. ASSUME NEW k \in Requests, LoadConversation(k) PROVE TypeOK'
  BY <1>0, <1>7 DEF LoadConversation
<1>8. ASSUME NEW k \in Requests, Execute(k) PROVE TypeOK'
  <2>1. k \in Confirms /\ decides[k] \in Chats
    BY <1>0, <1>8 DEF Execute, StageInv, ChatStages, Over
  <2>2. performed' \in [Chats -> Nat] /\ ok' \in [Requests -> BOOLEAN]
    <3>1. CASE UNCHANGED <<performed, ok>>
      BY <1>0, <3>1
    <3>2. ASSUME NEW n \in 0 .. 1, NEW success \in {FALSE, n = 1},
                 performed' = [performed EXCEPT ![decides[k]] = @ + n],
                 ok' = [ok EXCEPT ![k] = success]
          PROVE  performed' \in [Chats -> Nat] /\ ok' \in [Requests -> BOOLEAN]
      <4>1. success \in BOOLEAN
        OBVIOUS
      <4>2. ok' \in [Requests -> BOOLEAN]
        BY <1>0, <3>2, <4>1
      <4>3. performed[decides[k]] + n \in Nat
        BY <1>0, <2>1
      <4> QED
        BY <1>0, <2>1, <3>2, <4>2, <4>3
    <3> QED
      BY <1>8, <3>1, <3>2 DEF Execute
  <2>3. pc' \in {[pc EXCEPT ![k] = "marking"], [pc EXCEPT ![k] = "reporting"]}
    BY <1>8 DEF Execute
  <2>4. UNCHANGED <<turns, approval, decides, granted, copy, undecided, row, alone>>
    BY <1>8 DEF Execute
  <2> QED
    BY <1>0, <2>2, <2>3, <2>4 DEF Writing
<1>9. ASSUME NEW k \in Requests, Mark(k) PROVE TypeOK'
  <2>0. /\ pc' = [pc EXCEPT ![k] = "reporting"]
        /\ UNCHANGED <<turns, decides, granted, performed, session, row, alone>>
    BY <1>9 DEF Mark, Goto
  <2>1. approval' \in [Chats -> [status : {"none", "pending"} \cup Decided, call : CallIds]]
    <3>1. PICK to \in Decided : approval' = [approval EXCEPT ![decides[k]].status = to]
      BY <1>9 DEF Mark, Decide, Decided
    <3>2. \A a \in Chats : [approval[a] EXCEPT !.status = to]
                              \in [status : {"none", "pending"} \cup Decided, call : CallIds]
      BY <1>0, <3>1
    <3> QED
      BY <1>0, <3>1, <3>2
  <2> QED
    BY <1>0, <2>0, <2>1 DEF turns, session, row, Writing
<1>10. ASSUME NEW r \in Requests, ReadNext(r) PROVE TypeOK'
  <2>1. NextSequence \in Nat
    BY <1>0, NextSequenceIs, FS_CardinalityType DEF SeqInv
  <2> QED
    BY <1>0, <1>10, <2>1 DEF ReadNext
<1>11. ASSUME NEW r \in Requests, Insert(r) PROVE TypeOK'
  <2>1. Turn(r) \in Turns
    BY <1>11, TurnIsTyped DEF Insert
  <2>2. rows' \subseteq Turns
    BY <1>0, <1>11, <2>1 DEF Insert, Turns
  <2>3. todo' \in [Requests -> SUBSET CallIds]
    BY <1>0, <1>11 DEF Insert
  <2> QED
    BY <1>0, <1>11, <2>2, <2>3 DEF Insert, Turns, After, Writing
<1>12. ASSUME NEW r \in Requests, Conflict(r) \/ Abandon(r) \/ TurnedAway(r) PROVE TypeOK'
  <2>1. /\ End(r, "error")
        /\ UNCHANGED <<rows, gate, row, alone>>
    BY <1>12 DEF Conflict, Abandon, TurnedAway
  <2>2. \A a \in Chats : rounds'[a] <= MaxRounds[a]
    BY <1>0, <2>1, BoundsAssumption
  <2> QED
    BY <1>0, <2>1, <2>2 DEF Over
<1>13. ASSUME NEW r \in Requests, Settle(r) PROVE TypeOK'
  BY <1>0, <1>13, BoundsAssumption DEF Settle, WriteStatus, Outcome, Over
<1>14. CASE UNCHANGED vars
  BY <1>0, <1>14 DEF vars
<1> QED
  BY <1>1, <1>2, <1>3, <1>4, <1>5, <1>5a, <1>5b, <1>6, <1>7, <1>8, <1>9, <1>10, <1>11, <1>12, <1>13,
     <1>14 DEF Next, Serve, Quiescent

LEMMA StageStep ==
  ASSUME IInv, [Next]_vars PROVE StageInv'
<1> USE BoundsAssumption DEF TypeOK, StageInv, ChatStages, ConfirmStages, Over, Goto, gate, Requests
<1>0. TypeOK /\ StageInv
  BY DEF IInv
<1>1. ASSUME NEW r \in Requests, Chat(r) PROVE StageInv'
  BY <1>0, <1>1 DEF Chat, Begin
<1>2. ASSUME NEW r \in Requests, LoadHistory(r) PROVE StageInv'
  BY <1>0, <1>2 DEF LoadHistory
<1>3. ASSUME NEW r \in Requests, Complete(r) PROVE StageInv'
  BY <1>0, <1>3 DEF Complete
<1>4. ASSUME NEW r \in Requests, AskApproval(r) PROVE StageInv'
  BY <1>0, <1>4 DEF AskApproval
<1>5. ASSUME NEW k \in Confirms, NEW a \in Chats, Arrive(k, a) PROVE StageInv'
  BY <1>0, <1>5 DEF Arrive, Begin
<1>5a. ASSUME NEW k \in Requests, Confirm(k) PROVE StageInv'
  BY <1>0, <1>5a DEF Confirm
<1>6. ASSUME NEW a \in Chats, TurnDown(a) PROVE StageInv'
  BY <1>0, <1>6 DEF TurnDown
<1>7. ASSUME NEW k \in Requests, LoadConversation(k) \/ Execute(k) \/ Mark(k) PROVE StageInv'
  BY <1>0, <1>7 DEF LoadConversation, Execute, Mark
<1>8. ASSUME NEW r \in Requests, ReadNext(r) PROVE StageInv'
  BY <1>0, <1>8 DEF ReadNext
<1>9. ASSUME NEW r \in Requests, Insert(r) PROVE StageInv'
  BY <1>0, <1>9 DEF Insert, After, Writing
<1>10. ASSUME NEW r \in Requests,
              Conflict(r) \/ Abandon(r) \/ Settle(r) \/ TurnedAway(r) \/ Condemn(r)
       PROVE  StageInv'
  <2>1. pc[r] # "idle" /\ decides' = decides /\ \E to \in Over : pc' = [pc EXCEPT ![r] = to]
    BY <1>10 DEF Conflict, Abandon, Settle, TurnedAway, Condemn, End, Writing
  <2> QED
    BY <1>0, <2>1
<1>11. CASE UNCHANGED vars
  BY <1>0, <1>11 DEF vars
<1> QED
  BY <1>1, <1>2, <1>3, <1>4, <1>5, <1>5a, <1>6, <1>7, <1>8, <1>9, <1>10, <1>11 DEF Next, Serve, Quiescent

-------------------------------------------------------------------------------
(* Only reading a number and inserting a turn touch the transcript.        *)
LEMMA SeqStep ==
  ASSUME IInv, [Next]_vars PROVE SeqInv'
<1>0. SeqInv /\ slot \in [Requests -> Nat] /\ Cardinality(rows) \in Nat
  BY FS_CardinalityType DEF IInv, TypeOK, SeqInv
<1>1. ASSUME rows' = rows, \A r \in Requests : slot'[r] \in {slot[r], 0} PROVE SeqInv'
  BY <1>0, <1>1 DEF SeqInv, Contiguous
<1>2. ASSUME NEW r \in Requests, ReadNext(r) PROVE SeqInv'
  BY <1>0, <1>2, NextSequenceIs DEF ReadNext, SeqInv, Contiguous
<1>3. ASSUME NEW r \in Requests, Insert(r) PROVE SeqInv'
  <2> DEFINE n == Cardinality(rows)
  <2>1. Turn(r).seq = slot[r] /\ rows' = rows \cup {Turn(r)}
    BY <1>3, TurnIsTyped DEF Insert
  <2>2. slot[r] = n + 1
    BY <1>0, <1>3 DEF Insert, Free, SeqInv, Contiguous
  <2>3. Turn(r) \notin rows
    BY <1>3, <2>1 DEF Insert, Free
  <2>4. IsFiniteSet(rows') /\ Cardinality(rows') = n + 1
    BY <1>0, <2>1, <2>3, FS_AddElement DEF SeqInv
  <2>5. {m.seq : m \in rows'} = {m.seq : m \in rows} \cup {n + 1}
    BY <2>1, <2>2
  <2>6. {m.seq : m \in rows'} = 1 .. n + 1
    <3>1. {m.seq : m \in rows} = 1 .. n /\ n \in Nat
      BY <1>0 DEF SeqInv, Contiguous
    <3> HIDE DEF n
    <3>2. (1 .. n) \cup {n + 1} = 1 .. n + 1
      BY <3>1
    <3> QED
      BY <2>5, <3>1, <3>2
  <2>7. \A q \in Requests : slot'[q] <= n + 2
    BY <1>0, <1>3 DEF Insert, SeqInv
  <2> HIDE DEF n
  <2> QED
    BY <1>0, <2>4, <2>6, <2>7 DEF SeqInv, Contiguous, n
<1>4. ASSUME NEW r \in Requests, Chat(r) \/ LoadHistory(r) \/ Complete(r) \/ AskApproval(r)
      PROVE  SeqInv'
  BY <1>1, <1>4 DEF Chat, LoadHistory, Complete, AskApproval, turns
<1>5. ASSUME NEW k \in Requests, LoadConversation(k) \/ Execute(k) \/ Mark(k) PROVE SeqInv'
  BY <1>1, <1>5 DEF LoadConversation, Execute, Mark, turns
<1>6. ASSUME NEW k \in Confirms, NEW a \in Chats, Arrive(k, a) PROVE SeqInv'
  BY <1>1, <1>6 DEF Arrive, turns
<1>6a. ASSUME NEW k \in Requests, Confirm(k) PROVE SeqInv'
  BY <1>1, <1>6a DEF Confirm, turns
<1>7. ASSUME NEW a \in Chats, TurnDown(a) PROVE SeqInv'
  BY <1>1, <1>7 DEF TurnDown, turns
<1>8. ASSUME NEW r \in Requests,
             Conflict(r) \/ Abandon(r) \/ Settle(r) \/ TurnedAway(r) \/ Condemn(r)
      PROVE  SeqInv'
  <2>1. rows' = rows /\ slot' = [slot EXCEPT ![r] = 0]
    BY <1>8 DEF Conflict, Abandon, Settle, TurnedAway, Condemn, End
  <2> QED
    BY <1>0, <1>1, <2>1
<1>9. CASE UNCHANGED vars
  BY <1>1, <1>9 DEF vars, turns
<1> QED
  BY <1>2, <1>3, <1>4, <1>5, <1>6, <1>6a, <1>7, <1>8, <1>9 DEF Next, Serve, Quiescent

LEMMA CallsAreFinite ==
  ASSUME NEW a \in Chats PROVE IsFiniteSet(Proposable(a))
<1> DEFINE N == MaxRounds[a] * MaxCalls[a]
           f == [c \in Proposable(a) |-> c.n]
<1>0. N \in Nat
  BY Products
<1> HIDE DEF N
<1>1. IsFiniteSet(1 .. N)
  BY <1>0, FS_Interval
<1>2. \A c \in Proposable(a) : c = Call(a, c.n) /\ c.n \in 1 .. N
  BY DEF Proposable, Call, N
<1>3. f \in Injection(Proposable(a), 1 .. N)
  BY <1>2 DEF Injection, IsInjective
<1> HIDE DEF f
<1> QED
  BY <1>1, <1>3, FS_Injection

LEMMA TodoStep ==
  ASSUME IInv, [Next]_vars PROVE TodoInv'
<1> USE BoundsAssumption DEF TodoInv, Goto, Requests
<1>0. TypeOK /\ StageInv /\ TodoInv
  BY DEF IInv
<1>0a. pc = [r \in Requests |-> pc[r]] /\ todo \in [Requests -> SUBSET CallIds]
  BY <1>0 DEF TypeOK
<1>1. ASSUME todo' = todo,
             \A a \in Chats : \/ pc'[a] \notin {"proposing", "resulting", "pausing"}
                              \/ pc[a] \in {"proposing", "resulting", "pausing"}
      PROVE  TodoInv'
  BY <1>0, <1>1
<1>2. ASSUME NEW r \in Requests, Complete(r) PROVE TodoInv'
  <2>0. r \in Chats
    BY <1>0, <1>2 DEF Complete, StageInv, ConfirmStages, Over
  <2>1. CASE /\ BudgetLeft(r)
             /\ \E n \in 1 .. MaxCalls[r] :
                  todo' = [todo EXCEPT ![r] = {Call(r, rounds[r] * MaxCalls[r] + i) : i \in 1 .. n}]
    <3>1. PICK n \in 1 .. MaxCalls[r] :
            todo' = [todo EXCEPT ![r] = {Call(r, rounds[r] * MaxCalls[r] + i) : i \in 1 .. n}]
      BY <2>1
    <3>2. rounds[r] \in Nat /\ rounds[r] < MaxRounds[r] /\ MaxCalls[r] \in Nat
      BY <1>0, <2>0, <2>1, Products DEF BudgetLeft, TypeOK
    <3>3. \A i \in 1 .. n : rounds[r] * MaxCalls[r] + i \in 1 .. MaxRounds[r] * MaxCalls[r]
      BY <2>0, <3>2, Products
    <3>4. todo'[r] = {Call(r, rounds[r] * MaxCalls[r] + i) : i \in 1 .. n}
      BY <1>0a, <3>1
    <3>5. todo'[r] \subseteq Proposable(r)
      BY <3>3, <3>4 DEF Proposable
    <3>6. todo'[r] # {}
      BY <3>2, <3>4
    <3> QED
      BY <1>0, <1>0a, <2>0, <1>2, <3>1, <3>5, <3>6 DEF Complete
  <2>2. CASE todo' = todo /\ pc' \in {[pc EXCEPT ![r] = "answering"], [pc EXCEPT ![r] = "syncing"]}
    BY <1>0a, <1>1, <2>2
  <2> QED
    BY <1>2, <2>1, <2>2 DEF Complete
<1>3. ASSUME NEW r \in Requests, Insert(r) PROVE TodoInv'
  <2>1. CASE pc[r] \in {"resulting", "pausing"}
    <3>0. r \in Chats
      BY <1>0, <2>1 DEF StageInv, ConfirmStages, Over
    <3>1. todo' = [todo EXCEPT ![r] = @ \ {NextCall(r)}]
      BY <1>3, <2>1 DEF Insert
    <3>2. pc'[r] = After(r) /\ \A q \in Requests \ {r} : pc'[q] = pc[q]
      BY <1>0a, <1>3 DEF Insert
    <3>3. ASSUME pc'[r] \in {"proposing", "resulting", "pausing"} PROVE todo'[r] # {}
      <4>1. Cardinality(todo[r]) > 1
        BY <2>1, <3>2, <3>3 DEF After
      <4>2. IsFiniteSet(todo[r])
        BY <1>0, <3>0, CallsAreFinite, FS_Subset
      <4>3. Cardinality(todo[r] \ {NextCall(r)}) > 0 /\ IsFiniteSet(todo[r] \ {NextCall(r)})
        <5>1. Cardinality(todo[r]) \in Nat
          BY <4>2, FS_CardinalityType
        <5>2. /\ IsFiniteSet(todo[r] \ {NextCall(r)})
              /\ Cardinality(todo[r] \ {NextCall(r)}) \in {Cardinality(todo[r]), Cardinality(todo[r]) - 1}
          BY <4>2, FS_RemoveElement
        <5> QED
          BY <4>1, <5>1, <5>2
      <4>4. todo[r] \ {NextCall(r)} # {}
        BY <4>3, FS_EmptySet
      <4> QED
        BY <1>0a, <3>1, <4>4
    <3> QED
      BY <1>0, <1>0a, <3>0, <3>1, <3>2, <3>3
  <2>2. CASE pc[r] \notin {"resulting", "pausing"}
    <3>1. todo' = todo /\ pc' = [pc EXCEPT ![r] = After(r)]
      BY <1>3, <2>2 DEF Insert
    <3>2. After(r) \in {"proposing", "resulting", "pausing"} => pc[r] = "proposing"
      BY <1>3, <2>2 DEF After, Insert, Writing
    <3> QED
      BY <1>0a, <1>1, <3>1, <3>2
  <2> QED
    BY <2>1, <2>2
<1>4. ASSUME NEW r \in Requests, Chat(r) \/ LoadHistory(r) \/ ReadNext(r) PROVE TodoInv'
  BY <1>0a, <1>1, <1>4 DEF Chat, Begin, LoadHistory, ReadNext, turns
<1>5. ASSUME NEW r \in Requests, AskApproval(r) PROVE TodoInv'
  BY <1>0a, <1>1, <1>5 DEF AskApproval, turns
<1>6. ASSUME NEW k \in Requests, LoadConversation(k) \/ Execute(k) \/ Mark(k) PROVE TodoInv'
  BY <1>0a, <1>1, <1>6 DEF LoadConversation, Execute, Mark, turns
<1>7. ASSUME NEW k \in Confirms, NEW a \in Chats, Arrive(k, a) PROVE TodoInv'
  BY <1>0a, <1>1, <1>7 DEF Arrive, Begin, turns
<1>7a. ASSUME NEW k \in Requests, Confirm(k) PROVE TodoInv'
  BY <1>0a, <1>1, <1>7a DEF Confirm, turns
<1>8. ASSUME NEW a \in Chats, TurnDown(a) PROVE TodoInv'
  BY <1>0a, <1>1, <1>8 DEF TurnDown, turns
<1>9. ASSUME NEW r \in Requests,
             Conflict(r) \/ Abandon(r) \/ Settle(r) \/ TurnedAway(r) \/ Condemn(r)
      PROVE  TodoInv'
  <2>1. /\ todo' = [todo EXCEPT ![r] = {}]
        /\ \E to \in Over : pc' = [pc EXCEPT ![r] = to]
    BY <1>9 DEF Conflict, Abandon, Settle, TurnedAway, Condemn, End, Over
  <2> QED
    BY <1>0, <1>0a, <2>1 DEF Over
<1>10. CASE UNCHANGED vars
  BY <1>1, <1>10 DEF vars, turns
<1> QED
  BY <1>2, <1>3, <1>4, <1>5, <1>6, <1>7, <1>7a, <1>8, <1>9, <1>10 DEF Next, Serve, Quiescent

-------------------------------------------------------------------------------
(* A step that touches no approval: a chat does not go back to where it    *)
(* has not asked, and a confirmation acts only if it did before.           *)
LEMMA UngatedStep ==
  ASSUME IInv, UNCHANGED gate, NEW r \in Requests, NEW to, pc' = [pc EXCEPT ![r] = to],
         to \in Unasked => pc[r] \in Unasked \/ r \in Confirms,
         r \in Confirms => /\ pc[r] # "idle" /\ pc[r] # "error"
                           /\ to \in Acting => pc[r] \in Acting
                           /\ pc[r] \in Acting => to \in Acting \cup {"error"}
                           /\ to \in {"claimed", "executing"} => pc[r] = "claimed",
         \A k \in Confirms : undecided'[k] => undecided[k] /\ (k = r => pc[r] # "deciding")
  PROVE  GateInv'
<1>0. pc = [q \in Requests |-> pc[q]] /\ GateInv /\ granted \subseteq Confirms
  BY DEF IInv, TypeOK
<1>1. approval' = approval /\ decides' = decides /\ performed' = performed /\ granted' = granted
  BY DEF gate
<1>2. pc'[r] = to /\ \A q \in Requests \ {r} : pc'[q] = pc[q]
  BY <1>0
<1>3. \A a : Granted(a)' = Granted(a)
  BY <1>1 DEF Granted
<1>4. \A a \in Chats : /\ pc'[a] \in Unasked => approval'[a].status = "none"
                       /\ performed'[a] <= 1
                       /\ performed'[a] > 0 => Granted(a)' # {}
  BY <1>0, <1>1, <1>2, <1>3, BoundsAssumption DEF GateInv, Requests
<1>5. \A k \in Confirms : /\ pc'[k] # "idle" => approval'[decides'[k]].status # "none"
                          /\ pc'[k] \in Acting => k \in granted'
                          /\ undecided'[k] => pc'[k] = "deciding"
  BY <1>0, <1>1, <1>2 DEF GateInv, Requests
<1>6. \A k \in granted : /\ pc'[k] \in Acting \cup {"error"}
                         /\ approval'[decides'[k]].status # "pending"
                         /\ pc'[k] \in {"claimed", "executing"} => performed'[decides'[k]] = 0
  <2> TAKE k \in granted
  <2>1. CASE k # r
    BY <1>0, <1>1, <1>2, <2>1 DEF GateInv, Requests
  <2>2. CASE k = r
    <3>1. r \in Confirms /\ pc[r] \in Acting
      BY <1>0, <2>2 DEF GateInv, Acting
    <3> QED
      BY <1>0, <1>1, <1>2, <2>2, <3>1 DEF GateInv, Requests
  <2> QED
    BY <2>1, <2>2
<1>7. \A i, k \in granted' : decides'[i] = decides'[k] => i = k
  BY <1>0, <1>1 DEF GateInv
<1> QED
  BY <1>1, <1>4, <1>5, <1>6, <1>7 DEF GateInv

(* A step that settles the row of an approval that was asked for, and      *)
(* carries nothing out.                                                    *)
LEMMA SettledStep ==
  ASSUME IInv, NEW a \in Chats, NEW to \in Decided, Decide(a, to),
         approval[a].status # "none",
         UNCHANGED <<decides, granted, performed>>,
         \A b \in Chats : pc'[b] = pc[b],
         \A k \in Confirms : \/ pc'[k] = pc[k] /\ undecided'[k] = undecided[k]
                             \/ /\ pc[k] # "idle" /\ pc'[k] = "error" /\ ~ undecided'[k]
                             \/ /\ pc[k] = "marking" /\ pc'[k] = "reporting"
                                /\ undecided'[k] = undecided[k]
  PROVE  GateInv'
<1>0. /\ approval \in [Chats -> [status : {"none", "pending"} \cup Decided, call : CallIds]]
      /\ GateInv /\ granted \subseteq Confirms
  BY DEF IInv, TypeOK
<1>1. approval'[a].status = to /\ \A b \in Chats \ {a} : approval'[b] = approval[b]
  BY <1>0 DEF Decide
<1>2. to # "none" /\ to # "pending"
  BY DEF Decided
<1>2a. \A k \in Confirms : pc[k] # "idle" => decides[k] \in Chats
  BY DEF IInv, StageInv
<1>3. \A b : Granted(b)' = Granted(b)
  BY DEF Granted
<1>4. \A b \in Chats : /\ pc'[b] \in Unasked => approval'[b].status = "none"
                       /\ performed'[b] <= 1
                       /\ performed'[b] > 0 => Granted(b)' # {}
  BY <1>0, <1>1, <1>3 DEF GateInv
<1>5. \A k \in Confirms : /\ pc'[k] # "idle" => approval'[decides'[k]].status # "none"
                          /\ pc'[k] \in Acting => k \in granted'
                          /\ undecided'[k] => pc'[k] = "deciding"
  BY <1>0, <1>1, <1>2, <1>2a DEF GateInv, Acting
<1>6. \A k \in granted : /\ pc'[k] \in Acting \cup {"error"}
                         /\ approval'[decides'[k]].status # "pending"
                         /\ pc'[k] \in {"claimed", "executing"} => performed'[decides'[k]] = 0
  <2> TAKE k \in granted
  <2>1. k \in Confirms /\ pc[k] # "idle" /\ decides[k] \in Chats
    BY <1>0, <1>2a DEF GateInv, Acting
  <2>2. approval'[decides'[k]].status # "pending"
    BY <1>0, <1>1, <1>2, <2>1 DEF GateInv
  <2> QED
    BY <1>0, <2>1, <2>2 DEF GateInv, Acting
<1>7. \A i, k \in granted' : decides'[i] = decides'[k] => i = k
  BY <1>0 DEF GateInv
<1> QED
  BY <1>4, <1>5, <1>6, <1>7 DEF GateInv

(* Nothing was granted or carried out of an approval that is pending.      *)
LEMMA PendingIsUntouched ==
  ASSUME IInv, NEW a \in Chats, approval[a].status \in {"none", "pending"}
  PROVE  Granted(a) = {} /\ performed[a] = 0
<1>1. \A k \in granted : k \in Confirms /\ pc[k] # "idle"
  BY DEF IInv, TypeOK, GateInv, Acting
<1>2. \A k \in granted : decides[k] # a
  BY <1>1 DEF IInv, GateInv
<1>3. Granted(a) = {}
  BY <1>2 DEF Granted
<1>4. performed[a] \in Nat /\ ~ (performed[a] > 0)
  BY <1>3 DEF IInv, TypeOK, GateInv
<1> QED
  BY <1>3, <1>4

LEMMA GateStep ==
  ASSUME IInv, [Next]_vars PROVE GateInv'
<1> USE BoundsAssumption DEF Goto, Requests
<1>0. TypeOK /\ StageInv /\ GateInv
  BY DEF IInv
<1>0a. /\ pc = [r \in Requests |-> pc[r]]
       /\ approval \in [Chats -> [status : {"none", "pending"} \cup Decided, call : CallIds]]
       /\ performed \in [Chats -> Nat]
       /\ decides = [k \in Confirms |-> decides[k]]
       /\ undecided \in [Requests -> BOOLEAN]
       /\ granted \subseteq Confirms
  BY <1>0 DEF TypeOK
<1>1. ASSUME NEW r \in Requests, Chat(r) PROVE GateInv'
  <2>1. r \notin Confirms /\ UNCHANGED <<gate, undecided>> /\ pc[r] = "idle"
    BY <1>1 DEF Chat, Begin
  <2>2. pc' = [pc EXCEPT ![r] = "asking"]
    BY <1>1 DEF Chat, Begin
  <2> QED
    BY <2>1, <2>2, UngatedStep DEF Unasked
<1>2. ASSUME NEW r \in Requests, LoadHistory(r) \/ Complete(r) PROVE GateInv'
  <2>1. pc[r] \in {"loading", "planning"} /\ UNCHANGED <<gate, undecided>>
    BY <1>2 DEF LoadHistory, Complete, session
  <2>2. \E to \in {"planning", "closing", "proposing", "answering", "syncing"} :
          /\ pc' = [pc EXCEPT ![r] = to]
          /\ r \in Confirms => to = "closing"
    BY <1>0, <1>2 DEF LoadHistory, Complete, StageInv, ConfirmStages, Over
  <2> QED
    BY <2>1, <2>2, <1>0, UngatedStep DEF Unasked, Acting, StageInv, ConfirmStages, Over
<1>3. ASSUME NEW r \in Requests, AskApproval(r) PROVE GateInv'
  <2>0. r \in Chats
    BY <1>0, <1>3 DEF AskApproval, StageInv, ConfirmStages, Over
  <2>1. approval[r].status = "none" /\ performed[r] = 0
    BY <1>0, <1>0a, <1>3, <2>0, PendingIsUntouched DEF AskApproval, GateInv, Unasked
  <2>2. /\ approval'[r].status = "pending" /\ \A a \in Chats \ {r} : approval'[a] = approval[a]
        /\ pc'[r] = "pausing" /\ \A q \in Requests \ {r} : pc'[q] = pc[q]
        /\ UNCHANGED <<decides, performed, granted, undecided>>
    BY <1>0a, <1>3, <2>0 DEF AskApproval, session
  <2>3. \A k \in Confirms : pc[k] # "idle" => decides[k] \in Chats \ {r}
    BY <1>0, <2>1 DEF StageInv, GateInv
  <2>4. \A k \in granted : k \in Confirms /\ pc[k] # "idle" /\ pc'[k] = pc[k]
    BY <1>0, <1>0a, <2>0, <2>2 DEF GateInv, Acting
  <2>5. \A a : Granted(a)' = Granted(a)
    BY <2>2 DEF Granted
  <2>6. \A a \in Chats : /\ pc'[a] \in Unasked => approval'[a].status = "none"
                         /\ performed'[a] <= 1
                         /\ performed'[a] > 0 => Granted(a)' # {}
    BY <1>0, <2>0, <2>1, <2>2, <2>5 DEF GateInv, Unasked
  <2>7. \A k \in Confirms : /\ pc'[k] # "idle" => approval'[decides'[k]].status # "none"
                            /\ pc'[k] \in Acting => k \in granted'
                            /\ undecided'[k] => pc'[k] = "deciding"
    BY <1>0, <2>0, <2>2, <2>3 DEF GateInv
  <2>8. \A k \in granted : /\ pc'[k] \in Acting \cup {"error"}
                           /\ approval'[decides'[k]].status # "pending"
                           /\ pc'[k] \in {"claimed", "executing"} => performed'[decides'[k]] = 0
    BY <1>0, <2>2, <2>3, <2>4 DEF GateInv
  <2>9. \A i, k \in granted' : decides'[i] = decides'[k] => i = k
    BY <1>0, <2>2 DEF GateInv
  <2> QED
    BY <2>2, <2>6, <2>7, <2>8, <2>9 DEF GateInv
<1>4. ASSUME NEW k \in Confirms, NEW a \in Chats, Arrive(k, a) PROVE GateInv'
  <2>1. pc[k] = "idle" /\ approval[a].status # "none" /\ k \notin granted
    BY <1>0, <1>4 DEF Arrive, Begin, GateInv, Acting
  <2>2. /\ pc'[k] = "deciding" /\ \A q \in Requests \ {k} : pc'[q] = pc[q]
        /\ decides'[k] = a /\ \A j \in Confirms \ {k} : decides'[j] = decides[j]
        /\ \A j \in Confirms \ {k} : undecided'[j] = undecided[j]
        /\ UNCHANGED <<performed, approval, granted>>
    BY <1>0a, <1>4 DEF Arrive, Begin
  <2>3. \A j \in granted : decides'[j] = decides[j] /\ pc'[j] = pc[j]
    BY <1>0a, <2>1, <2>2
  <2>4. \A b : Granted(b)' = Granted(b)
    BY <2>2, <2>3 DEF Granted
  <2>5. \A b \in Chats : /\ pc'[b] \in Unasked => approval'[b].status = "none"
                         /\ performed'[b] <= 1
                         /\ performed'[b] > 0 => Granted(b)' # {}
    BY <1>0, <2>2, <2>4 DEF GateInv
  <2>6. \A j \in Confirms : /\ pc'[j] # "idle" => approval'[decides'[j]].status # "none"
                            /\ pc'[j] \in Acting => j \in granted'
                            /\ undecided'[j] => pc'[j] = "deciding"
    BY <1>0, <2>1, <2>2 DEF GateInv, Acting
  <2>7. \A j \in granted' : /\ pc'[j] \in Acting \cup {"error"}
                            /\ approval'[decides'[j]].status # "pending"
                            /\ pc'[j] \in {"claimed", "executing"} => performed'[decides'[j]] = 0
    BY <1>0, <2>2, <2>3 DEF GateInv
  <2>8. \A i, j \in granted' : decides'[i] = decides'[j] => i = j
    BY <1>0, <2>2, <2>3 DEF GateInv
  <2> QED
    BY <2>5, <2>6, <2>7, <2>8 DEF GateInv
<1>4a. ASSUME NEW k \in Requests, Confirm(k) PROVE GateInv'
  <2>0. k \in Confirms /\ pc[k] = "deciding" /\ decides[k] \in Chats
    BY <1>0, <1>4a DEF Confirm, StageInv, ChatStages, Over
  <2> DEFINE a == decides[k]
  <2>1. approval[a].status = "pending" /\ Granted(a) = {} /\ performed[a] = 0
    BY <1>4a, <2>0, PendingIsUntouched DEF Confirm, Claimable
  <2>2. /\ approval'[a].status = "approved" /\ \A b \in Chats \ {a} : approval'[b] = approval[b]
        /\ pc'[k] = "claimed" /\ \A q \in Requests \ {k} : pc'[q] = pc[q]
        /\ ~ undecided'[k] /\ \A j \in Confirms \ {k} : undecided'[j] = undecided[j]
        /\ granted' = granted \cup {k}
        /\ UNCHANGED <<performed, decides>>
    BY <1>0a, <1>4a, <2>0 DEF Confirm, Decide
  <2>3. \A j \in granted : /\ j # k /\ j \in Confirms /\ pc[j] # "idle"
                           /\ decides[j] # a /\ decides[j] \in Chats /\ pc'[j] = pc[j]
    BY <1>0, <1>0a, <2>0, <2>1, <2>2 DEF GateInv, Acting, Granted, StageInv
  <2>4. \A b : Granted(b) \subseteq Granted(b)'
    BY <2>2 DEF Granted
  <2>5. \A b \in Chats : /\ pc'[b] \in Unasked => approval'[b].status = "none"
                         /\ performed'[b] <= 1
                         /\ performed'[b] > 0 => Granted(b)' # {}
    BY <1>0, <2>0, <2>1, <2>2, <2>4 DEF GateInv
  <2>6. \A j \in Confirms : /\ pc'[j] # "idle" => approval'[decides'[j]].status # "none"
                            /\ pc'[j] \in Acting => j \in granted'
                            /\ undecided'[j] => pc'[j] = "deciding"
    BY <1>0, <2>0, <2>2 DEF GateInv, Acting, StageInv
  <2>7. \A j \in granted' : /\ pc'[j] \in Acting \cup {"error"}
                            /\ approval'[decides'[j]].status # "pending"
                            /\ pc'[j] \in {"claimed", "executing"} => performed'[decides'[j]] = 0
    BY <1>0, <2>0, <2>1, <2>2, <2>3 DEF GateInv, Acting
  <2>8. \A i, j \in granted' : decides'[i] = decides'[j] => i = j
    BY <1>0, <2>2, <2>3 DEF GateInv
  <2> QED
    BY <2>5, <2>6, <2>7, <2>8 DEF GateInv
<1>5. ASSUME NEW a \in Chats, TurnDown(a) PROVE GateInv'
  BY <1>5, SettledStep DEF TurnDown, Decided, session
<1>5a. ASSUME NEW k \in Requests, Condemn(k) PROVE GateInv'
  <2>0. k \in Confirms /\ pc[k] \in {"deciding", "executing"} /\ decides[k] \in Chats
    BY <1>0, <1>5a DEF Condemn, StageInv, ChatStages, Over
  <2>1. approval[decides[k]].status # "none"
    BY <1>0, <2>0 DEF GateInv
  <2>2. /\ UNCHANGED <<decides, granted, performed>>
        /\ \E to \in Decided : Decide(decides[k], to)
    BY <1>5a DEF Condemn, Decided
  <2>3. pc'[k] = "error" /\ ~ undecided'[k]
    BY <1>0a, <1>5a DEF Condemn, End
  <2>4. \A q \in Requests \ {k} : pc'[q] = pc[q] /\ undecided'[q] = undecided[q]
    BY <1>0a, <1>5a DEF Condemn, End
  <2> QED
    BY <2>0, <2>1, <2>2, <2>3, <2>4, SettledStep
<1>6. ASSUME NEW k \in Requests, LoadConversation(k) PROVE GateInv'
  <2>1. pc[k] = "claimed" /\ pc' = [pc EXCEPT ![k] = "executing"] /\ UNCHANGED <<gate, undecided>>
    BY <1>6 DEF LoadConversation
  <2> QED
    BY <2>1, UngatedStep DEF Unasked, Acting
<1>7. ASSUME NEW k \in Requests, Execute(k) PROVE GateInv'
  <2>0. k \in Confirms /\ pc[k] = "executing" /\ decides[k] \in Chats
    BY <1>0, <1>7 DEF Execute, StageInv, ChatStages, Over
  <2> DEFINE a == decides[k]
  <2>1. k \in granted /\ performed[a] = 0
    BY <1>0, <2>0 DEF GateInv, Acting
  <2>2. /\ pc'[k] \in {"reporting", "marking"} /\ \A q \in Requests \ {k} : pc'[q] = pc[q]
        /\ UNCHANGED <<approval, decides, granted, undecided>>
    BY <1>0a, <1>7 DEF Execute
  <2>3. performed'[a] \in {0, 1} /\ \A b \in Chats \ {a} : performed'[b] = performed[b]
    <3>1. CASE UNCHANGED performed
      BY <2>1, <3>1
    <3>2. ASSUME NEW n \in 0 .. 1, performed' = [performed EXCEPT ![decides[k]] = @ + n]
          PROVE  performed'[a] \in {0, 1} /\ \A b \in Chats \ {a} : performed'[b] = performed[b]
      <4>1. performed'[a] = performed[a] + n
        BY <1>0a, <2>0, <3>2
      <4> QED
        BY <1>0a, <2>0, <2>1, <3>2, <4>1
    <3> QED
      BY <1>7, <3>1, <3>2 DEF Execute
  <2>4. \A b : Granted(b)' = Granted(b)
    BY <2>2 DEF Granted
  <2>5. \A b \in Chats : /\ pc'[b] \in Unasked => approval'[b].status = "none"
                         /\ performed'[b] <= 1
                         /\ performed'[b] > 0 => Granted(b)' # {}
    <3> TAKE b \in Chats
    <3>1. k \in Granted(a)
      BY <2>1 DEF Granted
    <3>2. pc'[b] = pc[b]
      BY <2>0, <2>2
    <3>3. CASE b = a
      BY <1>0, <2>2, <2>3, <2>4, <3>1, <3>2, <3>3 DEF GateInv
    <3>4. CASE b # a
      BY <1>0, <2>2, <2>3, <2>4, <3>2, <3>4 DEF GateInv
    <3> QED
      BY <3>3, <3>4
  <2>6. \A j \in Confirms : /\ pc'[j] # "idle" => approval'[decides'[j]].status # "none"
                            /\ pc'[j] \in Acting => j \in granted'
                            /\ undecided'[j] => pc'[j] = "deciding"
    BY <1>0, <2>0, <2>1, <2>2 DEF GateInv, Acting
  <2>7. \A j \in granted : /\ pc'[j] \in Acting \cup {"error"}
                           /\ approval'[decides'[j]].status # "pending"
                           /\ pc'[j] \in {"claimed", "executing"} => performed'[decides'[j]] = 0
    <3> TAKE j \in granted
    <3>1. j \in Confirms /\ pc[j] # "idle" /\ decides[j] \in Chats
      BY <1>0, <1>0a DEF GateInv, StageInv, Acting
    <3>2. CASE j = k
      BY <1>0, <2>0, <2>1, <2>2, <3>2 DEF GateInv, Acting
    <3>3. CASE j # k
      <4>1. decides[j] # a
        BY <1>0, <2>1, <3>3 DEF GateInv
      <4> QED
        BY <1>0, <2>2, <2>3, <3>1, <3>3, <4>1 DEF GateInv
    <3> QED
      BY <3>2, <3>3
  <2>8. \A i, j \in granted' : decides'[i] = decides'[j] => i = j
    BY <1>0, <2>2 DEF GateInv
  <2> QED
    BY <2>2, <2>5, <2>6, <2>7, <2>8 DEF GateInv
<1>8. ASSUME NEW k \in Requests, Mark(k) PROVE GateInv'
  <2>0. k \in Confirms /\ pc[k] = "marking" /\ decides[k] \in Chats
    BY <1>0, <1>8 DEF Mark, StageInv, ChatStages, Over
  <2>1. approval[decides[k]].status # "none"
    BY <1>0, <2>0 DEF GateInv
  <2>2. /\ \E to \in Decided : Decide(decides[k], to)
        /\ pc'[k] = "reporting" /\ \A q \in Requests \ {k} : pc'[q] = pc[q]
        /\ UNCHANGED <<performed, decides, granted, undecided>>
    BY <1>0a, <1>8, <2>0 DEF Mark, Decided, session
  <2> QED
    BY <2>0, <2>1, <2>2, SettledStep
<1>9. ASSUME NEW r \in Requests, Insert(r) PROVE GateInv'
  <2>1. pc[r] \in Writing /\ UNCHANGED <<gate, undecided>> /\ pc' = [pc EXCEPT ![r] = After(r)]
    BY <1>9 DEF Insert, session
  <2>2. /\ After(r) \in {"loading", "resulting", "planning"} => pc[r] \in Unasked \cup {"reporting"}
        /\ After(r) \in {"loading", "resulting", "planning", "noticing", "activating", "syncing"}
        /\ pc[r] \in {"reporting", "closing"} => After(r) \in {"loading", "activating"}
    BY <2>1 DEF After, Writing, Unasked
  <2>3. /\ pc[r] = "reporting" => r \in Confirms
        /\ r \in Confirms => pc[r] \in {"reporting", "closing"}
    BY <1>0, <2>1 DEF StageInv, ChatStages, ConfirmStages, Over, Writing
  <2> QED
    BY <2>1, <2>2, <2>3, UngatedStep DEF Unasked, Writing, Acting
<1>10. ASSUME NEW r \in Requests, Conflict(r) \/ Abandon(r) \/ Settle(r) \/ TurnedAway(r)
       PROVE  GateInv'
  <2>1. pc[r] # "idle" /\ pc[r] # "error" /\ UNCHANGED gate /\ undecided' = [undecided EXCEPT ![r] = FALSE]
    BY <1>10 DEF Conflict, Abandon, Settle, TurnedAway, End, Writing, Over
  <2>2. \E to \in Over : pc' = [pc EXCEPT ![r] = to] /\ (to = "answered" => Settle(r))
    BY <1>10 DEF Conflict, Abandon, Settle, TurnedAway, End, Over
  <2>3. Settle(r) /\ r \in Confirms => pc[r] \in Acting
    BY <1>0 DEF Settle, Acting, StageInv, ConfirmStages, Over
  <2> QED
    BY <1>0a, <2>1, <2>2, <2>3, UngatedStep DEF Unasked, Over, Acting
<1>11. CASE UNCHANGED <<gate, pc, undecided>>
  BY <1>0, <1>11 DEF GateInv, gate, Granted
<1>12. ASSUME NEW r \in Requests, ReadNext(r) PROVE GateInv'
  BY <1>11, <1>12 DEF ReadNext, session
<1>13. CASE UNCHANGED vars
  BY <1>11, <1>13 DEF vars, session
<1> QED
  BY <1>1, <1>2, <1>3, <1>4, <1>4a, <1>5, <1>5a, <1>6, <1>7, <1>8, <1>9, <1>10, <1>12, <1>13
     DEF Next, Serve, Quiescent

(* The inductive invariant: where requests may be, which numbers they may  *)
(* have read, the calls in hand, and who may carry out what.               *)
THEOREM Invariant == Spec => []IInv
<1>1. IInv /\ [Next]_vars => IInv'
  BY TypeStep, StageStep, SeqStep, TodoStep, GateStep DEF IInv
<1> QED
  BY InvInit, <1>1, PTL DEF Spec

(* The turns and the requests of a conversation keep their types.          *)
THEOREM TypeCorrect == Spec => []TypeOK
<1>1. IInv => TypeOK
  BY DEF IInv
<1> QED
  BY Invariant, <1>1, PTL

(* However requests race, collide and die, the sequence numbers of a       *)
(* conversation are unique and have no gap.                                *)
THEOREM Numbered == Spec => []Contiguous
<1>1. IInv => Contiguous
  BY DEF IInv, SeqInv
<1> QED
  BY Invariant, <1>1, PTL

-------------------------------------------------------------------------------
(* What the turns say.                                                     *)

Running(r) == pc[r] \notin Over \cup {"idle"}

(* Who writes which turns: a chat proposes its own calls and answers what  *)
(* it has proposed; a confirmation proposes nothing and answers the action *)
(* it has claimed.                                                         *)
WriterInv ==
  \A m \in rows :
    /\ pc[m.by] # "idle"
    /\ m.by \in Chats => /\ m.calls \subseteq Proposable(m.by)
                         /\ m.role = "tool" => m.answers \in Proposed(m.by)
    /\ m.by \in Confirms => /\ m.calls = {} /\ ~ m.approval_required
                            /\ m.role = "tool" => m.answers = Call(decides[m.by], 0)

(* Calls are numbered on, so that a batch is new when it is stored, and    *)
(* none of it has a result before its turn comes.                          *)
FreshInv(a) ==
  /\ pc[a] \notin Over => \A c \in Proposed(a) \cup todo[a] : c.n <= rounds[a] * MaxCalls[a]
  /\ pc[a] = "proposing" => todo[a] \cap Proposed(a) = {}
  /\ pc[a] \in {"resulting", "pausing"} =>
       todo[a] \subseteq Proposed(a) /\ \A c \in todo[a] : ResultsOf(c) = {}

(* A call has one result at most, and has one unless it is still in hand,  *)
(* or the chat has paused, pauses or failed.                               *)
ResultInv(a) ==
  \A c \in Proposed(a) :
    /\ \A m1, m2 \in ResultsOf(c) : m1 = m2
    /\ \/ pc[a] \in {"noticing", "error"} \/ ResultsOf(c) # {}
       \/ pc[a] \in {"resulting", "pausing"} /\ c \in todo[a]
       \/ pc[a] \in {"syncing", "answered"} /\ Paused(a)

(* The approval comes before the notice, and the notice before the answer. *)
PauseInv(a) ==
  /\ approval[a].status # "none" => approval[a].call \in Proposed(a)
  /\ Paused(a) \/ pc[a] \in {"pausing", "noticing"} => approval[a].status # "none"
  /\ pc[a] = "answering" => approval[a].status = "none"
  /\ pc[a] \in {"syncing", "answered"} /\ approval[a].status # "none" => Paused(a)

ChatInv == WriterInv /\ \A a \in Chats : FreshInv(a) /\ ResultInv(a) /\ PauseInv(a)

Reports(k) == {m \in rows : m.by = k /\ m.role = "tool"}
Reported == {"loading", "closing", "activating"} \cup Over

(* A confirmation reports once, before anything that follows, and reports *)
(* a success only of what was carried out.                                *)
ReportInv ==
  \A k \in Confirms :
    /\ \A m1, m2 \in Reports(k) : m1 = m2
    /\ \A m \in Reports(k) : /\ k \in granted /\ pc[k] \in Reported
                             /\ m.executed => performed[decides[k]] > 0
    /\ pc[k] \in Reported \ {"error"} => Reports(k) # {}
    /\ ok[k] => k \in granted /\ performed[decides[k]] > 0

(* Only the confirmation that was granted marks its row as executed, after *)
(* a success, and that is what it reports.                                 *)
MarkInv ==
  /\ \A a \in Chats : approval[a].status = "executed" => Granted(a) # {} /\ performed[a] > 0
  /\ \A k \in granted : approval[decides[k]].status = "executed" =>
       /\ pc[k] \in {"reporting"} \cup Reported
       /\ pc[k] = "reporting" => ok[k]
       /\ \A m \in Reports(k) : m.executed

(* While requests do not overlap, the copy of the one that runs is exact.  *)
StatusInv ==
  /\ status = "awaiting" => \E a \in Chats : Paused(a)
  /\ \A r \in Requests : ~ Running(r) => copy[r] = "none"
  /\ alone =>
       /\ \A q, r \in Requests : Running(q) /\ Running(r) => q = r
       /\ \A r \in Requests : Running(r) =>
            copy[r] = status \/ (copy[r] = "none" /\ pc[r] \in {"deciding", "claimed"})
       /\ status = "awaiting" <=> last \in Chats /\ Paused(last)
       /\ last \in Requests => pc[last] \in Over

(* Then a copy that says pending is one of an approval nobody claimed, and *)
(* a claimed one expires only for the confirmation that claimed it.        *)
AloneInv ==
  alone =>
    /\ \A j \in Confirms : undecided[j] => \A i \in granted : decides[i] # decides[j]
    /\ \A k \in granted : approval[decides[k]].status = "barred" =>
         pc[k] = "error" /\ Reports(k) = {}

(* The turn a request writes, by where the request stands.                 *)
LEMMA TurnIs ==
  ASSUME NEW r, pc[r] \in Writing
  PROVE  /\ Turn(r).by = r
         /\ Turn(r).role = "tool" <=> pc[r] \in {"resulting", "pausing", "reporting"}
         /\ Turn(r).calls = IF pc[r] = "proposing" THEN todo[r] ELSE {}
         /\ pc[r] \in {"resulting", "pausing"} => Turn(r).answers = NextCall(r)
         /\ pc[r] = "reporting" => Turn(r).answers = Call(decides[r], 0)
         /\ Turn(r).approval_required <=> pc[r] = "noticing"
         /\ Turn(r).executed <=> pc[r] = "reporting" /\ ok[r]
<1> USE DEF Turn
<1>1. CASE pc[r] = "asking" BY <1>1
<1>2. CASE pc[r] = "proposing" BY <1>2
<1>3. CASE pc[r] \in {"resulting", "pausing"} BY <1>3
<1>4. CASE pc[r] = "reporting" BY <1>4
<1>5. CASE pc[r] \in {"noticing", "answering", "closing"} BY <1>5
<1> QED
  BY <1>1, <1>2, <1>3, <1>4, <1>5 DEF Writing

(* What the transcript says of a chat and of a call, when it stays ...     *)
LEMMA RowsStay ==
  ASSUME rows' = rows
  PROVE  /\ \A q : Proposed(q)' = Proposed(q) /\ (Paused(q)' <=> Paused(q)) /\ Reports(q)' = Reports(q)
         /\ \A c : ResultsOf(c)' = ResultsOf(c)
BY DEF Proposed, Paused, Reports, ResultsOf

(* ... and when a turn is added.                                           *)
LEMMA RowsGrow ==
  ASSUME NEW r, NEW t, t.by = r, rows' = rows \cup {t}
  PROVE  /\ Proposed(r)' = Proposed(r) \cup t.calls
         /\ Paused(r)' <=> Paused(r) \/ t.approval_required
         /\ Reports(r)' = IF t.role = "tool" THEN Reports(r) \cup {t} ELSE Reports(r)
         /\ \A q : q # r => /\ Proposed(q)' = Proposed(q)
                            /\ Paused(q)' <=> Paused(q)
                            /\ Reports(q)' = Reports(q)
         /\ \A c : ResultsOf(c)' = IF t.role = "tool" /\ t.answers = c
                                   THEN ResultsOf(c) \cup {t} ELSE ResultsOf(c)
<1>1. Proposed(r)' = Proposed(r) \cup t.calls
  BY DEF Proposed
<1>2. \A q : q # r => Proposed(q)' = Proposed(q)
  BY DEF Proposed
<1>3. \A q : Paused(q)' <=> Paused(q) \/ (q = r /\ t.approval_required)
  BY DEF Paused
<1>4. \A q : Reports(q)' = IF q = r /\ t.role = "tool" THEN Reports(q) \cup {t} ELSE Reports(q)
  BY DEF Reports
<1>5. \A c : ResultsOf(c)' = IF t.role = "tool" /\ t.answers = c
                            THEN ResultsOf(c) \cup {t} ELSE ResultsOf(c)
  BY DEF ResultsOf
<1> QED
  BY <1>1, <1>2, <1>3, <1>4, <1>5

(* Nobody else answers a call of a chat.                                   *)
LEMMA OwnResults ==
  ASSUME WriterInv, rows \subseteq Turns, NEW a \in Chats
  PROVE  /\ Proposed(a) \subseteq Proposable(a)
         /\ \A c \in Proposable(a) : \A m \in ResultsOf(c) : m.by = a
<1>1. \A b \in Chats : Proposed(b) \subseteq Proposable(b)
  BY DEF WriterInv, Proposed
<1>2. ASSUME NEW c \in Proposable(a), NEW m \in ResultsOf(c) PROVE m.by = a
  <2>1. m \in rows /\ m.role = "tool" /\ m.answers = c /\ m.by \in Requests
    BY <1>2 DEF ResultsOf, Turns
  <2>2. c.by = a /\ c.n # 0
    <3>1. PICK i \in 1 .. MaxRounds[a] * MaxCalls[a] : c = Call(a, i)
      BY <1>2 DEF Proposable
    <3>2. i # 0
      <4>1. \A M \in Nat : \A j \in 1 .. M : j # 0
        OBVIOUS
      <4> QED
        BY <4>1, Products
    <3> QED
      BY <3>1, <3>2 DEF Call
  <2>3. CASE m.by \in Confirms
    <3>1. c = Call(decides[m.by], 0)
      BY <2>1, <2>3 DEF WriterInv
    <3>2. Call(decides[m.by], 0).n = 0
      BY DEF Call
    <3> QED
      BY <2>2, <3>1, <3>2
  <2>4. CASE m.by \in Chats
    <3>1. c \in Proposable(m.by)
      BY <1>1, <2>1, <2>4 DEF WriterInv
    <3> QED
      BY <2>2, <3>1 DEF Proposable, Call
  <2> QED
    BY <2>1, <2>3, <2>4 DEF Requests
<1> QED
  BY <1>1, <1>2

(* Turns are only written by requests that have begun, and a confirmation  *)
(* that has begun keeps to the action it claimed.                          *)
LEMMA WriterKept ==
  ASSUME WriterInv, rows' = rows,
         \A m \in rows : pc[m.by] # "idle" => pc'[m.by] # "idle",
         \A k \in Confirms : pc[k] # "idle" => decides'[k] = decides[k]
  PROVE  WriterInv'
<1>1. \A q : Proposed(q)' = Proposed(q)
  BY RowsStay
<1> QED
  BY <1>1 DEF WriterInv

LEMMA WriterInsert ==
  ASSUME IInv, ChatInv, NEW r \in Requests, Insert(r)
  PROVE  WriterInv'
<1> DEFINE t == Turn(r)
<1>0. StageInv /\ TodoInv /\ TypeOK /\ WriterInv
  BY DEF IInv, ChatInv
<1>1. /\ pc[r] \in Writing /\ rows' = rows \cup {t} /\ pc' = [pc EXCEPT ![r] = After(r)]
      /\ decides' = decides
  BY DEF Insert, Goto, gate
<1>2. /\ t.by = r
      /\ t.role = "tool" <=> pc[r] \in {"resulting", "pausing", "reporting"}
      /\ t.calls = IF pc[r] = "proposing" THEN todo[r] ELSE {}
      /\ pc[r] \in {"resulting", "pausing"} => t.answers = NextCall(r)
      /\ pc[r] = "reporting" => t.answers = Call(decides[r], 0)
      /\ t.approval_required <=> pc[r] = "noticing"
  BY <1>1, TurnIs
<1> HIDE DEF t
<1>3. \A q : Proposed(q) \subseteq Proposed(q)'
  BY <1>1, <1>2, RowsGrow
<1>4. \A q \in Requests : pc[q] # "idle" => pc'[q] # "idle"
  BY <1>0, <1>1 DEF TypeOK, After
<1>5. ASSUME NEW m \in rows
      PROVE  /\ pc'[m.by] # "idle"
             /\ m.by \in Chats => /\ m.calls \subseteq Proposable(m.by)
                                  /\ m.role = "tool" => m.answers \in Proposed(m.by)'
             /\ m.by \in Confirms => /\ m.calls = {} /\ ~ m.approval_required
                                     /\ m.role = "tool" => m.answers = Call(decides'[m.by], 0)
  BY <1>0, <1>1, <1>3, <1>4 DEF WriterInv, TypeOK
<1>6. CASE r \in Chats
  <2>1. pc[r] # "reporting"
    BY <1>0, <1>6 DEF StageInv, ChatStages, Over
  <2>2. t.calls \subseteq Proposable(r)
    BY <1>0, <1>2, <1>6 DEF TodoInv
  <2>3. t.role = "tool" => t.answers \in Proposed(r)'
    <3>1. pc[r] \in {"resulting", "pausing"} => NextCall(r) \in todo[r] /\ todo[r] \subseteq Proposed(r)
      BY <1>0, <1>6, NextCallIsLeft, Products DEF TodoInv, ChatInv, FreshInv
    <3> QED
      BY <1>2, <1>3, <2>1, <3>1
  <2>4. pc'[r] # "idle" /\ r \notin Confirms
    BY <1>0, <1>1, <1>6, BoundsAssumption DEF TypeOK, After
  <2> QED
    BY <1>1, <1>2, <1>5, <2>2, <2>3, <2>4 DEF WriterInv
<1>7. CASE r \in Confirms
  <2>1. pc[r] \in {"reporting", "closing"}
    BY <1>0, <1>1, <1>7 DEF StageInv, ConfirmStages, Over, Writing
  <2>2. pc'[r] # "idle" /\ r \notin Chats
    BY <1>0, <1>1, <1>7, BoundsAssumption DEF TypeOK, After
  <2> QED
    BY <1>1, <1>2, <1>5, <2>1, <2>2 DEF WriterInv
<1> QED
  BY <1>6, <1>7 DEF Requests

-------------------------------------------------------------------------------
Facts(a) == FreshInv(a) /\ ResultInv(a) /\ PauseInv(a)

(* What holds of a chat stays true while it stands where it is and the     *)
(* transcript says the same of it and of its calls.                        *)
LEMMA ChatKept ==
  ASSUME NEW a \in Chats, Facts(a),
         pc'[a] = pc[a], todo'[a] = todo[a], rounds'[a] = rounds[a],
         approval'[a].call = approval[a].call,
         approval'[a].status = "none" <=> approval[a].status = "none",
         Proposed(a)' = Proposed(a), Paused(a)' <=> Paused(a),
         \A c \in Proposed(a) \cup todo[a] : ResultsOf(c)' = ResultsOf(c)
  PROVE  Facts(a)'
<1> USE DEF Facts
<1>1. FreshInv(a)'
  BY DEF FreshInv
<1>2. ResultInv(a)'
  BY DEF ResultInv
<1>3. PauseInv(a)'
  BY DEF PauseInv
<1> QED
  BY <1>1, <1>2, <1>3

(* A batch of calls that a completion numbers on.                          *)
LEMMA NumberedOn ==
  ASSUME NEW a \in Chats, NEW R \in Nat, NEW n \in 1 .. MaxCalls[a], NEW c \in {Call(a, R * MaxCalls[a] + i) : i \in 1 .. n}
  PROVE  /\ ~ (c.n <= R * MaxCalls[a])
         /\ c.n <= (R + 1) * MaxCalls[a]
<1>1. PICK i \in 1 .. n : c = Call(a, R * MaxCalls[a] + i)
  OBVIOUS
<1>2. c.n = R * MaxCalls[a] + i
  BY <1>1 DEF Call
<1>3. \A M, p \in Nat : \A j \in Nat : 1 <= j /\ j <= M => ~ (p + j <= p) /\ p + j <= p + M
  OBVIOUS
<1>4. MaxCalls[a] \in Nat /\ R * MaxCalls[a] \in Nat /\ i \in Nat /\ 1 <= i /\ i <= MaxCalls[a]
  BY BoundsAssumption
<1>5. (R + 1) * MaxCalls[a] = R * MaxCalls[a] + MaxCalls[a]
  <2>1. \A x, y \in Nat : (x + 1) * y = x * y + y
    OBVIOUS
  <2> QED
    BY <1>4, <2>1
<1> QED
  BY <1>2, <1>3, <1>4, <1>5

LEMMA ProposableNumbers ==
  ASSUME NEW a \in Chats, NEW c \in Proposable(a)
  PROVE  c.n \in Nat
<1>1. PICK i \in 1 .. MaxRounds[a] * MaxCalls[a] : c = Call(a, i)
  BY DEF Proposable
<1> QED
  BY <1>1, Products DEF Call

LEMMA ChatPlans ==
  ASSUME IInv, ChatInv, NEW a \in Chats, Complete(a)
  PROVE  Facts(a)'
<1> DEFINE R == rounds[a]
           C == MaxCalls[a]
<1>0. TypeOK /\ GateInv /\ Facts(a) /\ WriterInv /\ rows \subseteq Turns
  BY DEF IInv, ChatInv, Facts, TypeOK, Turns
<1>1. /\ pc[a] = "planning" /\ approval' = approval /\ rows' = rows
      /\ approval[a].status = "none"
  BY <1>0 DEF Complete, gate, GateInv, Unasked
<1>2. /\ \A q : Proposed(q)' = Proposed(q) /\ (Paused(q)' <=> Paused(q))
      /\ \A c : ResultsOf(c)' = ResultsOf(c)
  BY <1>1, RowsStay
<1>3. ~ Paused(a)
  BY <1>0, <1>1 DEF Facts, PauseInv
<1>4. \A c \in Proposed(a) : ResultsOf(c) # {} /\ \A m1, m2 \in ResultsOf(c) : m1 = m2
  BY <1>0, <1>1 DEF Facts, ResultInv
<1>5. ResultInv(a)'
  BY <1>2, <1>4 DEF ResultInv
<1>6. CASE pc' = [pc EXCEPT ![a] = "proposing"]
  <2>1. pc'[a] = "proposing" /\ rounds'[a] = R + 1 /\ R \in Nat
    BY <1>0, <1>1, <1>6 DEF Complete, Goto, TypeOK, Requests
  <2>2. PICK n \in 1 .. C : todo'[a] = {Call(a, R * C + i) : i \in 1 .. n}
    <3>1. PICK n \in 1 .. C : todo' = [todo EXCEPT ![a] = {Call(a, R * C + i) : i \in 1 .. n}]
      BY <1>0, <1>6, <2>1 DEF Complete, Goto, TypeOK, Requests
    <3>2. todo'[a] = {Call(a, R * C + i) : i \in 1 .. n}
      BY <1>0, <3>1 DEF TypeOK, Requests
    <3> QED
      BY <3>2
  <2>3. \A c \in todo'[a] : ~ (c.n <= R * C) /\ c.n <= (R + 1) * C
    BY <2>1, <2>2, NumberedOn
  <2>4. \A c \in Proposed(a) : c.n <= R * C
    BY <1>0, <1>1 DEF Facts, FreshInv, Over
  <2>5. \A c \in Proposed(a) : c.n <= (R + 1) * C
    <3>1. \A c \in Proposed(a) : c.n \in Nat
      BY <1>0, OwnResults, ProposableNumbers
    <3>2. C \in Nat /\ R * C \in Nat /\ (R + 1) * C \in Nat /\ R * C <= (R + 1) * C
      BY <2>1, BoundsAssumption
    <3> HIDE DEF R, C
    <3>3. \A x, y, z \in Nat : x <= y /\ y <= z => x <= z
      OBVIOUS
    <3> QED
      BY <2>4, <3>1, <3>2, <3>3
  <2>6. FreshInv(a)'
    <3>1. todo'[a] \cap Proposed(a) = {}
      BY <2>3, <2>4
    <3>2. \A c \in Proposed(a) \cup todo'[a] : c.n <= rounds'[a] * MaxCalls[a]
      BY <2>1, <2>3, <2>5
    <3> QED
      BY <1>2, <2>1, <3>1, <3>2 DEF FreshInv
  <2>7. PauseInv(a)'
    BY <1>1, <1>2, <1>3, <2>1 DEF PauseInv
  <2> QED
    BY <1>5, <2>6, <2>7 DEF Facts
<1>7. CASE UNCHANGED <<todo, rounds>> /\ pc'[a] \in {"answering", "syncing"}
  <2>1. FreshInv(a)'
    BY <1>0, <1>1, <1>2, <1>7 DEF Facts, FreshInv, Over
  <2>2. PauseInv(a)'
    BY <1>1, <1>2, <1>3, <1>7 DEF PauseInv
  <2> QED
    BY <1>5, <2>1, <2>2 DEF Facts
<1> QED
  BY <1>0, <1>6, <1>7 DEF Complete, Goto, TypeOK, Requests

(* The steps of a chat that write no turn.                                 *)
LEMMA ChatMoves ==
  ASSUME IInv, ChatInv, NEW a \in Chats,
         Chat(a) \/ LoadHistory(a) \/ AskApproval(a) \/ Conflict(a) \/ Abandon(a) \/ Settle(a)
  PROVE  Facts(a)'
<1>0. TypeOK /\ StageInv /\ GateInv /\ TodoInv /\ FreshInv(a) /\ ResultInv(a) /\ PauseInv(a)
  BY DEF IInv, ChatInv
<1>0a. /\ pc = [r \in Requests |-> pc[r]] /\ a \in Requests
       /\ approval \in [Chats -> [status : {"none", "pending"} \cup Decided, call : CallIds]]
       /\ todo \in [Requests -> SUBSET CallIds] /\ rounds \in [Requests -> Nat]
  BY <1>0 DEF TypeOK, Requests
<1>1. rows' = rows
  BY DEF Chat, LoadHistory, AskApproval, Conflict, Abandon, Settle, turns
<1>2. /\ Proposed(a)' = Proposed(a) /\ (Paused(a)' <=> Paused(a))
      /\ \A c : ResultsOf(c)' = ResultsOf(c)
  BY <1>1, RowsStay
<1> USE DEF Facts
<1>3. CASE Chat(a) \/ LoadHistory(a)
  <2>1. /\ <<pc[a], pc'[a]>> \in {<<"idle", "asking">>, <<"loading", "planning">>}
        /\ UNCHANGED <<todo, rounds, approval>>
    BY <1>0a, <1>3 DEF Chat, Begin, LoadHistory, Goto, turns, gate
  <2>2. FreshInv(a)'
    BY <1>0, <1>2, <2>1 DEF FreshInv, Over
  <2>3. ResultInv(a)'
    BY <1>0, <1>2, <2>1 DEF ResultInv
  <2>4. PauseInv(a)'
    BY <1>0, <1>2, <2>1 DEF PauseInv
  <2> QED
    BY <2>2, <2>3, <2>4
<1>4. CASE AskApproval(a)
  <2>1. /\ pc[a] = "resulting" /\ pc'[a] = "pausing" /\ UNCHANGED <<todo, rounds>>
        /\ approval'[a].status = "pending" /\ approval'[a].call = NextCall(a)
    BY <1>0a, <1>4 DEF AskApproval, Goto, turns
  <2>2. NextCall(a) \in Proposed(a)
    BY <1>0, <2>1, NextCallIsLeft, Products DEF TodoInv, FreshInv
  <2>3. FreshInv(a)'
    BY <1>0, <1>2, <2>1 DEF FreshInv, Over
  <2>4. ResultInv(a)'
    BY <1>0, <1>2, <2>1 DEF ResultInv
  <2>5. PauseInv(a)'
    BY <1>2, <2>1, <2>2 DEF PauseInv
  <2> QED
    BY <2>3, <2>4, <2>5
<1>5. CASE Conflict(a) \/ Abandon(a) \/ Settle(a)
  <2>1. /\ pc'[a] \in Over /\ approval' = approval
        /\ pc'[a] = "error" \/ (pc'[a] = "answered" /\ pc[a] \in {"syncing", "activating"})
    BY <1>0a, <1>5 DEF Conflict, Abandon, Settle, End, Goto, gate, Over
  <2>2. pc[a] # "activating"
    BY <1>0 DEF StageInv, ChatStages, Over
  <2>3. FreshInv(a)'
    BY <2>1 DEF FreshInv, Over
  <2>4. ResultInv(a)'
    BY <1>0, <1>2, <2>1, <2>2 DEF ResultInv
  <2>5. PauseInv(a)'
    BY <1>0, <1>2, <2>1, <2>2 DEF PauseInv, Over
  <2> QED
    BY <2>3, <2>4, <2>5
<1> QED
  BY <1>3, <1>4, <1>5

(* A call that has a result has been proposed.                             *)
LEMMA ResultsAreProposed ==
  ASSUME WriterInv, rows \subseteq Turns, NEW a \in Chats,
         NEW c \in Proposable(a), c \notin Proposed(a)
  PROVE  ResultsOf(c) = {}
<1>1. ASSUME NEW m \in ResultsOf(c) PROVE FALSE
  <2>1. m.by = a /\ m \in rows /\ m.role = "tool" /\ m.answers = c
    BY <1>1, OwnResults DEF ResultsOf
  <2> QED
    BY <2>1 DEF WriterInv
<1> QED
  BY <1>1

(* When one call is left and it is answered, none is left.                 *)
LEMMA LastCall ==
  ASSUME IInv, NEW a \in Chats, ~ (Cardinality(todo[a]) > 1), NEW c \in todo[a]
  PROVE  todo[a] \ {c} = {}
<1>1. IsFiniteSet(todo[a])
  BY CallsAreFinite, FS_Subset DEF IInv, TodoInv
<1>2. /\ IsFiniteSet(todo[a] \ {c})
      /\ Cardinality(todo[a] \ {c}) = Cardinality(todo[a]) - 1
  BY <1>1, FS_RemoveElement
<1>3. Cardinality(todo[a]) \in Nat /\ Cardinality(todo[a] \ {c}) \in Nat
  BY <1>1, <1>2, FS_CardinalityType
<1>4. Cardinality(todo[a] \ {c}) = 0
  BY <1>2, <1>3
<1> QED
  BY <1>2, <1>4, FS_EmptySet

(* The steps of a chat that write one.                                     *)
LEMMA ChatInserts ==
  ASSUME IInv, ChatInv, NEW a \in Chats, Insert(a)
  PROVE  Facts(a)'
<1> DEFINE t == Turn(a)
<1>a. PICK c0 : c0 = NextCall(a)
  OBVIOUS
<1>0. /\ TypeOK /\ StageInv /\ GateInv /\ TodoInv /\ WriterInv /\ rows \subseteq Turns
      /\ FreshInv(a) /\ ResultInv(a) /\ PauseInv(a)
  BY DEF IInv, ChatInv, TypeOK, Turns
<1>1. /\ pc[a] \in {"asking", "proposing", "answering", "resulting", "pausing", "noticing"}
      /\ pc[a] \in Writing
  BY <1>0 DEF Insert, Writing, StageInv, ChatStages, Over
<1>2. /\ rows' = rows \cup {t} /\ rounds' = rounds /\ approval' = approval
      /\ pc'[a] = After(a)
      /\ todo'[a] = IF pc[a] \in {"resulting", "pausing"} THEN todo[a] \ {c0} ELSE todo[a]
  BY <1>0, <1>a DEF Insert, Goto, gate, TypeOK, Requests
<1>3. /\ t.by = a
      /\ t.role = "tool" <=> pc[a] \in {"resulting", "pausing"}
      /\ t.calls = IF pc[a] = "proposing" THEN todo[a] ELSE {}
      /\ pc[a] \in {"resulting", "pausing"} => t.answers = c0
      /\ t.approval_required <=> pc[a] = "noticing"
  BY <1>1, <1>a, TurnIs
<1> HIDE DEF t
<1>4. /\ Proposed(a)' = Proposed(a) \cup t.calls
      /\ Paused(a)' <=> Paused(a) \/ t.approval_required
      /\ \A c : ResultsOf(c)' = IF t.role = "tool" /\ t.answers = c
                                THEN ResultsOf(c) \cup {t} ELSE ResultsOf(c)
  BY <1>2, <1>3, RowsGrow
<1> USE DEF Facts
<1>5. CASE pc[a] \in {"asking", "answering"}
  <2>1. /\ pc'[a] = IF pc[a] = "asking" THEN "loading" ELSE "syncing"
        /\ Proposed(a)' = Proposed(a) /\ (Paused(a)' <=> Paused(a))
        /\ \A c : ResultsOf(c)' = ResultsOf(c)
        /\ todo'[a] = todo[a]
    BY <1>2, <1>3, <1>4, <1>5 DEF After
  <2>2. FreshInv(a)'
    BY <1>0, <1>2, <1>5, <2>1 DEF FreshInv, Over
  <2>3. ResultInv(a)'
    BY <1>0, <1>5, <2>1 DEF ResultInv
  <2>4. PauseInv(a)'
    BY <1>0, <1>2, <1>5, <2>1 DEF PauseInv
  <2> QED
    BY <2>2, <2>3, <2>4
<1>6. CASE pc[a] = "proposing"
  <2>1. /\ pc'[a] = "resulting" /\ todo'[a] = todo[a]
        /\ Proposed(a)' = Proposed(a) \cup todo[a] /\ (Paused(a)' <=> Paused(a))
        /\ \A c : ResultsOf(c)' = ResultsOf(c)
    BY <1>2, <1>3, <1>4, <1>6 DEF After
  <2>2. \A c \in todo[a] : ResultsOf(c) = {}
    BY <1>0, <1>6, ResultsAreProposed DEF TodoInv, FreshInv
  <2>3. FreshInv(a)'
    BY <1>0, <1>2, <1>6, <2>1, <2>2 DEF FreshInv, Over
  <2>4. ResultInv(a)'
    BY <1>0, <1>6, <2>1, <2>2 DEF ResultInv
  <2>5. approval[a].status = "none"
    BY <1>0, <1>6 DEF GateInv, Unasked
  <2>6. PauseInv(a)'
    BY <1>0, <1>2, <1>6, <2>1, <2>5 DEF PauseInv
  <2> QED
    BY <2>3, <2>4, <2>6
<1>7. CASE pc[a] \in {"resulting", "pausing"}
  <2>1. /\ todo'[a] = todo[a] \ {c0} /\ c0 \in todo[a] /\ todo[a] \subseteq Proposed(a)
        /\ Proposed(a)' = Proposed(a) /\ (Paused(a)' <=> Paused(a))
        /\ ResultsOf(c0)' = {t} /\ \A c : c # c0 => ResultsOf(c)' = ResultsOf(c)
        /\ \A c \in todo[a] : ResultsOf(c) = {}
    <3>1. c0 \in todo[a]
      BY <1>0, <1>a, <1>7, NextCallIsLeft, Products DEF TodoInv
    <3>2. todo[a] \subseteq Proposed(a) /\ \A c \in todo[a] : ResultsOf(c) = {}
      BY <1>0, <1>7 DEF FreshInv
    <3>3. /\ Proposed(a)' = Proposed(a) /\ (Paused(a)' <=> Paused(a))
          /\ \A c : ResultsOf(c)' = IF c0 = c THEN ResultsOf(c) \cup {t} ELSE ResultsOf(c)
      BY <1>3, <1>4, <1>7
    <3> QED
      BY <1>2, <1>7, <3>1, <3>2, <3>3
  <2>2. FreshInv(a)'
    <3>1. \A c \in Proposed(a)' \cup todo'[a] : c.n <= rounds'[a] * MaxCalls[a]
      BY <1>0, <1>2, <1>7, <2>1 DEF FreshInv, Over
    <3>2. todo'[a] \subseteq Proposed(a)' /\ \A c \in todo'[a] : ResultsOf(c)' = {}
      BY <2>1
    <3>3. pc'[a] # "proposing"
      BY <1>2, <1>7 DEF After
    <3> QED
      BY <3>1, <3>2, <3>3 DEF FreshInv
  <2>3. CASE pc[a] = "resulting"
    <3>1. /\ pc'[a] = IF Cardinality(todo[a]) > 1 THEN "resulting" ELSE "planning"
          /\ approval[a].status = "none"
      BY <1>0, <1>2, <2>3 DEF After, GateInv, Unasked
    <3>2. pc'[a] = "planning" => todo'[a] = {}
      BY <2>1, <3>1, LastCall
    <3>3. ASSUME NEW c \in Proposed(a), c # c0
          PROVE  /\ \A m1, m2 \in ResultsOf(c)' : m1 = m2
                 /\ ResultsOf(c)' # {} \/ c \in todo'[a]
      BY <1>0, <2>1, <2>3, <3>3 DEF ResultInv
    <3>4. ResultInv(a)'
      <4>1. pc'[a] \in {"resulting", "planning"}
        BY <3>1
      <4>2. ASSUME NEW c \in Proposed(a)'
            PROVE  /\ \A m1, m2 \in ResultsOf(c)' : m1 = m2
                   /\ \/ ResultsOf(c)' # {}
                      \/ pc'[a] \in {"resulting", "pausing"} /\ c \in todo'[a]
        BY <2>1, <3>2, <3>3, <4>1
      <4> QED
        BY <4>2 DEF ResultInv
    <3>5. PauseInv(a)'
      BY <1>0, <1>2, <2>1, <2>3, <3>1 DEF PauseInv
    <3> QED
      BY <2>2, <3>4, <3>5
  <2>4. CASE pc[a] = "pausing"
    <3>1. pc'[a] = "noticing"
      BY <1>2, <2>4 DEF After
    <3>2. \A c \in Proposed(a)' : \A m1, m2 \in ResultsOf(c)' : m1 = m2
      BY <1>0, <2>1 DEF ResultInv
    <3>3. ResultInv(a)'
      BY <3>1, <3>2 DEF ResultInv
    <3>4. PauseInv(a)'
      BY <1>0, <1>2, <2>1, <2>4, <3>1 DEF PauseInv
    <3> QED
      BY <2>2, <3>3, <3>4
  <2> QED
    BY <1>7, <2>3, <2>4
<1>8. CASE pc[a] = "noticing"
  <2>1. /\ pc'[a] = "syncing" /\ todo'[a] = todo[a]
        /\ Proposed(a)' = Proposed(a) /\ Paused(a)'
        /\ \A c : ResultsOf(c)' = ResultsOf(c)
    BY <1>2, <1>3, <1>4, <1>8 DEF After
  <2>2. FreshInv(a)'
    BY <1>0, <1>2, <1>8, <2>1 DEF FreshInv, Over
  <2>3. ResultInv(a)'
    BY <1>0, <2>1 DEF ResultInv
  <2>4. PauseInv(a)'
    BY <1>0, <1>2, <1>8, <2>1 DEF PauseInv
  <2> QED
    BY <2>2, <2>3, <2>4
<1> QED
  BY <1>1, <1>5, <1>6, <1>7, <1>8

(* A turn of somebody else says nothing of a chat and of its calls.        *)
LEMMA OthersInsert ==
  ASSUME IInv, ChatInv, NEW a \in Chats, NEW r \in Requests, r # a, Insert(r)
  PROVE  Facts(a)'
<1> DEFINE t == Turn(r)
<1>0. /\ TypeOK /\ StageInv /\ TodoInv /\ WriterInv /\ rows \subseteq Turns /\ Facts(a)
      /\ pc[r] \in Writing
  BY DEF IInv, ChatInv, TypeOK, Turns, Facts, Insert
<1>1. /\ rows' = rows \cup {t} /\ rounds' = rounds /\ approval' = approval
      /\ pc'[a] = pc[a] /\ todo'[a] = todo[a]
  BY <1>0 DEF Insert, Goto, gate, TypeOK, Requests
<1>2. /\ t.by = r
      /\ t.role = "tool" <=> pc[r] \in {"resulting", "pausing", "reporting"}
      /\ pc[r] \in {"resulting", "pausing"} => t.answers = NextCall(r)
      /\ pc[r] = "reporting" => t.answers = Call(decides[r], 0)
  BY <1>0, TurnIs
<1> HIDE DEF t
<1>3. /\ Proposed(a)' = Proposed(a) /\ (Paused(a)' <=> Paused(a))
      /\ \A c : ResultsOf(c)' = IF t.role = "tool" /\ t.answers = c
                                THEN ResultsOf(c) \cup {t} ELSE ResultsOf(c)
  BY <1>1, <1>2, RowsGrow
<1>4. ASSUME NEW c \in Proposable(a), t.role = "tool" PROVE t.answers # c
  <2>1. PICK i \in 1 .. MaxRounds[a] * MaxCalls[a] : c = Call(a, i)
    BY DEF Proposable
  <2>2. i # 0
    <3>1. \A M \in Nat : \A j \in 1 .. M : j # 0
      OBVIOUS
    <3> QED
      BY <3>1, Products
  <2>3. c.by = a /\ c.n # 0
    BY <2>1, <2>2 DEF Call
  <2>4. CASE pc[r] \in {"resulting", "pausing"}
    <3>1. r \in Chats
      BY <1>0, <2>4 DEF StageInv, ConfirmStages, Over, Requests
    <3>2. NextCall(r) \in Proposable(r)
      BY <1>0, <2>4, <3>1, NextCallIsLeft, Products DEF TodoInv
    <3>3. NextCall(r).by = r
      BY <3>2 DEF Proposable, Call
    <3> QED
      BY <1>2, <2>3, <2>4, <3>3
  <2>5. CASE pc[r] = "reporting"
    <3>1. Call(decides[r], 0).n = 0
      BY DEF Call
    <3> QED
      BY <1>2, <2>3, <2>5, <3>1
  <2> QED
    BY <1>2, <1>4, <2>4, <2>5
<1>5. Proposed(a) \cup todo[a] \subseteq Proposable(a)
  BY <1>0, OwnResults DEF TodoInv
<1>6. \A c \in Proposed(a) \cup todo[a] : ResultsOf(c)' = ResultsOf(c)
  BY <1>3, <1>4, <1>5
<1> QED
  BY <1>0, <1>1, <1>3, <1>6, ChatKept

(* Steps that leave the transcript and a chat where they are.              *)
LEMMA ChatStays ==
  ASSUME NEW a \in Chats, Facts(a), rows' = rows,
         pc'[a] = pc[a], todo'[a] = todo[a], rounds'[a] = rounds[a],
         approval'[a].call = approval[a].call,
         approval'[a].status = "none" <=> approval[a].status = "none"
  PROVE  Facts(a)'
<1>1. /\ Proposed(a)' = Proposed(a) /\ (Paused(a)' <=> Paused(a))
      /\ \A c : ResultsOf(c)' = ResultsOf(c)
  BY RowsStay
<1> QED
  BY <1>1, ChatKept

(* A decision on what was asked for changes neither the call nor that.     *)
LEMMA DecideKeeps ==
  ASSUME TypeOK, NEW a \in Chats, NEW b \in Chats, NEW to \in Decided, Decide(b, to),
         approval[b].status # "none"
  PROVE  /\ approval'[a].call = approval[a].call
         /\ approval'[a].status = "none" <=> approval[a].status = "none"
<1>1. /\ approval \in [Chats -> [status : {"none", "pending"} \cup Decided, call : CallIds]]
      /\ approval' = [approval EXCEPT ![b].status = to] /\ to # "none"
  BY DEF TypeOK, Decide, Decided
<1>2. CASE a = b
  BY <1>1, <1>2
<1>3. CASE a # b
  BY <1>1, <1>3
<1> QED
  BY <1>2, <1>3

LEMMA FactsStep ==
  ASSUME IInv, ChatInv, [Next]_vars, NEW a \in Chats
  PROVE  Facts(a)'
<1> USE BoundsAssumption DEF Requests
<1>0. TypeOK /\ StageInv /\ GateInv /\ Facts(a) /\ a \notin Confirms
  BY DEF IInv, ChatInv, Facts
<1>0a. /\ pc = [r \in Requests |-> pc[r]]
       /\ approval \in [Chats -> [status : {"none", "pending"} \cup Decided, call : CallIds]]
       /\ todo = [r \in Requests |-> todo[r]] /\ rounds = [r \in Requests |-> rounds[r]]
  BY <1>0 DEF TypeOK
<1>1. ASSUME NEW r \in Requests, Chat(r) \/ LoadHistory(r) \/ Conflict(r) \/ Abandon(r) \/ Settle(r)
      PROVE  Facts(a)'
  <2>1. CASE r = a
    BY <1>1, <2>1, ChatMoves
  <2>2. CASE r # a
    <3>1. /\ rows' = rows /\ approval' = approval /\ pc'[a] = pc[a]
          /\ todo'[a] = todo[a] /\ rounds'[a] = rounds[a]
      BY <1>0a, <1>1, <2>2 DEF Chat, Begin, LoadHistory, Conflict, Abandon, Settle, End, Goto, turns, gate
    <3> QED
      BY <1>0, <3>1, ChatStays
  <2> QED
    BY <2>1, <2>2
<1>2. ASSUME NEW r \in Requests, Complete(r) PROVE Facts(a)'
  <2>1. CASE r = a
    BY <1>2, <2>1, ChatPlans
  <2>2. CASE r # a
    <3>1. rows' = rows /\ approval' = approval /\ pc'[a] = pc[a]
      BY <1>0a, <1>2, <2>2 DEF Complete, Goto, gate
    <3>2. todo'[a] = todo[a] /\ rounds'[a] = rounds[a]
      BY <1>0a, <1>2, <2>2 DEF Complete
    <3> QED
      BY <1>0, <3>1, <3>2, ChatStays
  <2> QED
    BY <2>1, <2>2
<1>3. ASSUME NEW r \in Requests, AskApproval(r) PROVE Facts(a)'
  <2>1. CASE r = a
    BY <1>3, <2>1, ChatMoves
  <2>2. CASE r # a
    <3>1. /\ rows' = rows /\ approval'[a] = approval[a] /\ pc'[a] = pc[a]
          /\ todo'[a] = todo[a] /\ rounds'[a] = rounds[a]
      BY <1>0a, <1>3, <2>2 DEF AskApproval, Goto, turns
    <3> QED
      BY <1>0, <3>1, ChatStays
  <2> QED
    BY <2>1, <2>2
<1>4. ASSUME NEW k \in Confirms, NEW b \in Chats, Arrive(k, b) PROVE Facts(a)'
  <2>1. approval' = approval /\ rows' = rows /\ todo' = todo /\ rounds' = rounds
    BY <1>4 DEF Arrive, turns
  <2>2. pc'[a] = pc[a]
    BY <1>0, <1>0a, <1>4 DEF Arrive, Begin, Goto
  <2> QED
    BY <1>0, <2>1, <2>2, ChatStays
<1>5. ASSUME NEW b \in Chats, TurnDown(b) PROVE Facts(a)'
  <2>1. /\ approval'[a].call = approval[a].call
        /\ approval'[a].status = "none" <=> approval[a].status = "none"
    BY <1>0, <1>5, DecideKeeps DEF TurnDown, Decided
  <2> QED
    BY <1>0, <1>5, <2>1, ChatStays DEF TurnDown, turns
<1>6. ASSUME NEW k \in Requests,
             \/ Confirm(k) \/ TurnedAway(k) \/ Condemn(k)
             \/ LoadConversation(k) \/ Execute(k) \/ Mark(k)
      PROVE  Facts(a)'
  <2>1. k \in Confirms /\ k # a /\ pc[k] # "idle"
    BY <1>0, <1>6 DEF Confirm, TurnedAway, Condemn, LoadConversation, Execute, Mark, StageInv,
                      ChatStages, Over
  <2>2. decides[k] \in Chats /\ approval[decides[k]].status # "none"
    BY <1>0, <2>1 DEF StageInv, GateInv
  <2>3. /\ rows' = rows /\ pc'[a] = pc[a] /\ todo'[a] = todo[a] /\ rounds'[a] = rounds[a]
    BY <1>0a, <1>6, <2>1 DEF Confirm, TurnedAway, Condemn, LoadConversation, Execute, Mark, Goto, End, turns
  <2>4. approval' = approval \/ \E to \in Decided : Decide(decides[k], to)
    BY <1>6 DEF Confirm, TurnedAway, Condemn, LoadConversation, Execute, Mark, gate, Decided
  <2>5. /\ approval'[a].call = approval[a].call
        /\ approval'[a].status = "none" <=> approval[a].status = "none"
    BY <1>0, <2>2, <2>4, DecideKeeps
  <2> QED
    BY <1>0, <2>3, <2>5, ChatStays
<1>7. ASSUME NEW r \in Requests, Insert(r) PROVE Facts(a)'
  BY <1>7, ChatInserts, OthersInsert
<1>8. ASSUME NEW r \in Requests, ReadNext(r) PROVE Facts(a)'
  BY <1>0, <1>8, ChatStays DEF ReadNext, gate
<1>9. CASE UNCHANGED vars
  BY <1>0, <1>9, ChatStays DEF vars, turns, gate
<1> QED
  BY <1>1, <1>2, <1>3, <1>4, <1>5, <1>6, <1>7, <1>8, <1>9 DEF Next, Serve, Quiescent

LEMMA WriterStep ==
  ASSUME IInv, ChatInv, [Next]_vars
  PROVE  WriterInv'
<1> USE DEF Requests
<1>0. WriterInv /\ rows \subseteq Turns
  BY DEF IInv, ChatInv, TypeOK, Turns
<1>0a. pc = [r \in Requests |-> pc[r]] /\ decides = [k \in Confirms |-> decides[k]]
  BY DEF IInv, TypeOK
<1>1. ASSUME NEW r \in Requests, Insert(r) PROVE WriterInv'
  BY <1>1, WriterInsert
<1>2. ASSUME rows' = rows, decides' = decides, NEW r \in Requests, NEW to,
             pc' = [pc EXCEPT ![r] = to], to # "idle"
      PROVE  WriterInv'
  <2>1. \A q \in Requests : pc[q] # "idle" => pc'[q] # "idle"
    BY <1>0a, <1>2
  <2>2. \A m \in rows : m.by \in Requests
    BY <1>0 DEF Turns
  <2> QED
    BY <1>0, <1>2, <2>1, <2>2, WriterKept
<1>3. ASSUME NEW r \in Requests,
             \/ Chat(r) \/ LoadHistory(r) \/ Complete(r) \/ AskApproval(r) \/ LoadConversation(r)
             \/ Execute(r) \/ Mark(r) \/ Conflict(r) \/ Abandon(r) \/ Settle(r)
             \/ Confirm(r) \/ TurnedAway(r) \/ Condemn(r)
      PROVE  WriterInv'
  <2>1. rows' = rows /\ decides' = decides
    BY <1>3 DEF Chat, LoadHistory, Complete, AskApproval, LoadConversation, Execute, Mark, Conflict,
                Abandon, Settle, Confirm, TurnedAway, Condemn, turns, gate
  <2>2. \E to : to # "idle" /\ pc' = [pc EXCEPT ![r] = to]
    BY <1>3 DEF Chat, Begin, LoadHistory, Complete, AskApproval, LoadConversation, Execute, Mark, Conflict,
                Abandon, Settle, Confirm, TurnedAway, Condemn, End, Goto
  <2> QED
    BY <1>2, <2>1, <2>2
<1>4. ASSUME NEW k \in Confirms, NEW b \in Chats, Arrive(k, b) PROVE WriterInv'
  <2>1. /\ rows' = rows /\ pc[k] = "idle" /\ pc' = [pc EXCEPT ![k] = "deciding"]
        /\ \A j \in Confirms : j # k => decides'[j] = decides[j]
    BY <1>0a, <1>4 DEF Arrive, Begin, Goto, turns
  <2>2. \A m \in rows : pc[m.by] # "idle" => pc'[m.by] # "idle"
    BY <1>0, <1>0a, <2>1 DEF Turns
  <2> QED
    BY <1>0, <2>1, <2>2, WriterKept
<1>5. CASE UNCHANGED <<rows, pc, decides>>
  BY <1>0, <1>5, WriterKept
<1>6. ASSUME NEW b \in Chats, TurnDown(b) PROVE WriterInv'
  BY <1>5, <1>6 DEF TurnDown, turns
<1>7. ASSUME NEW r \in Requests, ReadNext(r) PROVE WriterInv'
  BY <1>5, <1>7 DEF ReadNext, gate
<1>8. CASE UNCHANGED vars
  BY <1>5, <1>8 DEF vars, turns, gate
<1> QED
  BY <1>1, <1>3, <1>4, <1>6, <1>7, <1>8 DEF Next, Serve, Quiescent

LEMMA ChatInit == Init => ChatInv
<1> SUFFICES ASSUME Init, NEW a \in Chats PROVE WriterInv /\ FreshInv(a) /\ ResultInv(a) /\ PauseInv(a)
  BY DEF ChatInv, Init, WriterInv
<1>1. rows = {} /\ Proposed(a) = {} /\ ~ Paused(a) /\ todo[a] = {} /\ pc[a] = "idle"
      /\ approval[a].status = "none"
  BY DEF Init, Proposed, Paused, Requests
<1> QED
  BY <1>1 DEF WriterInv, FreshInv, ResultInv, PauseInv

(* The transcript and the chats that wrote it agree, at every step.        *)
THEOREM Conversed == Spec => []ChatInv
<1>1. IInv /\ ChatInv /\ [Next]_vars => ChatInv'
  BY WriterStep, FactsStep DEF ChatInv, Facts
<1> QED
  BY Invariant, ChatInit, <1>1, PTL DEF Spec

(* Whatever collides or dies between the commits of a pause, an approval   *)
(* refers to a call on record, a notice has an approval behind it, and a   *)
(* chat that was answered told the user of the approval it left.           *)
THEOREM AskedBeforeShown == Spec => []AskedAndShown
<1>1. ChatInv => AskedAndShown
  BY DEF ChatInv, PauseInv, AskedAndShown
<1> QED
  BY Conversed, <1>1, PTL

LEMMA AtMostOne ==
  ASSUME NEW S, \A x, y \in S : x = y
  PROVE  Cardinality(S) <= 1
<1>1. CASE S = {}
  BY <1>1, FS_EmptySet
<1>2. CASE S # {}
  <2>1. PICK x \in S : TRUE
    BY <1>2
  <2>2. S = {x}
    BY <2>1
  <2> QED
    BY <2>2, FS_Singleton
<1> QED
  BY <1>1, <1>2

(* A proposed call never has two results, and one without any belongs to a *)
(* request that is still running, was paused or failed.                    *)
THEOREM EveryCallAnswered == Spec => []CallsAnswered
<1>1. ASSUME IInv, ChatInv, NEW r \in Requests, NEW c \in Proposed(r)
      PROVE  /\ Cardinality(ResultsOf(c)) <= 1
             /\ ResultsOf(c) = {} => pc[r] # "answered" \/ Paused(r)
  <2>1. r \in Chats
    <3>1. PICK m \in rows : m.by = r /\ c \in m.calls
      BY <1>1 DEF Proposed
    <3> QED
      BY <1>1, <3>1 DEF ChatInv, WriterInv, Requests
  <2>2. Cardinality(ResultsOf(c)) <= 1
    BY <1>1, <2>1, AtMostOne DEF ChatInv, ResultInv
  <2> QED
    BY <1>1, <2>1, <2>2 DEF ChatInv, ResultInv
<1>2. IInv /\ ChatInv => CallsAnswered
  BY <1>1 DEF CallsAnswered
<1> QED
  BY Invariant, Conversed, <1>2, PTL

-------------------------------------------------------------------------------
LEMMA PausedLast ==
  ASSUME NEW l, l = last'
  PROVE  Paused(last)' <=> Paused(l)'
BY DEF Paused

(* A request on its way moves on; its own pause does not show yet in who   *)
(* wrote the status last.                                                  *)
Unloaded == {"deciding", "claimed"}

LEMMA StatusKept ==
  ASSUME IInv, StatusInv, NEW r \in Requests, NEW to, Running(r), pc' = [pc EXCEPT ![r] = to],
         alone' = alone, status' = status, last' = last,
         \A q \in Requests \ {r} : copy'[q] = copy[q],
         to # "idle", to \in Over => copy'[r] = "none",
         alone /\ to \notin Over => copy'[r] = status \/ (copy'[r] = "none" /\ to \in Unloaded),
         \A q : q # r => (Paused(q)' <=> Paused(q)), Paused(r) => Paused(r)'
  PROVE  StatusInv'
<1>0. pc = [q \in Requests |-> pc[q]]
  BY DEF IInv, TypeOK
<1>1. pc'[r] = to /\ \A q \in Requests \ {r} : pc'[q] = pc[q]
  BY <1>0
<1>2. \A q \in Requests : Running(q)' => Running(q)
  BY <1>1 DEF Running
<1>3. status' = "awaiting" => \E a \in Chats : Paused(a)'
  BY DEF StatusInv
<1>3a. \A q \in Requests : ~ Running(q)' => copy'[q] = "none"
  BY <1>1 DEF StatusInv, Running
<1>4. ASSUME alone
      PROVE  /\ \A q1, q2 \in Requests : Running(q1)' /\ Running(q2)' => q1 = q2
             /\ \A q \in Requests : Running(q)' =>
                  copy'[q] = status' \/ (copy'[q] = "none" /\ pc'[q] \in Unloaded)
             /\ status' = "awaiting" <=> last' \in Chats /\ Paused(last)'
             /\ last' \in Requests => pc'[last'] \in Over
  <2>1. \A q1, q2 \in Requests : Running(q1)' /\ Running(q2)' => q1 = q2
    BY <1>2, <1>4 DEF StatusInv
  <2>2. ASSUME NEW q \in Requests, Running(q)'
        PROVE  copy'[q] = status' \/ (copy'[q] = "none" /\ pc'[q] \in Unloaded)
    <3>1. q = r
      BY <1>2, <1>4, <2>2 DEF StatusInv
    <3> QED
      BY <1>1, <1>4, <2>2, <3>1 DEF Running
  <2>3. PICK l : l = last
    OBVIOUS
  <2>4. l # r /\ (l \in Requests => pc[l] \in Over) /\ (status = "awaiting" <=> l \in Chats /\ Paused(l))
    BY <1>4, <2>3 DEF StatusInv, Running
  <2>5. Paused(last)' <=> Paused(l)
    BY <2>3, <2>4, PausedLast
  <2> QED
    BY <1>1, <2>1, <2>2, <2>3, <2>4, <2>5
<1> QED
  BY <1>3, <1>3a, <1>4 DEF StatusInv, Unloaded

LEMMA StatusBegins ==
  ASSUME IInv, StatusInv, NEW r \in Requests, NEW to, Begin(r, to), to \notin Over \cup {"idle"},
         status' = status, rows' = rows,
         \A q \in Requests \ {r} : copy'[q] = copy[q],
         copy'[r] = status \/ (copy'[r] = "none" /\ to \in Unloaded)
  PROVE  StatusInv'
<1>0. pc = [q \in Requests |-> pc[q]]
  BY DEF IInv, TypeOK
<1>1. /\ pc[r] = "idle" /\ pc'[r] = to /\ \A q \in Requests \ {r} : pc'[q] = pc[q]
      /\ alone' => alone /\ last' = last /\ \A q \in Requests : pc[q] \in Over \cup {"idle"}
  BY <1>0 DEF Begin, Goto
<1>2. \A q : Paused(q)' <=> Paused(q)
  BY RowsStay
<1>3. status' = "awaiting" => \E a \in Chats : Paused(a)'
  BY <1>2 DEF StatusInv
<1>3a. \A q \in Requests : ~ Running(q)' => copy'[q] = "none"
  BY <1>1 DEF StatusInv, Running
<1>4. ASSUME alone'
      PROVE  /\ \A q1, q2 \in Requests : Running(q1)' /\ Running(q2)' => q1 = q2
             /\ \A q \in Requests : Running(q)' =>
                  copy'[q] = status' \/ (copy'[q] = "none" /\ pc'[q] \in Unloaded)
             /\ status' = "awaiting" <=> last' \in Chats /\ Paused(last)'
             /\ last' \in Requests => pc'[last'] \in Over
  <2>1. \A q \in Requests : Running(q)' => q = r
    BY <1>1, <1>4 DEF Running
  <2>2. PICK l : l = last
    OBVIOUS
  <2>3. l # r /\ (l \in Requests => pc[l] \in Over) /\ (status = "awaiting" <=> l \in Chats /\ Paused(l))
    BY <1>1, <1>4, <2>2 DEF StatusInv, Over
  <2>4. last' = l /\ (Paused(last)' <=> Paused(l))
    BY <1>1, <1>2, <1>4, <2>2, PausedLast
  <2> QED
    BY <1>1, <2>1, <2>3, <2>4
<1> QED
  BY <1>3, <1>3a, <1>4 DEF StatusInv, Unloaded

(* As long as nothing overlaps, the copy is exact, so that what is written *)
(* is what the run should leave behind.                                    *)
LEMMA StatusSettles ==
  ASSUME IInv, StatusInv, NEW r \in Requests, Settle(r)
  PROVE  StatusInv'
<1>0. /\ pc = [q \in Requests |-> pc[q]] /\ copy = [q \in Requests |-> copy[q]]
      /\ r \in Chats <=> r \notin Confirms
  BY BoundsAssumption DEF IInv, TypeOK, Requests
<1>1. /\ pc[r] \in {"syncing", "activating"} /\ rows' = rows /\ alone' = alone
      /\ pc'[r] = "answered" /\ \A q \in Requests \ {r} : pc'[q] = pc[q]
      /\ copy'[r] = "none" /\ \A q \in Requests \ {r} : copy'[q] = copy[q]
      /\ status' \in {status, Outcome(r)} /\ (copy[r] = status => status' = Outcome(r))
      /\ alone => last' = r
  BY <1>0 DEF Settle, End, Goto, WriteStatus
<1>2. \A q : Paused(q)' <=> Paused(q)
  BY <1>1, RowsStay
<1>3. Outcome(r) = "awaiting" <=> r \in Chats /\ Paused(r)
  BY DEF Outcome
<1>4. status' = "awaiting" => \E a \in Chats : Paused(a)'
  BY <1>1, <1>2, <1>3 DEF StatusInv
<1>4a. \A q \in Requests : ~ Running(q)' => copy'[q] = "none"
  BY <1>1 DEF StatusInv, Running
<1>5. ASSUME alone
      PROVE  /\ \A q \in Requests : ~ Running(q)'
             /\ status' = "awaiting" <=> last' \in Chats /\ Paused(last)'
             /\ last' \in Requests => pc'[last'] \in Over
  <2>1. Running(r) /\ pc[r] \notin Unloaded /\ ~ Running(r)'
    BY <1>1 DEF Running, Over, Unloaded
  <2>2. \A q \in Requests : ~ Running(q)'
    BY <1>1, <1>5, <2>1 DEF StatusInv, Running
  <2>3. status' = Outcome(r)
    BY <1>1, <1>5, <2>1 DEF StatusInv, Unloaded
  <2>4. last' = r /\ (Paused(last)' <=> Paused(r))
    BY <1>1, <1>2, <1>5, PausedLast
  <2> QED
    BY <1>1, <1>3, <2>2, <2>3, <2>4 DEF Over
<1> QED
  BY <1>1, <1>4, <1>4a, <1>5 DEF StatusInv

LEMMA StatusStep ==
  ASSUME IInv, StatusInv, [Next]_vars
  PROVE  StatusInv'
<1> USE BoundsAssumption DEF Requests
<1>0. /\ TypeOK /\ StageInv /\ copy = [r \in Requests |-> copy[r]]
  BY DEF IInv, TypeOK
<1>0a. \A r \in Requests : Running(r) /\ alone =>
         copy[r] = status \/ (copy[r] = "none" /\ pc[r] \in Unloaded)
  BY DEF StatusInv, Unloaded
<1>1. ASSUME NEW r \in Requests, Chat(r) PROVE StatusInv'
  <2>0. copy[r] = "none"
    BY <1>1 DEF Chat, Begin, StatusInv, Running
  <2>1. /\ Begin(r, "asking") /\ status' = status /\ rows' = rows
        /\ copy'[r] = status /\ \A q \in Requests \ {r} : copy'[q] = copy[q]
    BY <1>0, <1>1, <2>0 DEF Chat, Load, turns
  <2> QED
    BY <2>1, StatusBegins DEF Over
<1>2. ASSUME NEW k \in Confirms, NEW a \in Chats, Arrive(k, a) PROVE StatusInv'
  <2>0. copy[k] = "none"
    BY <1>2 DEF Arrive, Begin, StatusInv, Running
  <2>1. /\ Begin(k, "deciding") /\ status' = status /\ rows' = rows
        /\ copy'[k] \in {status, "none"} /\ \A q \in Requests \ {k} : copy'[q] = copy[q]
    BY <1>0, <1>2, <2>0 DEF Arrive, Load, turns
  <2> QED
    BY <2>1, StatusBegins DEF Over, Unloaded
<1>3. ASSUME NEW r \in Requests,
             LoadHistory(r) \/ Complete(r) \/ AskApproval(r) \/ Execute(r) \/ Mark(r) \/ Confirm(r)
      PROVE  StatusInv'
  <2>1. /\ rows' = rows /\ alone' = alone /\ status' = status /\ last' = last /\ copy' = copy
        /\ pc[r] \in {"loading", "planning", "resulting", "executing", "marking", "deciding"}
        /\ pc[r] \in Unloaded => Confirm(r)
    BY <1>3 DEF LoadHistory, Complete, AskApproval, Execute, Mark, Confirm, turns, row, session, Unloaded
  <2>2. \E to : /\ to \notin Over \cup {"idle"} /\ pc' = [pc EXCEPT ![r] = to]
                /\ Confirm(r) => to = "claimed"
    BY <1>3 DEF LoadHistory, Complete, AskApproval, Execute, Mark, Confirm, Goto, Over
  <2>3. Running(r)
    BY <2>1 DEF Running, Over
  <2> QED
    BY <1>0a, <2>1, <2>2, <2>3, RowsStay, StatusKept DEF Unloaded
<1>4. ASSUME NEW k \in Requests, LoadConversation(k) PROVE StatusInv'
  <2>1. /\ rows' = rows /\ alone' = alone /\ status' = status /\ last' = last
        /\ copy'[k] = (IF copy[k] = "none" THEN status ELSE copy[k])
        /\ \A q \in Requests \ {k} : copy'[q] = copy[q]
        /\ pc[k] = "claimed" /\ pc' = [pc EXCEPT ![k] = "executing"]
    BY <1>0, <1>4 DEF LoadConversation, Load, Goto, turns, row
  <2>2. Running(k)
    BY <2>1 DEF Running, Over
  <2>3. alone => copy'[k] = status
    BY <1>0a, <2>1, <2>2
  <2> QED
    BY <2>1, <2>2, <2>3, RowsStay, StatusKept DEF Over
<1>5. ASSUME NEW r \in Requests, Insert(r) PROVE StatusInv'
  <2>1. /\ pc[r] \in Writing /\ rows' = rows \cup {Turn(r)} /\ pc' = [pc EXCEPT ![r] = After(r)]
        /\ alone' = alone /\ status' = status /\ last' = last /\ copy' = copy
    BY <1>5 DEF Insert, Goto, row, session
  <2>2. After(r) \notin Over \cup {"idle"} /\ pc[r] \notin Unloaded /\ Running(r)
    BY <2>1 DEF After, Running, Writing, Over, Unloaded
  <2>3. PICK t : t = Turn(r)
    OBVIOUS
  <2>4. t.by = r
    BY <2>1, <2>3, TurnIs
  <2>5. /\ \A q : q # r => (Paused(q)' <=> Paused(q))
        /\ Paused(r) => Paused(r)'
    BY <2>1, <2>3, <2>4, RowsGrow
  <2> QED
    BY <1>0a, <2>1, <2>2, <2>5, StatusKept
<1>6. ASSUME NEW r \in Requests, Conflict(r) \/ Abandon(r) \/ TurnedAway(r) \/ Condemn(r)
      PROVE  StatusInv'
  <2>1. /\ rows' = rows /\ alone' = alone /\ status' = status /\ last' = last
        /\ copy'[r] = "none" /\ \A q \in Requests \ {r} : copy'[q] = copy[q]
        /\ pc' = [pc EXCEPT ![r] = "error"] /\ Running(r)
    BY <1>0, <1>6 DEF Conflict, Abandon, TurnedAway, Condemn, End, Goto, Running, Writing, Over, row
  <2> QED
    BY <2>1, RowsStay, StatusKept DEF Over
<1>7. ASSUME NEW r \in Requests, Settle(r) PROVE StatusInv'
  BY <1>7, StatusSettles
<1>8. CASE UNCHANGED <<rows, row, pc, alone, session>>
  BY <1>8 DEF StatusInv, row, session, Running, Paused
<1>9. ASSUME NEW a \in Chats, TurnDown(a) PROVE StatusInv'
  BY <1>8, <1>9 DEF TurnDown, turns
<1>10. ASSUME NEW r \in Requests, ReadNext(r) PROVE StatusInv'
  BY <1>8, <1>10 DEF ReadNext
<1>11. CASE UNCHANGED vars
  BY <1>8, <1>11 DEF vars, turns
<1> QED
  BY <1>1, <1>2, <1>3, <1>4, <1>5, <1>6, <1>7, <1>9, <1>10, <1>11 DEF Next, Serve, Quiescent

LEMMA StatusInit == Init => StatusInv
BY NobodyAssumption DEF Init, StatusInv, Running, Over, Requests

(* The session's copy of the conversation is exact as long as requests do  *)
(* not overlap.                                                            *)
THEOREM StatusFollows == Spec => []StatusInv
<1>1. IInv /\ StatusInv /\ [Next]_vars => StatusInv'
  BY StatusStep
<1> QED
  BY Invariant, StatusInit, <1>1, PTL DEF Spec

(* As long as requests do not overlap, the status column says whether the  *)
(* last one that wrote it paused; under any race it waits only where some  *)
(* chat paused.                                                            *)
THEOREM StatusRight == Spec => []StatusTellsLast
<1>1. StatusInv => StatusTellsLast
  BY DEF StatusInv, StatusTellsLast
<1> QED
  BY StatusFollows, <1>1, PTL

-------------------------------------------------------------------------------
(* A confirmation that was granted is for an approval that was asked for.  *)
LEMMA GrantedAreConfirms ==
  ASSUME IInv, NEW k \in granted
  PROVE  k \in Confirms /\ pc[k] # "idle" /\ decides[k] \in Chats
<1>1. k \in Confirms /\ pc[k] # "idle"
  BY DEF IInv, TypeOK, GateInv, Acting
<1> QED
  BY <1>1 DEF IInv, StageInv

(* What is reported stays so while nothing is written, no grant is taken   *)
(* back and nothing that was carried out is undone.                        *)
LEMMA ReportKept ==
  ASSUME IInv, ReportInv, rows' = rows,
         \A k \in granted : /\ k \in granted' /\ decides'[k] = decides[k]
                            /\ performed[decides[k]] > 0 => performed'[decides[k]] > 0,
         \A k \in Confirms : /\ pc[k] \in Reported => pc'[k] \in Reported
                             /\ pc'[k] \in Reported \ {"error"} => pc[k] \in Reported \ {"error"}
                             /\ ok'[k] => ok[k] \/ (k \in granted' /\ performed'[decides'[k]] > 0)
  PROVE  ReportInv'
<1>1. \A k \in Confirms : Reports(k)' = Reports(k)
  BY RowsStay
<1>2. ASSUME NEW k \in Confirms
      PROVE  /\ \A m1, m2 \in Reports(k)' : m1 = m2
             /\ pc'[k] \in Reported \ {"error"} => Reports(k)' # {}
  BY <1>1 DEF ReportInv
<1>3. ASSUME NEW k \in Confirms, NEW m \in Reports(k)'
      PROVE  k \in granted' /\ pc'[k] \in Reported /\ (m.executed => performed'[decides'[k]] > 0)
  <2>1. k \in granted /\ pc[k] \in Reported /\ (m.executed => performed[decides[k]] > 0)
    BY <1>1, <1>3 DEF ReportInv
  <2> QED
    BY <2>1
<1>4. ASSUME NEW k \in Confirms, ok'[k] PROVE k \in granted' /\ performed'[decides'[k]] > 0
  BY <1>4 DEF ReportInv
<1> QED
  BY <1>2, <1>3, <1>4 DEF ReportInv

(* A row that says executed keeps its report while no other row gets to    *)
(* say so and no confirmation is led back to report.                       *)
LEMMA MarkKept ==
  ASSUME IInv, MarkInv, rows' = rows,
         \A a \in Chats : /\ approval'[a].status = "executed" => approval[a].status = "executed"
                          /\ performed[a] > 0 => performed'[a] > 0,
         \A k \in granted : /\ k \in granted' /\ decides'[k] = decides[k]
                            /\ pc[k] \in {"reporting"} \cup Reported =>
                                 /\ pc'[k] \in {"reporting"} \cup Reported
                                 /\ pc'[k] = "reporting" => pc[k] = "reporting" /\ ok'[k] = ok[k],
         \A k \in granted' : k \in granted \/ approval'[decides'[k]].status # "executed"
  PROVE  MarkInv'
<1>1. \A k : Reports(k)' = Reports(k)
  BY RowsStay
<1>2. ASSUME NEW a \in Chats, approval'[a].status = "executed"
      PROVE  Granted(a)' # {} /\ performed'[a] > 0
  <2>1. Granted(a) # {} /\ performed[a] > 0
    BY <1>2 DEF MarkInv
  <2>2. Granted(a) \subseteq Granted(a)'
    BY DEF Granted
  <2> QED
    BY <2>1, <2>2
<1>3. ASSUME NEW k \in granted', approval'[decides'[k]].status = "executed"
      PROVE  /\ pc'[k] \in {"reporting"} \cup Reported
             /\ pc'[k] = "reporting" => ok'[k]
             /\ \A m \in Reports(k)' : m.executed
  <2>1. k \in granted /\ decides[k] \in Chats /\ decides'[k] = decides[k]
    BY <1>3, GrantedAreConfirms
  <2>2. approval[decides[k]].status = "executed"
    BY <1>3, <2>1
  <2>3. /\ pc[k] \in {"reporting"} \cup Reported
        /\ pc[k] = "reporting" => ok[k]
        /\ \A m \in Reports(k) : m.executed
    BY <2>1, <2>2 DEF MarkInv
  <2> QED
    BY <1>1, <2>1, <2>3
<1> QED
  BY <1>2, <1>3 DEF MarkInv

LEMMA AloneKept ==
  ASSUME IInv, AloneInv, rows' = rows, alone' => alone, granted' = granted,
         \A j \in granted : decides'[j] = decides[j] /\ (pc[j] = "error" => pc'[j] = "error"),
         \A j \in Confirms : undecided'[j] => undecided[j] /\ decides'[j] = decides[j],
         \A a \in Chats : approval'[a].status = "barred" => approval[a].status = "barred"
  PROVE  AloneInv'
<1>1. \A k : Reports(k)' = Reports(k)
  BY RowsStay
<1>4. ASSUME alone', NEW j \in Confirms, undecided'[j], NEW i \in granted
      PROVE  decides'[i] # decides'[j]
  BY <1>4 DEF AloneInv
<1>5. ASSUME alone', NEW k \in granted, approval'[decides'[k]].status = "barred"
      PROVE  pc'[k] = "error" /\ Reports(k)' = {}
  <2>1. decides[k] \in Chats
    BY GrantedAreConfirms
  <2> QED
    BY <1>1, <1>5, <2>1 DEF AloneInv
<1> QED
  BY <1>4, <1>5 DEF AloneInv

(* A step of one request that writes no turn and leaves the approvals.     *)
LEMMA UngatedReport ==
  ASSUME IInv, ReportInv, MarkInv, AloneInv, rows' = rows, UNCHANGED gate, alone' => alone,
         NEW r \in Requests, NEW to, pc' = [pc EXCEPT ![r] = to],
         \A k \in Confirms : k # r => ok'[k] = ok[k] /\ undecided'[k] = undecided[k],
         r \in Confirms => /\ pc[r] # "error" /\ to # "reporting"
                           /\ pc[r] \in {"reporting"} \cup Reported => to \in Reported
                           /\ to \in Reported \ {"error"} => pc[r] \in Reported \ {"error"}
                           /\ ok'[r] => ok[r]
                           /\ undecided'[r] => undecided[r]
  PROVE  ReportInv' /\ MarkInv' /\ AloneInv'
<1>0. /\ pc = [q \in Requests |-> pc[q]] /\ granted \subseteq Confirms
      /\ approval' = approval /\ decides' = decides /\ performed' = performed /\ granted' = granted
  BY DEF IInv, TypeOK, gate
<1>1. pc'[r] = to /\ \A k \in Confirms \ {r} : pc'[k] = pc[k]
  BY <1>0 DEF Requests
<1>2. ReportInv'
  BY <1>0, <1>1, ReportKept
<1>3. MarkInv'
  BY <1>0, <1>1, MarkKept
<1>4. AloneInv'
  BY <1>0, <1>1, AloneKept
<1> QED
  BY <1>2, <1>3, <1>4

(* A row is decided by a step that carries nothing out.                    *)
LEMMA DecidedReport ==
  ASSUME IInv, ReportInv, MarkInv, NEW a \in Chats, NEW to \in Decided \ {"executed"}, Decide(a, to),
         rows' = rows, UNCHANGED <<decides, granted, performed>>,
         \A k \in Confirms : \/ pc'[k] = pc[k] /\ ok'[k] = ok[k]
                             \/ pc[k] \in {"deciding", "executing"} /\ pc'[k] = "error" /\ ~ ok'[k]
                             \/ /\ pc[k] = "marking" /\ pc'[k] = "reporting" /\ ok'[k] = ok[k]
  PROVE  ReportInv' /\ MarkInv'
<1>0. granted \subseteq Confirms
  BY DEF IInv, TypeOK
<1>1. \A b \in Chats : approval'[b].status = "executed" => approval[b].status = "executed"
  BY DEF IInv, TypeOK, Decide
<1>2. \A k \in Confirms : /\ pc[k] \in Reported => pc'[k] = pc[k]
                          /\ pc'[k] \in Reported \ {"error"} => pc'[k] = pc[k]
                          /\ pc[k] = "reporting" => pc'[k] = pc[k] /\ ok'[k] = ok[k]
                          /\ ok'[k] => ok[k]
  BY DEF Reported, Over
<1>3. ReportInv'
  BY <1>2, ReportKept
<1>4. MarkInv'
  <2>1. \A k \in granted : pc[k] \in {"reporting"} \cup Reported =>
          /\ pc'[k] \in {"reporting"} \cup Reported
          /\ pc'[k] = "reporting" => pc[k] = "reporting" /\ ok'[k] = ok[k]
    BY <1>0, <1>2 DEF Reported, Over
  <2> QED
    BY <1>1, <2>1, MarkKept
<1> QED
  BY <1>3, <1>4

(* The report of a confirmation says what its execution returned.          *)
LEMMA ReportInserts ==
  ASSUME IInv, ReportInv, MarkInv, AloneInv, NEW r \in Requests, Insert(r)
  PROVE  ReportInv' /\ MarkInv' /\ AloneInv'
<1> DEFINE t == Turn(r)
<1>0. TypeOK /\ StageInv /\ GateInv /\ pc[r] \in Writing
  BY DEF IInv, Insert
<1>1. /\ rows' = rows \cup {t} /\ approval' = approval /\ decides' = decides
      /\ performed' = performed /\ granted' = granted /\ ok' = ok /\ undecided' = undecided
      /\ alone' = alone
      /\ pc'[r] = After(r) /\ \A q \in Requests \ {r} : pc'[q] = pc[q]
  BY <1>0 DEF Insert, Goto, gate, session, TypeOK
<1>2. /\ t.by = r
      /\ t.role = "tool" <=> pc[r] \in {"resulting", "pausing", "reporting"}
      /\ t.executed <=> pc[r] = "reporting" /\ ok[r]
  BY <1>0, TurnIs
<1> HIDE DEF t
<1>3. /\ Reports(r)' = IF t.role = "tool" THEN Reports(r) \cup {t} ELSE Reports(r)
      /\ \A q : q # r => Reports(q)' = Reports(q)
  BY <1>1, <1>2, RowsGrow
<1>4. \A a : Granted(a)' = Granted(a)
  BY <1>1 DEF Granted
<1>5. r \in Confirms => pc[r] \in {"reporting", "closing"}
  BY <1>0 DEF StageInv, ConfirmStages, Over, Writing
<1>6. /\ r \in Confirms /\ pc[r] = "reporting" =>
           /\ Reports(r) = {} /\ Reports(r)' = {t} /\ pc'[r] = "loading" /\ r \in granted
           /\ t.executed <=> ok[r]
      /\ r \in Confirms /\ pc[r] = "closing" =>
           Reports(r)' = Reports(r) /\ pc'[r] = "activating"
  <2>1. r \in Confirms /\ pc[r] = "reporting" => Reports(r) = {} /\ r \in granted
    BY <1>0 DEF ReportInv, Reported, Over, GateInv, Acting
  <2>2. pc[r] = "reporting" => After(r) = "loading"
    BY DEF After
  <2>3. pc[r] = "closing" => After(r) = "activating"
    BY DEF After
  <2> QED
    BY <1>1, <1>2, <1>3, <2>1, <2>2, <2>3
<1>7. ReportInv'
  <2>1. ASSUME NEW k \in Confirms
        PROVE  /\ \A m1, m2 \in Reports(k)' : m1 = m2
               /\ \A m \in Reports(k)' : /\ k \in granted /\ pc'[k] \in Reported
                                         /\ m.executed => performed[decides[k]] > 0
               /\ pc'[k] \in Reported \ {"error"} => Reports(k)' # {}
               /\ ok[k] => k \in granted /\ performed[decides[k]] > 0
    <3>1. CASE k # r
      BY <1>1, <1>3, <3>1 DEF ReportInv, Requests
    <3>2. CASE k = r /\ pc[r] = "reporting"
      BY <1>6, <3>2 DEF ReportInv, Reported
    <3>3. CASE k = r /\ pc[r] = "closing"
      BY <1>6, <3>3 DEF ReportInv, Reported
    <3> QED
      BY <1>5, <3>1, <3>2, <3>3
  <2> QED
    BY <1>1, <2>1 DEF ReportInv
<1>8. MarkInv'
  <2>1. ASSUME NEW k \in granted, approval[decides[k]].status = "executed"
        PROVE  /\ pc'[k] \in {"reporting"} \cup Reported
               /\ pc'[k] = "reporting" => ok[k]
               /\ \A m \in Reports(k)' : m.executed
    <3>0. k \in Confirms /\ k \in Requests
      BY GrantedAreConfirms DEF Requests
    <3>1. /\ pc[k] = "reporting" => ok[k]
          /\ \A m \in Reports(k) : m.executed
          /\ pc[k] \in {"reporting"} \cup Reported
      BY <2>1 DEF MarkInv
    <3>2. CASE k # r
      BY <1>1, <1>3, <3>0, <3>1, <3>2
    <3>3. CASE k = r
      BY <1>5, <1>6, <3>0, <3>1, <3>3 DEF Reported
    <3> QED
      BY <3>2, <3>3
  <2>2. \A a \in Chats : approval'[a].status = "executed" => Granted(a)' # {} /\ performed'[a] > 0
    BY <1>1, <1>4 DEF MarkInv
  <2> QED
    BY <1>1, <2>1, <2>2 DEF MarkInv
<1>9. AloneInv'
  <2>1. ASSUME alone, NEW k \in granted, approval[decides[k]].status = "barred"
        PROVE  pc'[k] = "error" /\ Reports(k)' = {}
    <3>1. pc[k] = "error" /\ Reports(k) = {} /\ k \in Requests
      BY <2>1, GrantedAreConfirms DEF AloneInv, Requests
    <3>2. k # r
      BY <1>0, <3>1 DEF Writing
    <3> QED
      BY <1>1, <1>3, <3>1, <3>2
  <2> QED
    BY <1>1, <2>1 DEF AloneInv
<1> QED
  BY <1>7, <1>8, <1>9

LEMMA ReportStep ==
  ASSUME IInv, StatusInv, ReportInv, MarkInv, AloneInv, [Next]_vars
  PROVE  ReportInv' /\ MarkInv' /\ AloneInv'
<1> USE BoundsAssumption DEF Requests
<1>0. TypeOK /\ StageInv /\ GateInv
  BY DEF IInv
<1>0a. /\ pc = [r \in Requests |-> pc[r]]
       /\ approval \in [Chats -> [status : {"none", "pending"} \cup Decided, call : CallIds]]
       /\ performed \in [Chats -> Nat]
       /\ decides = [k \in Confirms |-> decides[k]]
       /\ undecided = [r \in Requests |-> undecided[r]] /\ ok = [r \in Requests |-> ok[r]]
       /\ granted \subseteq Confirms
  BY <1>0 DEF TypeOK
<1>0b. \A k \in granted : k \in Confirms /\ pc[k] # "idle" /\ decides[k] \in Chats
  BY GrantedAreConfirms
<1>1. ASSUME NEW r \in Requests,
             \/ Chat(r) \/ LoadHistory(r) \/ Complete(r) \/ TurnedAway(r) \/ LoadConversation(r)
             \/ Conflict(r) \/ Abandon(r) \/ Settle(r)
      PROVE  ReportInv' /\ MarkInv' /\ AloneInv'
  <2>1. rows' = rows /\ UNCHANGED gate
    BY <1>1 DEF Chat, LoadHistory, Complete, TurnedAway, LoadConversation, Conflict, Abandon, Settle, End,
                turns
  <2>1a. alone' => alone
    <3>1. CASE Chat(r)
      BY <3>1 DEF Chat, Begin
    <3>2. CASE ~ Chat(r)
      <4>1. alone' = alone
        BY <1>1, <3>2 DEF LoadHistory, Complete, TurnedAway, LoadConversation, Conflict, Abandon, Settle
      <4> QED
        BY <4>1
    <3> QED
      BY <3>1, <3>2
  <2>2. /\ \A k \in Confirms : k # r => ok'[k] = ok[k] /\ undecided'[k] = undecided[k]
        /\ (ok'[r] => ok[r]) /\ (undecided'[r] => undecided[r])
    BY <1>0a, <1>1 DEF Chat, LoadHistory, Complete, TurnedAway, LoadConversation, Conflict, Abandon, Settle,
                       End, session
  <2>3. \E to : /\ pc' = [pc EXCEPT ![r] = to]
                /\ r \in Confirms => /\ pc[r] # "error" /\ to # "reporting"
                                     /\ pc[r] \in {"reporting"} \cup Reported => to \in Reported
                                     /\ to \in Reported \ {"error"} => pc[r] \in Reported \ {"error"}
    <3>1. CASE Chat(r)
      BY <3>1 DEF Chat, Begin, Goto
    <3>2. CASE Complete(r)
      <4>1. r \notin Confirms
        BY <1>0, <3>2 DEF Complete, StageInv, ConfirmStages, Over
      <4> QED
        BY <3>2, <4>1 DEF Complete, Goto
    <3>3. CASE LoadHistory(r)
      BY <3>3 DEF LoadHistory, Goto, Reported, Over
    <3>4. CASE LoadConversation(r)
      <4>1. pc[r] = "claimed" /\ pc' = [pc EXCEPT ![r] = "executing"]
        BY <3>4 DEF LoadConversation, Goto
      <4>2. "claimed" \notin {"reporting"} \cup Reported /\ "executing" \notin Reported
        BY DEF Reported, Over
      <4>3. /\ pc[r] # "error" /\ "executing" # "reporting"
            /\ pc[r] \in {"reporting"} \cup Reported => "executing" \in Reported
            /\ "executing" \in Reported \ {"error"} => pc[r] \in Reported \ {"error"}
        BY <4>1, <4>2
      <4> QED
        BY <4>1, <4>3
    <3>5. CASE TurnedAway(r) \/ Conflict(r) \/ Abandon(r)
      BY <3>5 DEF TurnedAway, Conflict, Abandon, End, Goto, Reported, Over, Writing
    <3>6. CASE Settle(r)
      BY <1>0, <3>6 DEF Settle, End, Goto, Reported, Over, StageInv, ConfirmStages
    <3> QED
      BY <1>1, <3>1, <3>2, <3>3, <3>4, <3>5, <3>6
  <2> QED
    BY <2>1, <2>1a, <2>2, <2>3, UngatedReport
<1>2. ASSUME NEW r \in Requests, AskApproval(r) PROVE ReportInv' /\ MarkInv' /\ AloneInv'
  <2>0. r \in Chats
    BY <1>0, <1>2 DEF AskApproval, StageInv, ConfirmStages, Over
  <2>1. /\ rows' = rows /\ UNCHANGED <<decides, granted, performed, alone, ok, undecided>>
        /\ approval'[r].status = "pending" /\ \A a \in Chats \ {r} : approval'[a] = approval[a]
        /\ \A k \in Confirms : pc'[k] = pc[k]
    BY <1>0a, <1>2, <2>0 DEF AskApproval, turns, session, Goto
  <2>2. ReportInv'
    BY <1>0b, <2>1, ReportKept
  <2>3. MarkInv'
    BY <1>0b, <2>1, MarkKept
  <2>4. AloneInv'
    BY <1>0b, <2>1, AloneKept
  <2> QED
    BY <2>2, <2>3, <2>4
<1>3. ASSUME NEW k \in Confirms, NEW a \in Chats, Arrive(k, a) PROVE ReportInv' /\ MarkInv' /\ AloneInv'
  <2>1. /\ pc[k] = "idle" /\ k \notin granted
        /\ undecided'[k] => approval[a].status = "pending"
    BY <1>0, <1>0a, <1>0b, <1>3 DEF Arrive, Begin
  <2>2. /\ rows' = rows /\ UNCHANGED <<approval, granted, performed, ok>> /\ (alone' => alone)
        /\ pc'[k] = "deciding" /\ \A j \in Confirms \ {k} : pc'[j] = pc[j]
        /\ decides'[k] = a /\ \A j \in Confirms \ {k} : decides'[j] = decides[j]
        /\ \A j \in Confirms \ {k} : undecided'[j] = undecided[j]
    BY <1>0a, <1>3 DEF Arrive, Begin, Goto, turns
  <2>3. \A j \in granted : j # k /\ pc'[j] = pc[j] /\ decides'[j] = decides[j]
    BY <1>0b, <2>1, <2>2
  <2>4. ReportInv'
    <3>1. \A j \in Confirms : /\ pc[j] \in Reported => pc'[j] \in Reported
                              /\ pc'[j] \in Reported \ {"error"} => pc[j] \in Reported \ {"error"}
      BY <2>1, <2>2 DEF Reported, Over
    <3> QED
      BY <2>2, <2>3, <3>1, ReportKept
  <2>5. MarkInv'
    BY <2>2, <2>3, MarkKept
  <2>6. AloneInv'
    <3>2. ASSUME alone', NEW j \in Confirms, undecided'[j], NEW i \in granted'
          PROVE  decides'[i] # decides'[j]
      <4>1. i \in granted /\ decides'[i] = decides[i]
        BY <2>2, <2>3, <3>2
      <4>2. CASE j = k
        <5>1. Granted(a) = {}
          BY <2>1, <3>2, <4>2, PendingIsUntouched
        <5> QED
          BY <2>2, <4>1, <4>2, <5>1 DEF Granted
      <4>3. CASE j # k
        BY <2>2, <3>2, <4>1, <4>3 DEF AloneInv
      <4> QED
        BY <4>2, <4>3
    <3>3. \A q : Reports(q)' = Reports(q)
      BY <2>2, RowsStay
    <3>4. ASSUME alone', NEW j \in granted', approval'[decides'[j]].status = "barred"
          PROVE  pc'[j] = "error" /\ Reports(j)' = {}
      BY <2>2, <2>3, <3>3, <3>4 DEF AloneInv
    <3> QED
      BY <3>2, <3>4 DEF AloneInv
  <2> QED
    BY <2>4, <2>5, <2>6
<1>4. ASSUME NEW k \in Requests, Confirm(k) PROVE ReportInv' /\ MarkInv' /\ AloneInv'
  <2>0. k \in Confirms /\ pc[k] = "deciding" /\ decides[k] \in Chats
    BY <1>0, <1>4 DEF Confirm, StageInv, ChatStages, Over
  <2>1. /\ rows' = rows /\ UNCHANGED <<decides, performed, ok, alone>> /\ granted' = granted \cup {k}
        /\ pc'[k] = "claimed" /\ \A j \in Confirms \ {k} : pc'[j] = pc[j]
        /\ ~ undecided'[k] /\ \A j \in Confirms \ {k} : undecided'[j] = undecided[j]
        /\ approval'[decides[k]].status = "approved"
        /\ \A b \in Chats \ {decides[k]} : approval'[b] = approval[b]
    BY <1>0a, <1>4, <2>0 DEF Confirm, Decide, Goto, turns
  <2>2. approval[decides[k]].status = "pending" /\ k \notin granted /\ Granted(decides[k]) = {}
    BY <1>0, <1>4, <2>0, PendingIsUntouched DEF Confirm, Claimable, GateInv, Acting
  <2>3. \A j \in Confirms : /\ pc[j] \in Reported => pc'[j] \in Reported
                            /\ pc'[j] \in Reported \ {"error"} => pc[j] \in Reported \ {"error"}
    BY <2>0, <2>1 DEF Reported, Over
  <2>4. ReportInv'
    BY <2>1, <2>3, ReportKept
  <2>5. MarkInv'
    <3>1. \A b \in Chats : approval'[b].status = "executed" => approval[b].status = "executed"
      BY <2>1
    <3>2. \A j \in granted : j # k /\ pc'[j] = pc[j]
      BY <1>0b, <2>1, <2>2
    <3> QED
      BY <2>1, <3>1, <3>2, MarkKept
  <2>6. AloneInv'
    <3>1. ASSUME alone', NEW j \in Confirms, undecided'[j] PROVE FALSE
      <4>1. j # k /\ pc[j] = "deciding" /\ alone
        BY <1>0, <2>1, <3>1 DEF GateInv
      <4> QED
        BY <2>0, <4>1 DEF StatusInv, Running, Over
    <3>2. \A q : Reports(q)' = Reports(q)
      BY <2>1, RowsStay
    <3>3. ASSUME alone', NEW j \in granted', approval'[decides'[j]].status = "barred"
          PROVE  pc'[j] = "error" /\ Reports(j)' = {}
      <4>1. j # k
        BY <2>1, <3>3
      <4>2. j \in granted /\ decides[j] \in Chats \ {decides[k]} /\ pc'[j] = pc[j]
        BY <1>0b, <2>1, <2>2, <3>3, <4>1 DEF Granted
      <4> QED
        BY <2>1, <3>2, <3>3, <4>2 DEF AloneInv
    <3> QED
      BY <3>1, <3>3 DEF AloneInv
  <2> QED
    BY <2>4, <2>5, <2>6
<1>5. ASSUME NEW a \in Chats, TurnDown(a) PROVE ReportInv' /\ MarkInv' /\ AloneInv'
  <2>1. /\ rows' = rows /\ UNCHANGED <<decides, performed, granted, pc, ok, undecided, alone>>
        /\ approval[a].status = "pending" /\ Decide(a, "barred")
    BY <1>5 DEF TurnDown, turns, session
  <2>2. ReportInv' /\ MarkInv'
    BY <2>1, DecidedReport DEF Decided
  <2>3. AloneInv'
    <3>1. Granted(a) = {}
      BY <2>1, PendingIsUntouched
    <3>2. \A b \in Chats \ {a} : approval'[b] = approval[b]
      BY <1>0a, <2>1 DEF Decide
    <3>3. \A q : Reports(q)' = Reports(q) /\ Granted(q)' = Granted(q)
      BY <2>1, RowsStay DEF Granted
    <3>4. ASSUME alone, NEW j \in granted, approval'[decides[j]].status = "barred"
          PROVE  pc[j] = "error" /\ Reports(j) = {}
      <4>1. decides[j] \in Chats \ {a}
        BY <1>0b, <3>1 DEF Granted
      <4> QED
        BY <3>2, <3>4, <4>1 DEF AloneInv
    <3> QED
      BY <2>1, <3>3, <3>4 DEF AloneInv
  <2> QED
    BY <2>2, <2>3
<1>6. ASSUME NEW k \in Requests, Condemn(k) PROVE ReportInv' /\ MarkInv' /\ AloneInv'
  <2>0. k \in Confirms /\ pc[k] \in {"deciding", "executing"} /\ decides[k] \in Chats
    BY <1>0, <1>6 DEF Condemn, StageInv, ChatStages, Over
  <2>1. /\ rows' = rows /\ UNCHANGED <<decides, performed, granted, alone>>
        /\ pc'[k] = "error" /\ \A j \in Confirms \ {k} : pc'[j] = pc[j]
        /\ ~ undecided'[k] /\ ~ ok'[k]
        /\ \A j \in Confirms \ {k} : undecided'[j] = undecided[j] /\ ok'[j] = ok[j]
    BY <1>0a, <1>6, <2>0 DEF Condemn, End, Goto
  <2>2. PICK to \in {"failed", "barred"} :
          /\ Decide(decides[k], to)
          /\ to = "barred" => undecided[k] \/ pc[k] = "executing"
    BY <1>6 DEF Condemn
  <2>3. ReportInv' /\ MarkInv'
    <3>1. to \in Decided \ {"executed"}
      BY DEF Decided
    <3> QED
      BY <2>0, <2>1, <2>2, <3>1, DecidedReport
  <2>4. AloneInv'
    <3>1. /\ approval'[decides[k]].status = to
          /\ \A b \in Chats \ {decides[k]} : approval'[b] = approval[b]
      BY <1>0a, <2>0, <2>2 DEF Decide
    <3>2. \A q : Reports(q)' = Reports(q) /\ Granted(q)' = Granted(q)
      BY <2>1, RowsStay DEF Granted
    <3>3. ASSUME alone, NEW j \in granted, approval'[decides[j]].status = "barred"
          PROVE  pc'[j] = "error" /\ Reports(j) = {}
      <4>1. CASE decides[j] # decides[k]
        <5>1. pc[j] = "error" /\ Reports(j) = {} /\ j \in Confirms \ {k}
          BY <1>0b, <2>0, <3>1, <3>3, <4>1 DEF AloneInv
        <5> QED
          BY <2>1, <5>1
      <4>2. CASE decides[j] = decides[k]
        <5>2. pc[k] = "executing"
          BY <2>0, <2>2, <3>1, <3>3, <4>2 DEF AloneInv
        <5>3. j = k
          BY <1>0, <2>0, <4>2, <5>2 DEF GateInv, Acting
        <5>4. Reports(k) = {}
          BY <2>0, <5>2 DEF ReportInv, Reported, Over
        <5> QED
          BY <2>1, <5>3, <5>4
      <4> QED
        BY <4>1, <4>2
    <3>4. \A j \in Confirms : undecided'[j] => undecided[j]
      BY <2>1
    <3> QED
      BY <2>1, <3>2, <3>3, <3>4 DEF AloneInv
  <2> QED
    BY <2>3, <2>4
<1>7. ASSUME NEW k \in Requests, Execute(k) PROVE ReportInv' /\ MarkInv' /\ AloneInv'
  <2>0. k \in Confirms /\ pc[k] = "executing" /\ decides[k] \in Chats /\ k \in granted
    BY <1>0, <1>7 DEF Execute, StageInv, ChatStages, Over, GateInv, Acting
  <2>1. /\ rows' = rows /\ UNCHANGED <<approval, decides, granted, undecided, alone>>
        /\ pc'[k] \in {"marking", "reporting"} /\ \A j \in Confirms \ {k} : pc'[j] = pc[j]
    BY <1>0a, <1>7 DEF Execute, Goto, turns
  <2>2. /\ \A b \in Chats : performed[b] > 0 => performed'[b] > 0
        /\ ok'[k] => ok[k] \/ performed'[decides[k]] > 0
        /\ \A j \in Confirms \ {k} : ok'[j] = ok[j]
    <3>1. CASE UNCHANGED <<performed, ok>>
      BY <3>1
    <3>2. ASSUME NEW n \in 0 .. 1, NEW success \in {FALSE, n = 1},
                 performed' = [performed EXCEPT ![decides[k]] = @ + n],
                 ok' = [ok EXCEPT ![k] = success]
          PROVE  /\ \A b \in Chats : performed[b] > 0 => performed'[b] > 0
                 /\ ok'[k] => ok[k] \/ performed'[decides[k]] > 0
                 /\ \A j \in Confirms \ {k} : ok'[j] = ok[j]
      <4>1. performed'[decides[k]] = performed[decides[k]] + n /\ performed[decides[k]] \in Nat
        BY <1>0a, <2>0, <3>2
      <4>2. \A b \in Chats \ {decides[k]} : performed'[b] = performed[b]
        BY <1>0a, <3>2
      <4>3. ok'[k] = success /\ \A j \in Confirms \ {k} : ok'[j] = ok[j]
        BY <1>0a, <2>0, <3>2
      <4>4. performed[decides[k]] > 0 => performed'[decides[k]] > 0
        BY <3>2, <4>1
      <4>5. success => n = 1
        BY <3>2
      <4>6. success => performed'[decides[k]] > 0
        BY <4>1, <4>5
      <4> QED
        BY <4>2, <4>3, <4>4, <4>6
    <3> QED
      BY <1>7, <3>1, <3>2 DEF Execute
  <2>3. \A j \in Confirms : /\ pc[j] \in Reported => pc'[j] \in Reported
                            /\ pc'[j] \in Reported \ {"error"} => pc[j] \in Reported \ {"error"}
    BY <2>0, <2>1 DEF Reported, Over
  <2>4. ReportInv'
    BY <1>0b, <2>0, <2>1, <2>2, <2>3, ReportKept
  <2>5. MarkInv'
    <3>1. \A j \in granted : pc[j] \in {"reporting"} \cup Reported => j # k /\ pc'[j] = pc[j] /\ ok'[j] = ok[j]
      BY <1>0b, <2>0, <2>1, <2>2 DEF Reported, Over
    <3> QED
      BY <2>1, <2>2, <3>1, MarkKept
  <2>6. AloneInv'
    BY <1>0b, <2>0, <2>1, AloneKept
  <2> QED
    BY <2>4, <2>5, <2>6
<1>8. ASSUME NEW k \in Requests, Mark(k) PROVE ReportInv' /\ MarkInv' /\ AloneInv'
  <2>0. k \in Confirms /\ pc[k] = "marking" /\ decides[k] \in Chats /\ k \in granted
    BY <1>0, <1>8 DEF Mark, StageInv, ChatStages, Over, GateInv, Acting
  <2>1. /\ rows' = rows /\ UNCHANGED <<decides, performed, granted, alone, ok, undecided>>
        /\ pc'[k] = "reporting" /\ \A j \in Confirms \ {k} : pc'[j] = pc[j]
    BY <1>0a, <1>8, <2>0 DEF Mark, Goto, turns, session
  <2>2. /\ approval'[decides[k]].status = IF ok[k] THEN "executed" ELSE "failed"
        /\ \A b \in Chats \ {decides[k]} : approval'[b] = approval[b]
    BY <1>0a, <1>8, <2>0 DEF Mark, Decide
  <2>3. \A j \in Confirms : /\ pc[j] \in Reported => pc'[j] \in Reported
                            /\ pc'[j] \in Reported \ {"error"} => pc[j] \in Reported \ {"error"}
    BY <2>0, <2>1 DEF Reported, Over
  <2>4. ReportInv'
    BY <2>1, <2>3, ReportKept
  <2>5. AloneInv'
    BY <1>0b, <2>0, <2>1, <2>2, AloneKept
  <2>6. CASE ~ ok[k]
    <3>1. Decide(decides[k], "failed")
      BY <1>8, <2>6 DEF Mark
    <3>2. MarkInv'
      BY <2>0, <2>1, <3>1, DecidedReport DEF Decided
    <3> QED
      BY <2>4, <2>5, <3>2
  <2>7. CASE ok[k]
    <3>1. \A q : Reports(q)' = Reports(q) /\ Granted(q)' = Granted(q)
      BY <2>1, RowsStay DEF Granted
    <3>2. performed[decides[k]] > 0 /\ Granted(decides[k]) # {}
      BY <2>0, <2>7 DEF ReportInv, Granted
    <3>3. \A a \in Chats : approval'[a].status = "executed" => Granted(a) # {} /\ performed[a] > 0
      BY <2>2, <3>2 DEF MarkInv
    <3>4. ASSUME NEW j \in granted, approval'[decides[j]].status = "executed"
          PROVE  /\ pc'[j] \in {"reporting"} \cup Reported
                 /\ pc'[j] = "reporting" => ok[j]
                 /\ \A m \in Reports(j) : m.executed
      <4>1. CASE j = k
        <5>1. Reports(k) = {}
          BY <2>0 DEF ReportInv, Reported, Over
        <5> QED
          BY <2>1, <2>7, <4>1, <5>1
      <4>2. CASE j # k
        <5>1. decides[j] \in Chats \ {decides[k]} /\ pc'[j] = pc[j]
          BY <1>0, <1>0b, <2>0, <2>1, <4>2 DEF GateInv
        <5> QED
          BY <2>2, <3>4, <5>1 DEF MarkInv
      <4> QED
        BY <4>1, <4>2
    <3>5. MarkInv'
      BY <2>1, <3>1, <3>3, <3>4 DEF MarkInv
    <3> QED
      BY <2>4, <2>5, <3>5
  <2> QED
    BY <2>6, <2>7
<1>9. ASSUME NEW r \in Requests, Insert(r) PROVE ReportInv' /\ MarkInv' /\ AloneInv'
  BY <1>9, ReportInserts
<1>10. CASE UNCHANGED <<rows, gate, pc, session, alone>>
  <2>1. UNCHANGED <<approval, decides, granted, performed, undecided, ok>>
    BY <1>10 DEF gate, session
  <2>2. ReportInv'
    BY <1>10, <2>1, ReportKept
  <2>3. MarkInv'
    BY <1>10, <2>1, MarkKept
  <2>4. AloneInv'
    BY <1>10, <2>1, AloneKept
  <2> QED
    BY <2>2, <2>3, <2>4
<1>11. ASSUME NEW r \in Requests, ReadNext(r) PROVE ReportInv' /\ MarkInv' /\ AloneInv'
  BY <1>10, <1>11 DEF ReadNext
<1>12. CASE UNCHANGED vars
  BY <1>10, <1>12 DEF vars, turns
<1> QED
  BY <1>1, <1>2, <1>3, <1>4, <1>5, <1>6, <1>7, <1>8, <1>9, <1>11, <1>12 DEF Next, Serve, Quiescent

(* Whatever the transcript reports of an approved action was returned to   *)
(* the one confirmation that was granted, and goes with row and effect.    *)
THEOREM Reporting == Spec => [](ReportInv /\ MarkInv /\ AloneInv)
<1>1. Init => ReportInv /\ MarkInv /\ AloneInv
  BY DEF Init, ReportInv, MarkInv, AloneInv, Reports, Reported, Over, Requests
<1>2. IInv /\ StatusInv /\ ReportInv /\ MarkInv /\ AloneInv /\ [Next]_vars
        => ReportInv' /\ MarkInv' /\ AloneInv'
  BY ReportStep
<1> QED
  BY Invariant, StatusFollows, <1>1, <1>2, PTL DEF Spec

(* The report of an approved action is the one report of the confirmation  *)
(* that has claimed it.                                                    *)
LEMMA ReportsAreOfItsConfirmation ==
  ASSUME IInv, WriterInv, NEW a \in Chats, NEW m \in ResultsOf(Call(a, 0))
  PROVE  /\ m.by \in Confirms /\ m \in Reports(m.by)
         /\ decides[m.by] = a /\ pc[m.by] # "idle"
<1>0. rows \subseteq Turns
  BY DEF IInv, TypeOK, Turns
<1>1. m \in rows /\ m.role = "tool" /\ m.answers = Call(a, 0) /\ m.by \in Requests
  BY <1>0 DEF ResultsOf, Turns
<1>2. Call(a, 0).n = 0 /\ Call(a, 0).by = a
  BY DEF Call
<1>3. m.by \notin Chats
  <2> SUFFICES ASSUME m.by \in Chats PROVE FALSE
    OBVIOUS
  <2>1. Call(a, 0) \in Proposable(m.by)
    BY <1>0, <1>1, OwnResults DEF WriterInv
  <2>2. PICK i \in 1 .. MaxRounds[m.by] * MaxCalls[m.by] : Call(a, 0) = Call(m.by, i)
    BY <2>1 DEF Proposable
  <2>3. i # 0
    <3>1. \A M \in Nat : \A j \in 1 .. M : j # 0
      OBVIOUS
    <3> QED
      BY <3>1, Products
  <2>4. Call(m.by, i).n = i
    BY DEF Call
  <2> QED
    BY <1>2, <2>2, <2>3, <2>4
<1>4. m.by \in Confirms /\ m.answers = Call(decides[m.by], 0) /\ pc[m.by] # "idle"
  BY <1>1, <1>3 DEF WriterInv, Requests
<1>5. Call(decides[m.by], 0).by = decides[m.by]
  BY DEF Call
<1> QED
  BY <1>1, <1>2, <1>4, <1>5 DEF Reports

(* An approved action is reported at most once, by the confirmation that   *)
(* was granted, and as executed only if it was carried out; a row that     *)
(* says executed stands beside no report that denies it, and one that says *)
(* expired beside a report of success only if requests overlapped; what    *)
(* was carried out and is not reported was never answered for.             *)
THEOREM ReportsTellEffects == Spec => []ReportsMatchEffects
<1>1. ASSUME IInv, WriterInv, ReportInv, MarkInv, AloneInv, NEW a \in Chats
      PROVE  /\ Cardinality(ResultsOf(Call(a, 0))) <= 1
             /\ \A m \in ResultsOf(Call(a, 0)) : m.by \in Granted(a) /\ (m.executed => performed[a] > 0)
             /\ approval[a].status = "executed" =>
                  performed[a] > 0 /\ \A m \in ResultsOf(Call(a, 0)) : m.executed
             /\ approval[a].status = "barred" /\ (\E m \in ResultsOf(Call(a, 0)) : m.executed) => ~ alone
             /\ performed[a] > 0 /\ ResultsOf(Call(a, 0)) = {} =>
                  \E k \in Granted(a) : pc[k] # "answered"
  <2>1. ASSUME NEW m \in ResultsOf(Call(a, 0))
        PROVE  /\ m.by \in granted /\ decides[m.by] = a /\ m \in Reports(m.by)
               /\ m.executed => performed[a] > 0
    <3>1. m.by \in Confirms /\ m \in Reports(m.by) /\ decides[m.by] = a
      BY <1>1, ReportsAreOfItsConfirmation
    <3> QED
      BY <1>1, <3>1 DEF ReportInv
  <2>2. \A m1, m2 \in ResultsOf(Call(a, 0)) : m1 = m2
    <3> SUFFICES ASSUME NEW m1 \in ResultsOf(Call(a, 0)), NEW m2 \in ResultsOf(Call(a, 0))
                 PROVE  m1 = m2
      OBVIOUS
    <3>1. m1.by = m2.by
      BY <1>1, <2>1 DEF IInv, GateInv
    <3>2. m1 \in Reports(m1.by) /\ m2 \in Reports(m1.by) /\ m1.by \in Confirms
      BY <1>1, <2>1, <3>1, GrantedAreConfirms
    <3> QED
      BY <1>1, <3>2 DEF ReportInv
  <2>3. \A m \in ResultsOf(Call(a, 0)) : m.by \in Granted(a)
    BY <2>1 DEF Granted
  <2>4. approval[a].status = "executed" => performed[a] > 0 /\ \A m \in ResultsOf(Call(a, 0)) : m.executed
    BY <1>1, <2>1 DEF MarkInv
  <2>5. approval[a].status = "barred" /\ (\E m \in ResultsOf(Call(a, 0)) : m.executed) => ~ alone
    BY <1>1, <2>1 DEF AloneInv
  <2>6. ASSUME performed[a] > 0, ResultsOf(Call(a, 0)) = {}
        PROVE  \E k \in Granted(a) : pc[k] # "answered"
    <3>1. PICK k \in Granted(a) : TRUE
      BY <1>1, <2>6 DEF IInv, GateInv
    <3>2. k \in Confirms /\ decides[k] = a
      BY <1>1, GrantedAreConfirms DEF Granted
    <3>3. Reports(k) = {}
      <4>1. ASSUME NEW m \in Reports(k) PROVE m \in ResultsOf(Call(a, 0))
        BY <1>1, <3>2, <4>1 DEF Reports, ResultsOf, WriterInv
      <4> QED
        BY <2>6, <4>1
    <3>4. pc[k] # "answered"
      BY <1>1, <3>2, <3>3 DEF ReportInv, Reported, Over
    <3> QED
      BY <3>4
  <2> QED
    BY <2>1, <2>2, <2>3, <2>4, <2>5, <2>6, AtMostOne
<1>2. IInv /\ ChatInv /\ ReportInv /\ MarkInv /\ AloneInv => ReportsMatchEffects
  BY <1>1 DEF ReportsMatchEffects, ChatInv, Granted
<1> QED
  BY Invariant, Conversed, Reporting, <1>2, PTL

-------------------------------------------------------------------------------
(* What the replay keeps.  Its pass is a fold, which the library defines   *)
(* over sets of places; by a least counterexample the function it chooses  *)
(* exists, and goes turn by turn.                                          *)

Blank == [known |-> {}, kept |-> <<>>]

(* One step of the pass.                                                   *)
Scan(acc, m) ==
  CASE m.role = "assistant" ->
         [known |-> acc.known \cup m.calls, kept |-> Append(acc.kept, m)]
    [] m.role = "tool" /\ m.answers \notin acc.known -> acc
    [] OTHER -> [acc EXCEPT !.kept = Append(@, m)]

(* g is the function the fold of the pass over t defines on subsets of S.  *)
IsPass(g, t, S) ==
  g = [s \in SUBSET S |-> IF s = {} THEN Blank ELSE Scan(g[s \ {Max(s)}], t[Max(s)])]

(* Of some subsets of a finite set one has none of the others within it.   *)
LEMMA Smallest ==
  ASSUME NEW S, IsFiniteSet(S), NEW T, T \subseteq SUBSET S, T # {}
  PROVE  \E x \in T : \A y \in T : y \subseteq x => y = x
<1>1. IsWellFoundedOn(StrictSubsetOrdering(S), SUBSET S)
  BY FS_StrictSubsetOrderingWellFounded, FS_FiniteSubsetsOfFinite
<1>2. PICK x \in T : \A y \in T : ~ (<<y, x>> \in StrictSubsetOrdering(S))
  BY <1>1, WFMin
<1> QED
  BY <1>2 DEF StrictSubsetOrdering

LEMMA MaxIn ==
  ASSUME NEW n \in Nat, NEW s \in SUBSET (1 .. n), s # {} PROVE Max(s) \in s
<1> DEFINE Rest == {k \in Nat : \E i \in s : k = n - i}
<1>1. Rest \subseteq Nat /\ Rest # {}
  <2>1. PICK i \in s : TRUE
    OBVIOUS
  <2>2. n - i \in Rest
    BY <2>1
  <2> QED
    BY <2>2
<1>2. PICK k \in Rest : \A y \in Rest : k <= y
  <2> HIDE DEF Rest
  <2> QED
    BY <1>1, LeastNatural
<1>3. PICK i \in s : k = n - i
  BY <1>2
<1>4. ASSUME NEW j \in s PROVE i >= j
  <2>1. n - j \in Rest
    OBVIOUS
  <2>2. k <= n - j
    BY <1>2, <2>1
  <2> QED
    BY <1>3, <2>2
<1> QED
  BY <1>4 DEF Max

(* Two passes agree where both are defined.                                *)
LEMMA PassesAgree ==
  ASSUME NEW n \in Nat, NEW t, NEW A \in SUBSET (1 .. n), NEW B \in SUBSET (1 .. n),
         NEW g, NEW h, IsPass(g, t, A), IsPass(h, t, B), NEW s \in SUBSET (A \cap B)
  PROVE  g[s] = h[s]
<1> DEFINE Bad == {u \in SUBSET (A \cap B) : g[u] # h[u]}
<1>1. SUFFICES ASSUME Bad # {} PROVE FALSE
  OBVIOUS
<1>2. PICK u \in Bad : \A y \in Bad : y \subseteq u => y = u
  <2>1. Bad \subseteq SUBSET (1 .. n)
    OBVIOUS
  <2>2. PICK S : S = 1 .. n
    OBVIOUS
  <2>3. IsFiniteSet(S)
    BY <2>2, FS_Interval
  <2> HIDE DEF Bad
  <2>4. Bad \subseteq SUBSET S
    BY <2>1, <2>2
  <2> QED
    BY <1>1, <2>3, <2>4, Smallest
<1>3. /\ g[u] = IF u = {} THEN Blank ELSE Scan(g[u \ {Max(u)}], t[Max(u)])
      /\ h[u] = IF u = {} THEN Blank ELSE Scan(h[u \ {Max(u)}], t[Max(u)])
  <2>1. u \in SUBSET A /\ u \in SUBSET B
    BY <1>2
  <2> QED
    BY <2>1 DEF IsPass
<1>4. u # {}
  BY <1>2, <1>3
<1>5. Max(u) \in u
  <2>1. u \in SUBSET (1 .. n)
    BY <1>2
  <2> QED
    BY <1>4, <2>1, MaxIn
<1>6. u \ {Max(u)} \in SUBSET (A \cap B) /\ u \ {Max(u)} # u /\ u \ {Max(u)} \subseteq u
  BY <1>2, <1>5
<1>7. u \ {Max(u)} \notin Bad
  BY <1>2, <1>6
<1>8. g[u \ {Max(u)}] = h[u \ {Max(u)}]
  BY <1>6, <1>7
<1>9. g[u] = h[u]
  BY ONLY <1>3, <1>4, <1>8
<1> QED
  BY <1>2, <1>9

(* The function the fold defines exists.                                   *)
LEMMA PassExists ==
  ASSUME NEW n \in Nat, NEW t
  PROVE  \E g : IsPass(g, t, 1 .. n)
<1> DEFINE S == 1 .. n
           Bad == {T \in SUBSET S : ~ \E g : IsPass(g, t, T)}
<1>1. SUFFICES ASSUME Bad # {} PROVE FALSE
  <2>1. S \in SUBSET S
    OBVIOUS
  <2> QED
    BY <2>1
<1>2. PICK T \in Bad : \A y \in Bad : y \subseteq T => y = T
  <2>1. Bad \subseteq SUBSET S
    OBVIOUS
  <2>2. IsFiniteSet(S)
    BY FS_Interval
  <2> HIDE DEF Bad, S
  <2> QED
    BY <1>1, <2>1, <2>2, Smallest
<1> DEFINE H(U) == CHOOSE g : IsPass(g, t, U)
           rest(s) == s \ {Max(s)}
           g == [s \in SUBSET T |-> IF s = {} THEN Blank
                                    ELSE Scan(H(rest(s))[rest(s)], t[Max(s)])]
<1>3. \A U \in SUBSET T : U # T => IsPass(H(U), t, U)
  <2>1. \A U \in SUBSET T : U # T => \E h : IsPass(h, t, U)
    BY <1>2
  <2> QED
    BY <2>1
<1>4. ASSUME NEW s \in SUBSET T, s # {}
      PROVE  /\ s \in SUBSET (1 .. n) /\ rest(s) \in SUBSET (1 .. n)
             /\ rest(s) \in SUBSET T /\ rest(s) # T /\ rest(s) \subseteq s
  <2>1. s \in SUBSET (1 .. n)
    BY <1>2
  <2>2. Max(s) \in s
    BY <1>4, <2>1, MaxIn
  <2> QED
    BY <2>1, <2>2
<1> HIDE DEF H
<1>5. ASSUME NEW s \in SUBSET T, s # {} PROVE g[rest(s)] = H(rest(s))[rest(s)]
  <2>1. PICK r : r = rest(s)
    OBVIOUS
  <2>2. r \in SUBSET T /\ r # T /\ r \in SUBSET (1 .. n) /\ IsPass(H(r), t, r)
    BY <1>3, <1>4, <1>5, <2>1
  <2>3. H(r)[r] = IF r = {} THEN Blank ELSE Scan(H(r)[rest(r)], t[Max(r)])
    <3>1. r \in SUBSET r
      OBVIOUS
    <3> QED
      BY <2>2, <3>1 DEF IsPass
  <2>4. g[r] = IF r = {} THEN Blank ELSE Scan(H(rest(r))[rest(r)], t[Max(r)])
    BY <2>2
  <2>5. CASE r = {}
    BY <2>1, <2>3, <2>4, <2>5
  <2>6. CASE r # {}
    <3>1. /\ rest(r) \in SUBSET T /\ rest(r) # T /\ rest(r) \in SUBSET (1 .. n)
          /\ rest(r) \in SUBSET (rest(r) \cap r)
      BY <1>4, <2>2, <2>6
    <3>2. IsPass(H(rest(r)), t, rest(r))
      BY <1>3, <3>1
    <3>3. H(rest(r))[rest(r)] = H(r)[rest(r)]
      <4>1. PICK q : q = rest(r)
        OBVIOUS
      <4> HIDE DEF rest
      <4>2. q \in SUBSET (1 .. n) /\ IsPass(H(q), t, q) /\ q \in SUBSET (q \cap r)
        BY <3>1, <3>2, <4>1
      <4>3. H(q)[q] = H(r)[q]
        BY <2>2, <4>2, PassesAgree
      <4> QED
        BY <4>1, <4>3
    <3>4. g[r] = H(r)[r]
      BY <2>3, <2>4, <2>6, <3>3
    <3> QED
      BY <2>1, <3>4
  <2> QED
    BY <2>5, <2>6
<1>6. IsPass(g, t, T)
  <2> DEFINE f == [s \in SUBSET T |-> IF s = {} THEN Blank ELSE Scan(g[rest(s)], t[Max(s)])]
  <2>1. ASSUME NEW s \in SUBSET T PROVE g[s] = f[s]
    <3>1. CASE s = {}
      BY <3>1
    <3>2. CASE s # {}
      <4>1. g[rest(s)] = H(rest(s))[rest(s)]
        BY <1>5, <3>2
      <4>2. g[s] = Scan(H(rest(s))[rest(s)], t[Max(s)])
        BY <3>2
      <4> HIDE DEF g
      <4>3. f[s] = Scan(g[rest(s)], t[Max(s)])
        BY <3>2
      <4> HIDE DEF f
      <4> QED
        BY <4>1, <4>2, <4>3
    <3> QED
      BY <3>1, <3>2
  <2>2. g = [s \in SUBSET T |-> g[s]] /\ f = [s \in SUBSET T |-> f[s]]
    OBVIOUS
  <2>3. g = f
    <3> HIDE DEF f, g
    <3> QED
      BY <2>1, <2>2
  <2> HIDE DEF g
  <2> QED
    BY <2>3 DEF IsPass
<1> QED
  BY <1>2, <1>6

(* What the pass has after each turn.                                      *)
Passing(acc, t) ==
  /\ acc[0] = Blank
  /\ \A n \in 1 .. Len(t) : acc[n] = Scan(acc[n - 1], t[n])

LEMMA RepairPasses ==
  ASSUME NEW M, NEW t \in Seq(M)
  PROVE  \E acc : Passing(acc, t) /\ Repair(t) = acc[Len(t)].kept
<1>1. Len(t) \in Nat /\ DOMAIN t = 1 .. Len(t)
  OBVIOUS
<1>2. PICK g : IsPass(g, t, DOMAIN t) /\ Repair(t) = g[DOMAIN t].kept
  <2> DEFINE G == CHOOSE g : g = [s \in SUBSET DOMAIN t |->
                    IF s = {} THEN Blank ELSE Scan(g[s \ {Max(s)}], t[Max(s)])]
  <2>1. \E g : g = [s \in SUBSET DOMAIN t |->
                 IF s = {} THEN Blank ELSE Scan(g[s \ {Max(s)}], t[Max(s)])]
    <3>1. \E g : IsPass(g, t, DOMAIN t)
      BY <1>1, PassExists
    <3> QED
      BY <3>1 DEF IsPass
  <2>2. G = [s \in SUBSET DOMAIN t |->
               IF s = {} THEN Blank ELSE Scan(G[s \ {Max(s)}], t[Max(s)])]
    BY <2>1
  <2>3. Repair(t) = G[DOMAIN t].kept
    BY DEF Repair, FoldLeft, MapThenFoldSet, Scan, Blank
  <2> QED
    BY <2>2, <2>3 DEF IsPass
<1> DEFINE acc == [n \in 0 .. Len(t) |-> g[1 .. n]]
<1>3. acc[0] = Blank
  <2>1. 1 .. 0 = {} /\ {} \in SUBSET DOMAIN t
    OBVIOUS
  <2>2. g[{}] = Blank
    BY <1>2, <2>1 DEF IsPass
  <2>3. acc[0] = g[1 .. 0]
    BY <1>1
  <2> QED
    BY <2>1, <2>2, <2>3
<1>4. ASSUME NEW n \in 1 .. Len(t) PROVE acc[n] = Scan(acc[n - 1], t[n])
  <2>1. n \in Nat /\ n - 1 \in 0 .. Len(t) /\ n \in 0 .. Len(t)
    BY <1>1
  <2>2. 1 .. n \in SUBSET DOMAIN t /\ 1 .. n # {}
    <3>1. n \in 1 .. n /\ n <= Len(t)
      BY <1>1, <2>1
    <3>2. \A i \in 1 .. n : i \in 1 .. Len(t)
      BY <1>1, <2>1, <3>1
    <3>3. \A i \in 1 .. n : i \in DOMAIN t
      BY ONLY <1>1, <3>2
    <3> QED
      BY ONLY <3>1, <3>3
  <2>3. Max(1 .. n) = n
    BY <2>1 DEF Max
  <2>4. (1 .. n) \ {n} = 1 .. n - 1
    BY <2>1
  <2>5. g[1 .. n] = Scan(g[(1 .. n) \ {Max(1 .. n)}], t[Max(1 .. n)])
    BY <1>2, <2>2 DEF IsPass
  <2>6. g[1 .. n] = Scan(g[1 .. n - 1], t[n])
    BY ONLY <2>3, <2>4, <2>5
  <2> QED
    BY <2>1, <2>6
<1>5. Repair(t) = acc[Len(t)].kept
  BY <1>1, <1>2
<1> HIDE DEF acc
<1> QED
  BY <1>3, <1>4, <1>5 DEF Passing

-------------------------------------------------------------------------------
Increasing(s) == \A i, j \in DOMAIN s : i < j => s[i].seq < s[j].seq

(* A window: turns by ascending numbers, of which only assistants call.    *)
IsWindow(t) ==
  /\ \A i \in DOMAIN t : t[i].seq \in Nat /\ (t[i].role # "assistant" => t[i].calls = {})
  /\ Increasing(t)

LEMMA AppendKeeps ==
  ASSUME NEW M, NEW s \in Seq(M), NEW m \in M
  PROVE  /\ Append(s, m) \in Seq(M) /\ Append(s, m) # <<>> /\ Last(Append(s, m)) = m
         /\ ToSet(Append(s, m)) = ToSet(s) \cup {m}
         /\ Increasing(s) /\ (\A x \in ToSet(s) : x.seq < m.seq) => Increasing(Append(s, m))
<1>1. /\ Append(s, m) \in Seq(M) /\ Append(s, m) # <<>> /\ Last(Append(s, m)) = m
      /\ DOMAIN Append(s, m) = 1 .. Len(s) + 1 /\ DOMAIN s = 1 .. Len(s) /\ Len(s) \in Nat
      /\ \A i \in 1 .. Len(s) : Append(s, m)[i] = s[i]
      /\ Append(s, m)[Len(s) + 1] = m
  BY DEF Last
<1>2. ToSet(Append(s, m)) = ToSet(s) \cup {m}
  BY <1>1 DEF ToSet
<1>3. ASSUME Increasing(s), \A x \in ToSet(s) : x.seq < m.seq PROVE Increasing(Append(s, m))
  <2> SUFFICES ASSUME NEW i \in 1 .. Len(s) + 1, NEW j \in 1 .. Len(s) + 1, i < j
               PROVE  Append(s, m)[i].seq < Append(s, m)[j].seq
    BY <1>1 DEF Increasing
  <2>1. i \in 1 .. Len(s)
    BY <1>1
  <2>2. CASE j = Len(s) + 1
    BY <1>1, <1>3, <2>1, <2>2 DEF ToSet
  <2>3. CASE j # Len(s) + 1
    <3>1. j \in 1 .. Len(s)
      BY <1>1, <2>3
    <3> QED
      BY <1>1, <1>3, <2>1, <3>1 DEF Increasing
  <2> QED
    BY <2>2, <2>3
<1> QED
  BY <1>1, <1>2, <1>3

(* What a result is anchored by stands before it.                          *)
LEMMA AnchoredBefore ==
  ASSUME NEW M, NEW t \in Seq(M), IsWindow(t), NEW n \in 1 .. Len(t), t[n].role = "tool"
  PROVE  Anchored(t, t[n]) <=> \E j \in 1 .. n - 1 : t[n].answers \in t[j].calls
<1>1. DOMAIN t = 1 .. Len(t) /\ Len(t) \in Nat
  OBVIOUS
<1>2. ASSUME NEW j \in 1 .. Len(t) PROVE t[j].seq < t[n].seq <=> j < n
  <2>1. t[j].seq \in Nat /\ t[n].seq \in Nat
    BY <1>1 DEF IsWindow
  <2>2. j < n => t[j].seq < t[n].seq
    BY <1>1 DEF IsWindow, Increasing
  <2>3. n < j => t[n].seq < t[j].seq
    BY <1>1 DEF IsWindow, Increasing
  <2>4. j < n \/ n < j \/ j = n
    BY <1>1
  <2> QED
    BY <2>1, <2>2, <2>3, <2>4
<1>3. Anchored(t, t[n]) <=> \E j \in 1 .. Len(t) : t[j].seq < t[n].seq /\ t[n].answers \in t[j].calls
  BY <1>1 DEF Anchored, ToSet
<1>4. \A j \in 1 .. n - 1 : j \in 1 .. Len(t) /\ j < n
  BY <1>1
<1>5. \A j \in 1 .. Len(t) : j < n => j \in 1 .. n - 1
  BY <1>1
<1> QED
  BY <1>2, <1>3, <1>4, <1>5

(* What the pass has met and kept of the first n turns.                    *)
Met(t, n) == UNION {t[j].calls : j \in 1 .. n}
Stay(t, n) == {t[j] : j \in {i \in 1 .. n : Anchored(t, t[i])}}

Scanned(M, acc, t, n) ==
  /\ acc = [known |-> Met(t, n), kept |-> acc.kept]
  /\ acc.kept \in Seq(M)
  /\ ToSet(acc.kept) = Stay(t, n)
  /\ Increasing(acc.kept)

LEMMA ScannedIs ==
  ASSUME NEW M, NEW t, NEW n, NEW k \in Seq(M), NEW acc, acc = [known |-> Met(t, n), kept |-> k],
         ToSet(k) = Stay(t, n), Increasing(k)
  PROVE  Scanned(M, acc, t, n) /\ acc.kept = k
<1>1. acc.kept = k
  OBVIOUS
<1>2. acc = [known |-> Met(t, n), kept |-> acc.kept]
  BY <1>1
<1> QED
  BY <1>1, <1>2 DEF Scanned

LEMMA OneMore ==
  ASSUME NEW t, NEW n \in Nat \ {0}
  PROVE  /\ Met(t, n) = Met(t, n - 1) \cup t[n].calls
         /\ Stay(t, n) = IF Anchored(t, t[n]) THEN Stay(t, n - 1) \cup {t[n]} ELSE Stay(t, n - 1)
<1>1. 1 .. n = (1 .. n - 1) \cup {n}
  OBVIOUS
<1> QED
  BY <1>1 DEF Met, Stay

LEMMA ScanStep ==
  ASSUME NEW M, NEW t \in Seq(M), IsWindow(t), NEW n \in 1 .. Len(t),
         NEW acc, Scanned(M, acc, t, n - 1)
  PROVE  /\ Scanned(M, Scan(acc, t[n]), t, n)
         /\ t[n].role # "tool" => /\ Scan(acc, t[n]).kept # <<>>
                                  /\ Last(Scan(acc, t[n]).kept) = t[n]
<1>1. DOMAIN t = 1 .. Len(t) /\ Len(t) \in Nat /\ n \in Nat \ {0} /\ t[n] \in M
  OBVIOUS
<1>2. PICK k : k = acc.kept
  OBVIOUS
<1>3. PICK m : m = t[n]
  OBVIOUS
<1>4. /\ acc = [known |-> Met(t, n - 1), kept |-> k]
      /\ k \in Seq(M) /\ ToSet(k) = Stay(t, n - 1) /\ Increasing(k)
  BY <1>2 DEF Scanned
<1>5. \A x \in ToSet(k) : x.seq < m.seq
  <2>1. \A j \in 1 .. n - 1 : j \in DOMAIN t /\ j < n
    BY <1>1
  <2>2. \A j \in 1 .. n - 1 : t[j].seq < t[n].seq
    BY <1>1, <2>1 DEF IsWindow, Increasing
  <2> QED
    BY <1>3, <1>4, <2>2 DEF Stay
<1>6. /\ Append(k, m) \in Seq(M) /\ Append(k, m) # <<>> /\ Last(Append(k, m)) = m
      /\ ToSet(Append(k, m)) = ToSet(k) \cup {m} /\ Increasing(Append(k, m))
  BY <1>1, <1>3, <1>4, <1>5, AppendKeeps
<1>7. m.role # "assistant" => m.calls = {}
  BY <1>1, <1>3 DEF IsWindow
<1>8. /\ Met(t, n) = Met(t, n - 1) \cup m.calls
      /\ Stay(t, n) = IF Anchored(t, m) THEN Stay(t, n - 1) \cup {m} ELSE Stay(t, n - 1)
  BY <1>1, <1>3, OneMore
<1> SUFFICES /\ Scanned(M, Scan(acc, m), t, n)
             /\ m.role # "tool" => /\ Scan(acc, m).kept # <<>>
                                   /\ Last(Scan(acc, m).kept) = m
  BY <1>3
<1>9. CASE m.role # "tool"
  <2>1. Anchored(t, m)
    BY <1>9 DEF Anchored
  <2>2. Scan(acc, m) = [known |-> Met(t, n), kept |-> Append(k, m)]
    <3>1. CASE m.role = "assistant"
      BY <1>4, <1>8, <3>1 DEF Scan
    <3>2. CASE m.role # "assistant"
      <4>1. Scan(acc, m) = [acc EXCEPT !.kept = Append(@, m)]
        BY <1>9, <3>2 DEF Scan
      <4> QED
        BY <1>4, <1>7, <1>8, <3>2, <4>1
    <3> QED
      BY <3>1, <3>2
  <2>3. PICK kept : kept = Append(k, m)
    OBVIOUS
  <2>4. kept \in Seq(M) /\ ToSet(kept) = Stay(t, n) /\ Increasing(kept)
    BY <1>4, <1>6, <1>8, <2>1, <2>3
  <2>5. PICK next : next = Scan(acc, m)
    OBVIOUS
  <2>6. next = [known |-> Met(t, n), kept |-> kept]
    BY <2>2, <2>3, <2>5
  <2>7. Scanned(M, next, t, n)
    BY <2>4, <2>6, ScannedIs
  <2> QED
    BY <1>6, <2>3, <2>5, <2>6, <2>7
<1>10. CASE m.role = "tool"
  <2>1. Met(t, n) = Met(t, n - 1)
    BY <1>7, <1>8, <1>10
  <2>2. Anchored(t, m) <=> m.answers \in Met(t, n - 1)
    BY <1>3, <1>10, AnchoredBefore DEF Met
  <2>3. CASE m.answers \in Met(t, n - 1)
    <3>1. Scan(acc, m) = [known |-> Met(t, n), kept |-> Append(k, m)]
      BY <1>4, <1>10, <2>1, <2>3 DEF Scan
    <3>2. PICK kept : kept = Append(k, m)
      OBVIOUS
    <3>3. kept \in Seq(M) /\ ToSet(kept) = Stay(t, n) /\ Increasing(kept)
      BY <1>4, <1>6, <1>8, <2>2, <2>3, <3>2
    <3>4. PICK next : next = Scan(acc, m)
      OBVIOUS
    <3>5. Scanned(M, next, t, n)
      BY <3>1, <3>2, <3>3, <3>4, ScannedIs
    <3> QED
      BY <1>10, <3>4, <3>5
  <2>4. CASE m.answers \notin Met(t, n - 1)
    <3>1. Scan(acc, m) = acc
      BY <1>4, <1>10, <2>4 DEF Scan
    <3> QED
      BY <1>4, <1>8, <1>10, <2>1, <2>2, <2>4, <3>1, ScannedIs
  <2> QED
    BY <2>3, <2>4
<1> QED
  BY <1>9, <1>10

(* By a least counterexample: the pass keeps what is anchored, in order,   *)
(* and the last turn of the window if it is no result.                     *)
LEMMA RepairExact ==
  ASSUME NEW M, NEW t \in Seq(M), IsWindow(t)
  PROVE  /\ Repaired(t, Repair(t))
         /\ t # <<>> /\ Last(t).role # "tool" => Repair(t) # <<>> /\ Last(Repair(t)) = Last(t)
<1>1. Len(t) \in Nat /\ DOMAIN t = 1 .. Len(t)
  OBVIOUS
<1>2. PICK acc : Passing(acc, t) /\ Repair(t) = acc[Len(t)].kept
  BY RepairPasses
<1> DEFINE Bad == {n \in 0 .. Len(t) : ~ Scanned(M, acc[n], t, n)}
<1>3. Scanned(M, acc[0], t, 0)
  <2>1. acc[0] = [known |-> {}, kept |-> <<>>]
    BY <1>2 DEF Passing, Blank
  <2>2. Met(t, 0) = {} /\ Stay(t, 0) = {}
    BY DEF Met, Stay
  <2>3. <<>> \in Seq(M) /\ ToSet(<<>>) = {} /\ Increasing(<<>>)
    BY DEF ToSet, Increasing
  <2>4. PICK none, first : none = <<>> /\ first = acc[0]
    OBVIOUS
  <2>5. /\ none \in Seq(M) /\ ToSet(none) = Stay(t, 0) /\ Increasing(none)
        /\ first = [known |-> Met(t, 0), kept |-> none]
    BY <2>1, <2>2, <2>3, <2>4
  <2>6. Scanned(M, first, t, 0)
    BY <2>5, ScannedIs
  <2> QED
    BY <2>4, <2>6
<1>4. ASSUME NEW n \in 1 .. Len(t), Scanned(M, acc[n - 1], t, n - 1)
      PROVE  /\ Scanned(M, acc[n], t, n)
             /\ t[n].role # "tool" => acc[n].kept # <<>> /\ Last(acc[n].kept) = t[n]
  <2>1. acc[n] = Scan(acc[n - 1], t[n])
    BY <1>2 DEF Passing
  <2>2. PICK before : before = acc[n - 1]
    OBVIOUS
  <2> QED
    BY <1>4, <2>1, <2>2, ScanStep
<1>5. Bad = {}
  <2> SUFFICES ASSUME Bad # {} PROVE FALSE
    OBVIOUS
  <2>1. Bad \subseteq Nat
    OBVIOUS
  <2>2. PICK n \in Bad : \A y \in Bad : n <= y
    <3> HIDE DEF Bad
    <3> QED
      BY <2>1, LeastNatural
  <2>3. n # 0
    BY <1>3, <2>2
  <2>4. n \in 1 .. Len(t) /\ n - 1 \in 0 .. Len(t) /\ ~ (n <= n - 1)
    BY <1>1, <2>2, <2>3
  <2>5. n - 1 \notin Bad
    BY <2>2, <2>4
  <2>6. Scanned(M, acc[n - 1], t, n - 1)
    BY <2>4, <2>5
  <2> QED
    BY <1>4, <2>2, <2>4, <2>6
<1>6. \A n \in 0 .. Len(t) : Scanned(M, acc[n], t, n)
  BY <1>5
<1>7. Repaired(t, Repair(t))
  <2>1. Scanned(M, acc[Len(t)], t, Len(t))
    BY <1>1, <1>6
  <2>2. ToSet(Repair(t)) = Stay(t, Len(t)) /\ Increasing(Repair(t))
    BY <1>2, <2>1 DEF Scanned
  <2>3. Stay(t, Len(t)) = {m \in ToSet(t) : Anchored(t, m)}
    BY <1>1 DEF Stay, ToSet
  <2> QED
    BY <2>2, <2>3 DEF Repaired, Increasing
<1>8. ASSUME t # <<>>, Last(t).role # "tool" PROVE Repair(t) # <<>> /\ Last(Repair(t)) = Last(t)
  <2>1. Len(t) \in 1 .. Len(t) /\ Len(t) - 1 \in 0 .. Len(t) /\ Last(t) = t[Len(t)]
    BY <1>1, <1>8 DEF Last
  <2>2. Scanned(M, acc[Len(t) - 1], t, Len(t) - 1)
    BY <1>6, <2>1
  <2> QED
    BY <1>2, <1>4, <1>8, <2>1, <2>2
<1> QED
  BY <1>7, <1>8

-------------------------------------------------------------------------------
(* Windows of the transcript.                                              *)

(* Only an assistant's turn proposes calls.                                *)
PlainInv == \A m \in rows : m.role # "assistant" => m.calls = {}

(* Of a chat that reads its history while nothing else is at work, the     *)
(* question is the newest turn.                                            *)
QuestionInv ==
  alone => \A a \in Chats : pc[a] = "loading" =>
    \E m \in rows : m.seq = Cardinality(rows) /\ m.role = "user" /\ m.by = a

LEMMA SizeOfInterval == ASSUME NEW N \in Nat PROVE Cardinality(1 .. N) = N /\ IsFiniteSet(1 .. N)
<1>1. CASE N = 0
  BY <1>1, FS_Interval
<1>2. CASE N # 0
  BY <1>2, FS_Interval
<1> QED
  BY <1>1, <1>2

(* No two turns have the same number.                                      *)
LEMMA NumbersAreUnique ==
  ASSUME SeqInv PROVE \A x, y \in rows : x.seq = y.seq => x = y
<1>1. PICK N : N = Cardinality(rows)
  OBVIOUS
<1>2. PICK f : f = [m \in rows |-> m.seq]
  OBVIOUS
<1>3. N \in Nat /\ {m.seq : m \in rows} = 1 .. N /\ IsFiniteSet(rows)
  BY <1>1, FS_CardinalityType DEF SeqInv, Contiguous
<1>4. f \in Surjection(rows, 1 .. N)
  BY <1>2, <1>3 DEF Surjection
<1>5. f \in Injection(rows, 1 .. N)
  <2>1. Cardinality(rows) = Cardinality(1 .. N)
    BY <1>1, <1>3, SizeOfInterval
  <2> QED
    BY <1>3, <1>4, <2>1, FS_SurjSameCardinalityImpliesInj
<1>6. \A x, y \in rows : f[x] = f[y] => x = y
  BY <1>5 DEF Injection, IsInjective
<1> QED
  BY <1>2, <1>6

LEMMA RowsInOrder ==
  ASSUME SeqInv
  PROVE  /\ Cardinality(rows) \in Nat
         /\ InOrder(rows) \in Seq(rows) /\ Len(InOrder(rows)) = Cardinality(rows)
         /\ \A i \in 1 .. Cardinality(rows) : InOrder(rows)[i].seq = i
<1>1. PICK N : N = Cardinality(rows)
  OBVIOUS
<1>2. PICK t : t = InOrder(rows)
  OBVIOUS
<1>3. N \in Nat /\ {m.seq : m \in rows} = 1 .. N
  BY <1>1, FS_CardinalityType DEF SeqInv, Contiguous
<1>4. Cardinality(1 .. N) = N
  BY <1>3, SizeOfInterval
<1>5. t = [i \in 1 .. N |-> CHOOSE m \in rows : m.seq = i]
  BY <1>2, <1>3, <1>4 DEF InOrder
<1>6. ASSUME NEW i \in 1 .. N PROVE t[i] \in rows /\ t[i].seq = i
  <2>1. \E m \in rows : m.seq = i
    BY <1>3
  <2> QED
    BY <1>5, <2>1
<1>7. t \in Seq(rows) /\ Len(t) = N
  <2>1. t \in [1 .. N -> rows]
    BY <1>5, <1>6
  <2> QED
    BY <1>3, <2>1
<1> QED
  BY <1>1, <1>2, <1>3, <1>6, <1>7

(* Any window is one, and ends with the newest turn.                       *)
LEMMA WindowIs ==
  ASSUME IInv, PlainInv, NEW limit \in Nat
  PROVE  /\ Window(rows, limit) \in Seq(rows)
         /\ IsWindow(Window(rows, limit))
         /\ \A m \in rows : m.seq = Cardinality(rows) =>
              Window(rows, limit) # <<>> /\ Last(Window(rows, limit)) = m
<1>1. PICK N, t : N = Cardinality(rows) /\ t = InOrder(rows)
  OBVIOUS
<1>2. /\ N \in Nat /\ t \in Seq(rows) /\ Len(t) = N /\ DOMAIN t = 1 .. N
      /\ \A i \in 1 .. N : t[i] \in rows /\ t[i].seq = i
  BY <1>1, RowsInOrder DEF IInv
<1>3. PICK n : n = IF limit < 1 THEN 1 ELSE limit
  OBVIOUS
<1>4. n \in Nat /\ 1 <= n
  BY <1>3
<1>5. PICK w : w = Window(rows, limit)
  OBVIOUS
<1>6. PICK d : d = IF N <= n THEN 0 ELSE N - n
  OBVIOUS
<1>7. d \in Nat /\ N - d \in Nat /\ (N > 0 => N - d > 0)
  BY <1>2, <1>4, <1>6
<1>8. w \in Seq(rows) /\ Len(w) = N - d /\ \A i \in 1 .. N - d : w[i] = t[d + i]
  <2>1. CASE N <= n
    <3>1. w = t /\ d = 0
      BY <1>1, <1>2, <1>3, <1>5, <1>6, <2>1 DEF Window
    <3> QED
      BY <1>2, <3>1
  <2>2. CASE ~ (N <= n)
    <3>1. w = SubSeq(t, N - n + 1, N) /\ d = N - n
      BY <1>1, <1>2, <1>3, <1>5, <1>6, <2>2 DEF Window
    <3>2. N - n + 1 \in 1 .. N
      BY <1>2, <1>4, <2>2
    <3> QED
      BY <1>2, <1>4, <1>7, <2>2, <3>1, <3>2
  <2> QED
    BY <2>1, <2>2
<1>9. \A i \in 1 .. N - d : d + i \in 1 .. N
  BY <1>2, <1>7
<1>10. \A i \in 1 .. N - d : w[i] \in rows /\ w[i].seq = d + i
  BY <1>2, <1>8, <1>9
<1>11. DOMAIN w = 1 .. N - d
  BY <1>7, <1>8
<1>12. IsWindow(w)
  <2>1. \A i \in DOMAIN w : w[i].seq \in Nat /\ (w[i].role # "assistant" => w[i].calls = {})
    BY <1>7, <1>10, <1>11 DEF PlainInv
  <2>2. Increasing(w)
    BY <1>7, <1>10, <1>11 DEF Increasing
  <2> QED
    BY <2>1, <2>2 DEF IsWindow
<1>13. ASSUME NEW m \in rows, m.seq = N PROVE w # <<>> /\ Last(w) = m
  <2>1. N \in 1 .. N
    <3>1. m.seq \in {x.seq : x \in rows}
      OBVIOUS
    <3> QED
      BY <1>1, <1>13, <3>1 DEF IInv, SeqInv, Contiguous
  <2>2. N - d \in 1 .. N - d /\ d + (N - d) = N
    BY <1>2, <1>7, <2>1
  <2>3. w # <<>> /\ Last(w) = w[N - d]
    BY <1>8, <2>2 DEF Last
  <2>4. w[N - d] = t[N]
    BY <1>8, <2>2
  <2>5. m = t[N]
    BY <1>1, <1>2, <1>13, <2>1, NumbersAreUnique DEF IInv
  <2> QED
    BY <2>3, <2>4, <2>5
<1> QED
  BY <1>1, <1>5, <1>8, <1>12, <1>13

LEMMA PlainStep ==
  ASSUME IInv, PlainInv, [Next]_vars PROVE PlainInv'
<1>1. CASE rows' = rows
  BY <1>1 DEF PlainInv
<1>2. ASSUME NEW r \in Requests, Insert(r) PROVE PlainInv'
  <2>1. pc[r] \in Writing /\ rows' = rows \cup {Turn(r)}
    BY <1>2 DEF Insert
  <2>2. Turn(r).role # "assistant" => Turn(r).calls = {}
    <3>1. pc[r] = "proposing" => Turn(r).role = "assistant"
      BY DEF Turn
    <3> QED
      BY <2>1, <3>1, TurnIs
  <2> QED
    BY <2>1, <2>2 DEF PlainInv
<1>3. ASSUME NEW r \in Requests, ~ Insert(r), Chat(r) \/ Serve(r) PROVE rows' = rows
  BY <1>3 DEF Chat, Serve, LoadHistory, Complete, AskApproval, Confirm, TurnedAway, Condemn,
              LoadConversation, Execute, Mark, ReadNext, Conflict, Settle, Abandon, turns
<1>4. ASSUME NEW a \in Chats, TurnDown(a) \/ \E k \in Confirms : Arrive(k, a) PROVE rows' = rows
  BY <1>4 DEF TurnDown, Arrive, turns
<1>5. UNCHANGED vars => rows' = rows
  BY DEF vars, turns
<1> QED
  BY <1>1, <1>2, <1>3, <1>4, <1>5 DEF Next, Quiescent

LEMMA QuestionStep ==
  ASSUME IInv, StatusInv, QuestionInv, [Next]_vars PROVE QuestionInv'
<1>0. /\ pc = [r \in Requests |-> pc[r]] /\ StageInv /\ SeqInv
      /\ Chats \subseteq Requests /\ Chats \cap Confirms = {}
      /\ slot \in [Requests -> Nat] /\ Cardinality(rows) \in Nat
  BY BoundsAssumption, FS_CardinalityType DEF IInv, TypeOK, SeqInv, Requests
(* Nothing is added, and no chat comes to read its history.                *)
<1>1. ASSUME rows' = rows, alone' => alone,
             \A a \in Chats : pc'[a] = "loading" => pc[a] = "loading"
      PROVE  QuestionInv'
  BY <1>1 DEF QuestionInv
<1>2. ASSUME NEW r \in Requests, Insert(r) PROVE QuestionInv'
  <2> SUFFICES ASSUME alone', NEW a \in Chats, pc'[a] = "loading"
               PROVE  \E m \in rows' : m.seq = Cardinality(rows') /\ m.role = "user" /\ m.by = a
    BY DEF QuestionInv
  <2>1. /\ pc[r] \in Writing /\ rows' = rows \cup {Turn(r)} /\ alone' = alone
        /\ pc' = [pc EXCEPT ![r] = After(r)] /\ Free(r)
    BY <1>2 DEF Insert, Goto
  <2>2. a = r
    <3>1. a # r => pc[a] = "loading"
      BY <1>0, <2>1
    <3>2. Running(r) /\ (pc[a] = "loading" => Running(a))
      BY <2>1 DEF Running, Writing, Over
    <3> QED
      BY <1>0, <2>1, <3>1, <3>2 DEF StatusInv
  <2>3. pc[r] = "asking"
    <3>1. After(r) = "loading"
      BY <1>0, <2>1, <2>2
    <3>2. pc[r] # "reporting"
      BY <1>0, <2>2 DEF StageInv, ChatStages, Over
    <3> QED
      BY <3>1, <3>2 DEF After
  <2>4. PICK t : t = Turn(r)
    OBVIOUS
  <2>5. t.role = "user" /\ t.by = r /\ t.seq = slot[r]
    BY <2>3, <2>4 DEF Turn
  <2>6. slot[r] = Cardinality(rows) + 1
    BY <1>0, <2>1 DEF Free, SeqInv, Contiguous
  <2>7. t \notin rows
    BY <2>1, <2>5 DEF Free
  <2>8. Cardinality(rows') = Cardinality(rows) + 1
    BY <1>0, <2>1, <2>4, <2>7, FS_AddElement DEF SeqInv
  <2> QED
    BY <2>1, <2>2, <2>4, <2>5, <2>6, <2>8
<1>3. ASSUME NEW r \in Requests, ~ Insert(r), Chat(r) \/ Serve(r) PROVE QuestionInv'
  <2>1. rows' = rows /\ (alone' => alone)
    <3>1. CASE Chat(r)
      BY <3>1 DEF Chat, Begin, turns
    <3>2. CASE ~ Chat(r)
      <4>1. rows' = rows /\ alone' = alone
        BY <1>3, <3>2 DEF Serve, LoadHistory, Complete, AskApproval, Confirm, TurnedAway, Condemn,
                          LoadConversation, Execute, Mark, ReadNext, Conflict, Settle, Abandon, turns
      <4> QED
        BY <4>1
    <3> QED
      BY <3>1, <3>2
  <2>2. pc' = pc \/ \E to : to # "loading" /\ pc' = [pc EXCEPT ![r] = to]
    BY <1>3 DEF Chat, Serve, LoadHistory, Complete, AskApproval, Confirm, TurnedAway, Condemn,
                LoadConversation, Execute, Mark, ReadNext, Conflict, Settle, Abandon, Begin, End, Goto
  <2>3. \A a \in Chats : pc'[a] = "loading" => pc[a] = "loading"
    BY <1>0, <2>2
  <2> QED
    BY <1>1, <2>1, <2>3
<1>4. ASSUME NEW a \in Chats, TurnDown(a) PROVE QuestionInv'
  BY <1>1, <1>4 DEF TurnDown, turns
<1>5. ASSUME NEW k \in Confirms, NEW a \in Chats, Arrive(k, a) PROVE QuestionInv'
  BY <1>0, <1>1, <1>5 DEF Arrive, Begin, Goto, turns
<1>6. CASE UNCHANGED vars
  BY <1>1, <1>6 DEF vars, turns
<1> QED
  BY <1>2, <1>3, <1>4, <1>5, <1>6 DEF Next, Quiescent

(* Whatever transcript concurrent requests leave, and through any window,  *)
(* the replay keeps every turn but the results whose call is not before    *)
(* them in the window, in order.                                           *)
THEOREM ReplayIsExact == Spec => []ReplayExact
<1>1. Init => PlainInv
  BY DEF Init, PlainInv
<1>2. IInv /\ PlainInv /\ [Next]_vars => PlainInv'
  BY PlainStep
<1>3. ASSUME IInv, PlainInv PROVE ReplayExact
  <2> SUFFICES ASSUME NEW limit \in 1 .. Cardinality(rows)
               PROVE  Repaired(Window(rows, limit), Replay(rows, limit))
    BY DEF ReplayExact
  <2>1. limit \in Nat
    BY <1>3, FS_CardinalityType DEF IInv, SeqInv
  <2>2. PICK w : w = Window(rows, limit)
    OBVIOUS
  <2>3. w \in Seq(rows) /\ IsWindow(w)
    BY <1>3, <2>1, <2>2, WindowIs
  <2>4. PICK M : M = rows
    OBVIOUS
  <2> QED
    BY <2>2, <2>3, <2>4, RepairExact DEF Replay
<1>4. IInv /\ PlainInv => ReplayExact
  BY <1>3
<1> QED
  BY Invariant, <1>1, <1>2, <1>4, PTL DEF Spec

(* As long as requests do not overlap, the model is asked the question of  *)
(* this chat, whatever earlier requests left and wherever the window       *)
(* begins.                                                                 *)
THEOREM QuestionIsItsOwn == Spec => OwnQuestion
<1> DEFINE Own == \A r \in Chats : alone /\ pc[r] = "loading" /\ pc'[r] = "planning" =>
                    /\ History # <<>>
                    /\ Last(History).role = "user" /\ Last(History).by = r
<1>1. Init => PlainInv /\ QuestionInv
  BY DEF Init, PlainInv, QuestionInv, Requests
<1>2. IInv /\ StatusInv /\ [Next]_vars => StatusInv'
  BY StatusStep
<1>3. IInv /\ PlainInv /\ [Next]_vars => PlainInv'
  BY PlainStep
<1>4. IInv /\ StatusInv /\ QuestionInv /\ [Next]_vars => QuestionInv'
  BY QuestionStep
<1>5. ASSUME IInv, PlainInv, QuestionInv, NEW r \in Chats, alone, pc[r] = "loading"
      PROVE  History # <<>> /\ Last(History).role = "user" /\ Last(History).by = r
  <2>1. PICK m \in rows : m.seq = Cardinality(rows) /\ m.role = "user" /\ m.by = r
    BY <1>5 DEF QuestionInv
  <2>2. HistoryLimit \in Nat
    BY BoundsAssumption
  <2>3. PICK w, M : w = Window(rows, HistoryLimit) /\ M = rows
    OBVIOUS
  <2>4. w \in Seq(M) /\ IsWindow(w) /\ w # <<>> /\ Last(w) = m
    BY <1>5, <2>1, <2>2, <2>3, WindowIs
  <2>5. Repair(w) # <<>> /\ Last(Repair(w)) = m
    BY <2>1, <2>4, RepairExact
  <2>6. History = Repair(w)
    BY <2>3 DEF History, Replay
  <2> QED
    BY <2>1, <2>5, <2>6
<1>6. IInv /\ PlainInv /\ QuestionInv /\ [Next]_vars => [Own]_vars
  BY <1>5
<1>7. Spec => [][Own]_vars
  BY Invariant, StatusInit, <1>1, <1>2, <1>3, <1>4, <1>6, PTL DEF Spec
<1> QED
  BY <1>7 DEF OwnQuestion

-------------------------------------------------------------------------------
LEMMA GateInit == Init => Gate!Init
BY DEF Init, Gate!Init, decision, proposal, effect

(* What the gate sees of an approval.                                      *)
Seen ==
  \A a \in Chats :
    /\ decision[a] = (IF Granted(a) # {} THEN "allowed"
                      ELSE IF approval[a].status = "none" THEN "none"
                      ELSE IF approval[a].status = "pending" THEN "open" ELSE "barred")
    /\ proposal[a] = approval[a].call
    /\ effect[a] = IF performed[a] = 0 THEN NoCall ELSE approval[a].call

LEMMA Mapped == IInv => Seen
<1> SUFFICES ASSUME IInv, NEW a \in Chats
             PROVE  /\ decision[a] = (IF Granted(a) # {} THEN "allowed"
                                      ELSE IF approval[a].status = "none" THEN "none"
                                      ELSE IF approval[a].status = "pending" THEN "open" ELSE "barred")
                    /\ proposal[a] = approval[a].call
                    /\ effect[a] = IF performed[a] = 0 THEN NoCall ELSE approval[a].call
  BY DEF Seen
<1>1. Granted(a) # {} <=> \E k \in granted : decides[k] = a
  BY DEF Granted
<1>2. performed[a] \in {0, 1}
  <2>1. performed[a] \in Nat
    BY DEF IInv, TypeOK
  <2>2. performed[a] <= 1
    BY DEF IInv, GateInv
  <2> QED
    BY <2>1, <2>2
<1>3. decision[a] = CASE \E k \in granted : decides[k] = a -> "allowed"
                      [] OTHER -> CASE approval[a].status = "none" -> "none"
                                    [] approval[a].status = "pending" -> "open"
                                    [] OTHER -> "barred"
  BY DEF decision
<1>4. effect[a] = CASE performed[a] = 0 -> NoCall
                    [] performed[a] = 1 -> approval[a].call
                    [] OTHER -> Call(Nobody, performed[a])
  BY DEF effect
<1>5. proposal[a] = approval[a].call
  BY DEF proposal
<1> QED
  BY <1>1, <1>2, <1>3, <1>4, <1>5

LEMMA Domains ==
  /\ decision = [a \in Chats |-> decision[a]] /\ decision' = [a \in Chats |-> decision'[a]]
  /\ proposal = [a \in Chats |-> proposal[a]] /\ proposal' = [a \in Chats |-> proposal'[a]]
  /\ effect = [a \in Chats |-> effect[a]] /\ effect' = [a \in Chats |-> effect'[a]]
BY DEF decision, proposal, effect

LEMMA GateSimulation ==
  ASSUME IInv, IInv', [Next]_vars
  PROVE  [Gate!Next]_<<decision, proposal, effect>>
<1> USE DEF Requests
<1>0. TypeOK /\ StageInv /\ TodoInv /\ GateInv
  BY DEF IInv
<1>0a. /\ approval \in [Chats -> [status : {"none", "pending"} \cup Decided, call : CallIds]]
       /\ performed \in [Chats -> Nat]
       /\ decides = [k \in Confirms |-> decides[k]]
  BY <1>0 DEF TypeOK
<1>0b. Seen /\ Seen'
  BY Mapped, PTL
<1>1. CASE UNCHANGED gate
  BY <1>1 DEF gate, decision, proposal, effect
<1>2. ASSUME NEW r \in Requests, AskApproval(r)
      PROVE  \E a \in Chats : \E x \in UNION {Proposable(b) : b \in Chats} : Gate!Propose(a, x)
  <2>0. r \in Chats /\ NextCall(r) \in Proposable(r)
    BY <1>0, <1>2, NextCallIsLeft, Products DEF AskApproval, StageInv, ConfirmStages, Over, TodoInv
  <2>1. approval[r].status = "none" /\ performed[r] = 0 /\ Granted(r) = {}
    BY <1>0, <1>2, <2>0, PendingIsUntouched DEF AskApproval, GateInv, Unasked
  <2>2. /\ approval'[r].status = "pending" /\ approval'[r].call = NextCall(r)
        /\ \A a \in Chats \ {r} : approval'[a] = approval[a]
        /\ UNCHANGED <<performed, granted, decides>>
    BY <1>0a, <1>2, <2>0 DEF AskApproval
  <2>2a. \A a : Granted(a)' = Granted(a)
    BY <2>2 DEF Granted
  <2>3. decision[r] = "none"
    BY <1>0b, <2>0, <2>1 DEF Seen
  <2>4. decision' = [decision EXCEPT ![r] = "open"]
    BY <1>0b, <2>0, <2>1, <2>2, <2>2a, Domains DEF Seen
  <2>5. proposal' = [proposal EXCEPT ![r] = NextCall(r)] /\ UNCHANGED effect
    BY <1>0b, <2>0, <2>1, <2>2, Domains DEF Seen
  <2> QED
    BY <2>0, <2>3, <2>4, <2>5 DEF Gate!Propose
<1>3. ASSUME NEW k \in Confirms, NEW a \in Chats, Arrive(k, a)
      PROVE  UNCHANGED <<decision, proposal, effect>>
  <2>1. k \notin granted
    BY <1>0, <1>3 DEF Arrive, Begin, GateInv, Acting
  <2>2. UNCHANGED <<approval, granted, performed>> /\ \A j \in Confirms \ {k} : decides'[j] = decides[j]
    BY <1>0a, <1>3 DEF Arrive
  <2>3. \A b : Granted(b)' = Granted(b)
    BY <1>0, <2>1, <2>2, GrantedAreConfirms DEF Granted
  <2>4. \A b \in Chats : decision'[b] = decision[b] /\ proposal'[b] = proposal[b] /\ effect'[b] = effect[b]
    BY <1>0b, <2>2, <2>3 DEF Seen
  <2> QED
    BY <2>4, Domains
<1>3a. ASSUME NEW k \in Requests, Confirm(k) PROVE \E a \in Chats : Gate!Allow(a)
  <2>0. k \in Confirms /\ decides[k] \in Chats /\ pc[k] = "deciding"
    BY <1>0, <1>3a DEF Confirm, StageInv, ChatStages, Over
  <2>1. approval[decides[k]].status = "pending" /\ Granted(decides[k]) = {}
    BY <1>3a, <2>0, PendingIsUntouched DEF Confirm, Claimable
  <2>2. /\ approval'[decides[k]].call = approval[decides[k]].call
        /\ \A b \in Chats \ {decides[k]} : approval'[b] = approval[b]
        /\ granted' = granted \cup {k} /\ UNCHANGED <<performed, decides>>
    BY <1>0a, <1>3a, <2>0 DEF Confirm, Decide
  <2>3. k \in Granted(decides[k])' /\ \A b : b # decides[k] => Granted(b)' = Granted(b)
    BY <2>2 DEF Granted
  <2>4. decision[decides[k]] = "open" /\ decision' = [decision EXCEPT ![decides[k]] = "allowed"]
    <3>1. decision[decides[k]] = "open"
      BY <1>0b, <2>0, <2>1 DEF Seen
    <3>2. decision'[decides[k]] = "allowed"
      <4>1. PICK a \in Chats : a = decides[k]
        BY <2>0
      <4>2. Granted(a)' # {}
        BY <2>2, <2>3, <4>1 DEF Granted
      <4> QED
        BY <1>0b, <4>1, <4>2 DEF Seen
    <3>3. \A b \in Chats \ {decides[k]} : decision'[b] = decision[b]
      BY <1>0b, <2>2, <2>3 DEF Seen
    <3> QED
      BY <2>0, <3>1, <3>2, <3>3, Domains
  <2>5. UNCHANGED <<proposal, effect>>
    BY <1>0b, <2>2, Domains DEF Seen
  <2>6. Gate!Allow(decides[k])
    BY <2>4, <2>5 DEF Gate!Allow
  <2> QED
    BY <2>0, <2>6
(* An approval is taken out of play, before or after it was decided.       *)
<1>4. ASSUME NEW a \in Chats, NEW to \in Decided, Decide(a, to), UNCHANGED <<granted, decides, performed>>,
             approval[a].status # "none", Granted(a) # {} \/ to # "approved"
      PROVE  (\E S \in SUBSET Chats : Gate!Bar(S)) \/ UNCHANGED <<decision, proposal, effect>>
  <2>1. /\ approval'[a].status = to /\ approval'[a].call = approval[a].call
        /\ \A b \in Chats \ {a} : approval'[b] = approval[b]
    BY <1>0a, <1>4 DEF Decide
  <2>2. \A b : Granted(b)' = Granted(b)
    BY <1>4 DEF Granted
  <2>3. to # "none" /\ to # "pending"
    BY DEF Decided
  <2>4. UNCHANGED <<proposal, effect>>
    BY <1>0b, <1>4, <2>1, Domains DEF Seen
  <2>5. CASE approval[a].status = "pending"
    <3>1. Granted(a) = {}
      BY <2>5, PendingIsUntouched
    <3>2. decision[a] = "open"
      BY <1>0b, <2>5, <3>1 DEF Seen
    <3>3. decision' = [b \in Chats |-> IF b \in {a} THEN "barred" ELSE decision[b]]
      BY <1>0b, <2>1, <2>2, <2>3, <3>1, Domains DEF Seen
    <3>4. Gate!Bar({a})
      BY <2>4, <3>2, <3>3 DEF Gate!Bar
    <3> QED
      BY <3>4
  <2>6. CASE approval[a].status # "pending"
    <3>1. \A b \in Chats : decision'[b] = decision[b]
      BY <1>0b, <1>4, <2>1, <2>2, <2>3, <2>6 DEF Seen
    <3> QED
      BY <2>4, <3>1, Domains
  <2> QED
    BY <2>5, <2>6
<1>4a. ASSUME NEW a \in Chats, TurnDown(a)
       PROVE  (\E S \in SUBSET Chats : Gate!Bar(S)) \/ UNCHANGED <<decision, proposal, effect>>
  BY <1>4, <1>4a DEF TurnDown, Decided
<1>4b. ASSUME NEW k \in Requests, Condemn(k) \/ Mark(k)
       PROVE  (\E S \in SUBSET Chats : Gate!Bar(S)) \/ UNCHANGED <<decision, proposal, effect>>
  <2>0. k \in Confirms /\ decides[k] \in Chats /\ pc[k] # "idle"
    BY <1>0, <1>4b DEF Condemn, Mark, StageInv, ChatStages, Over
  <2>1. approval[decides[k]].status # "none"
    BY <1>0, <2>0 DEF GateInv
  <2>2. \E to \in Decided \ {"approved"} : Decide(decides[k], to)
    BY <1>4b DEF Condemn, Mark, Decided
  <2>3. UNCHANGED <<granted, decides, performed>>
    BY <1>4b DEF Condemn, Mark
  <2> QED
    BY <1>4, <2>0, <2>1, <2>2, <2>3
<1>5. ASSUME NEW k \in Requests, Execute(k)
      PROVE  \/ Gate!Release(decides[k]) /\ decides[k] \in Chats
             \/ UNCHANGED <<decision, proposal, effect>>
  <2>0. k \in Confirms /\ decides[k] \in Chats /\ pc[k] = "executing" /\ k \in granted
    BY <1>0, <1>5 DEF Execute, StageInv, ChatStages, Over, GateInv, Acting
  <2>1. Granted(decides[k]) # {} /\ performed[decides[k]] = 0
    BY <1>0, <2>0 DEF GateInv, Granted
  <2>2. UNCHANGED <<approval, decides, granted>>
    BY <1>5 DEF Execute
  <2>3. UNCHANGED <<decision, proposal>>
    BY <2>2 DEF decision, proposal
  <2>4. CASE UNCHANGED performed
    BY <2>2, <2>4 DEF decision, proposal, effect
  <2>5. CASE \E n \in 0 .. 1 : performed' = [performed EXCEPT ![decides[k]] = @ + n]
    <3>1. PICK n \in 0 .. 1 : performed' = [performed EXCEPT ![decides[k]] = @ + n]
      BY <2>5
    <3>2. performed'[decides[k]] = n /\ \A b \in Chats \ {decides[k]} : performed'[b] = performed[b]
      BY <1>0a, <2>0, <2>1, <3>1
    <3>3. CASE n = 0
      <4>1. \A b \in Chats : effect'[b] = effect[b]
        BY <1>0b, <2>0, <2>1, <2>2, <3>2, <3>3 DEF Seen
      <4> QED
        BY <2>3, <4>1, Domains
    <3>4. CASE n = 1
      <4>1. decision[decides[k]] = "allowed" /\ effect[decides[k]] = NoCall
        BY <1>0b, <2>0, <2>1 DEF Seen
      <4>2. effect' = [effect EXCEPT ![decides[k]] = proposal[decides[k]]]
        BY <1>0b, <2>0, <2>1, <2>2, <3>2, <3>4, Domains DEF Seen
      <4> QED
        BY <2>0, <2>3, <4>1, <4>2 DEF Gate!Release
    <3> QED
      BY <3>3, <3>4
  <2> QED
    BY <1>5, <2>4, <2>5 DEF Execute
<1>7. ASSUME NEW r \in Requests,
             \/ Chat(r) \/ LoadHistory(r) \/ Complete(r) \/ TurnedAway(r) \/ LoadConversation(r)
             \/ ReadNext(r) \/ Insert(r) \/ Conflict(r) \/ Abandon(r) \/ Settle(r)
      PROVE  UNCHANGED gate
  BY <1>7 DEF Chat, LoadHistory, Complete, TurnedAway, LoadConversation, ReadNext, Insert, Conflict, Abandon,
              Settle
<1>8. UNCHANGED vars => UNCHANGED gate
  BY DEF vars
<1> QED
  BY <1>1, <1>2, <1>3, <1>3a, <1>4a, <1>4b, <1>5, <1>7, <1>8 DEF Next, Serve, Quiescent, Gate!Next

(* The approvals of a conversation, whatever happens to the transcript     *)
(* around them, do what the abstract gate promises: one decision, and the  *)
(* proposed call carried out at most once and only if it was allowed.      *)
THEOREM Refinement == Spec => ConfirmsOnce
<1>1. IInv /\ IInv' /\ [Next]_vars => [Gate!Next]_<<decision, proposal, effect>>
  BY GateSimulation
<1> QED
  BY Invariant, GateInit, <1>1, PTL DEF Spec, ConfirmsOnce, Gate!Spec, Gate!gate
===============================================================================

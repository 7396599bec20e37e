----------------------------- MODULE Conversation -----------------------------
(***************************************************************************)
(* One conversation under concurrent requests: chats, each running the     *)
(* agent, and confirmations, each executing an action that a chat proposed *)
(* and reporting it.  What they share is the transcript, the approvals of  *)
(* the conversation and the status column of its row.                      *)
(*                                                                         *)
(* Every turn is a transaction of its own: the next sequence number is     *)
(* read, then the row is inserted and committed.  A unique index on        *)
(* (conversation_id, sequence) makes the loser of a race fail.  The status *)
(* is written from the copy of the row a session loaded first: with its    *)
(* user, when the user owns the conversation (User.conversations), or when *)
(* an administrator's request comes to need it.  The approval a request    *)
(* decides is such a copy as well, until the claim refreshes it.           *)
(*                                                                         *)
(* The deadline of an approval and an edit of its payload behind the       *)
(* application are left open: a check may find either at any time.         *)
(***************************************************************************)
EXTENDS Transcript, FiniteSets

CONSTANTS
  Chats,         \* requests to POST /chat on this conversation
  Confirms,      \* requests to POST /approvals/{id}/confirm
  MaxRounds,     \* planning rounds of each chat
  MaxCalls,      \* calls one completion of each chat proposes
  HistoryLimit   \* agent_history_limit

ASSUME BoundsAssumption ==
  /\ Chats \cap Confirms = {}
  /\ MaxRounds \in [Chats -> Nat] /\ MaxCalls \in [Chats -> Nat] /\ HistoryLimit \in Nat

VARIABLES
  rows,       \* committed messages
  approval,   \* the approval each chat asked for (a run asks at most once)
  status,     \* status column of the conversation
  pc,         \* what a request does next
  copy,       \* the status in its session's copy of the conversation, if it has one
  undecided,  \* its session's copy of the approval says pending
  ok,         \* the result of the action it executed is a success
  slot,       \* the sequence number it read, 0 when none
  todo,       \* calls of the last completion without a result yet
  rounds,     \* completions of a chat so far
  decides,    \* the approval a confirmation is for
  granted,    \* confirmations that claimed theirs
  performed,  \* how often the action of each was carried out
  alone,      \* no two requests have overlapped so far
  last        \* as long as that holds, the request that wrote the status last

turns == <<rows, slot, todo, rounds>>
gate == <<approval, decides, granted, performed>>
session == <<copy, undecided, ok>>
row == <<status, last>>
vars == <<turns, gate, session, row, pc, alone>>

Requests == Chats \cup Confirms
Nobody == "nobody"
NoCall == [by |-> Nobody, n |-> 0]
Call(r, n) == [by |-> r, n |-> n]

(* Nobody is not the name of a request.                                    *)
ASSUME NobodyAssumption == Nobody \notin Requests

Writing == {"asking", "proposing", "answering", "resulting", "pausing", "noticing",
            "reporting", "closing"}
Over == {"answered", "error"}
Decided == {"approved", "executed", "failed", "barred"}

Init ==
  /\ rows = {}
  /\ approval = [a \in Chats |-> [status |-> "none", call |-> NoCall]]
  /\ status = "active"
  /\ pc = [r \in Requests |-> "idle"]
  /\ copy = [r \in Requests |-> "none"]
  /\ undecided = [r \in Requests |-> FALSE] /\ ok = [r \in Requests |-> FALSE]
  /\ slot = [r \in Requests |-> 0]
  /\ todo = [r \in Requests |-> {}]
  /\ rounds = [r \in Requests |-> 0]
  /\ decides = [k \in Confirms |-> Nobody] /\ granted = {}
  /\ performed = [a \in Chats |-> 0]
  /\ alone = TRUE
  /\ last = Nobody

Goto(r, to) == pc' = [pc EXCEPT ![r] = to]

(* A request is authenticated; it overlaps with those on their way.        *)
Begin(r, to) ==
  /\ pc[r] = "idle"
  /\ Goto(r, to)
  /\ alone' = (alone /\ \A q \in Requests : pc[q] \in Over \cup {"idle"})
  /\ last' = IF alone' THEN last ELSE Nobody

(* A request ends, and what its session knew with it.                      *)
End(r, to) ==
  /\ Goto(r, to)
  /\ slot' = [slot EXCEPT ![r] = 0]
  /\ todo' = [todo EXCEPT ![r] = {}]
  /\ copy' = [copy EXCEPT ![r] = "none"]
  /\ undecided' = [undecided EXCEPT ![r] = FALSE]
  /\ ok' = [ok EXCEPT ![r] = FALSE]
  /\ rounds' = [rounds EXCEPT ![r] = 0]

-----------------------------------------------------------------------------
(* get_or_create: a session keeps the copy it has (it expires on no        *)
(* commit), and loads one only if it has none.                             *)
Load(r) == copy' = [copy EXCEPT ![r] = IF @ = "none" THEN status ELSE @]

Chat(r) ==
  /\ r \in Chats
  /\ Begin(r, "asking")
  /\ Load(r)
  /\ UNCHANGED <<turns, gate, status, undecided, ok>>

(* What load_history returns when it is called now.                        *)
History == Replay(rows, HistoryLimit)

(* The history is handed to the model; what it answers is left open below. *)
LoadHistory(r) ==
  /\ pc[r] = "loading"
  /\ Goto(r, IF r \in Chats THEN "planning" ELSE "closing")
  /\ UNCHANGED <<turns, gate, session, row, alone>>

(* The iteration ceiling of the agent run.                                 *)
BudgetLeft(r) == rounds[r] < MaxRounds[r]

(* The model answers, or proposes calls numbered on from the last one.     *)
Complete(r) ==
  /\ pc[r] = "planning"
  /\ \/ /\ BudgetLeft(r)
        /\ \E n \in 1 .. MaxCalls[r] :
             todo' = [todo EXCEPT ![r] = {Call(r, rounds[r] * MaxCalls[r] + i) : i \in 1 .. n}]
        /\ rounds' = [rounds EXCEPT ![r] = @ + 1]
        /\ Goto(r, "proposing")
     \/ Goto(r, "answering") /\ UNCHANGED <<todo, rounds>>
     \/ Goto(r, "syncing") /\ UNCHANGED <<todo, rounds>>   \* no completion: not persisted
  /\ UNCHANGED <<rows, slot, gate, session, row, alone>>

NextCall(r) == CHOOSE c \in todo[r] : \A d \in todo[r] : c.n <= d.n

(* The call in hand needs approval: its request is stored first, then the  *)
(* result that says so.                                                    *)
AskApproval(r) ==
  /\ pc[r] = "resulting" /\ slot[r] = 0
  /\ approval' = [approval EXCEPT ![r] = [status |-> "pending", call |-> NextCall(r)]]
  /\ Goto(r, "pausing")
  /\ UNCHANGED <<turns, decides, granted, performed, session, row, alone>>

-----------------------------------------------------------------------------
(* Mutant: only what has been settled is out of reach.                     *)
ClaimableAgain(a) == approval[a].status \in {"pending", "approved"}

(* The predicate of the claiming UPDATE.                                   *)
Claimable(a) == approval[a].status = "pending"

Decide(a, to) == approval' = [approval EXCEPT ![a].status = to]

(* A request to confirm is authenticated and has its approval loaded; the  *)
(* owner of the conversation loads the conversation with it.               *)
Arrive(k, a) ==
  /\ k \in Confirms /\ a \in Chats /\ approval[a].status # "none"
  /\ Begin(k, "deciding")
  /\ decides' = [decides EXCEPT ![k] = a]
  /\ undecided' = [undecided EXCEPT ![k] = approval[a].status = "pending"]
  /\ Load(k) \/ UNCHANGED copy
  /\ UNCHANGED <<turns, approval, granted, performed, status, ok>>

(* The conditional UPDATE, and the refresh of the copy behind it.          *)
Confirm(k) ==
  /\ pc[k] = "deciding" /\ undecided[k] /\ Claimable(decides[k])
  /\ Goto(k, "claimed")
  /\ Decide(decides[k], "approved")
  /\ granted' = granted \cup {k}
  /\ undecided' = [undecided EXCEPT ![k] = FALSE]
  /\ UNCHANGED <<turns, decides, performed, copy, ok, row, alone>>

(* The copy, or by now the row, is not pending, or its time is over.       *)
TurnedAway(k) ==
  /\ pc[k] = "deciding"
  /\ End(k, "error")
  /\ UNCHANGED <<rows, gate, row, alone>>

(* _expire on a copy that says pending or approved, and _fail_integrity on *)
(* any: the row is written by its primary key, whatever it has become.     *)
Condemn(k) ==
  /\ pc[k] \in {"deciding", "executing"}
  /\ \/ Decide(decides[k], "failed")
     \/ /\ undecided[k] \/ pc[k] = "executing"
        /\ Decide(decides[k], "barred")
  /\ End(k, "error")
  /\ UNCHANGED <<rows, decides, granted, performed, row, alone>>

(* Somebody rejects it, or a sweep finds the deadline passed.              *)
TurnDown(a) ==
  /\ approval[a].status = "pending"
  /\ Decide(a, "barred")
  /\ UNCHANGED <<turns, decides, granted, performed, session, row, pc, alone>>

LoadConversation(k) ==
  /\ pc[k] = "claimed"
  /\ Goto(k, "executing")
  /\ Load(k)
  /\ UNCHANGED <<turns, gate, undecided, ok, row, alone>>

(* The action is refused (its tool has left the catalog), or sent; whether *)
(* or not it is answered, the tool server may have carried it out.  If the *)
(* policy asks for no approval any more, it is sent without verification   *)
(* and nothing of it is marked on the row.                                 *)
Execute(k) ==
  /\ pc[k] = "executing"
  /\ \/ Goto(k, "reporting") /\ UNCHANGED <<performed, ok>>
     \/ /\ Goto(k, "marking") \/ Goto(k, "reporting")
        /\ \E n \in 0 .. 1 :
             /\ performed' = [performed EXCEPT ![decides[k]] = @ + n]
             /\ \E success \in {FALSE, n = 1} : ok' = [ok EXCEPT ![k] = success]
  /\ UNCHANGED <<turns, approval, decides, granted, copy, undecided, row, alone>>

(* Mutant: a call without an answer counts as a success.                   *)
MarkUnanswered(k) ==
  /\ pc[k] = "marking"
  /\ Decide(decides[k], "executed")
  /\ Goto(k, "reporting")
  /\ UNCHANGED <<turns, decides, granted, performed, session, row, alone>>

(* The row is settled by the answer: a success, or an error or none.       *)
Mark(k) ==
  /\ pc[k] = "marking"
  /\ Decide(decides[k], IF ok[k] THEN "executed" ELSE "failed")
  /\ Goto(k, "reporting")
  /\ UNCHANGED <<turns, decides, granted, performed, session, row, alone>>

-----------------------------------------------------------------------------
(* next_sequence: max + 1 over the committed turns.                        *)
NextSequence == Max({m.seq : m \in rows} \cup {0}) + 1

ReadNext(r) ==
  /\ pc[r] \in Writing /\ slot[r] = 0
  /\ slot' = [slot EXCEPT ![r] = NextSequence]
  /\ UNCHANGED <<rows, todo, rounds, gate, session, row, pc, alone>>

(* The row a request is about to insert; call n = 0 is approved_<id>.      *)
Turn(r) ==
  LET turn(role, calls, answers) ==
        [seq |-> slot[r], by |-> r, role |-> role, calls |-> calls, answers |-> answers,
         approval_required |-> pc[r] = "noticing",
         executed |-> pc[r] = "reporting" /\ ok[r]]
  IN  CASE pc[r] = "asking"    -> turn("user", {}, NoCall)
        [] pc[r] = "proposing" -> turn("assistant", todo[r], NoCall)
        [] pc[r] \in {"resulting", "pausing"} -> turn("tool", {}, NextCall(r))
        [] pc[r] = "reporting" -> turn("tool", {}, Call(decides[r], 0))
        [] OTHER               -> turn("assistant", {}, NoCall)

(* Mutant: the rest of a batch is dropped after its first result.          *)
AfterBatchDropped(r) ==
  CASE pc[r] = "asking" \/ pc[r] = "reporting" -> "loading"
    [] pc[r] = "proposing" -> "resulting"
    [] pc[r] = "resulting" -> "planning"
    [] pc[r] = "pausing" -> "noticing"
    [] pc[r] = "closing" -> "activating"
    [] OTHER -> "syncing"

(* Mutant: a pause ends the run before its notice is stored.               *)
AfterUnnoticed(r) ==
  CASE pc[r] = "asking" \/ pc[r] = "reporting" -> "loading"
    [] pc[r] = "proposing" -> "resulting"
    [] pc[r] = "resulting" -> IF Cardinality(todo[r]) > 1 THEN "resulting" ELSE "planning"
    [] pc[r] = "closing" -> "activating"
    [] OTHER -> "syncing"

(* What follows a committed turn; after a pause no further call is run.    *)
After(r) ==
  CASE pc[r] = "asking" \/ pc[r] = "reporting" -> "loading"
    [] pc[r] = "proposing" -> "resulting"
    [] pc[r] = "resulting" -> IF Cardinality(todo[r]) > 1 THEN "resulting" ELSE "planning"
    [] pc[r] = "pausing" -> "noticing"
    [] pc[r] = "closing" -> "activating"
    [] OTHER -> "syncing"

(* Mutant: the index on (conversation_id, sequence) is not unique.         *)
AlwaysFree(r) == slot[r] # 0

(* The unique index.                                                       *)
Free(r) == slot[r] # 0 /\ \A m \in rows : m.seq # slot[r]

Insert(r) ==
  /\ pc[r] \in Writing /\ Free(r)
  /\ rows' = rows \cup {Turn(r)}
  /\ slot' = [slot EXCEPT ![r] = 0]
  /\ Goto(r, After(r))
  /\ todo' = IF pc[r] \in {"resulting", "pausing"}
             THEN [todo EXCEPT ![r] = @ \ {NextCall(r)}] ELSE todo
  /\ UNCHANGED <<rounds, gate, session, row, alone>>

(* IntegrityError: the transaction is rolled back and the request fails.   *)
Conflict(r) ==
  /\ pc[r] \in Writing /\ slot[r] # 0 /\ ~ Free(r)
  /\ End(r, "error")
  /\ UNCHANGED <<rows, gate, row, alone>>

(* A statement fails, a call raises, or the process dies.                  *)
Abandon(r) ==
  /\ pc[r] \notin Over \cup {"idle"}
  /\ End(r, "error")
  /\ UNCHANGED <<rows, gate, row, alone>>

-----------------------------------------------------------------------------
Paused(r) == \E m \in rows : m.by = r /\ m.approval_required

(* Mutant: only a pause is mirrored.                                       *)
WriteIfPaused(r, to) == status' = IF to = "awaiting" /\ copy[r] # to THEN to ELSE status

(* An UPDATE is sent only if the session's copy differs.                   *)
WriteStatus(r, to) == status' = IF copy[r] # to THEN to ELSE status

(* The status a run should leave behind.                                   *)
Outcome(r) == IF r \in Chats /\ Paused(r) THEN "awaiting" ELSE "active"

(* _sync_conversation_status after a run, set_status after a report.       *)
Settle(r) ==
  /\ pc[r] \in {"syncing", "activating"}
  /\ WriteStatus(r, Outcome(r))
  /\ last' = IF alone THEN r ELSE Nobody
  /\ End(r, "answered")
  /\ UNCHANGED <<rows, gate, alone>>

(* A chat may end without an answer to confirm.                            *)
Quiescent ==
  /\ \A r \in Chats : pc[r] \in Over
  /\ \A r \in Confirms : pc[r] \in Over \cup {"idle"}
  /\ UNCHANGED vars

Serve(r) ==
  \/ LoadHistory(r) \/ Complete(r) \/ AskApproval(r)
  \/ Confirm(r) \/ TurnedAway(r) \/ Condemn(r)
  \/ LoadConversation(r) \/ Execute(r) \/ Mark(r)
  \/ ReadNext(r) \/ Insert(r) \/ Conflict(r) \/ Settle(r) \/ Abandon(r)

Next ==
  \/ \E r \in Requests : Chat(r) \/ Serve(r)
  \/ \E a \in Chats : TurnDown(a) \/ \E k \in Confirms : Arrive(k, a)
  \/ Quiescent

Spec == Init /\ [][Next]_vars
-----------------------------------------------------------------------------
(* Types of the turns and of the requests.                                 *)
CallIds == {NoCall} \cup [by : Requests, n : Nat]

TypeOK ==
  /\ rows \subseteq [seq : Nat, by : Requests, role : {"user", "assistant", "tool"},
                     calls : SUBSET CallIds, answers : CallIds, approval_required : BOOLEAN,
                     executed : BOOLEAN]
  /\ approval \in [Chats -> [status : {"none", "pending"} \cup Decided, call : CallIds]]
  /\ status \in {"active", "awaiting"} /\ copy \in [Requests -> {"none", "active", "awaiting"}]
  /\ undecided \in [Requests -> BOOLEAN] /\ ok \in [Requests -> BOOLEAN]
  /\ pc \in [Requests -> Writing \cup Over \cup
               {"idle", "loading", "planning", "deciding", "claimed", "executing", "marking",
                "syncing", "activating"}]
  /\ slot \in [Requests -> Nat]
  /\ todo \in [Requests -> SUBSET CallIds]
  /\ rounds \in [Requests -> Nat] /\ \A r \in Chats : rounds[r] <= MaxRounds[r]
  /\ decides \in [Confirms -> Chats \cup {Nobody}] /\ granted \subseteq Confirms
  /\ performed \in [Chats -> Nat]
  /\ alone \in BOOLEAN /\ last \in Requests \cup {Nobody}

(* However requests race, sequence numbers are unique and without a gap:   *)
(* a rolled back turn leaves none behind.                                  *)
Contiguous == {m.seq : m \in rows} = 1 .. Cardinality(rows)

(* Whatever transcript concurrent requests left when a history is loaded,  *)
(* its replay through any window keeps exactly the results whose call is   *)
(* in the window before them, so that the model is never sent an orphan.   *)
ReplayExact ==
  (\E r \in Requests : pc[r] = "loading") =>
    \A limit \in 1 .. Cardinality(rows) :
      Repaired(Window(rows, limit), Replay(rows, limit))

Proposed(r) == UNION {m.calls : m \in {x \in rows : x.by = r}}
ResultsOf(c) == {m \in rows : m.role = "tool" /\ m.answers = c}

(* As long as requests did not overlap, what the model is asked to answer  *)
(* is the question of this chat: it is the newest turn of the history,     *)
(* wherever the window begins and whatever earlier requests left behind.   *)
OwnQuestion ==
  [][\A r \in Chats : alone /\ pc[r] = "loading" /\ pc'[r] = "planning" =>
       /\ History # <<>>
       /\ Last(History).role = "user" /\ Last(History).by = r]_vars

(* A proposed call never has two results, and one without any belongs to a *)
(* request that is still running, was paused or failed.                    *)
CallsAnswered ==
  \A r \in Requests : \A c \in Proposed(r) :
    /\ Cardinality(ResultsOf(c)) <= 1
    /\ ResultsOf(c) = {} => pc[r] # "answered" \/ Paused(r)

(* Whatever collides or dies between the four commits that make a pause,   *)
(* an approval refers to a call that its conversation has on record, a     *)
(* notice in the transcript has an approval behind it, and a chat that was *)
(* answered told the user of the approval it left.                         *)
AskedAndShown ==
  \A a \in Chats :
    /\ approval[a].status # "none" => approval[a].call \in Proposed(a)
    /\ Paused(a) => approval[a].status # "none"
    /\ approval[a].status # "none" /\ pc[a] = "answered" => Paused(a)

(* What the transcript, the row and the world say of an approved action.   *)
(* It is reported at most once, by a confirmation that was granted, and as *)
(* executed only if it was carried out.  A row that says executed never    *)
(* stands beside a report that denies it; the other way round the row may  *)
(* be left approved by a write that needed no approval any more, or be     *)
(* overwritten: as expired only by a confirmation that overlapped.  An     *)
(* action that was carried out and is not reported is one whose caller     *)
(* was not answered.                                                       *)
ReportsMatchEffects ==
  \A a \in Chats :
    LET reports == ResultsOf(Call(a, 0))
        grants == {k \in granted : decides[k] = a}
    IN  /\ Cardinality(reports) <= 1
        /\ \A m \in reports : m.by \in grants /\ (m.executed => performed[a] > 0)
        /\ approval[a].status = "executed" => performed[a] > 0 /\ \A m \in reports : m.executed
        /\ approval[a].status = "barred" /\ (\E m \in reports : m.executed) => ~ alone
        /\ performed[a] > 0 /\ reports = {} => \E k \in grants : pc[k] # "answered"

(* The status column is right as long as requests do not overlap: it says  *)
(* whether the last one that got to write it paused, though those before   *)
(* it may have failed anywhere.  Under any race it waits only where some   *)
(* chat paused.                                                            *)
StatusTellsLast ==
  /\ alone => (status = "awaiting" <=> last \in Chats /\ Paused(last))
  /\ status = "awaiting" => \E a \in Chats : Paused(a)

-----------------------------------------------------------------------------
(* What a comment of the repository says and the code does not do.         *)

(* runner.py: when the model is asked to summarise an executed action "the *)
(* history ends with the approved tool's result".                          *)
HistoryEndsWithResult ==
  [][\A k \in Confirms : pc[k] = "loading" /\ pc'[k] = "closing" =>
       History # <<>> /\ Last(History).answers = Call(decides[k], 0)]_vars
==============================================================================

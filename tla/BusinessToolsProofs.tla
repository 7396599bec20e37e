------------------------- MODULE BusinessToolsProofs -------------------------
(***************************************************************************)
(* For every number of calls: a lead has no duplicate but by an            *)
(* overlapping call, however addresses are written; a task that was        *)
(* completed keeps its time; an answered change of a lead stands; a booking*)
(* knows of the bookings before it at its time; a listing shows what was   *)
(* answered before it began; a report adds up; and no email has too many   *)
(* recipients.                                                             *)
(***************************************************************************)
EXTENDS BusinessTools, FiniteSetTheorems, WellFoundedInduction, TLAPS

Creates(c) == req[c].tool = "create_lead"

(* A call is over before another counts it as earlier; a lead is inserted  *)
(* by a create, whose answer follows; and a create that found no lead for  *)
(* its address still has none among the leads of calls before it.          *)
LeadInv ==
  /\ server \in Servers
  /\ req \in [Calls -> Requests \cup {Pending}]
  /\ stage \in [Calls -> InSession \cup {"idle", "answering", "over"}]
  /\ earlier \in [Calls -> SUBSET Calls]
  /\ \A b \in Calls : /\ stage[b] = "idle" => earlier[b] = {}
                      /\ \A a \in earlier[b] : stage[a] = "over"
  /\ \A a \in DOMAIN leads \cap Calls : /\ stage[a] \in {"answering", "over"}
                                        /\ Creates(a)
                                        /\ leads[a].email = Normal[req[a].email]
  /\ \A b \in Calls : stage[b] = "absent" =>
       Fitting(leads, req[b].email) \cap earlier[b] = {}

(* What a create is asked for is an address as a model may write it.       *)
LEMMA Addresses ==
  ASSUME NEW r \in Requests, r.tool = "create_lead" PROVE r.email \in Spellings
<1>1. PICK s \in Servers : r \in Served(s)
  BY DEF Requests
<1>2. s = "crm"
  BY <1>1 DEF Served, Servers
<1>3. \/ r \in [tool : {"create_lead"}, email : Spellings]
      \/ r \in [tool : {"update_lead_status"}, lead : {Seed}, status : LeadStatuses,
                note : BOOLEAN]
      \/ r \in [tool : {"update_lead_status"}, lead : {None}, status : {"new"},
                note : {FALSE}]
      \/ r \in [tool : {"get_leads"}, wanted : {"any", "qualified"}]
  BY <1>1, <1>2 DEF Served
<1> QED
  BY <1>3

LEMMA Updating ==
  ASSUME NEW r \in Requests, r.tool = "update_lead_status" PROVE r.status \in LeadStatuses
<1>1. PICK s \in Servers : r \in Served(s)
  BY DEF Requests
<1>2. s = "crm"
  BY <1>1 DEF Served, Servers
<1>3. \/ r \in [tool : {"create_lead"}, email : Spellings]
      \/ r \in [tool : {"update_lead_status"}, lead : {Seed}, status : LeadStatuses,
                note : BOOLEAN]
      \/ r \in [tool : {"update_lead_status"}, lead : {None}, status : {"new"},
                note : {FALSE}]
      \/ r \in [tool : {"get_leads"}, wanted : {"any", "qualified"}]
  BY <1>1, <1>2 DEF Served
<1> QED
  BY <1>3 DEF LeadStatuses

LEMMA LeadInit == Init => LeadInv
<1> SUFFICES ASSUME Init PROVE LeadInv
  OBVIOUS
<1>1. DOMAIN leads \cap Calls = {} /\ server \in Servers
  BY SpellingsAssumption DEF Init
<1>2. /\ req \in [Calls -> Requests \cup {Pending}]
      /\ stage \in [Calls -> InSession \cup {"idle", "answering", "over"}]
      /\ earlier \in [Calls -> SUBSET Calls]
  BY DEF Init
<1>3. \A b \in Calls : stage[b] = "idle" /\ earlier[b] = {}
  BY DEF Init
<1> QED
  BY <1>1, <1>2, <1>3 DEF LeadInv

(* What a call looks for depends on the addresses of the leads alone.      *)
LEMMA SameAddresses ==
  ASSUME DOMAIN leads' = DOMAIN leads, \A r \in DOMAIN leads : leads'[r].email = leads[r].email
  PROVE  \A e : Fitting(leads', e) = Fitting(leads, e)
BY DEF Fitting

(* A call that inserts no lead gets on.                                    *)
Advances(c, x) ==
  /\ stage[c] \notin {"idle", "over"}
  /\ stage' = [stage EXCEPT ![c] = x]
  /\ x \in InSession \cup {"answering", "over"}
  /\ x = "absent" => Fitting(leads, req[c].email) = {}
  /\ stage[c] = "answering" => x = "over"
  /\ UNCHANGED <<server, req, earlier>>
  /\ DOMAIN leads' = DOMAIN leads
  /\ \A r \in DOMAIN leads : leads'[r].email = leads[r].email

LEMMA AdvanceStep ==
  ASSUME LeadInv, NEW c \in Calls, NEW x, Advances(c, x)
  PROVE  LeadInv'
<1> USE DEF LeadInv, Advances
<1>1. /\ stage' \in [Calls -> InSession \cup {"idle", "answering", "over"}]
      /\ stage'[c] = x /\ \A b \in Calls \ {c} : stage'[b] = stage[b]
  OBVIOUS
<1>2. \A b \in Calls : /\ stage'[b] = "idle" => earlier'[b] = {}
                       /\ \A a \in earlier'[b] : stage'[a] = "over"
  BY <1>1 DEF InSession
<1>3. \A a \in DOMAIN leads' \cap Calls : /\ stage'[a] \in {"answering", "over"}
                                          /\ Creates(a)'
                                          /\ leads'[a].email = Normal[req'[a].email]
  BY <1>1 DEF Creates
<1>4. \A b \in Calls : stage'[b] = "absent" =>
        Fitting(leads', req'[b].email) \cap earlier'[b] = {}
  <2>1. \A e : Fitting(leads', e) = Fitting(leads, e)
    BY SameAddresses
  <2>2. ASSUME NEW b \in Calls, stage'[b] = "absent"
        PROVE  Fitting(leads, req[b].email) \cap earlier[b] = {}
    BY <1>1, <2>2
  <2> QED
    BY <2>1, <2>2
<1> QED
  BY <1>1, <1>2, <1>3, <1>4

(* Each action but the arrival of a call and the insertion of a lead.      *)
LEMMA Advance ==
  ASSUME NEW c \in Calls, LeadInv,
         \/ Refuse(c) \/ FindLead(c) \/ ReturnExisting(c) \/ ReadLeads(c) \/ LoadLead(c)
         \/ LeadUnknown(c) \/ SaveLead(c) \/ Tasks(c) \/ Calendar(c) \/ Spreadsheets(c)
         \/ Email(c) \/ DbFails(c) \/ Answer(c) \/ Lose(c)
  PROVE  \E x : Advances(c, x)
<1> USE DEF Advances, At, Finish, Proceed, tables, InSession
<1>1. CASE Refuse(c)
  <2>1. Advances(c, "answering")
    BY <1>1 DEF Refuse
  <2> QED
    BY <2>1
<1>2. CASE FindLead(c)
  <2>1. Advances(c, "absent")
    BY <1>2 DEF FindLead
  <2> QED
    BY <2>1
<1>3. CASE ReturnExisting(c) \/ ReadLeads(c) \/ LeadUnknown(c)
  <2>1. Advances(c, "answering")
    BY <1>3 DEF ReturnExisting, ReadLeads, LeadUnknown
  <2> QED
    BY <2>1
<1>4. CASE LoadLead(c)
  <2>1. Advances(c, "loaded")
    BY <1>4 DEF LoadLead
  <2> QED
    BY <2>1
<1>5. CASE SaveLead(c)
  <2>1. stage[c] = "loaded" /\ stage' = [stage EXCEPT ![c] = "answering"]
        /\ UNCHANGED <<server, req, earlier>>
    BY <1>5 DEF SaveLead
  <2>2. DOMAIN leads' = DOMAIN leads
    BY <1>5 DEF SaveLead
  <2>3. \A r \in DOMAIN leads : leads'[r].email = leads[r].email
    BY <1>5 DEF SaveLead, Changed
  <2>4. Advances(c, "answering")
    BY <2>1, <2>2, <2>3
  <2> QED
    BY <2>4
<1>6. CASE Tasks(c)
  <2>1. CASE LoadTask(c)
    <3>1. Advances(c, "loaded")
      BY <2>1 DEF LoadTask
    <3> QED
      BY <3>1
  <2>2. CASE CreateTask(c) \/ TaskUnknown(c) \/ SaveTask(c) \/ ReadTasks(c)
    <3>1. Advances(c, "answering")
      BY <2>2 DEF CreateTask, TaskUnknown, SaveTask, ReadTasks
    <3> QED
      BY <3>1
  <2> QED
    BY <1>6, <2>1, <2>2 DEF Tasks
<1>7. CASE Calendar(c)
  <2>1. CASE FindConflicts(c)
    <3>1. Advances(c, "checked")
      BY <2>1 DEF FindConflicts
    <3> QED
      BY <3>1
  <2>2. CASE InsertEvent(c) \/ ReadToday(c)
    <3>1. Advances(c, "answering")
      BY <2>2 DEF InsertEvent, ReadToday
    <3> QED
      BY <3>1
  <2> QED
    BY <1>7, <2>1, <2>2 DEF Calendar
<1>8. CASE Spreadsheets(c)
  <2>1. CASE SumTotals(c)
    <3>1. Advances(c, "totalled")
      BY <2>1 DEF SumTotals, Report
    <3> QED
      BY <3>1
  <2>2. CASE SumProducts(c)
    <3>1. Advances(c, "grouped")
      BY <2>2 DEF SumProducts, Report
    <3> QED
      BY <3>1
  <2>3. CASE SumRegions(c)
    <3>1. Advances(c, "answering") \/ Advances(c, "compared")
      BY <2>3 DEF SumRegions, Report
    <3> QED
      BY <3>1
  <2>4. CASE InsertSale(c) \/ SumPrevious(c)
    <3>1. Advances(c, "answering")
      BY <2>4 DEF InsertSale, SumPrevious, Report
    <3> QED
      BY <3>1
  <2> QED
    BY <1>8, <2>1, <2>2, <2>3, <2>4 DEF Spreadsheets
<1>9. CASE Email(c) \/ DbFails(c)
  <2>1. Advances(c, "answering")
    BY <1>9 DEF Email, Draft, Send, SendFails, DbFails
  <2> QED
    BY <2>1
<1>10. CASE Answer(c) \/ Lose(c)
  <2>1. Advances(c, "over")
    BY <1>10 DEF Answer, Lose
  <2> QED
    BY <2>1
<1> QED
  BY <1>1, <1>2, <1>3, <1>4, <1>5, <1>6, <1>7, <1>8, <1>9, <1>10

LEMMA BeginStep == ASSUME LeadInv, NEW c \in Calls, Begin(c) PROVE LeadInv'
<1> USE DEF LeadInv, Begin, tables
<1>1. PICK r \in Served(server) : req' = [req EXCEPT ![c] = r]
  OBVIOUS
<1>2. /\ stage[c] = "idle" /\ stage' = [stage EXCEPT ![c] = "called"]
      /\ earlier' = [earlier EXCEPT ![c] = {d \in Calls : stage[d] = "over"}]
      /\ UNCHANGED <<server, leads>>
  OBVIOUS
<1>3. r \in Requests /\ req' \in [Calls -> Requests \cup {Pending}]
  <2>1. r \in Requests
    BY <1>1 DEF Requests
  <2> QED
    BY <1>1, <2>1
<1>4. c \notin DOMAIN leads
  BY <1>2
<1>5. stage' \in [Calls -> InSession \cup {"idle", "answering", "over"}]
  BY <1>2 DEF InSession
<1>6. \A b \in Calls : /\ stage'[b] = "idle" => earlier'[b] = {}
                       /\ \A a \in earlier'[b] : stage'[a] = "over"
  BY <1>2
<1>7. \A a \in DOMAIN leads \cap Calls : req'[a] = req[a] /\ stage'[a] = stage[a]
  BY <1>1, <1>2, <1>4
<1>8. \A b \in Calls : stage'[b] = "absent" =>
        Fitting(leads, req[b].email) \cap earlier[b] = {} /\ req'[b] = req[b]
          /\ earlier'[b] = earlier[b]
  BY <1>1, <1>2
<1>9. \A e : Fitting(leads', e) = Fitting(leads, e)
  BY <1>2 DEF Fitting
<1>10. earlier' \in [Calls -> SUBSET Calls]
  BY <1>2
<1> QED
  BY <1>2, <1>3, <1>5, <1>6, <1>7, <1>8, <1>9, <1>10 DEF Creates

(* The new lead is one that no call before this one has made.              *)
LEMMA InsertStep ==
  ASSUME LeadInv, DuplicatesOverlap, NEW c \in Calls, InsertLead(c)
  PROVE  LeadInv' /\ DuplicatesOverlap'
<1> USE DEF LeadInv
<1>1. /\ stage[c] = "absent" /\ Creates(c)
      /\ stage' = [stage EXCEPT ![c] = "answering"]
      /\ UNCHANGED <<server, req, earlier>>
  BY DEF InsertLead, At, Finish, Creates
<1>2. c \notin DOMAIN leads
  BY <1>1
<1>3. /\ DOMAIN leads' = DOMAIN leads \cup {c}
      /\ leads'[c].email = Normal[req[c].email]
      /\ \A r \in DOMAIN leads : leads'[r] = leads[r]
  BY <1>2 DEF InsertLead, Insert
<1>4. \A b \in Calls : c \notin earlier[b]
  BY <1>1
<1>5. LeadInv'
  <2>1. stage' \in [Calls -> InSession \cup {"idle", "answering", "over"}]
    BY <1>1
  <2>2. \A b \in Calls : /\ stage'[b] = "idle" => earlier'[b] = {}
                         /\ \A a \in earlier'[b] : stage'[a] = "over"
    BY <1>1, <1>4
  <2>3. \A a \in DOMAIN leads' \cap Calls : /\ stage'[a] \in {"answering", "over"}
                                            /\ Creates(a)'
                                            /\ leads'[a].email = Normal[req'[a].email]
    BY <1>1, <1>3 DEF Creates
  <2>4. \A b \in Calls : stage'[b] = "absent" =>
          Fitting(leads', req'[b].email) \cap earlier'[b] = {}
    <3>1. \A e : Fitting(leads', e) \subseteq Fitting(leads, e) \cup {c}
      BY <1>3 DEF Fitting
    <3> QED
      BY <1>1, <1>4, <3>1
  <2> QED
    BY <1>1, <2>1, <2>2, <2>3, <2>4
<1>6. ASSUME NEW a \in DOMAIN leads \cap Calls, leads[a].email = leads'[c].email
      PROVE  a \notin earlier[c]
  <2>1. req[c].email \in Spellings
    <3>1. req[c] \in Requests
      BY <1>1 DEF Creates, Pending
    <3> QED
      BY <1>1, <3>1, Addresses DEF Creates
  <2>2. a \in Fitting(leads, req[c].email)
    BY <1>3, <1>6, <2>1, SpellingsAssumption DEF Fitting
  <2> QED
    BY <1>1, <2>2
<1>7. DuplicatesOverlap'
  BY <1>1, <1>3, <1>4, <1>6 DEF DuplicatesOverlap, Overlap
<1> QED
  BY <1>5, <1>7

LEMMA LeadStep == LeadInv /\ DuplicatesOverlap /\ [Next]_vars => (LeadInv /\ DuplicatesOverlap)'
<1> SUFFICES ASSUME LeadInv, DuplicatesOverlap, [Next]_vars
             PROVE  LeadInv' /\ DuplicatesOverlap'
  OBVIOUS
<1>1. ASSUME NEW c \in Calls, Begin(c) PROVE LeadInv' /\ DuplicatesOverlap'
  <2>1. stage[c] = "idle" /\ UNCHANGED leads
        /\ earlier' = [earlier EXCEPT ![c] = {d \in Calls : stage[d] = "over"}]
    BY <1>1 DEF Begin, tables
  <2>2. \A a \in DOMAIN leads \cap Calls : earlier'[a] = earlier[a]
    BY <2>1 DEF LeadInv
  <2>3. DuplicatesOverlap'
    BY <2>1, <2>2 DEF DuplicatesOverlap, Overlap
  <2> QED
    BY <1>1, <2>3, BeginStep
<1>2. ASSUME NEW c \in Calls, InsertLead(c) PROVE LeadInv' /\ DuplicatesOverlap'
  BY <1>2, InsertStep
<1>3. ASSUME NEW c \in Calls,
             \/ Refuse(c) \/ FindLead(c) \/ ReturnExisting(c) \/ ReadLeads(c) \/ LoadLead(c)
             \/ LeadUnknown(c) \/ SaveLead(c) \/ Tasks(c) \/ Calendar(c) \/ Spreadsheets(c)
             \/ Email(c) \/ DbFails(c) \/ Answer(c) \/ Lose(c)
      PROVE  LeadInv' /\ DuplicatesOverlap'
  <2>1. PICK x : Advances(c, x)
    BY <1>3, Advance
  <2>2. DuplicatesOverlap'
    BY <2>1 DEF Advances, DuplicatesOverlap, Overlap
  <2> QED
    BY <2>1, <2>2, AdvanceStep
<1>4. CASE UNCHANGED vars
  BY <1>4 DEF vars, LeadInv, DuplicatesOverlap, Overlap, Creates, Fitting
<1> QED
  BY <1>1, <1>2, <1>3, <1>4 DEF Next, Crm, Over

(* A create repeated after it ended adds no second lead, whatever other    *)
(* calls, faults and spellings there are.                                  *)
THEOREM RepeatedCreate == Spec => []DuplicatesOverlap
<1>1. Init => LeadInv /\ DuplicatesOverlap
  <2>1. Init => DuplicatesOverlap
    BY SpellingsAssumption DEF Init, DuplicatesOverlap
  <2> QED
    BY <2>1, LeadInit
<1> QED
  BY <1>1, LeadStep, PTL DEF Spec

-----------------------------------------------------------------------------
(* Tasks and bookings.                                                     *)

(* What a call loaded before it changes a lead is a lead.                  *)
CallInv ==
  /\ TypeOK /\ DOMAIN seen = Calls
  /\ \A r \in DOMAIN leads : {"status", "notes"} \subseteq DOMAIN leads[r]
  /\ \A c \in Calls : At(c, "loaded", "update_lead_status") => seen[c].notes \subseteq Calls

(* A task with a time of completion is done; and a call that is about to   *)
(* complete a task knows of a completion by a call before it.              *)
DoneInv ==
  /\ \A t \in DOMAIN tasks : /\ t \in Calls => stage[t] \in {"answering", "over"}
                             /\ tasks[t].completed # None => tasks[t].status = "done"
  /\ \A c \in Calls : At(c, "loaded", "complete_task") =>
       LET t == req[c].task
       IN  /\ t \in DOMAIN tasks
           /\ tasks[t].completed # None /\ tasks[t].completed \in earlier[c]
                => seen[c].status = "done"

(* A call that has looked for conflicts was shown events that clash with   *)
(* its own, and noticed all of those that were booked before it.           *)
Knows(c) ==
  /\ \A a \in seen[c] : /\ a \in DOMAIN events
                        /\ events[a].from < req[c].slot[2] /\ events[a].to > req[c].slot[1]
  /\ \A a \in earlier[c] \cap DOMAIN events :
       events[a].from < req[c].slot[2] /\ events[a].to > req[c].slot[1] => Noticed(c, a)

BookingInv ==
  /\ \A b \in DOMAIN events :
       /\ stage[b] \in {"answering", "over"}
       /\ events[b].from = req[b].slot[1] /\ events[b].to = req[b].slot[2]
       /\ Knows(b)
  /\ \A b \in Calls : At(b, "checked", "create_event") => Knows(b)

WorkInv == LeadInv /\ DuplicatesOverlap /\ CallInv /\ DoneInv /\ BookingInv

LEMMA WorkInit == Init => WorkInv
<1> SUFFICES ASSUME Init PROVE WorkInv
  OBVIOUS
<1>1. LeadInv
  BY LeadInit
<1>2. DuplicatesOverlap
  BY SpellingsAssumption DEF Init, DuplicatesOverlap
<1>3. TypeOK
  <2>1. /\ DOMAIN leads = {Seed} /\ leads[Seed].status = "new" /\ leads[Seed].notes = {}
        /\ DOMAIN tasks = {Seed} /\ tasks[Seed].status = "open" /\ tasks[Seed].completed = None
        /\ DOMAIN events = {} /\ DOMAIN sales = {} /\ \A c \in Calls : answer[c] = "none"
        /\ answer \in [Calls -> {"none"}]
    BY DEF Init
  <2> QED
    BY <1>1, <2>1 DEF LeadInv, TypeOK, Rows, LeadStatuses, OpenStatuses
<1>4. CallInv
  BY <1>3 DEF Init, CallInv, At
<1>5. DoneInv
  BY SpellingsAssumption DEF Init, DoneInv, At
<1>6. BookingInv
  BY DEF Init, BookingInv, At
<1> QED
  BY <1>1, <1>2, <1>4, <1>5, <1>6 DEF WorkInv

(* What every action of a call but its arrival does.                       *)
Moves(c) ==
  /\ stage[c] \notin {"idle", "over"}
  /\ UNCHANGED <<server, req, earlier>>
  /\ stage' \in [Calls -> InSession \cup {"idle", "answering", "over"}]
  /\ DOMAIN seen' = Calls
  /\ stage'[c] # "idle"
  /\ \A b \in Calls \ {c} : stage'[b] = stage[b] /\ seen'[b] = seen[b]
  /\ stage[c] = "answering" => stage'[c] = "over" /\ seen' = seen

(* The actions that neither load, change nor book anything.                *)
Idles(c) ==
  /\ Moves(c)
  /\ stage'[c] \notin {"loaded", "checked"}
  /\ UNCHANGED <<tasks, events>>

Others(c) ==
  \/ Refuse(c) \/ FindLead(c) \/ ReturnExisting(c) \/ InsertLead(c) \/ ReadLeads(c)
  \/ LeadUnknown(c) \/ SaveLead(c) \/ TaskUnknown(c) \/ ReadTasks(c) \/ ReadToday(c)
  \/ Spreadsheets(c) \/ Email(c) \/ DbFails(c) \/ Answer(c) \/ Lose(c)

LEMMA OthersIdle == ASSUME WorkInv, NEW c \in Calls, Others(c) PROVE Idles(c)
<1> USE DEF Idles, Moves, At, Finish, Proceed, tables, InSession
<1>1. /\ stage \in [Calls -> InSession \cup {"idle", "answering", "over"}]
      /\ DOMAIN seen = Calls
  BY DEF WorkInv, LeadInv, CallInv
<1>2. CASE Refuse(c) \/ FindLead(c) \/ ReturnExisting(c) \/ ReadLeads(c) \/ LeadUnknown(c)
  BY <1>1, <1>2 DEF Refuse, FindLead, ReturnExisting, ReadLeads, LeadUnknown
<1>3. CASE InsertLead(c)
  BY <1>1, <1>3 DEF InsertLead
<1>4. CASE SaveLead(c)
  BY <1>1, <1>4 DEF SaveLead
<1>5. CASE TaskUnknown(c) \/ ReadTasks(c) \/ ReadToday(c)
  BY <1>1, <1>5 DEF TaskUnknown, ReadTasks, ReadToday
<1>6. CASE Spreadsheets(c)
  <2>1. CASE InsertSale(c)
    BY <1>1, <2>1 DEF InsertSale
  <2>2. CASE SumTotals(c) \/ SumProducts(c)
    BY <1>1, <2>2 DEF SumTotals, SumProducts, Report
  <2>3. CASE SumRegions(c)
    BY <1>1, <2>3 DEF SumRegions, Report
  <2>4. CASE SumPrevious(c)
    BY <1>1, <2>4 DEF SumPrevious, Report
  <2> QED
    BY <1>6, <2>1, <2>2, <2>3, <2>4 DEF Spreadsheets
<1>7. CASE Email(c)
  BY <1>1, <1>7 DEF Email, Draft, Send, SendFails
<1>8. CASE DbFails(c)
  BY <1>1, <1>8 DEF DbFails
<1>9. CASE Answer(c) \/ Lose(c)
  BY <1>1, <1>9 DEF Answer, Lose
<1> QED
  BY <1>2, <1>3, <1>4, <1>5, <1>6, <1>7, <1>8, <1>9 DEF Others

LEMMA TasksMove ==
  ASSUME WorkInv, NEW c \in Calls, CreateTask(c) \/ LoadTask(c) \/ SaveTask(c)
  PROVE  Moves(c) /\ UNCHANGED events /\ stage'[c] # "checked"
<1>1. /\ stage \in [Calls -> InSession \cup {"idle", "answering", "over"}]
      /\ DOMAIN seen = Calls
  BY DEF WorkInv, LeadInv, CallInv
<1> QED
  BY <1>1 DEF CreateTask, LoadTask, SaveTask, Moves, At, Finish, Proceed, tables, InSession

LEMMA BookingsMove ==
  ASSUME WorkInv, NEW c \in Calls, LoadLead(c) \/ FindConflicts(c) \/ InsertEvent(c)
  PROVE  Moves(c) /\ UNCHANGED tasks
<1>1. /\ stage \in [Calls -> InSession \cup {"idle", "answering", "over"}]
      /\ DOMAIN seen = Calls
  BY DEF WorkInv, LeadInv, CallInv
<1> QED
  BY <1>1 DEF LoadLead, FindConflicts, InsertEvent, Moves, At, Finish, Proceed, tables, InSession

-----------------------------------------------------------------------------
LEMMA DoneMove ==
  ASSUME WorkInv, NEW c \in Calls, Moves(c), UNCHANGED tasks,
         ~ (stage'[c] = "loaded" /\ req[c].tool = "complete_task") \/ LoadTask(c)
  PROVE  DoneInv'
<1> USE DEF WorkInv, DoneInv, Moves
<1>1. \A t \in DOMAIN tasks' : /\ t \in Calls => stage'[t] \in {"answering", "over"}
                               /\ tasks'[t].completed # None => tasks'[t].status = "done"
  OBVIOUS
<1>2. ASSUME NEW b \in Calls, At(b, "loaded", "complete_task")'
      PROVE  LET t == req'[b].task
             IN  /\ t \in DOMAIN tasks'
                 /\ tasks'[t].completed # None /\ tasks'[t].completed \in earlier'[b]
                      => seen'[b].status = "done"
  <2>1. CASE b # c
    BY <1>2, <2>1 DEF At, Acceptable
  <2>2. CASE b = c
    <3>1. LoadTask(c)
      BY <1>2, <2>2 DEF At
    <3>2. req[c].task \in DOMAIN tasks /\ seen'[c] = tasks[req[c].task]
      BY <3>1 DEF LoadTask, Proceed, CallInv
    <3> QED
      BY <2>2, <3>2
  <2> QED
    BY <2>1, <2>2
<1> QED
  BY <1>1, <1>2

LEMMA DoneCreate == ASSUME WorkInv, NEW c \in Calls, CreateTask(c) PROVE DoneInv'
<1> USE DEF WorkInv, DoneInv
<1>1. Moves(c)
  BY TasksMove
<1>2. stage[c] = "called" /\ stage'[c] = "answering" /\ seen' = seen
  BY DEF CreateTask, At, Finish, LeadInv
<1>3. /\ c \notin DOMAIN tasks /\ DOMAIN tasks' = DOMAIN tasks \cup {c}
      /\ \A t \in DOMAIN tasks : tasks'[t] = tasks[t]
      /\ tasks'[c].completed = None
  BY <1>2 DEF CreateTask, Insert
<1>4. \A t \in DOMAIN tasks' : /\ t \in Calls => stage'[t] \in {"answering", "over"}
                               /\ tasks'[t].completed # None => tasks'[t].status = "done"
  BY <1>1, <1>2, <1>3 DEF Moves
<1>5. ASSUME NEW b \in Calls, At(b, "loaded", "complete_task")'
      PROVE  LET t == req'[b].task
             IN  /\ t \in DOMAIN tasks'
                 /\ tasks'[t].completed # None /\ tasks'[t].completed \in earlier'[b]
                      => seen'[b].status = "done"
  <2>1. b # c /\ At(b, "loaded", "complete_task")
    BY <1>1, <1>2, <1>5 DEF Moves, At, Acceptable
  <2> QED
    BY <1>1, <1>3, <2>1 DEF Moves
<1> QED
  BY <1>4, <1>5

(* A call that completes a task is before no other call.                   *)
LEMMA DoneSave == ASSUME WorkInv, NEW c \in Calls, SaveTask(c) PROVE DoneInv'
<1> USE DEF WorkInv, DoneInv
<1> DEFINE t == req[c].task
<1>1. Moves(c)
  BY TasksMove
<1>2. /\ stage[c] = "loaded" /\ stage'[c] = "answering" /\ seen' = seen
      /\ t \in DOMAIN tasks
  BY DEF SaveTask, At, Finish, LeadInv
<1>3. /\ DOMAIN tasks' = DOMAIN tasks
      /\ \A u \in DOMAIN tasks : \/ tasks'[u] = tasks[u]
                                 \/ tasks'[u].status = "done" /\ tasks'[u].completed = c
  BY <1>2 DEF SaveTask, DoneBy
<1>4. \A b \in Calls : c \notin earlier[b]
  BY <1>2 DEF LeadInv
<1>5. \A u \in DOMAIN tasks' : /\ u \in Calls => stage'[u] \in {"answering", "over"}
                               /\ tasks'[u].completed # None => tasks'[u].status = "done"
  BY <1>1, <1>2, <1>3 DEF Moves
<1>6. ASSUME NEW b \in Calls, At(b, "loaded", "complete_task")'
      PROVE  LET u == req'[b].task
             IN  /\ u \in DOMAIN tasks'
                 /\ tasks'[u].completed # None /\ tasks'[u].completed \in earlier'[b]
                      => seen'[b].status = "done"
  <2>1. b # c /\ At(b, "loaded", "complete_task")
    BY <1>1, <1>2, <1>6 DEF Moves, At, Acceptable
  <2> QED
    BY <1>1, <1>2, <1>3, <1>4, <2>1 DEF Moves
<1> QED
  BY <1>5, <1>6

(* A page of a listing has rows of it, and a row that is not on it is not  *)
(* before any that is.                                                     *)
LEMMA PageNotices ==
  ASSUME NEW S, NEW rank, NEW limit, NEW K \in Page(S, rank, limit)
  PROVE  /\ K \subseteq S
         /\ \A r \in S : r \in K \/ (Cardinality(K) = limit /\ \A k \in K : rank[k] <= rank[r])
BY DEF Page

(* What a call knows stays so, while its events stay.                      *)
LEMMA KnowsMore ==
  ASSUME NEW c, Knows(c), req'[c] = req[c], seen'[c] = seen[c], earlier'[c] = earlier[c],
         DOMAIN events \subseteq DOMAIN events', \A e \in DOMAIN events : events'[e] = events[e],
         \A e \in DOMAIN events' : e \in earlier[c] => e \in DOMAIN events
  PROVE  Knows(c)'
<1>1. \A a \in DOMAIN events : Noticed(c, a) => Noticed(c, a)'
  BY DEF Noticed, Knows
<1> QED
  BY <1>1 DEF Knows

LEMMA BookingMove ==
  ASSUME WorkInv, NEW c \in Calls, Moves(c), UNCHANGED events,
         ~ (stage'[c] = "checked" /\ req[c].tool = "create_event") \/ FindConflicts(c)
  PROVE  BookingInv'
<1> USE DEF WorkInv, BookingInv, Moves
<1>1. \A b \in DOMAIN events : b \in Calls /\ seen'[b] = seen[b]
                               /\ stage'[b] \in {"answering", "over"}
  BY DEF CallInv, TypeOK
<1>2. \A b \in DOMAIN events : Knows(b)'
  BY <1>1, KnowsMore
<1>3. ASSUME NEW b \in Calls, At(b, "checked", "create_event")'
      PROVE  Knows(b)'
  <2>1. CASE b # c
    <3>1. At(b, "checked", "create_event")
      BY <1>3, <2>1 DEF At, Acceptable
    <3> QED
      BY <2>1, <3>1, KnowsMore
  <2>2. CASE b = c
    <3> DEFINE clashing == ListEvents(events, req[c].slot[1], req[c].slot[2])
               begin == [r \in DOMAIN events |-> events[r].from]
    <3>1. FindConflicts(c)
      BY <1>3, <2>2 DEF At
    <3>2. seen'[c] \in Page(clashing, begin, ConflictLimit)
      BY <3>1 DEF FindConflicts, Conflicts, Proceed, CallInv
    <3>3. clashing = {r \in DOMAIN events : /\ events[r].from < req[c].slot[2]
                                            /\ events[r].to > req[c].slot[1]}
      BY DEF ListEvents
    <3>4. \A r \in DOMAIN events : begin[r] = events[r].from
      OBVIOUS
    <3> HIDE DEF clashing, begin
    <3>5. /\ seen'[c] \subseteq clashing
          /\ \A r \in clashing : \/ r \in seen'[c]
                                 \/ /\ Cardinality(seen'[c]) = ConflictLimit
                                    /\ \A k \in seen'[c] : begin[k] <= begin[r]
      BY <3>2, PageNotices
    <3>6. \A a \in clashing : Noticed(c, a)'
      BY <3>3, <3>4, <3>5 DEF Noticed
    <3> QED
      BY <2>2, <3>3, <3>5, <3>6 DEF Knows
  <2> QED
    BY <2>1, <2>2
<1> QED
  BY <1>1, <1>2, <1>3

LEMMA BookingInsert == ASSUME WorkInv, NEW c \in Calls, InsertEvent(c) PROVE BookingInv'
<1> USE DEF WorkInv, BookingInv
<1>1. Moves(c)
  BY BookingsMove
<1>2. /\ stage[c] = "checked" /\ stage'[c] = "answering" /\ seen' = seen /\ Knows(c)
  BY DEF InsertEvent, At, Finish, LeadInv
<1>3. /\ c \notin DOMAIN events /\ DOMAIN events' = DOMAIN events \cup {c}
      /\ \A b \in DOMAIN events : events'[b] = events[b]
      /\ events'[c].from = req[c].slot[1] /\ events'[c].to = req[c].slot[2]
  BY <1>2 DEF InsertEvent, Insert
<1>4. \A b \in Calls : c \notin earlier[b]
  BY <1>2 DEF LeadInv
<1>5. \A b \in Calls : Knows(b) => Knows(b)'
  BY <1>1, <1>2, <1>3, <1>4, KnowsMore DEF Moves
<1>6. DOMAIN events \subseteq Calls
  BY DEF CallInv, TypeOK
<1>7. \A b \in DOMAIN events' : /\ stage'[b] \in {"answering", "over"} /\ Knows(b)'
                                /\ events'[b].from = req'[b].slot[1]
                                /\ events'[b].to = req'[b].slot[2]
  BY <1>1, <1>2, <1>3, <1>5, <1>6 DEF Moves
<1>8. ASSUME NEW b \in Calls, At(b, "checked", "create_event")' PROVE Knows(b)'
  <2>1. At(b, "checked", "create_event")
    BY <1>1, <1>2, <1>8 DEF Moves, At, Acceptable
  <2> QED
    BY <1>5, <2>1
<1> QED
  BY <1>7, <1>8

LEMMA WorkBegin == ASSUME WorkInv, NEW c \in Calls, Begin(c) PROVE DoneInv' /\ BookingInv'
<1> USE DEF WorkInv
<1>1. /\ stage[c] = "idle" /\ stage'[c] = "called" /\ UNCHANGED <<seen, tasks, events>>
      /\ \A b \in Calls \ {c} : /\ stage'[b] = stage[b] /\ req'[b] = req[b]
                                 /\ earlier'[b] = earlier[b]
  BY DEF Begin, tables, LeadInv
<1>2. c \notin DOMAIN tasks /\ c \notin DOMAIN events /\ DOMAIN events \subseteq Calls
  BY <1>1 DEF DoneInv, BookingInv, CallInv, TypeOK
<1>3. \A n : \A b \in Calls, s \in {"loaded", "checked"} :
        At(b, s, n)' => b # c /\ At(b, s, n)
  BY <1>1 DEF At, Acceptable
<1>4. DoneInv'
  BY <1>1, <1>2, <1>3 DEF DoneInv
<1>5. \A b \in Calls \ {c} : Knows(b) => Knows(b)'
  BY <1>1, KnowsMore
<1>6. BookingInv'
  BY <1>1, <1>2, <1>3, <1>5 DEF BookingInv
<1> QED
  BY <1>4, <1>6

-----------------------------------------------------------------------------
Answered == answer \in [Calls -> {"none", "refused", "failed", "lost", "existing", "created",
                                  "updated", "completed", "listed", "reported", "drafted",
                                  "sent"}]

LeadTypes ==
  /\ DOMAIN leads \subseteq Rows
  /\ \A r \in DOMAIN leads : /\ {"status", "notes"} \subseteq DOMAIN leads[r]
                             /\ leads[r].status \in LeadStatuses /\ leads[r].notes \subseteq Calls

TaskTypes ==
  /\ DOMAIN tasks \subseteq Rows
  /\ \A r \in DOMAIN tasks :
       tasks[r].status \in OpenStatuses \cup {"done"} /\ tasks[r].completed \in Calls \cup {None}

LEMMA OthersAnswer == ASSUME WorkInv, NEW c \in Calls, Others(c) PROVE Answered'
<1> USE DEF Answered, Finish, Proceed
<1>1. Answered
  BY DEF WorkInv, CallInv, TypeOK
<1>2. CASE Refuse(c) \/ FindLead(c) \/ ReturnExisting(c) \/ InsertLead(c) \/ ReadLeads(c)
  BY <1>1, <1>2 DEF Refuse, FindLead, ReturnExisting, InsertLead, ReadLeads
<1>3. CASE LeadUnknown(c) \/ SaveLead(c) \/ TaskUnknown(c) \/ ReadTasks(c) \/ ReadToday(c)
  BY <1>1, <1>3 DEF LeadUnknown, SaveLead, TaskUnknown, ReadTasks, ReadToday
<1>4. CASE Spreadsheets(c)
  <2>1. CASE InsertSale(c) \/ SumTotals(c) \/ SumProducts(c)
    BY <1>1, <2>1 DEF InsertSale, SumTotals, SumProducts
  <2>2. CASE SumRegions(c) \/ SumPrevious(c)
    BY <1>1, <2>2 DEF SumRegions, SumPrevious
  <2> QED
    BY <1>4, <2>1, <2>2 DEF Spreadsheets
<1>5. CASE Email(c)
  BY <1>1, <1>5 DEF Email, Draft, Send, SendFails
<1>6. CASE DbFails(c) \/ Answer(c) \/ Lose(c)
  BY <1>1, <1>6 DEF DbFails, Answer, Lose
<1> QED
  BY <1>2, <1>3, <1>4, <1>5, <1>6 DEF Others

(* Leads are inserted by a create and changed by an update that loaded     *)
(* them; every other action leaves the table alone.                        *)
LEMMA LeadsTyped ==
  ASSUME WorkInv, NEW c \in Calls, InsertLead(c) \/ SaveLead(c) PROVE LeadTypes'
<1>1. LeadTypes
  BY DEF WorkInv, CallInv, TypeOK, LeadTypes
<1>2. CASE InsertLead(c)
  <2>1. /\ DOMAIN leads' = DOMAIN leads \cup {c}
        /\ {"status", "notes"} \subseteq DOMAIN leads'[c]
        /\ leads'[c].status = "new" /\ leads'[c].notes = {}
        /\ \A r \in DOMAIN leads \ {c} : leads'[r] = leads[r]
    BY <1>2 DEF InsertLead, Insert
  <2> QED
    BY <1>1, <2>1 DEF LeadTypes, Rows, LeadStatuses
<1>3. CASE SaveLead(c)
  <2>1. req[c] \in Requests /\ req[c].tool = "update_lead_status"
    BY <1>3 DEF SaveLead, At, WorkInv, LeadInv, Pending
  <2>2. req[c].status \in LeadStatuses
    BY <2>1, Updating
  <2>3. seen[c].notes \subseteq Calls
    BY <1>3 DEF SaveLead, WorkInv, CallInv
  <2>4. /\ DOMAIN leads' = DOMAIN leads
        /\ \A r \in DOMAIN leads :
             \/ leads'[r] = leads[r]
             \/ /\ DOMAIN leads'[r] = DOMAIN leads[r]
                /\ leads'[r].status \in {req[c].status, leads[r].status}
                /\ leads'[r].notes \in {seen[c].notes \cup {c}, leads[r].notes}
    <3>1. \A r \in DOMAIN leads : {"status", "notes"} \subseteq DOMAIN leads[r]
      BY <1>1 DEF LeadTypes
    <3> QED
      BY <1>3, <3>1 DEF SaveLead, Changed, AppendNote
  <2> QED
    BY <1>1, <2>2, <2>3, <2>4 DEF LeadTypes
<1> QED
  BY <1>2, <1>3

LEMMA TasksTyped ==
  ASSUME WorkInv, NEW c \in Calls, CreateTask(c) \/ SaveTask(c) PROVE TaskTypes'
<1>1. TaskTypes
  BY DEF WorkInv, CallInv, TypeOK, TaskTypes
<1>2. CASE CreateTask(c)
  <2>1. /\ DOMAIN tasks' = DOMAIN tasks \cup {c}
        /\ tasks'[c].status = "open" /\ tasks'[c].completed = None
        /\ \A r \in DOMAIN tasks \ {c} : tasks'[r] = tasks[r]
    BY <1>2 DEF CreateTask, Insert
  <2> QED
    BY <1>1, <2>1 DEF TaskTypes, Rows, OpenStatuses
<1>3. CASE SaveTask(c)
  <2>1. /\ DOMAIN tasks' = DOMAIN tasks
        /\ \A r \in DOMAIN tasks :
             \/ tasks'[r] = tasks[r]
             \/ tasks'[r].status = "done" /\ tasks'[r].completed = c
    BY <1>3 DEF SaveTask, DoneBy
  <2> QED
    BY <1>1, <2>1 DEF TaskTypes
<1> QED
  BY <1>2, <1>3

(* What the actions leave alone of leads, events and sales.                *)
LEMMA TablesTyped ==
  ASSUME WorkInv, NEW c \in Calls,
         Others(c) \/ CreateTask(c) \/ LoadTask(c) \/ SaveTask(c)
           \/ LoadLead(c) \/ FindConflicts(c) \/ InsertEvent(c)
  PROVE  LeadTypes' /\ DOMAIN events' \subseteq Calls /\ DOMAIN sales' \subseteq Calls
<1>1. LeadTypes /\ DOMAIN events \subseteq Calls /\ DOMAIN sales \subseteq Calls
  BY DEF WorkInv, CallInv, TypeOK, LeadTypes
<1>2. CASE UNCHANGED <<leads, events, sales>>
  BY <1>1, <1>2 DEF LeadTypes
<1>3. CASE InsertLead(c) \/ SaveLead(c)
  BY <1>1, <1>3, LeadsTyped DEF InsertLead, SaveLead
<1>4. CASE InsertSale(c)
  BY <1>1, <1>4 DEF InsertSale, Insert, LeadTypes
<1>5. CASE InsertEvent(c)
  BY <1>1, <1>5 DEF InsertEvent, Insert, LeadTypes
<1>6. CASE CreateTask(c) \/ LoadTask(c) \/ SaveTask(c) \/ LoadLead(c) \/ FindConflicts(c)
  BY <1>2, <1>6 DEF CreateTask, LoadTask, SaveTask, LoadLead, FindConflicts, Proceed, tables
<1>7. ASSUME Others(c), ~ InsertLead(c), ~ SaveLead(c), ~ InsertSale(c)
      PROVE  UNCHANGED <<leads, events, sales>>
  <2>1. CASE Spreadsheets(c)
    BY <1>7, <2>1 DEF Spreadsheets, SumTotals, SumProducts, SumRegions, SumPrevious, Proceed, tables
  <2>2. CASE Email(c)
    BY <2>2 DEF Email, Draft, Send, SendFails, tables
  <2> QED
    BY <1>7, <2>1, <2>2
       DEF Others, Refuse, FindLead, ReturnExisting, ReadLeads, LeadUnknown, TaskUnknown,
           ReadTasks, ReadToday, DbFails, Answer, Lose, Proceed, tables
<1> QED
  BY <1>2, <1>3, <1>4, <1>5, <1>6, <1>7

LEMMA CallMove ==
  ASSUME WorkInv, LeadInv', NEW c \in Calls, Moves(c), Answered', LeadTypes', TaskTypes',
         DOMAIN events' \subseteq Calls, DOMAIN sales' \subseteq Calls,
         ~ (stage'[c] = "loaded" /\ req[c].tool = "update_lead_status") \/ LoadLead(c)
  PROVE  CallInv'
<1>1. TypeOK'
  BY DEF LeadInv, Answered, LeadTypes, TaskTypes, TypeOK
<1>2. ASSUME NEW b \in Calls, At(b, "loaded", "update_lead_status")'
      PROVE  seen'[b].notes \subseteq Calls
  <2>1. CASE b # c
    <3>1. At(b, "loaded", "update_lead_status")
      BY <1>2, <2>1 DEF Moves, At, Acceptable
    <3> QED
      BY <2>1, <3>1 DEF WorkInv, CallInv, Moves
  <2>2. CASE b = c
    <3>1. LoadLead(c)
      BY <1>2, <2>2 DEF At, Moves
    <3>2. req[c].lead \in DOMAIN leads /\ seen'[c] = leads[req[c].lead]
      BY <3>1 DEF LoadLead, Proceed, WorkInv, CallInv
    <3> QED
      BY <2>2, <3>2 DEF WorkInv, CallInv, TypeOK
  <2> QED
    BY <2>1, <2>2
<1> QED
  BY <1>1, <1>2 DEF CallInv, Moves, LeadTypes

LEMMA CallBegin == ASSUME WorkInv, LeadInv', NEW c \in Calls, Begin(c) PROVE CallInv'
<1>1. /\ stage'[c] = "called" /\ UNCHANGED <<seen, answer, leads, tasks, events, sales>>
      /\ \A b \in Calls \ {c} : stage'[b] = stage[b] /\ req'[b] = req[b]
  BY DEF WorkInv, LeadInv, Begin, tables
<1>2. TypeOK'
  BY <1>1 DEF WorkInv, CallInv, LeadInv, TypeOK
<1>3. \A b \in Calls : At(b, "loaded", "update_lead_status")'
                       => b # c /\ At(b, "loaded", "update_lead_status")
  BY <1>1 DEF At, Acceptable
<1> QED
  BY <1>1, <1>2, <1>3 DEF WorkInv, CallInv

-----------------------------------------------------------------------------
LEMMA WorkStep == WorkInv /\ [Next]_vars => WorkInv'
<1> SUFFICES ASSUME WorkInv, [Next]_vars PROVE WorkInv'
  OBVIOUS
<1>1. LeadInv' /\ DuplicatesOverlap'
  BY LeadStep DEF WorkInv
<1>2. ASSUME NEW c \in Calls, Begin(c) PROVE CallInv' /\ DoneInv' /\ BookingInv'
  BY <1>1, <1>2, CallBegin, WorkBegin
<1>3. Answered /\ TaskTypes
  BY DEF WorkInv, CallInv, TypeOK, Answered, TaskTypes
<1>4. ASSUME NEW c \in Calls, Others(c) PROVE CallInv' /\ DoneInv' /\ BookingInv'
  <2>1. Idles(c) /\ Answered' /\ LeadTypes'
        /\ DOMAIN events' \subseteq Calls /\ DOMAIN sales' \subseteq Calls
    BY <1>4, OthersIdle, OthersAnswer, TablesTyped
  <2>2. TaskTypes'
    BY <1>3, <2>1 DEF Idles, TaskTypes
  <2> QED
    BY <1>1, <2>1, <2>2, CallMove, DoneMove, BookingMove DEF Idles
<1>5. ASSUME NEW c \in Calls, CreateTask(c) \/ LoadTask(c) \/ SaveTask(c)
      PROVE  CallInv' /\ DoneInv' /\ BookingInv'
  <2>1. Moves(c) /\ UNCHANGED events /\ stage'[c] # "checked" /\ LeadTypes'
        /\ DOMAIN events' \subseteq Calls /\ DOMAIN sales' \subseteq Calls
    BY <1>5, TasksMove, TablesTyped
  <2>2. Answered'
    BY <1>3, <1>5 DEF Answered, CreateTask, LoadTask, SaveTask, Finish, Proceed
  <2>3. TaskTypes'
    BY <1>3, <1>5, TasksTyped DEF TaskTypes, LoadTask, Proceed, tables
  <2>4. ~ (stage'[c] = "loaded" /\ req[c].tool = "update_lead_status")
    BY <1>5, <2>1 DEF CreateTask, LoadTask, SaveTask, At, Finish, Moves, WorkInv, LeadInv
  <2>5. DoneInv'
    <3>1. CASE LoadTask(c)
      BY <2>1, <3>1, DoneMove DEF LoadTask, Proceed, tables
    <3> QED
      BY <1>5, <3>1, DoneCreate, DoneSave
  <2> QED
    BY <1>1, <2>1, <2>2, <2>3, <2>4, <2>5, CallMove, BookingMove
<1>6. ASSUME NEW c \in Calls, LoadLead(c) \/ FindConflicts(c) \/ InsertEvent(c)
      PROVE  CallInv' /\ DoneInv' /\ BookingInv'
  <2>1. Moves(c) /\ UNCHANGED tasks /\ LeadTypes'
        /\ DOMAIN events' \subseteq Calls /\ DOMAIN sales' \subseteq Calls
    BY <1>6, BookingsMove, TablesTyped
  <2>2. Answered' /\ TaskTypes'
    BY <1>3, <1>6, <2>1
       DEF Answered, TaskTypes, LoadLead, FindConflicts, InsertEvent, Finish, Proceed
  <2>3. /\ ~ (stage'[c] = "loaded" /\ req[c].tool = "update_lead_status") \/ LoadLead(c)
        /\ ~ (stage'[c] = "loaded" /\ req[c].tool = "complete_task")
    BY <1>6, <2>1
       DEF LoadLead, FindConflicts, InsertEvent, At, Finish, Proceed, Moves, WorkInv, LeadInv
  <2>4. BookingInv'
    <3>1. CASE InsertEvent(c)
      BY <3>1, BookingInsert
    <3>2. CASE LoadLead(c) \/ FindConflicts(c)
      <4>1. UNCHANGED events
        BY <3>2 DEF LoadLead, FindConflicts, Proceed, tables
      <4>2. ~ (stage'[c] = "checked" /\ req[c].tool = "create_event") \/ FindConflicts(c)
        BY <3>2, <2>1 DEF LoadLead, At, Proceed, Moves
      <4> QED
        BY <2>1, <4>1, <4>2, BookingMove
    <3> QED
      BY <1>6, <3>1, <3>2
  <2> QED
    BY <1>1, <2>1, <2>2, <2>3, <2>4, CallMove, DoneMove
<1>7. CASE UNCHANGED vars
  BY <1>7 DEF WorkInv, CallInv, TypeOK, DoneInv, BookingInv, Knows, Noticed, At, Acceptable, vars,
              LeadInv, DuplicatesOverlap, Overlap, Creates, Fitting
<1> QED
  BY <1>1, <1>2, <1>4, <1>5, <1>6, <1>7
     DEF Next, Over, Others, Crm, Tasks, Calendar, WorkInv

(* The calls, what they hold and the tables of the server keep their types.*)
THEOREM TypeCorrect == Spec => []TypeOK
<1>1. WorkInv => TypeOK
  BY DEF WorkInv, CallInv
<1> QED
  BY <1>1, WorkInit, WorkStep, PTL DEF Spec

(* What a booking finds clashes with it, and of the events booked before   *)
(* it that clash it finds all, or as many as the search returns, none of   *)
(* which begins after one it does not find.                                *)
THEOREM ClashesNoticed == Spec => []ClashIsNoticed
<1>1. WorkInv => ClashIsNoticed
  <2> SUFFICES ASSUME WorkInv, NEW d \in DOMAIN events
               PROVE  /\ seen[d] \subseteq DOMAIN events
                      /\ \A e \in seen[d] : Clash(e, d)
                      /\ \A c \in DOMAIN events \cap earlier[d] : Clash(c, d) => Noticed(d, c)
    BY DEF ClashIsNoticed
  <2>1. /\ events[d].from = req[d].slot[1] /\ events[d].to = req[d].slot[2] /\ Knows(d)
    BY DEF WorkInv, BookingInv
  <2> QED
    BY <2>1 DEF Knows, Clash
<1> QED
  BY <1>1, WorkInit, WorkStep, PTL DEF Spec

(* A completion that was over before another call began keeps its time:    *)
(* completing a task again does not move it.                               *)
THEOREM CompletionStands == Spec => CompletionKept
<1> DEFINE Kept == \A t \in DOMAIN tasks :
                     LET first == tasks[t].completed
                         last == tasks'[t].completed
                     IN  first # None /\ last # first => Overlap(first, last)
<1>1. WorkInv /\ [Next]_vars => [Kept]_vars
  <2> SUFFICES ASSUME WorkInv, Next PROVE Kept
    OBVIOUS
  <2>1. ASSUME NEW c \in Calls, Begin(c) \/ Others(c) PROVE Kept
    BY <2>1, OthersIdle DEF Begin, tables, Idles
  <2>2. ASSUME NEW c \in Calls, LoadLead(c) \/ FindConflicts(c) \/ InsertEvent(c) PROVE Kept
    BY <2>2, BookingsMove
  <2>3. ASSUME NEW c \in Calls, LoadTask(c) PROVE Kept
    BY <2>3 DEF LoadTask, Proceed, tables
  <2>4. ASSUME NEW c \in Calls, CreateTask(c) PROVE Kept
    <3>1. c \notin DOMAIN tasks
      BY <2>4 DEF CreateTask, At, WorkInv, DoneInv
    <3> QED
      BY <2>4, <3>1 DEF CreateTask, Insert
  <2>5. ASSUME NEW c \in Calls, SaveTask(c), NEW t \in DOMAIN tasks,
               tasks[t].completed # None, tasks'[t].completed # tasks[t].completed
        PROVE  Overlap(tasks[t].completed, tasks'[t].completed)
    <3>1. t = req[c].task /\ NotDone(c) /\ tasks'[t].completed = c
      BY <2>5 DEF SaveTask, DoneBy
    <3>2. tasks[t].completed \in Calls
      BY <2>5 DEF WorkInv, CallInv, TypeOK
    <3>3. c \notin earlier[tasks[t].completed]
      BY <2>5, <3>2 DEF SaveTask, At, WorkInv, LeadInv
    <3>4. tasks[t].completed \notin earlier[c]
      BY <2>5, <3>1 DEF SaveTask, NotDone, WorkInv, DoneInv
    <3> QED
      BY <3>1, <3>3, <3>4 DEF Overlap
  <2>6. ASSUME NEW c \in Calls, SaveTask(c) PROVE Kept
    BY <2>5, <2>6
  <2>7. CASE UNCHANGED vars
    BY <2>7 DEF vars
  <2> QED
    BY <2>1, <2>2, <2>3, <2>4, <2>6, <2>7 DEF Next, Over, Others, Crm, Tasks, Calendar
<1>2. [][Kept]_vars => CompletionKept
  BY PTL DEF CompletionKept
<1> QED
  BY <1>1, <1>2, WorkInit, WorkStep, PTL DEF Spec

-----------------------------------------------------------------------------
(* Changes of leads.                                                       *)
Noted(c, l) == Updates(c, l) /\ req[c].note

(* The note of a call is in the history S, or a call that overlapped wrote *)
(* one over it.                                                            *)
NoteKept(c, l, S) ==
  c \in S \/ \E d \in Calls \ {c} : Noted(d, l) /\ Overlap(c, d)

(* A lead has the status v, or a call that is not before c changes it.     *)
StatusKept(c, l, v) ==
  leads[l].status = v \/ \E d \in Calls \ {c} : Updates(d, l) /\ d \notin earlier[c]

(* What an update answered stands; and a call that is about to update a    *)
(* lead has read the notes of the calls before it.                         *)
UpdateInv ==
  /\ \A c \in Calls : stage[c] = "idle" => req[c] = Pending
  /\ \A c \in Calls : answer[c] = "updated" => stage[c] \in {"answering", "over"}
  /\ \A l : \A c \in Calls : answer[c] = "updated" /\ Updates(c, l) =>
       /\ l \in DOMAIN leads
       /\ req[c].note => NoteKept(c, l, leads[l].notes)
       /\ StatusKept(c, l, req[c].status)
  /\ \A l : \A c \in Calls : stage[c] = "loaded" /\ Updates(c, l) =>
       /\ l \in DOMAIN leads
       /\ StatusKept(c, l, seen[c].status)
       /\ \A b \in earlier[c] :
            answer[b] = "updated" /\ Noted(b, l) => NoteKept(b, l, seen[c].notes)

(* The actions that change no lead and answer no update.                   *)
Spares(c) ==
  /\ Moves(c)
  /\ DOMAIN leads \subseteq DOMAIN leads' /\ \A r \in DOMAIN leads : leads'[r] = leads[r]
  /\ \A b \in Calls : answer'[b] = "updated" => answer[b] = "updated"

LEMMA OthersSpare ==
  ASSUME WorkInv, NEW c \in Calls,
         Others(c) \/ CreateTask(c) \/ LoadTask(c) \/ SaveTask(c)
           \/ LoadLead(c) \/ FindConflicts(c) \/ InsertEvent(c),
         ~ SaveLead(c)
  PROVE  Spares(c)
<1>1. Moves(c)
  BY OthersIdle, TasksMove, BookingsMove DEF Idles
<1>2. DOMAIN answer = Calls
  BY DEF WorkInv, CallInv, TypeOK
<1>3. \A b \in Calls : answer'[b] = "updated" => answer[b] = "updated"
  <2> USE DEF Finish, Proceed
  <2>1. CASE Refuse(c) \/ FindLead(c) \/ ReturnExisting(c) \/ InsertLead(c) \/ ReadLeads(c)
    BY <1>2, <2>1 DEF Refuse, FindLead, ReturnExisting, InsertLead, ReadLeads
  <2>2. CASE LeadUnknown(c) \/ TaskUnknown(c) \/ ReadTasks(c) \/ ReadToday(c)
    BY <1>2, <2>2 DEF LeadUnknown, TaskUnknown, ReadTasks, ReadToday
  <2>3. CASE Spreadsheets(c)
    <3>1. CASE InsertSale(c) \/ SumTotals(c) \/ SumProducts(c)
      BY <1>2, <3>1 DEF InsertSale, SumTotals, SumProducts
    <3>2. CASE SumRegions(c) \/ SumPrevious(c)
      BY <1>2, <3>2 DEF SumRegions, SumPrevious
    <3> QED
      BY <2>3, <3>1, <3>2 DEF Spreadsheets
  <2>4. CASE Email(c) \/ DbFails(c) \/ Answer(c) \/ Lose(c)
    BY <1>2, <2>4 DEF Email, Draft, Send, SendFails, DbFails, Answer, Lose
  <2>5. CASE CreateTask(c) \/ LoadTask(c) \/ SaveTask(c)
    BY <1>2, <2>5 DEF CreateTask, LoadTask, SaveTask
  <2>6. CASE LoadLead(c) \/ FindConflicts(c) \/ InsertEvent(c)
    BY <1>2, <2>6 DEF LoadLead, FindConflicts, InsertEvent
  <2> QED
    BY <2>1, <2>2, <2>3, <2>4, <2>5, <2>6 DEF Others
<1>4. DOMAIN leads \subseteq DOMAIN leads' /\ \A r \in DOMAIN leads : leads'[r] = leads[r]
  <2>1. CASE InsertLead(c)
    <3>1. c \notin DOMAIN leads
      BY <2>1 DEF InsertLead, At, WorkInv, LeadInv
    <3> QED
      BY <2>1, <3>1 DEF InsertLead, Insert
  <2>2. ASSUME ~ InsertLead(c) PROVE leads' = leads
    <3>1. CASE Spreadsheets(c)
      BY <3>1 DEF Spreadsheets, InsertSale, SumTotals, SumProducts, SumRegions, SumPrevious,
                  Proceed, tables
    <3>2. CASE Email(c)
      BY <3>2 DEF Email, Draft, Send, SendFails, tables
    <3>3. CASE CreateTask(c) \/ LoadTask(c) \/ SaveTask(c)
      BY <3>3 DEF CreateTask, LoadTask, SaveTask, Proceed, tables
    <3>4. CASE LoadLead(c) \/ FindConflicts(c) \/ InsertEvent(c)
      BY <3>4 DEF LoadLead, FindConflicts, InsertEvent, Proceed, tables
    <3> QED
      BY <2>2, <3>1, <3>2, <3>3, <3>4
         DEF Others, Refuse, FindLead, ReturnExisting, ReadLeads, LeadUnknown, TaskUnknown,
             ReadTasks, ReadToday, DbFails, Answer, Lose, Proceed, tables
  <2> QED
    BY <2>1, <2>2
<1> QED
  BY <1>1, <1>3, <1>4 DEF Spares

(* Who updates what, and what overlaps, does not change with a move.       *)
LEMMA KeptMoves ==
  ASSUME NEW c, Moves(c)
  PROVE  /\ \A b, l : /\ Updates(b, l)' <=> Updates(b, l)
                      /\ Noted(b, l)' <=> Noted(b, l)
         /\ \A b, l, S : NoteKept(b, l, S)' <=> NoteKept(b, l, S)
BY DEF Moves, Updates, Noted, NoteKept, Overlap

LEMMA UpdateSpared ==
  ASSUME WorkInv, UpdateInv, NEW c \in Calls, Spares(c),
         ~ (stage'[c] = "loaded" /\ req[c].tool = "update_lead_status") \/ LoadLead(c)
  PROVE  UpdateInv'
<1>1. Moves(c)
  BY DEF Spares
<1>2. \A b \in Calls : stage'[b] = "idle" => req'[b] = Pending
  BY <1>1 DEF Moves, UpdateInv, WorkInv, LeadInv, InSession
<1>3. \A b \in Calls : answer'[b] = "updated" => stage'[b] \in {"answering", "over"}
  BY <1>1 DEF Spares, Moves, UpdateInv
<1>4. ASSUME NEW b \in Calls, NEW l, answer'[b] = "updated", Updates(b, l)'
      PROVE  /\ l \in DOMAIN leads'
             /\ req'[b].note => NoteKept(b, l, leads[l].notes)' 
             /\ StatusKept(b, l, req[b].status)'
  <2>1. answer[b] = "updated" /\ Updates(b, l) /\ req'[b] = req[b]
    BY <1>1, <1>4, KeptMoves DEF Spares, Moves
  <2>2. /\ l \in DOMAIN leads /\ leads'[l] = leads[l]
        /\ req[b].note => NoteKept(b, l, leads[l].notes)
        /\ StatusKept(b, l, req[b].status)
    BY <2>1 DEF UpdateInv, Spares
  <2> QED
    BY <1>1, <2>1, <2>2, KeptMoves DEF Spares, Moves, StatusKept
<1>5. ASSUME NEW b \in Calls, NEW l, stage'[b] = "loaded", Updates(b, l)'
      PROVE  /\ l \in DOMAIN leads'
             /\ StatusKept(b, l, seen[b].status)'
             /\ \A a \in earlier'[b] :
                  answer'[a] = "updated" /\ Noted(a, l)' => NoteKept(a, l, seen[b].notes)'
  <2>1. Updates(b, l) /\ earlier' = earlier /\ earlier[b] \subseteq Calls
    BY <1>1, <1>5, KeptMoves DEF Moves, WorkInv, LeadInv
  <2>2. CASE b # c
    <3>1. /\ l \in DOMAIN leads /\ leads'[l] = leads[l] /\ seen'[b] = seen[b]
          /\ StatusKept(b, l, seen[b].status)
          /\ \A a \in earlier[b] :
               answer[a] = "updated" /\ Noted(a, l) => NoteKept(a, l, seen[b].notes)
      BY <1>5, <2>1, <2>2 DEF UpdateInv, Spares, Moves
    <3> QED
      BY <1>1, <2>1, <3>1, KeptMoves DEF Spares, Moves, StatusKept
  <2>3. CASE b = c
    <3>1. LoadLead(c)
      BY <1>5, <2>1, <2>3 DEF Updates
    <3>2. l \in DOMAIN leads /\ seen'[c] = leads[l] /\ leads' = leads
      BY <2>1, <2>3, <3>1 DEF LoadLead, Proceed, Updates, tables, WorkInv, CallInv
    <3>3. \A a \in earlier[c] :
            answer[a] = "updated" /\ Noted(a, l) => NoteKept(a, l, leads[l].notes)
      BY <2>1, <2>3 DEF UpdateInv, Noted
    <3> QED
      BY <1>1, <2>1, <2>3, <3>2, <3>3, KeptMoves DEF Spares, StatusKept
  <2> QED
    BY <2>2, <2>3
<1> QED
  BY <1>2, <1>3, <1>4, <1>5 DEF UpdateInv

LEMMA UpdateBegin ==
  ASSUME WorkInv, UpdateInv, NEW c \in Calls, Begin(c) PROVE UpdateInv'
<1>1. /\ stage[c] = "idle" /\ stage'[c] = "called" /\ UNCHANGED <<seen, answer, leads>>
      /\ req[c] = Pending
      /\ \A b \in Calls \ {c} : /\ stage'[b] = stage[b] /\ req'[b] = req[b]
                                 /\ earlier'[b] = earlier[b]
  BY DEF Begin, tables, WorkInv, LeadInv, UpdateInv
<1>2. answer[c] # "updated" /\ \A b \in Calls : c \notin earlier[b]
  BY <1>1 DEF UpdateInv, WorkInv, LeadInv
<1>3. \A l : \A b \in Calls \ {c} : /\ Updates(b, l)' <=> Updates(b, l)
                                   /\ Noted(b, l)' <=> Noted(b, l)
  BY <1>1 DEF Updates, Noted
<1>4. \A l : ~ Updates(c, l) /\ ~ Noted(c, l)
  BY <1>1 DEF Updates, Noted, Pending
<1>5. \A l, S : \A b \in Calls \ {c} : NoteKept(b, l, S) => NoteKept(b, l, S)'
  BY <1>1, <1>3, <1>4 DEF NoteKept, Overlap
<1>6. \A l, v : \A b \in Calls \ {c} : StatusKept(b, l, v) => StatusKept(b, l, v)'
  BY <1>1, <1>3, <1>4 DEF StatusKept, Updates
<1>7. \A b \in Calls : earlier[b] \subseteq Calls
  BY DEF WorkInv, LeadInv
<1>8. \A b \in Calls : /\ stage'[b] = "idle" => req'[b] = Pending
                       /\ answer'[b] = "updated" => stage'[b] \in {"answering", "over"}
  BY <1>1, <1>2 DEF UpdateInv
<1>9. ASSUME NEW b \in Calls, NEW l, answer'[b] = "updated", Updates(b, l)'
      PROVE  /\ l \in DOMAIN leads'
             /\ req'[b].note => NoteKept(b, l, leads[l].notes)'
             /\ StatusKept(b, l, req[b].status)'
  <2>1. b # c /\ answer[b] = "updated" /\ Updates(b, l) /\ req'[b] = req[b]
    BY <1>1, <1>2, <1>9 DEF Updates
  <2> QED
    BY <1>1, <1>5, <1>6, <2>1 DEF UpdateInv
<1>10. ASSUME NEW b \in Calls, NEW l, stage'[b] = "loaded", Updates(b, l)'
       PROVE  /\ l \in DOMAIN leads'
              /\ StatusKept(b, l, seen[b].status)'
              /\ \A a \in earlier'[b] :
                   answer'[a] = "updated" /\ Noted(a, l)' => NoteKept(a, l, seen[b].notes)'
  <2>1. b # c /\ stage[b] = "loaded" /\ Updates(b, l) /\ earlier'[b] = earlier[b]
    BY <1>1, <1>10 DEF Updates
  <2>2. /\ l \in DOMAIN leads /\ StatusKept(b, l, seen[b].status)
        /\ \A a \in earlier[b] :
             answer[a] = "updated" /\ Noted(a, l) => NoteKept(a, l, seen[b].notes)
    BY <2>1 DEF UpdateInv
  <2>3. \A a \in earlier[b] : a \in Calls \ {c}
    BY <1>2, <1>7
  <2>4. StatusKept(b, l, seen[b].status)'
    BY <1>1, <1>6, <2>1, <2>2 DEF StatusKept
  <2>5. ASSUME NEW a \in earlier[b], answer[a] = "updated", Noted(a, l)'
        PROVE  NoteKept(a, l, seen[b].notes)'
    <3>1. Noted(a, l)
      BY <1>1, <2>3, <2>5 DEF Noted, Updates
    <3>2. NoteKept(a, l, seen[b].notes)
      BY <2>2, <2>5, <3>1
    <3> QED
      BY <1>1, <1>5, <2>3, <3>2 DEF NoteKept
  <2> QED
    BY <1>1, <2>1, <2>2, <2>4, <2>5
<1> QED
  BY <1>8, <1>9, <1>10 DEF UpdateInv

(* The saving call overlaps every call that it has not read.               *)
LEMMA UpdateSave ==
  ASSUME WorkInv, UpdateInv, NEW c \in Calls, SaveLead(c) PROVE UpdateInv'
<1> DEFINE l == req[c].lead
<1>1. Moves(c)
  BY OthersIdle DEF Others, Idles
<1>2. /\ stage[c] = "loaded" /\ stage'[c] = "answering" /\ seen' = seen /\ Updates(c, l)
      /\ answer'[c] = "updated" /\ \A b \in Calls \ {c} : answer'[b] = answer[b]
      /\ req' = req /\ earlier' = earlier
  BY DEF SaveLead, At, Finish, WorkInv, LeadInv, CallInv, TypeOK, Updates
<1>3. /\ DOMAIN leads' = DOMAIN leads /\ l \in DOMAIN leads
      /\ \A r \in DOMAIN leads \ {l} : leads'[r] = leads[r]
      /\ leads'[l] = Changed(c, leads[l])
  BY <1>2 DEF SaveLead, UpdateInv
<1>4. leads[l].status # req[c].status /\ req[c].status = seen[c].status
        => \E d \in Calls \ {c} : Updates(d, l) /\ d \notin earlier[c]
  BY <1>2 DEF UpdateInv, StatusKept
<1>5. /\ leads'[l].status \in {req[c].status, leads[l].status}
      /\ leads'[l].status = req[c].status
           \/ \E d \in Calls \ {c} : Updates(d, l) /\ d \notin earlier[c]
      /\ leads'[l].notes = IF req[c].note THEN seen[c].notes \cup {c} ELSE leads[l].notes
  <2>1. {"status", "notes"} \subseteq DOMAIN leads[l]
    BY <1>3 DEF WorkInv, CallInv
  <2> QED
    BY <1>3, <1>4, <2>1 DEF Changed, AppendNote
<1>6. \A b \in Calls : c \notin earlier[b]
  BY <1>2 DEF WorkInv, LeadInv
<1>7. \A b \in Calls \ {c} : StatusKept(b, l, seen[b].status)' /\ StatusKept(b, l, req[b].status)'
  BY <1>1, <1>2, <1>6, KeptMoves DEF StatusKept
<1>8. \A b \in Calls : /\ stage'[b] = "idle" => req'[b] = Pending
                       /\ answer'[b] = "updated" => stage'[b] \in {"answering", "over"}
  BY <1>1, <1>2 DEF UpdateInv, Moves
<1>9. ASSUME NEW b \in Calls, NEW k, answer'[b] = "updated", Updates(b, k)'
      PROVE  /\ k \in DOMAIN leads'
             /\ req'[b].note => NoteKept(b, k, leads[k].notes)'
             /\ StatusKept(b, k, req[b].status)'
  <2>1. CASE b = c
    <3>1. k = l
      BY <1>2, <1>9, <2>1 DEF Updates
    <3> QED
      BY <1>2, <1>3, <1>5, <2>1, <3>1 DEF NoteKept, StatusKept, Updates
  <2>2. CASE b # c
    <3>1. /\ answer[b] = "updated" /\ Updates(b, k) /\ k \in DOMAIN leads
          /\ req[b].note => NoteKept(b, k, leads[k].notes)
          /\ StatusKept(b, k, req[b].status)
      BY <1>1, <1>2, <1>9, <2>2, KeptMoves DEF UpdateInv
    <3>2. CASE k # l
      <4>1. leads'[k] = leads[k]
        BY <1>3, <3>1, <3>2
      <4> QED
        BY <1>1, <1>2, <1>3, <3>1, <4>1, KeptMoves DEF StatusKept
    <3>3. CASE k = l
      <4>1. ASSUME req[b].note PROVE NoteKept(b, l, leads'[l].notes)
        <5>1. CASE b \in earlier[c] /\ req[c].note
          <6>1. NoteKept(b, l, seen[c].notes)
            BY <1>2, <3>1, <3>3, <4>1, <5>1 DEF UpdateInv, Noted
          <6> QED
            BY <1>5, <5>1, <6>1 DEF NoteKept
        <5>2. CASE b \notin earlier[c] /\ req[c].note
          BY <1>2, <1>6, <2>2, <5>2 DEF NoteKept, Overlap, Noted
        <5>3. CASE ~ req[c].note
          BY <1>5, <3>1, <3>3, <4>1, <5>3
        <5> QED
          BY <5>1, <5>2, <5>3
      <4> QED
        BY <1>1, <1>2, <1>3, <1>7, <2>2, <3>3, <4>1, KeptMoves
    <3> QED
      BY <3>2, <3>3
  <2> QED
    BY <2>1, <2>2
<1>10. ASSUME NEW b \in Calls, NEW k, stage'[b] = "loaded", Updates(b, k)'
       PROVE  /\ k \in DOMAIN leads'
              /\ StatusKept(b, k, seen[b].status)'
              /\ \A a \in earlier'[b] :
                   answer'[a] = "updated" /\ Noted(a, k)' => NoteKept(a, k, seen[b].notes)'
  <2>1. b # c /\ stage[b] = "loaded" /\ Updates(b, k) /\ earlier[b] \subseteq Calls
    BY <1>1, <1>2, <1>10, KeptMoves DEF Moves, WorkInv, LeadInv
  <2>2. /\ k \in DOMAIN leads /\ StatusKept(b, k, seen[b].status)
        /\ \A a \in earlier[b] :
             answer[a] = "updated" /\ Noted(a, k) => NoteKept(a, k, seen[b].notes)
    BY <2>1 DEF UpdateInv
  <2>3. \A a \in earlier[b] : answer'[a] = answer[a]
    BY <1>2, <1>6, <2>1
  <2>4. StatusKept(b, k, seen[b].status)'
    <3>1. CASE k = l
      BY <1>2, <1>7, <2>1, <3>1 DEF StatusKept
    <3>2. CASE k # l
      <4>1. leads'[k] = leads[k]
        BY <1>3, <2>2, <3>2
      <4> QED
        BY <1>1, <1>2, <2>2, <4>1, KeptMoves DEF StatusKept
    <3> QED
      BY <3>1, <3>2
  <2> QED
    BY <1>1, <1>2, <1>3, <2>2, <2>3, <2>4, KeptMoves
<1> QED
  BY <1>8, <1>9, <1>10 DEF UpdateInv

LEMMA UpdateStep == WorkInv /\ UpdateInv /\ [Next]_vars => UpdateInv'
<1> SUFFICES ASSUME WorkInv, UpdateInv, [Next]_vars PROVE UpdateInv'
  OBVIOUS
<1>1. ASSUME NEW c \in Calls, Begin(c) PROVE UpdateInv'
  BY <1>1, UpdateBegin
<1>2. ASSUME NEW c \in Calls, SaveLead(c) PROVE UpdateInv'
  BY <1>2, UpdateSave
<1>3. ASSUME NEW c \in Calls, Others(c), ~ SaveLead(c) PROVE UpdateInv'
  BY <1>3, OthersIdle, OthersSpare, UpdateSpared DEF Idles
<1>4. ASSUME NEW c \in Calls, CreateTask(c) \/ LoadTask(c) \/ SaveTask(c) PROVE UpdateInv'
  <2>1. Moves(c) /\ req[c].tool # "update_lead_status"
    BY <1>4, TasksMove DEF CreateTask, LoadTask, SaveTask, At
  <2>2. ~ SaveLead(c)
    BY <2>1 DEF SaveLead, At
  <2> QED
    BY <1>4, <2>1, <2>2, OthersSpare, UpdateSpared
<1>5. ASSUME NEW c \in Calls, LoadLead(c) PROVE UpdateInv'
  <2>1. ~ SaveLead(c)
    BY <1>5 DEF LoadLead, SaveLead, At
  <2> QED
    BY <1>5, <2>1, OthersSpare, UpdateSpared
<1>6. ASSUME NEW c \in Calls, FindConflicts(c) \/ InsertEvent(c) PROVE UpdateInv'
  <2>1. ~ SaveLead(c) /\ req[c].tool # "update_lead_status"
    BY <1>6 DEF FindConflicts, InsertEvent, SaveLead, At
  <2> QED
    BY <1>6, <2>1, OthersSpare, UpdateSpared
<1>7. CASE UNCHANGED vars
  BY <1>7 DEF vars, UpdateInv, NoteKept, StatusKept, Noted, Updates, Overlap
<1> QED
  BY <1>1, <1>2, <1>3, <1>4, <1>5, <1>6, <1>7
     DEF Next, Over, Others, Crm, Tasks, Calendar

(* An answered update of a lead stands: its note is lost only to one that  *)
(* overlapped it, its status only to one that overlapped or came later.    *)
THEOREM UpdatesStand == Spec => []UpdateStands
<1>1. Init => UpdateInv
  BY DEF Init, UpdateInv, Updates, Pending
<1>2. UpdateInv => UpdateStands
  BY DEF UpdateInv, UpdateStands, NoteKept, StatusKept, Noted
<1> QED
  BY <1>1, <1>2, WorkInit, WorkStep, UpdateStep, PTL DEF Spec

-----------------------------------------------------------------------------
(* Email.                                                                  *)

(* Nothing is delivered before a call has finished, and nothing afterwards.*)
MailInv ==
  /\ DOMAIN delivered = Calls
  /\ \A c \in Calls : stage[c] \notin {"answering", "over"} => delivered[c] = {}
  /\ MailIsBounded

LEMMA Mailing ==
  ASSUME NEW r \in Requests, r.tool = "send_email" PROVE r.message \in Messages
<1>1. PICK s \in Servers : r \in Served(s)
  BY DEF Requests
<1>2. s = "email"
  BY <1>1 DEF Served, Servers
<1> QED
  BY <1>1, <1>2 DEF Served

(* A message that may be sent has no more addresses than the limit.        *)
LEMMA FewAddressees ==
  ASSUME NEW m \in Messages, Sendable(m), NEW S \in SUBSET (m.to \cup m.cc)
  PROVE  Cardinality(S) <= MaxRecipients
<1>1. IsFiniteSet(m.to) /\ IsFiniteSet(m.cc) /\ MaxRecipients \in Nat
  BY MailAssumption
<1>2. /\ IsFiniteSet(m.to \cup m.cc)
      /\ Cardinality(m.to \cup m.cc) <= Cardinality(m.to) + Cardinality(m.cc)
  <2>1. IsFiniteSet(m.to \cap m.cc)
    BY <1>1, FS_Intersection
  <2>2. /\ Cardinality(m.to) \in Nat /\ Cardinality(m.cc) \in Nat
        /\ Cardinality(m.to \cap m.cc) \in Nat
    BY <1>1, <2>1, FS_CardinalityType
  <2>3. /\ IsFiniteSet(m.to \cup m.cc)
        /\ Cardinality(m.to \cup m.cc)
             = Cardinality(m.to) + Cardinality(m.cc) - Cardinality(m.to \cap m.cc)
    BY <1>1, FS_Union
  <2> QED
    BY <2>2, <2>3
<1>3. IsFiniteSet(S) /\ Cardinality(S) <= Cardinality(m.to \cup m.cc)
  BY <1>2, FS_Subset
<1>4. /\ Cardinality(m.to) \in Nat /\ Cardinality(m.cc) \in Nat
      /\ Cardinality(m.to \cup m.cc) \in Nat /\ Cardinality(S) \in Nat
  BY <1>1, <1>2, <1>3, FS_CardinalityType
<1> QED
  BY <1>1, <1>2, <1>3, <1>4 DEF Sendable

(* The actions that deliver nothing.                                       *)
LEMMA MailStays ==
  ASSUME WorkInv, MailInv, NEW c \in Calls, Moves(c), UNCHANGED delivered,
         stage[c] \in {"answering", "over"} => answer'[c] \in {answer[c], "lost"},
         answer'[c] # "sent" \/ answer'[c] = answer[c],
         \A b \in Calls \ {c} : answer'[b] = answer[b]
  PROVE  MailInv'
<1>1. \A b \in Calls : stage'[b] \notin {"answering", "over"} => delivered'[b] = {}
  BY DEF MailInv, Moves
<1>2. \A b \in Calls : /\ answer'[b] = "sent" => delivered'[b] # {}
                       /\ answer'[b] \in {"refused", "drafted"} => delivered'[b] = {}
  BY DEF MailInv, MailIsBounded
<1>3. MailIsBounded'
  BY <1>2 DEF MailInv, MailIsBounded
<1> QED
  BY <1>1, <1>3 DEF MailInv

LEMMA MailSent ==
  ASSUME WorkInv, MailInv, NEW c \in Calls, Send(c) \/ SendFails(c)
  PROVE  MailInv'
<1>1. /\ stage[c] = "called" /\ req[c].tool = "send_email" /\ Sendable(req[c].message)
      /\ stage' = [stage EXCEPT ![c] = "answering"]
  BY DEF Send, SendFails, At, Acceptable, Finish
<1>2. req[c].message \in Messages
  BY <1>1, Mailing DEF WorkInv, LeadInv, Pending
<1>3. PICK S \in SUBSET Addressees(c) :
        /\ delivered' = [delivered EXCEPT ![c] = S]
        /\ \/ S # {} /\ answer' = [answer EXCEPT ![c] = "sent"]
           \/ answer' = [answer EXCEPT ![c] = "failed"]
  <2>1. CASE Send(c)
    <3>1. PICK S \in (SUBSET Addressees(c)) \ {{}} : delivered' = [delivered EXCEPT ![c] = S]
      BY <2>1 DEF Send
    <3>2. S # {} /\ S \in SUBSET Addressees(c)
      OBVIOUS
    <3> QED
      BY <2>1, <3>1, <3>2 DEF Send, Finish
  <2>2. CASE SendFails(c)
    <3>1. PICK S \in {{}, Addressees(c)} : delivered' = [delivered EXCEPT ![c] = S]
      BY <2>2 DEF SendFails
    <3>2. S \in SUBSET Addressees(c)
      OBVIOUS
    <3> QED
      BY <2>2, <3>1, <3>2 DEF SendFails, Finish
  <2> QED
    BY <2>1, <2>2
<1>4. Cardinality(S) <= MaxRecipients
  BY <1>1, <1>2, <1>3, FewAddressees DEF Addressees
<1>5. DOMAIN delivered = Calls /\ DOMAIN answer = Calls /\ DOMAIN stage = Calls
  BY DEF WorkInv, LeadInv, CallInv, TypeOK, MailInv
<1>6. \A b \in Calls : stage'[b] \notin {"answering", "over"} => delivered'[b] = {}
  BY <1>1, <1>3, <1>5 DEF MailInv
<1>7. ASSUME NEW b \in Calls
      PROVE  /\ Cardinality(delivered'[b]) <= MaxRecipients
             /\ answer'[b] = "sent" => delivered'[b] # {}
             /\ answer'[b] \in {"refused", "drafted"} => delivered'[b] = {}
  <2>1. CASE b = c
    BY <1>3, <1>4, <1>5, <2>1
  <2>2. CASE b # c
    BY <1>3, <1>5, <2>2 DEF MailInv, MailIsBounded
  <2> QED
    BY <2>1, <2>2
<1> QED
  BY <1>3, <1>5, <1>6, <1>7 DEF MailInv, MailIsBounded

LEMMA MailStep == WorkInv /\ MailInv /\ [Next]_vars => MailInv'
<1> SUFFICES ASSUME WorkInv, MailInv, [Next]_vars PROVE MailInv'
  OBVIOUS
<1>1. DOMAIN answer = Calls /\ DOMAIN stage = Calls
  BY DEF WorkInv, LeadInv, CallInv, TypeOK
<1>2. ASSUME NEW c \in Calls, Begin(c) PROVE MailInv'
  <2>1. stage[c] = "idle" /\ UNCHANGED <<answer, delivered>>
        /\ \A b \in Calls \ {c} : stage'[b] = stage[b]
    BY <1>1, <1>2 DEF Begin, tables
  <2> QED
    BY <2>1 DEF MailInv, MailIsBounded
<1>3. ASSUME NEW c \in Calls, Send(c) \/ SendFails(c) PROVE MailInv'
  BY <1>3, MailSent
<1>4. ASSUME NEW c \in Calls,
             \/ Others(c) /\ ~ Send(c) /\ ~ SendFails(c)
             \/ CreateTask(c) \/ LoadTask(c) \/ SaveTask(c)
             \/ LoadLead(c) \/ FindConflicts(c) \/ InsertEvent(c)
      PROVE  MailInv'
  <2>1. Moves(c)
    BY <1>4, OthersIdle, TasksMove, BookingsMove DEF Idles
  <2>2. /\ UNCHANGED delivered
        /\ stage[c] \in {"answering", "over"} => answer'[c] \in {answer[c], "lost"}
        /\ answer'[c] # "sent" \/ answer'[c] = answer[c]
        /\ \A b \in Calls \ {c} : answer'[b] = answer[b]
    <3> USE DEF Finish, Proceed, At, tables, InSession
    <3>1. CASE Refuse(c) \/ FindLead(c) \/ ReturnExisting(c) \/ InsertLead(c) \/ ReadLeads(c)
      BY <1>1, <3>1 DEF Refuse, FindLead, ReturnExisting, InsertLead, ReadLeads
    <3>2. CASE LeadUnknown(c) \/ SaveLead(c) \/ TaskUnknown(c) \/ ReadTasks(c) \/ ReadToday(c)
      BY <1>1, <3>2 DEF LeadUnknown, SaveLead, TaskUnknown, ReadTasks, ReadToday
    <3>3. CASE Spreadsheets(c)
      <4>1. CASE InsertSale(c) \/ SumTotals(c) \/ SumProducts(c)
        BY <1>1, <4>1 DEF InsertSale, SumTotals, SumProducts, Report
      <4>2. CASE SumRegions(c) \/ SumPrevious(c)
        BY <1>1, <4>2 DEF SumRegions, SumPrevious, Report
      <4> QED
        BY <3>3, <4>1, <4>2 DEF Spreadsheets
    <3>4. CASE Draft(c)
      BY <1>1, <3>4 DEF Draft
    <3>5. CASE DbFails(c) \/ Answer(c) \/ Lose(c)
      BY <1>1, <3>5 DEF DbFails, Answer, Lose
    <3>6. CASE CreateTask(c) \/ LoadTask(c) \/ SaveTask(c)
      BY <1>1, <3>6 DEF CreateTask, LoadTask, SaveTask
    <3>7. CASE LoadLead(c) \/ FindConflicts(c) \/ InsertEvent(c)
      BY <1>1, <3>7 DEF LoadLead, FindConflicts, InsertEvent
    <3> QED
      BY <1>4, <3>1, <3>2, <3>3, <3>4, <3>5, <3>6, <3>7 DEF Others, Email
  <2> QED
    BY <2>1, <2>2, MailStays
<1>5. CASE UNCHANGED vars
  BY <1>5 DEF vars, MailInv, MailIsBounded
<1> QED
  BY <1>2, <1>3, <1>4, <1>5 DEF Next, Over, Others, Crm, Tasks, Calendar, Email

(* No email reaches more people than the limit; one that is said to be     *)
(* sent reached somebody, one that was refused or drafted nobody.          *)
THEOREM MailBounded == Spec => []MailIsBounded
<1>1. Init => MailInv
  <2>1. Cardinality({}) = 0
    BY FS_EmptySet
  <2> QED
    BY <2>1, MailAssumption DEF Init, MailInv, MailIsBounded
<1>2. MailInv => MailIsBounded
  BY DEF MailInv
<1> QED
  BY <1>1, <1>2, WorkInit, WorkStep, MailStep, PTL DEF Spec
-----------------------------------------------------------------------------
(* Listings.                                                               *)

(* A set of numbers with a bound has a greatest one, so that a search that *)
(* is ordered by the time of creation finds one of the leads that fit.     *)
LEMMA NewestFits ==
  ASSUME NEW table, NEW S, S # {}, NEW n \in Nat,
         \A r \in S : table[r].made \in Nat /\ table[r].made <= n
  PROVE  Newest(table, S) \in S
<1> DEFINE Less == {ss \in Nat \X Nat : ss[1] < ss[2]}
           Ages == {k \in Nat : \E r \in S : k = n - table[r].made}
<1>1. IsWellFoundedOn(Less, Nat)
  BY NatLessThanWellFounded DEF OpToRel
<1>2. Ages # {} /\ Ages \subseteq Nat
  <2>1. PICK r \in S : TRUE
    OBVIOUS
  <2>2. n - table[r].made \in Ages
    BY <2>1
  <2> QED
    BY <2>2
<1>3. PICK k \in Ages : \A y \in Ages : ~ (<<y, k>> \in Less)
  <2> HIDE DEF Less, Ages
  <2> QED
    BY <1>1, <1>2, WFMin
<1>4. PICK r \in S : k = n - table[r].made
  BY <1>3
<1>5. ASSUME NEW q \in S PROVE table[q].made <= table[r].made
  <2>1. n - table[q].made \in Ages /\ n - table[q].made \in Nat
    OBVIOUS
  <2>2. ~ (n - table[q].made < k)
    BY <1>2, <1>3, <2>1
  <2> QED
    BY <1>4, <2>1, <2>2
<1> QED
  BY <1>5 DEF Newest

(* The leads are finitely many, and counted as they are made.              *)
MadeInv ==
  /\ IsFiniteSet(DOMAIN leads)
  /\ \A l \in DOMAIN leads : "made" \in DOMAIN leads[l] /\ leads[l].made \in Nat
  /\ \E n \in Nat : \A l \in DOMAIN leads : leads[l].made <= n

(* What an answered write has left is still there: rows are not removed,   *)
(* and a task that is done stays done.                                     *)
Stands(c) ==
  /\ req[c].tool = "create_lead" /\ answer[c] = "created" => c \in DOMAIN leads
  /\ answer[c] = "existing" => seen[c] \in DOMAIN leads
  /\ answer[c] = "completed" => /\ req[c].task \in DOMAIN tasks
                                /\ tasks[req[c].task].status = "done"
  /\ req[c].tool = "create_event" /\ answer[c] = "created" => c \in DOMAIN events

(* A listing r shows the write c.                                          *)
Shows(r, c) ==
  /\ req[r] = [tool |-> "get_leads", wanted |-> "any"]
       => /\ req[c].tool = "create_lead" /\ answer[c] = "created" => c \in seen[r]
          /\ answer[c] = "existing" => seen[c] \in seen[r]
  /\ req[r].tool \in {"get_tasks", "get_overdue_tasks"}
       => (answer[c] = "completed" => req[c].task \notin seen[r])
  /\ req[r].tool = "get_todays_meetings"
       => (req[c].tool = "create_event" /\ answer[c] = "created" =>
             (c \in seen[r] <=> /\ events[c].from < (Today + 1) * DayLength - 1
                               /\ events[c].to > Today * DayLength))

Completing(c) == stage[c] = "loaded" /\ req[c].tool = "complete_task"

TaskColumns == \A t \in DOMAIN tasks : "status" \in DOMAIN tasks[t]

ListInv ==
  /\ TaskColumns
  /\ \A c \in Calls : answer[c] # "none" => stage[c] \in {"answering", "over"} /\ Stands(c)
  /\ \A c \in Calls : Completing(c) /\ seen[c].status = "done" => tasks[req[c].task].status = "done"
  /\ \A r \in Calls : answer[r] = "listed" => \A c \in earlier[r] : Shows(r, c)

Grows ==
  /\ DOMAIN leads \subseteq DOMAIN leads'
  /\ \A t \in DOMAIN tasks : t \in DOMAIN tasks' /\ (tasks[t].status = "done" => tasks'[t].status = "done")
  /\ \A e \in DOMAIN events : e \in DOMAIN events' /\ events'[e] = events[e]

(* Nobody counts a call that still moves as earlier, so that a move can    *)
(* only make untrue what concerns the moving call itself.                  *)
LEMMA ListMove ==
  ASSUME WorkInv, ListInv, NEW c \in Calls, Moves(c), Grows, TaskColumns',
         \A b \in Calls \ {c} : answer'[b] = answer[b],
         answer'[c] # "none" => stage'[c] \in {"answering", "over"} /\ Stands(c)',
         Completing(c)' /\ seen'[c].status = "done" => tasks'[req[c].task].status = "done",
         answer'[c] = "listed" => \A d \in earlier[c] : Shows(c, d)'
  PROVE  ListInv'
<1>1. \A b \in Calls : c \notin earlier[b] /\ earlier[b] \subseteq Calls
  BY DEF Moves, WorkInv, LeadInv
<1>2. ASSUME NEW b \in Calls, b # c
      PROVE  answer'[b] = answer[b] /\ stage'[b] = stage[b] /\ seen'[b] = seen[b] /\ req'[b] = req[b]
  BY <1>2 DEF Moves
<1>3. ASSUME NEW b \in Calls, answer'[b] # "none"
      PROVE  stage'[b] \in {"answering", "over"} /\ Stands(b)'
  <2>1. CASE b # c
    <3>1. stage[b] \in {"answering", "over"} /\ Stands(b)
      BY <1>2, <1>3, <2>1 DEF ListInv
    <3> QED
      BY <1>2, <2>1, <3>1 DEF Stands, Grows
  <2> QED
    BY <1>3, <2>1
<1>4. ASSUME NEW b \in Calls, Completing(b)', seen'[b].status = "done"
      PROVE  tasks'[req'[b].task].status = "done"
  <2>1. CASE b # c
    <3>1. Completing(b) /\ seen[b].status = "done"
      BY <1>2, <1>4, <2>1 DEF Completing
    <3>2. req[b].task \in DOMAIN tasks
      BY <3>1 DEF WorkInv, DoneInv, Completing, At, Acceptable
    <3> QED
      BY <1>2, <2>1, <3>1, <3>2 DEF ListInv, Grows
  <2>2. CASE b = c
    BY <1>4, <2>2 DEF Moves
  <2> QED
    BY <2>1, <2>2
<1>5. ASSUME NEW r \in Calls, answer'[r] = "listed", NEW d \in earlier'[r]
      PROVE  Shows(r, d)'
  <2>1. CASE r # c
    <3>1. d \in Calls /\ d # c /\ d \in earlier[r]
      BY <1>1, <1>5 DEF Moves
    <3>2. Shows(r, d) /\ (answer[d] # "none" => Stands(d))
      BY <1>2, <1>5, <2>1, <3>1 DEF ListInv
    <3> QED
      BY <1>2, <2>1, <3>1, <3>2 DEF Shows, Stands, Grows
  <2>2. CASE r = c
    BY <1>5, <2>2 DEF Moves
  <2> QED
    BY <2>1, <2>2
<1> QED
  BY <1>3, <1>4, <1>5 DEF ListInv
-----------------------------------------------------------------------------
(* Leads are counted when they are made and keep their number.             *)
LEMMA MadeStep ==
  ASSUME WorkInv, MadeInv, [Next]_vars
  PROVE  MadeInv'
<1>1. ASSUME NEW c \in Calls, InsertLead(c) PROVE MadeInv'
  <2>1. c \notin DOMAIN leads
    BY <1>1 DEF InsertLead, At, WorkInv, LeadInv
  <2>2. /\ DOMAIN leads' = DOMAIN leads \cup {c}
        /\ "made" \in DOMAIN leads'[c] /\ leads'[c].made = Cardinality(DOMAIN leads)
        /\ \A r \in DOMAIN leads : leads'[r] = leads[r]
    BY <1>1, <2>1 DEF InsertLead, Insert
  <2>3. Cardinality(DOMAIN leads) \in Nat /\ IsFiniteSet(DOMAIN leads')
    BY <2>2, FS_CardinalityType, FS_AddElement DEF MadeInv
  <2>4. PICK n \in Nat : \A l \in DOMAIN leads : leads[l].made <= n
    BY DEF MadeInv
  <2>5. PICK m \in Nat : n <= m /\ Cardinality(DOMAIN leads) <= m
    <3>1. n + Cardinality(DOMAIN leads) \in Nat
      BY <2>3
    <3> QED
      BY <2>3, <3>1
  <2>6. \A l \in DOMAIN leads' : leads'[l].made <= m
    BY <2>2, <2>3, <2>4, <2>5 DEF MadeInv
  <2> QED
    BY <2>2, <2>3, <2>6 DEF MadeInv
<1>2. ASSUME NEW c \in Calls, SaveLead(c) PROVE MadeInv'
  <2>1. /\ DOMAIN leads' = DOMAIN leads
        /\ \A r \in DOMAIN leads : leads'[r] \in {leads[r], Changed(c, leads[r])}
    BY <1>2 DEF SaveLead
  <2>2. ASSUME NEW r \in DOMAIN leads
        PROVE  "made" \in DOMAIN leads'[r] /\ leads'[r].made = leads[r].made
    <3>1. "made" \in DOMAIN leads[r]
      BY DEF MadeInv
    <3>2. "made" \in DOMAIN Changed(c, leads[r]) /\ Changed(c, leads[r]).made = leads[r].made
      BY <3>1 DEF Changed
    <3> QED
      BY <2>1, <3>1, <3>2
  <2> QED
    BY <2>1, <2>2 DEF MadeInv
<1>3. CASE UNCHANGED leads
  BY <1>3 DEF MadeInv
<1>4. ASSUME NEW c \in Calls, Begin(c) PROVE UNCHANGED leads
  BY <1>4 DEF Begin, tables
<1>5. ASSUME NEW c \in Calls, Others(c), ~ SaveLead(c), ~ InsertLead(c) PROVE UNCHANGED leads
  <2>1. CASE Spreadsheets(c)
    BY <2>1 DEF Spreadsheets, InsertSale, SumTotals, SumProducts, SumRegions, SumPrevious,
                Proceed, tables
  <2>2. CASE Email(c)
    BY <2>2 DEF Email, Draft, Send, SendFails, tables
  <2> QED
    BY <1>5, <2>1, <2>2
       DEF Others, Refuse, FindLead, ReturnExisting, ReadLeads, LeadUnknown, TaskUnknown,
           ReadTasks, ReadToday, DbFails, Answer, Lose, Proceed, tables
<1>6. ASSUME NEW c \in Calls,
             CreateTask(c) \/ LoadTask(c) \/ SaveTask(c)
               \/ LoadLead(c) \/ FindConflicts(c) \/ InsertEvent(c)
      PROVE  UNCHANGED leads
  BY <1>6 DEF CreateTask, LoadTask, SaveTask, LoadLead, FindConflicts, InsertEvent, Proceed, tables
<1>7. UNCHANGED vars => UNCHANGED leads
  BY DEF vars
<1> QED
  BY <1>1, <1>2, <1>3, <1>4, <1>5, <1>6, <1>7 DEF Next, Over, Others, Crm, Tasks, Calendar

LEMMA ListBegin ==
  ASSUME WorkInv, ListInv, NEW c \in Calls, Begin(c) PROVE ListInv'
<1>1. /\ stage[c] = "idle" /\ stage'[c] = "called" /\ UNCHANGED <<seen, answer, leads, tasks, events>>
      /\ \A b \in Calls \ {c} : /\ stage'[b] = stage[b] /\ req'[b] = req[b]
                                 /\ earlier'[b] = earlier[b]
  BY DEF Begin, tables, WorkInv, LeadInv
<1>2. answer[c] = "none" /\ \A b \in Calls : c \notin earlier[b] /\ earlier[b] \subseteq Calls
  BY <1>1 DEF ListInv, WorkInv, LeadInv
<1>3. \A b \in Calls \ {c} : Stands(b) => Stands(b)'
  BY <1>1 DEF Stands
<1>4. \A r \in Calls \ {c} : \A b \in earlier[r] : Shows(r, b) => Shows(r, b)'
  BY <1>1, <1>2 DEF Shows
<1> QED
  BY <1>1, <1>2, <1>3, <1>4 DEF ListInv, Completing, TaskColumns

(* What a call that is not over yet has said: nothing, unless it answers.  *)
LEMMA Unanswered ==
  ASSUME ListInv, WorkInv, NEW c \in Calls, stage[c] \in InSession
  PROVE  answer[c] = "none"
BY DEF ListInv, InSession

LEMMA ListAnswered ==
  ASSUME WorkInv, ListInv, NEW c \in Calls, Answer(c) \/ Lose(c) PROVE ListInv'
<1>1. Moves(c)
  BY OthersIdle DEF Others, Idles
<1>2. /\ stage'[c] = "over" /\ answer'[c] \in {answer[c], "lost"}
      /\ \A b \in Calls \ {c} : answer'[b] = answer[b]
      /\ UNCHANGED <<req, earlier, seen, leads, tasks, events>>
  BY DEF Answer, Lose, tables, WorkInv, LeadInv, CallInv, TypeOK
<1>3. answer'[c] # "none" => Stands(c)'
  BY <1>2 DEF ListInv, Stands
<1>4. answer'[c] = "listed" => \A d \in earlier[c] : Shows(c, d)'
  <2>1. c \notin earlier[c] /\ earlier[c] \subseteq Calls
    BY <1>1 DEF Moves, WorkInv, LeadInv
  <2> QED
    BY <1>2, <2>1 DEF ListInv, Shows
<1> QED
  BY <1>1, <1>2, <1>3, <1>4, ListMove DEF Grows, Completing, ListInv, TaskColumns

(* Failures, refusals, emails, reports and statements that only read.      *)
LEMMA ListQuiet ==
  ASSUME WorkInv, ListInv, NEW c \in Calls,
         \/ Refuse(c) \/ DbFails(c) \/ Spreadsheets(c) \/ Email(c)
         \/ FindLead(c) \/ LoadLead(c) \/ LeadUnknown(c)
         \/ TaskUnknown(c) \/ FindConflicts(c)
  PROVE  ListInv'
<1>1. Moves(c)
  BY OthersIdle, BookingsMove DEF Others, Idles
<1>2. DOMAIN answer = Calls /\ DOMAIN stage = Calls
  BY DEF WorkInv, LeadInv, CallInv, TypeOK
<1>3. /\ answer' = answer \/ (stage'[c] = "answering" /\ answer'[c] \notin {"none", "existing", "completed", "listed"})
      /\ answer'[c] = "created" => answer[c] = "created" \/ req[c].tool = "add_sales_record"
      /\ \A b \in Calls \ {c} : answer'[b] = answer[b]
      /\ UNCHANGED <<leads, tasks, events>>
      /\ stage[c] \in InSession
      /\ stage'[c] = "loaded" => req[c].tool = "update_lead_status"
  <2> USE DEF Finish, Proceed, At, tables, InSession
  <2>1. CASE Refuse(c) \/ DbFails(c)
    BY <1>2, <2>1 DEF Refuse, DbFails
  <2>2. CASE FindLead(c) \/ LoadLead(c) \/ LeadUnknown(c) \/ TaskUnknown(c) \/ FindConflicts(c)
    BY <1>2, <2>2 DEF FindLead, LoadLead, LeadUnknown, TaskUnknown, FindConflicts
  <2>3. CASE InsertSale(c) \/ SumTotals(c) \/ SumProducts(c)
    BY <1>2, <2>3 DEF InsertSale, SumTotals, SumProducts, Report
  <2>4. CASE SumRegions(c) \/ SumPrevious(c)
    BY <1>2, <2>4 DEF SumRegions, SumPrevious, Report
  <2>5. CASE Email(c)
    BY <1>2, <2>5 DEF Email, Draft, Send, SendFails
  <2> QED
    BY <2>1, <2>2, <2>3, <2>4, <2>5 DEF Spreadsheets
<1>4. answer[c] = "none" /\ req' = req
  BY <1>1, <1>3, Unanswered DEF Moves
<1>5. answer'[c] # "none" => Stands(c)'
  BY <1>3, <1>4 DEF Stands
<1>6. ~ Completing(c)'
  BY <1>3, <1>4 DEF Completing
<1> QED
  BY <1>1, <1>3, <1>4, <1>5, <1>6, ListMove DEF Grows, ListInv, TaskColumns
(* The writes that a later listing has to show.                            *)
LEMMA ListWritten ==
  ASSUME WorkInv, ListInv, MadeInv, NEW c \in Calls,
         InsertLead(c) \/ ReturnExisting(c) \/ SaveLead(c) \/ InsertEvent(c)
  PROVE  ListInv'
<1>1. Moves(c)
  BY OthersIdle, BookingsMove DEF Others, Idles
<1>2. /\ stage'[c] = "answering" /\ req' = req /\ UNCHANGED tasks
      /\ answer'[c] \in {"created", "existing", "updated"}
      /\ \A b \in Calls \ {c} : answer'[b] = answer[b]
  BY DEF InsertLead, ReturnExisting, SaveLead, InsertEvent, Finish, tables, WorkInv, LeadInv,
         CallInv, TypeOK
<1>3. CASE InsertLead(c)
  <2>1. /\ req[c].tool = "create_lead" /\ answer'[c] = "created" /\ events' = events
        /\ DOMAIN leads' = DOMAIN leads \cup {c}
    BY <1>3 DEF InsertLead, At, Finish, Insert, WorkInv, CallInv, TypeOK
  <2>2. Stands(c)'
    BY <1>2, <2>1 DEF Stands
  <2> QED
    BY <1>1, <1>2, <2>1, <2>2, ListMove DEF Grows, Completing, ListInv, TaskColumns
<1>4. CASE ReturnExisting(c)
  <2> DEFINE S == Fitting(leads, req[c].email)
  <2>1. /\ answer'[c] = "existing" /\ UNCHANGED <<leads, events>>
        /\ S # {} /\ seen'[c] = Newest(leads, S)
    BY <1>4 DEF ReturnExisting, Finish, tables, WorkInv, CallInv, TypeOK
  <2>2. S \subseteq DOMAIN leads
    BY DEF Fitting
  <2>3. seen'[c] \in DOMAIN leads
    <3>1. PICK n \in Nat : \A l \in DOMAIN leads : leads[l].made <= n
      BY DEF MadeInv
    <3>2. \A l \in S : leads[l].made \in Nat /\ leads[l].made <= n
      BY <2>2, <3>1 DEF MadeInv
    <3>3. Newest(leads, S) \in S
      <4> HIDE DEF S
      <4> QED
        BY <2>1, <3>2, NewestFits
    <3> QED
      BY <2>1, <2>2, <3>3
  <2>4. Stands(c)'
    BY <1>2, <2>1, <2>3 DEF Stands
  <2> QED
    BY <1>1, <1>2, <2>1, <2>4, ListMove DEF Grows, Completing, ListInv, TaskColumns
<1>5. CASE SaveLead(c)
  <2>1. answer'[c] = "updated" /\ events' = events /\ DOMAIN leads' = DOMAIN leads
    BY <1>5 DEF SaveLead, Finish, WorkInv, CallInv, TypeOK
  <2>2. Stands(c)'
    BY <1>2, <2>1 DEF Stands
  <2> QED
    BY <1>1, <1>2, <2>1, <2>2, ListMove DEF Grows, Completing, ListInv, TaskColumns
<1>6. CASE InsertEvent(c)
  <2>1. c \notin DOMAIN events
    BY <1>6 DEF InsertEvent, At, WorkInv, BookingInv
  <2>2. /\ req[c].tool = "create_event" /\ answer'[c] = "created" /\ leads' = leads
        /\ DOMAIN events' = DOMAIN events \cup {c}
        /\ \A e \in DOMAIN events : events'[e] = events[e]
    BY <1>6, <2>1 DEF InsertEvent, At, Finish, Insert, WorkInv, CallInv, TypeOK
  <2>3. Stands(c)'
    BY <1>2, <2>2 DEF Stands
  <2> QED
    BY <1>1, <1>2, <2>2, <2>3, ListMove DEF Grows, Completing, ListInv, TaskColumns
<1> QED
  BY <1>3, <1>4, <1>5, <1>6

LEMMA ListTasked ==
  ASSUME WorkInv, ListInv, NEW c \in Calls, CreateTask(c) \/ LoadTask(c) \/ SaveTask(c)
  PROVE  ListInv'
<1>1. Moves(c) /\ UNCHANGED <<leads, events>>
  BY TasksMove DEF CreateTask, LoadTask, SaveTask, Proceed, tables
<1>2. DOMAIN answer = Calls /\ DOMAIN stage = Calls
  BY DEF WorkInv, LeadInv, CallInv, TypeOK
<1>3. CASE CreateTask(c)
  <2>1. /\ stage'[c] = "answering" /\ answer'[c] = "created" /\ req[c].tool = "create_task"
        /\ \A b \in Calls \ {c} : answer'[b] = answer[b]
    BY <1>2, <1>3 DEF CreateTask, At, Finish
  <2>2. c \notin DOMAIN tasks
    BY <1>3 DEF CreateTask, At, WorkInv, DoneInv
  <2>3. Grows /\ TaskColumns'
    BY <1>1, <1>3, <2>2 DEF CreateTask, Insert, Grows, ListInv, TaskColumns
  <2>4. Stands(c)'
    BY <1>1, <2>1 DEF Stands, Moves
  <2> QED
    BY <1>1, <2>1, <2>3, <2>4, ListMove DEF Completing
<1>4. CASE LoadTask(c)
  <2>1. /\ stage[c] = "called" /\ UNCHANGED <<answer, tasks>> /\ seen'[c] = tasks[req[c].task]
        /\ req[c].tool = "complete_task"
    BY <1>2, <1>4 DEF LoadTask, At, Proceed, tables, WorkInv, CallInv
  <2>2. answer[c] = "none"
    BY <2>1, Unanswered DEF InSession
  <2> QED
    BY <1>1, <2>1, <2>2, ListMove DEF Grows, Completing, ListInv, TaskColumns
<1>5. CASE SaveTask(c)
  <2> DEFINE t == req[c].task
  <2>1. /\ stage[c] = "loaded" /\ req[c].tool = "complete_task" /\ t \in DOMAIN tasks
        /\ stage'[c] = "answering" /\ answer'[c] = "completed"
        /\ \A b \in Calls \ {c} : answer'[b] = answer[b]
    BY <1>2, <1>5 DEF SaveTask, At, Finish, WorkInv, DoneInv
  <2>2. DOMAIN tasks' = DOMAIN tasks /\ tasks'[t].status = "done" /\ "status" \in DOMAIN tasks'[t]
    <3>1. CASE NotDone(c)
      <4>1. tasks' = [tasks EXCEPT ![t] = DoneBy(c, @)]
        BY <1>5, <3>1 DEF SaveTask
      <4>2. "status" \in DOMAIN tasks[t]
        BY <2>1 DEF ListInv, TaskColumns
      <4> QED
        BY <2>1, <4>1, <4>2 DEF DoneBy
    <3>2. CASE ~ NotDone(c)
      BY <1>5, <2>1, <3>2 DEF SaveTask, NotDone, ListInv, Completing, TaskColumns
    <3> QED
      BY <3>1, <3>2
  <2>3. \A u \in DOMAIN tasks : u # t => tasks'[u] = tasks[u]
    BY <1>5 DEF SaveTask
  <2>4. Grows /\ TaskColumns'
    BY <1>1, <2>2, <2>3 DEF Grows, ListInv, TaskColumns
  <2>5. Stands(c)'
    BY <1>1, <2>1, <2>2 DEF Stands, Moves
  <2> QED
    BY <1>1, <2>1, <2>4, <2>5, ListMove DEF Completing
<1> QED
  BY <1>3, <1>4, <1>5

(* A listing selects by what it is asked for from all that is there.       *)
LEMMA ListListed ==
  ASSUME WorkInv, ListInv, NEW c \in Calls, ReadLeads(c) \/ ReadTasks(c) \/ ReadToday(c)
  PROVE  ListInv'
<1>1. Moves(c)
  BY OthersIdle DEF Others, Idles
<1>2. /\ stage'[c] = "answering" /\ answer'[c] = "listed"
      /\ UNCHANGED <<req, earlier, leads, tasks, events>>
      /\ \A b \in Calls \ {c} : answer'[b] = answer[b]
  BY DEF ReadLeads, ReadTasks, ReadToday, Finish, tables, WorkInv, LeadInv, CallInv, TypeOK
<1>3. Stands(c)'
  BY <1>2 DEF Stands
<1>4. ASSUME NEW d \in earlier[c] PROVE Shows(c, d)'
  <2>1. /\ d \in Calls /\ d # c /\ seen'[d] = seen[d] /\ answer'[d] = answer[d]
        /\ answer[d] # "none" => Stands(d)
    BY <1>1, <1>2 DEF Moves, WorkInv, LeadInv, ListInv
  <2>2. CASE ReadLeads(c)
    <3>1. req[c].tool = "get_leads" /\ seen'[c] = ListLeads(leads, req[c].wanted)
      BY <2>2 DEF ReadLeads, At, WorkInv, CallInv
    <3>2. req[c].wanted = "any" => seen'[c] = DOMAIN leads
      BY <3>1 DEF ListLeads
    <3> QED
      BY <1>2, <2>1, <3>1, <3>2 DEF Shows, Stands
  <2>3. CASE ReadTasks(c)
    <3>1. req[c].tool \in {"get_tasks", "get_overdue_tasks"}
      BY <2>3 DEF ReadTasks, At
    <3>2. \A t \in seen'[c] : tasks[t].status \in OpenStatuses
      BY <2>3 DEF ReadTasks, ListTasks, ListOverdue, WorkInv, CallInv
    <3> QED
      BY <1>2, <2>1, <3>1, <3>2 DEF Shows, Stands, OpenStatuses
  <2>4. CASE ReadToday(c)
    <3>1. /\ req[c].tool = "get_todays_meetings"
          /\ seen'[c] = ListEvents(events, Today * DayLength, Today * DayLength + DayLength - 1)
      BY <2>4 DEF ReadToday, At, DayBounds, WorkInv, CallInv
    <3>2. Today * DayLength + DayLength - 1 = (Today + 1) * DayLength - 1
      BY CalendarAssumption
    <3>3. \A e \in DOMAIN events :
            e \in seen'[c] <=> /\ events[e].from < (Today + 1) * DayLength - 1
                              /\ events[e].to > Today * DayLength
      BY <3>1, <3>2 DEF ListEvents
    <3> QED
      BY <1>2, <2>1, <3>1, <3>3 DEF Shows, Stands
  <2> QED
    BY <2>2, <2>3, <2>4
<1> QED
  BY <1>1, <1>2, <1>3, <1>4, ListMove DEF Grows, Completing, ListInv, TaskColumns

LEMMA ListStep == WorkInv /\ MadeInv /\ ListInv /\ [Next]_vars => ListInv'
<1> SUFFICES ASSUME WorkInv, MadeInv, ListInv, [Next]_vars PROVE ListInv'
  OBVIOUS
<1>1. CASE UNCHANGED vars
  BY <1>1 DEF vars, ListInv, Stands, Shows, Completing, TaskColumns
<1> QED
  BY <1>1, ListBegin, ListAnswered, ListQuiet, ListWritten, ListTasked, ListListed
     DEF Next, Over, Crm, Tasks, Calendar

(* What a write had answered before a listing began, the listing shows,    *)
(* however many calls race, fail and are lost between the two.             *)
THEOREM ListingsCurrent == Spec => []ListingsAreCurrent
<1>1. Init => MadeInv /\ ListInv
  <2> SUFFICES ASSUME Init PROVE MadeInv /\ ListInv
    OBVIOUS
  <2>1. DOMAIN leads = {Seed} /\ leads[Seed].made = 0 /\ "made" \in DOMAIN leads[Seed]
    BY DEF Init
  <2>2. MadeInv
    <3>1. IsFiniteSet(DOMAIN leads)
      BY <2>1, FS_Singleton
    <3>2. \A l \in DOMAIN leads : leads[l].made <= 0
      BY <2>1
    <3> QED
      BY <2>1, <3>1, <3>2 DEF MadeInv
  <2>3. ListInv
    BY DEF Init, ListInv, Completing, TaskColumns
  <2> QED
    BY <2>2, <2>3
<1>2. WorkInv /\ ListInv => ListingsAreCurrent
  BY DEF ListInv, Shows, ListingsAreCurrent
<1> QED
  BY <1>1, <1>2, WorkInit, WorkStep, MadeStep, ListStep, PTL DEF Spec

-----------------------------------------------------------------------------
(* Sums.  The prover has no induction over sets; each of these lemmas takes*)
(* a smallest set of which it fails, which there would be (Smallest).      *)

(* The row a fold takes next.                                              *)
First(s) == CHOOSE x \in s : TRUE

(* h is the function a fold of the weights w over the subsets of S defines.*)
IsFold(h, w, S) ==
  h = [s \in SUBSET S |-> IF s = {} THEN 0 ELSE w[First(s)] + h[s \ {First(s)}]]

(* g adds the weights w over the subsets of S, in whatever order.          *)
Adds(g, w, S) ==
  /\ g \in [SUBSET S -> Int]
  /\ g[{}] = 0
  /\ \A s \in SUBSET S : \A x \in s : g[s] = w[x] + g[s \ {x}]

Weights(w, S) == IsFiniteSet(S) /\ \A x \in S : w[x] \in Int

Total(w, S) == (CHOOSE g : Adds(g, w, S))[S]

(* Of some subsets of a finite set one has none of the others within it.   *)
LEMMA Smallest ==
  ASSUME NEW S, IsFiniteSet(S), NEW T, T \subseteq SUBSET S, T # {}
  PROVE  \E x \in T : \A y \in T : y \subseteq x => y = x
<1>1. IsWellFoundedOn(StrictSubsetOrdering(S), SUBSET S)
  BY FS_StrictSubsetOrderingWellFounded, FS_FiniteSubsetsOfFinite
<1>2. PICK x \in T : \A y \in T : ~ (<<y, x>> \in StrictSubsetOrdering(S))
  BY <1>1, WFMin
<1> QED
  BY <1>2 DEF StrictSubsetOrdering

LEMMA FirstIn == ASSUME NEW s, s # {} PROVE First(s) \in s
BY DEF First

(* Two folds of the same weights agree where both are defined.             *)
LEMMA FoldsAgree ==
  ASSUME NEW S, IsFiniteSet(S), NEW w, NEW A \in SUBSET S, NEW B \in SUBSET S,
         NEW g, NEW h, IsFold(g, w, A), IsFold(h, w, B), NEW s \in SUBSET (A \cap B)
  PROVE  g[s] = h[s]
<1> DEFINE Bad == {t \in SUBSET (A \cap B) : g[t] # h[t]}
<1>1. SUFFICES ASSUME Bad # {} PROVE FALSE
  OBVIOUS
<1>2. PICK t \in Bad : \A y \in Bad : y \subseteq t => y = t
  <2>1. Bad \subseteq SUBSET S
    OBVIOUS
  <2> HIDE DEF Bad
  <2> QED
    BY <1>1, <2>1, Smallest
<1>3. /\ g[t] = IF t = {} THEN 0 ELSE w[First(t)] + g[t \ {First(t)}]
      /\ h[t] = IF t = {} THEN 0 ELSE w[First(t)] + h[t \ {First(t)}]
  <2>1. t \in SUBSET A /\ t \in SUBSET B
    BY <1>2
  <2> QED
    BY <2>1 DEF IsFold
<1>4. t # {}
  BY <1>2, <1>3
<1>5. First(t) \in t
  BY <1>4, FirstIn
<1>6. t \ {First(t)} \in SUBSET (A \cap B) /\ t \ {First(t)} # t /\ t \ {First(t)} \subseteq t
  BY <1>2, <1>5
<1>7. t \ {First(t)} \notin Bad
  BY <1>2, <1>6
<1>8. g[t \ {First(t)}] = h[t \ {First(t)}]
  BY <1>6, <1>7
<1> QED
  BY <1>2, <1>3, <1>4, <1>8

(* A fold of numbers over a finite set exists, and its values are numbers. *)
LEMMA FoldExists ==
  ASSUME NEW w, NEW S, Weights(w, S)
  PROVE  \E h : IsFold(h, w, S) /\ h \in [SUBSET S -> Int]
<1> DEFINE Has(h, T) == IsFold(h, w, T) /\ h \in [SUBSET T -> Int]
           Bad == {T \in SUBSET S : ~ \E h : Has(h, T)}
<1>1. SUFFICES ASSUME Bad # {} PROVE FALSE
  OBVIOUS
<1>2. PICK T \in Bad : \A y \in Bad : y \subseteq T => y = T
  <2>1. Bad \subseteq SUBSET S /\ IsFiniteSet(S)
    BY DEF Weights
  <2> HIDE DEF Bad
  <2> QED
    BY <1>1, <2>1, Smallest
<1> DEFINE H(U) == CHOOSE h : Has(h, U)
<1>3. \A U \in SUBSET T : U # T => Has(H(U), U)
  <2>1. \A U \in SUBSET T : U # T => \E h : Has(h, U)
    BY <1>2
  <2> HIDE DEF Has
  <2> QED
    BY <2>1
<1> DEFINE rest(s) == s \ {First(s)}
           g == [s \in SUBSET T |-> IF s = {} THEN 0 ELSE w[First(s)] + H(rest(s))[rest(s)]]
<1>4. \A s \in SUBSET T : s # {} => First(s) \in s /\ rest(s) \in SUBSET T /\ rest(s) # T
  BY FirstIn
<1>5. g \in [SUBSET T -> Int]
  <2>1. ASSUME NEW s \in SUBSET T, s # {} PROVE w[First(s)] + H(rest(s))[rest(s)] \in Int
    <3>1. w[First(s)] \in Int
      BY <1>2, <1>4, <2>1 DEF Weights
    <3>2. Has(H(rest(s)), rest(s))
      BY <1>3, <1>4, <2>1
    <3>3. H(rest(s))[rest(s)] \in Int
      <4> HIDE DEF H
      <4> QED
        BY <3>2
    <3> QED
      BY <3>1, <3>3
  <2> HIDE DEF H, rest
  <2> QED
    BY <2>1
<1>6. ASSUME NEW s \in SUBSET T, s # {} PROVE g[rest(s)] = H(rest(s))[rest(s)]
  <2> DEFINE r == rest(s)
  <2>1. r \in SUBSET T /\ r # T /\ IsFold(H(r), w, r)
    BY <1>3, <1>4, <1>6
  <2>2. H(r)[r] = IF r = {} THEN 0 ELSE w[First(r)] + H(r)[rest(r)]
    <3> HIDE DEF H, r
    <3>1. r \in SUBSET r
      OBVIOUS
    <3> QED
      BY <2>1, <3>1 DEF IsFold
  <2>3. CASE r = {}
    BY <2>1, <2>2, <2>3
  <2>4. CASE r # {}
    <3>1. rest(r) \in SUBSET T /\ rest(r) # T /\ rest(r) \subseteq r
      BY <1>4, <2>1, <2>4
    <3>2. IsFold(H(rest(r)), w, rest(r))
      BY <1>3, <3>1
    <3>3. H(rest(r))[rest(r)] = H(r)[rest(r)]
      <4>1. IsFiniteSet(S) /\ rest(r) \in SUBSET S /\ r \in SUBSET S
            /\ rest(r) \in SUBSET (rest(r) \cap r)
        BY <1>2, <2>1, <3>1 DEF Weights
      <4> HIDE DEF H, r, rest
      <4> QED
        BY <2>1, <3>2, <4>1, FoldsAgree
    <3>4. g[r] = w[First(r)] + H(rest(r))[rest(r)]
      <4> HIDE DEF H, r, rest
      <4> QED
        BY <2>1, <2>4
    <3> QED
      BY <2>2, <2>4, <3>3, <3>4
  <2> QED
    BY <2>3, <2>4
<1>7. IsFold(g, w, T)
  <2>1. g = [s \in SUBSET T |-> IF s = {} THEN 0 ELSE w[First(s)] + g[rest(s)]]
    <3> DEFINE f == [s \in SUBSET T |-> IF s = {} THEN 0 ELSE w[First(s)] + g[rest(s)]]
    <3>1. ASSUME NEW s \in SUBSET T PROVE g[s] = f[s]
      <4>1. CASE s = {}
        BY <4>1
      <4>2. CASE s # {}
        <5>1. g[s] = w[First(s)] + H(rest(s))[rest(s)]
          <6> HIDE DEF H, rest
          <6> QED
            BY <4>2
        <5>2. g[rest(s)] = H(rest(s))[rest(s)]
          BY <1>6, <4>2
        <5>3. f[s] = w[First(s)] + g[rest(s)]
          <6> HIDE DEF g, rest
          <6> QED
            BY <4>2
        <5> QED
          BY <5>1, <5>2, <5>3
      <4> QED
        BY <4>1, <4>2
    <3>2. DOMAIN g = SUBSET T /\ DOMAIN f = SUBSET T
      OBVIOUS
    <3>3. g = [s \in SUBSET T |-> g[s]] /\ f = [s \in SUBSET T |-> f[s]]
      OBVIOUS
    <3> HIDE DEF f, g
    <3> QED
      BY <3>1, <3>3 DEF f
  <2> HIDE DEF g
  <2> QED
    BY <2>1 DEF IsFold
<1> QED
  BY <1>2, <1>5, <1>7

(* The order in which a fold adds does not matter.                         *)
LEMMA FoldAdds ==
  ASSUME NEW w, NEW S, Weights(w, S), NEW h, IsFold(h, w, S), h \in [SUBSET S -> Int]
  PROVE  Adds(h, w, S)
<1>1. h[{}] = 0
  <2>1. {} \in SUBSET S
    OBVIOUS
  <2> QED
    BY <2>1 DEF IsFold
<1>2. ASSUME NEW s \in SUBSET S, s # {}
      PROVE  First(s) \in s /\ h[s] = w[First(s)] + h[s \ {First(s)}]
  BY <1>2, FirstIn DEF IsFold
<1> DEFINE Bad == {s \in SUBSET S : \E x \in s : h[s] # w[x] + h[s \ {x}]}
<1>3. ASSUME Bad # {} PROVE FALSE
  <2>1. PICK s \in Bad : \A y \in Bad : y \subseteq s => y = s
    <3>1. Bad \subseteq SUBSET S /\ IsFiniteSet(S)
      BY DEF Weights
    <3> HIDE DEF Bad
    <3> QED
      BY <1>3, <3>1, Smallest
  <2>2. PICK x \in s : h[s] # w[x] + h[s \ {x}]
    BY <2>1
  <2> DEFINE f == First(s)
  <2>3. s \in SUBSET S /\ f \in s /\ h[s] = w[f] + h[s \ {f}]
    BY <1>2, <2>1, <2>2
  <2>4. x # f
    BY <2>2, <2>3
  <2> HIDE DEF f
  <2>5. s \ {f} \in SUBSET S /\ s \ {f} \notin Bad /\ x \in s \ {f}
    BY <2>1, <2>2, <2>3, <2>4
  <2>6. h[s \ {f}] = w[x] + h[(s \ {f}) \ {x}]
    BY <2>5
  <2>7. s \ {x} \in SUBSET S /\ s \ {x} \notin Bad /\ f \in s \ {x}
    BY <2>1, <2>2, <2>3, <2>4
  <2>8. h[s \ {x}] = w[f] + h[(s \ {x}) \ {f}]
    BY <2>7
  <2>9. (s \ {x}) \ {f} = (s \ {f}) \ {x} /\ (s \ {f}) \ {x} \in SUBSET S
    BY <2>7
  <2>10. h[s \ {x}] = w[f] + h[(s \ {f}) \ {x}]
    BY ONLY <2>8, <2>9
  <2>11. w[x] \in Int /\ w[f] \in Int /\ h[(s \ {f}) \ {x}] \in Int
    BY <2>2, <2>3, <2>9 DEF Weights
  <2> QED
    BY ONLY <2>2, <2>3, <2>6, <2>10, <2>11
<1>4. ASSUME NEW s \in SUBSET S, NEW x \in s PROVE h[s] = w[x] + h[s \ {x}]
  <2>1. s \notin Bad
    <3> HIDE DEF Bad
    <3> QED
      BY <1>3
  <2> QED
    BY <2>1
<1> QED
  BY <1>1, <1>4 DEF Adds

(* What is added to the same set from the same weights is the same.        *)
LEMMA AddsAgree ==
  ASSUME NEW S, IsFiniteSet(S), NEW A \in SUBSET S, NEW B \in SUBSET S,
         NEW w, NEW v, NEW g, NEW h, Adds(g, w, A), Adds(h, v, B),
         NEW s \in SUBSET (A \cap B), \A x \in s : w[x] = v[x]
  PROVE  g[s] = h[s]
<1> DEFINE Bad == {t \in SUBSET s : g[t] # h[t]}
<1>1. ASSUME Bad # {} PROVE FALSE
  <2>1. PICK t \in Bad : \A y \in Bad : y \subseteq t => y = t
    <3>1. Bad \subseteq SUBSET S
      OBVIOUS
    <3> HIDE DEF Bad
    <3> QED
      BY <1>1, <3>1, Smallest
  <2>2. t # {}
    BY <2>1 DEF Adds
  <2>3. PICK x \in t : TRUE
    BY <2>2
  <2>4. t \ {x} \notin Bad /\ t \ {x} \in SUBSET s
    BY <2>1, <2>3
  <2>5. g[t \ {x}] = h[t \ {x}]
    BY <2>4
  <2>6. g[t] = w[x] + g[t \ {x}] /\ h[t] = v[x] + h[t \ {x}]
    BY <2>1 DEF Adds
  <2> QED
    BY <2>1, <2>5, <2>6
<1>2. s \notin Bad
  <2> HIDE DEF Bad
  <2> QED
    BY <1>1
<1> QED
  BY <1>2

(* A finite set of numbers has a total, whoever computed it.               *)
LEMMA TotalAdds ==
  ASSUME NEW w, NEW S, Weights(w, S)
  PROVE  \E g : Adds(g, w, S) /\ g[S] = Total(w, S)
<1>1. PICK h : IsFold(h, w, S) /\ h \in [SUBSET S -> Int]
  BY FoldExists
<1>2. Adds(h, w, S)
  BY <1>1, FoldAdds
<1> QED
  BY <1>2 DEF Total

LEMMA TotalIs ==
  ASSUME NEW w, NEW S, Weights(w, S), NEW g, Adds(g, w, S)
  PROVE  g[S] = Total(w, S)
<1>1. PICK h : Adds(h, w, S) /\ h[S] = Total(w, S)
  BY TotalAdds
<1>2. IsFiniteSet(S) /\ S \in SUBSET S /\ S \in SUBSET (S \cap S)
  BY DEF Weights
<1> QED
  BY <1>1, <1>2, AddsAgree

LEMMA Fewer ==
  ASSUME NEW w, NEW S, Weights(w, S), NEW A \in SUBSET S
  PROVE  Weights(w, A)
BY FS_Subset DEF Weights

(* A total is taken one element at a time, in any order.                   *)
LEMMA TotalStep ==
  ASSUME NEW w, NEW S, Weights(w, S)
  PROVE  /\ Total(w, S) \in Int
         /\ S = {} => Total(w, S) = 0
         /\ \A x \in S : Total(w, S) = w[x] + Total(w, S \ {x})
<1>1. PICK g : Adds(g, w, S) /\ g[S] = Total(w, S)
  BY TotalAdds
<1>2. S \in SUBSET S /\ IsFiniteSet(S)
  BY DEF Weights
<1>3. ASSUME NEW x \in S PROVE Total(w, S) = w[x] + Total(w, S \ {x})
  <2>1. S \ {x} \in SUBSET S /\ S \ {x} \in SUBSET (S \cap (S \ {x}))
    OBVIOUS
  <2>2. PICK h : Adds(h, w, S \ {x}) /\ h[S \ {x}] = Total(w, S \ {x})
    BY <2>1, Fewer, TotalAdds
  <2>3. g[S \ {x}] = h[S \ {x}]
    BY <1>1, <1>2, <2>1, <2>2, AddsAgree
  <2> QED
    BY <1>1, <1>2, <2>2, <2>3 DEF Adds
<1> QED
  BY <1>1, <1>2, <1>3 DEF Adds

LEMMA TotalSame ==
  ASSUME NEW w, NEW v, NEW S, Weights(w, S), \A x \in S : v[x] = w[x]
  PROVE  Weights(v, S) /\ Total(v, S) = Total(w, S)
<1>1. Weights(v, S)
  BY DEF Weights
<1>2. PICK g : Adds(g, w, S) /\ g[S] = Total(w, S)
  BY TotalAdds
<1>3. PICK h : Adds(h, v, S) /\ h[S] = Total(v, S)
  BY <1>1, TotalAdds
<1>4. IsFiniteSet(S) /\ S \in SUBSET S /\ S \in SUBSET (S \cap S)
  BY DEF Weights
<1>5. g[S] = h[S]
  BY <1>2, <1>3, <1>4, AddsAgree
<1> QED
  BY <1>1, <1>2, <1>3, <1>5

(* Two parts without a common element add up.                              *)
LEMMA TotalUnion ==
  ASSUME NEW w, NEW S, Weights(w, S), NEW A \in SUBSET S, NEW B \in SUBSET S, A \cap B = {}
  PROVE  Total(w, A \cup B) = Total(w, A) + Total(w, B)
<1> DEFINE Bad == {t \in SUBSET A : Total(w, t \cup B) # Total(w, t) + Total(w, B)}
<1>1. ASSUME Bad # {} PROVE FALSE
  <2>1. PICK t \in Bad : \A y \in Bad : y \subseteq t => y = t
    <3>1. Bad \subseteq SUBSET S /\ IsFiniteSet(S)
      BY DEF Weights
    <3> HIDE DEF Bad
    <3> QED
      BY <1>1, <3>1, Smallest
  <2>2. /\ t \in SUBSET S /\ t \cup B \in SUBSET S
        /\ Weights(w, t) /\ Weights(w, t \cup B) /\ Weights(w, B)
    <3>1. t \in SUBSET S /\ t \cup B \in SUBSET S
      BY <2>1
    <3> QED
      BY <3>1, Fewer
  <2>3. Total(w, B) \in Int
    BY <2>2, TotalStep
  <2>4. t # {}
    <3>1. ASSUME t = {} PROVE FALSE
      <4>1. Total(w, t) = 0 /\ t \cup B = B
        BY <2>2, <3>1, TotalStep
      <4>2. Total(w, t \cup B) = Total(w, B)
        BY ONLY <4>1
      <4>3. Total(w, t \cup B) # Total(w, t) + Total(w, B)
        BY <2>1
      <4> QED
        BY <2>3, <4>1, <4>2, <4>3
    <3> QED
      BY <3>1
  <2>5. PICK x \in t : TRUE
    BY <2>4
  <2>6. /\ Total(w, t) = w[x] + Total(w, t \ {x})
        /\ Total(w, t \cup B) = w[x] + Total(w, (t \cup B) \ {x})
    BY <2>2, TotalStep
  <2>7. (t \cup B) \ {x} = (t \ {x}) \cup B
    BY <2>1, <2>5
  <2>8. Total(w, t \cup B) = w[x] + Total(w, (t \ {x}) \cup B)
    BY ONLY <2>6, <2>7
  <2>9. t \ {x} \notin Bad /\ t \ {x} \in SUBSET A
    BY <2>1, <2>5
  <2>10. Total(w, (t \ {x}) \cup B) = Total(w, t \ {x}) + Total(w, B)
    BY <2>9
  <2>11. w[x] \in Int /\ Total(w, t \ {x}) \in Int
    <3>1. Weights(w, t \ {x})
      BY <2>2, Fewer
    <3> QED
      BY <2>2, <3>1, TotalStep DEF Weights
  <2>12. Total(w, t \cup B) # Total(w, t) + Total(w, B)
    BY <2>1
  <2> QED
    BY ONLY <2>3, <2>6, <2>8, <2>10, <2>11, <2>12
<1>2. A \notin Bad
  <2> HIDE DEF Bad
  <2> QED
    BY <1>1
<1> QED
  BY <1>2

(* More rows without negative amounts do not total less.                   *)
LEMMA TotalGrows ==
  ASSUME NEW w, NEW S, Weights(w, S), \A x \in S : w[x] >= 0, NEW A \in SUBSET S
  PROVE  Total(w, A) <= Total(w, S)
<1> DEFINE Bad == {t \in SUBSET S : ~ Total(w, t) >= 0}
<1>1. ASSUME Bad # {} PROVE FALSE
  <2>1. PICK t \in Bad : \A y \in Bad : y \subseteq t => y = t
    <3>1. Bad \subseteq SUBSET S /\ IsFiniteSet(S)
      BY DEF Weights
    <3> HIDE DEF Bad
    <3> QED
      BY <1>1, <3>1, Smallest
  <2>2. Weights(w, t)
    BY <2>1, Fewer
  <2>3. t # {}
    <3>1. t = {} => Total(w, t) = 0
      BY <2>2, TotalStep
    <3> QED
      BY <2>1, <3>1
  <2>4. PICK x \in t : TRUE
    BY <2>3
  <2>5. t \ {x} \in SUBSET S /\ t \ {x} \notin Bad
    BY <2>1, <2>4
  <2>6. Total(w, t \ {x}) >= 0 /\ Total(w, t) = w[x] + Total(w, t \ {x})
    BY <2>2, <2>4, <2>5, TotalStep
  <2>7. Total(w, t \ {x}) \in Int /\ w[x] \in Int /\ w[x] >= 0
    <3>1. Weights(w, t \ {x})
      BY <2>5, Fewer
    <3> QED
      BY <2>1, <2>4, <3>1, TotalStep DEF Weights
  <2>8. ~ Total(w, t) >= 0
    BY <2>1
  <2> QED
    BY ONLY <2>6, <2>7, <2>8
<1>2. S \ A \notin Bad /\ S \ A \in SUBSET S
  <2> HIDE DEF Bad
  <2> QED
    BY <1>1
<1>3. Total(w, S \ A) >= 0
  BY <1>2
<1>4. A \cup (S \ A) = S
  OBVIOUS
<1>5. Total(w, A \cup (S \ A)) = Total(w, A) + Total(w, S \ A)
  BY <1>2, TotalUnion
<1>6. Total(w, S) = Total(w, A) + Total(w, S \ A)
  BY ONLY <1>4, <1>5
<1>7. Total(w, A) \in Int /\ Total(w, S \ A) \in Int
  <2>1. Weights(w, A) /\ Weights(w, S \ A)
    BY <1>2, Fewer
  <2> QED
    BY <2>1, TotalStep
<1> QED
  BY ONLY <1>3, <1>6, <1>7

-----------------------------------------------------------------------------
Amounts(tab) == [r \in DOMAIN tab |-> tab[r].amount]

(* The sums of the model are totals.                                       *)
LEMMA RevenueTotals ==
  ASSUME NEW tab, NEW S \in SUBSET DOMAIN tab, Weights(Amounts(tab), S)
  PROVE  Revenue(tab, S) = Total(Amounts(tab), S)
<1> DEFINE Own(h) ==
      h = [s \in SUBSET S |-> IF s = {} THEN 0 ELSE tab[First(s)].amount + h[s \ {First(s)}]]
<1>1. ASSUME NEW h, IsFold(h, Amounts(tab), S) PROVE Own(h)
  <2>1. \A s \in SUBSET S : s # {} => Amounts(tab)[First(s)] = tab[First(s)].amount
    BY FirstIn DEF Amounts
  <2>2. h = [s \in SUBSET S |-> IF s = {} THEN 0 ELSE Amounts(tab)[First(s)] + h[s \ {First(s)}]]
    BY <1>1 DEF IsFold
  <2> QED
    BY <2>1, <2>2
<1>2. ASSUME NEW h, Own(h) PROVE IsFold(h, Amounts(tab), S)
  <2>1. \A s \in SUBSET S : s # {} => Amounts(tab)[First(s)] = tab[First(s)].amount
    BY FirstIn DEF Amounts
  <2>2. h = [s \in SUBSET S |-> IF s = {} THEN 0 ELSE tab[First(s)].amount + h[s \ {First(s)}]]
    BY <1>2
  <2>3. h = [s \in SUBSET S |-> IF s = {} THEN 0 ELSE Amounts(tab)[First(s)] + h[s \ {First(s)}]]
    BY <2>1, <2>2
  <2> QED
    BY <2>3 DEF IsFold
<1>3. PICK f : IsFold(f, Amounts(tab), S) /\ f \in [SUBSET S -> Int]
  BY FoldExists
<1>4. PICK g : Own(g) /\ Revenue(tab, S) = g[S]
  <2>1. \E h : h = [s \in SUBSET S |-> IF s = {} THEN 0 ELSE tab[First(s)].amount + h[s \ {First(s)}]]
    BY <1>1, <1>3
  <2> QED
    BY <2>1 DEF Revenue, MapThenSumSet, MapThenFoldSet, First
<1>5. IsFold(g, Amounts(tab), S)
  BY <1>2, <1>4
<1>6. g[S] = f[S]
  <2>1. IsFiniteSet(S) /\ S \in SUBSET S /\ S \in SUBSET (S \cap S)
    BY DEF Weights
  <2> QED
    BY <1>3, <1>5, <2>1, FoldsAgree
<1>7. f[S] = Total(Amounts(tab), S)
  BY <1>3, FoldAdds, TotalIs
<1> QED
  BY <1>4, <1>6, <1>7

LEMMA SumIsTotal ==
  ASSUME NEW b, Weights(b, DOMAIN b)
  PROVE  Sum(b) = Total(b, DOMAIN b)
<1> DEFINE S == DOMAIN b
<1>1. PICK f : IsFold(f, b, S) /\ f \in [SUBSET S -> Int]
  BY FoldExists
<1>2. PICK g : IsFold(g, b, S) /\ Sum(b) = g[S]
  <2>1. \E h : h = [s \in SUBSET S |-> IF s = {} THEN 0 ELSE b[First(s)] + h[s \ {First(s)}]]
    BY <1>1 DEF IsFold
  <2> QED
    BY <2>1 DEF Sum, MapThenSumSet, MapThenFoldSet, First, IsFold
<1>3. g[S] = f[S]
  <2>1. IsFiniteSet(S) /\ S \in SUBSET S /\ S \in SUBSET (S \cap S)
    BY DEF Weights
  <2> HIDE DEF S
  <2> QED
    BY <1>1, <1>2, <2>1, FoldsAgree
<1>4. f[S] = Total(b, S)
  BY <1>1, FoldAdds, TotalIs
<1> QED
  BY <1>2, <1>3, <1>4

(* The rows of S in groups by their keys.                                  *)
Groups(group, key, K, S) ==
  K = {key[r] : r \in S} /\ \A k \in K : group[k] = {r \in S : key[r] = k}

(* The totals of the groups of rows total to the total of the rows.        *)
LEMMA GroupsTotal ==
  ASSUME NEW w, NEW S, Weights(w, S), NEW group, NEW key, NEW K, Groups(group, key, K, S),
         NEW b, \A k \in K : b[k] = Total(w, group[k])
  PROVE  Weights(b, K) /\ Total(b, K) = Total(w, S)
<1> USE DEF Groups
<1> DEFINE within(J) == {r \in S : key[r] \in J}
<1>1. IsFiniteSet(K)
  <2> DEFINE f == [r \in S |-> key[r]]
  <2>1. f \in Surjection(S, K)
    BY DEF Surjection
  <2> HIDE DEF f
  <2> QED
    BY <2>1, FS_Surjection DEF Weights
<1>2. Weights(b, K)
  <2>1. ASSUME NEW k \in K PROVE b[k] \in Int
    <3>1. Weights(w, group[k])
      BY Fewer
    <3>2. Total(w, group[k]) \in Int
      BY <3>1, TotalStep
    <3> QED
      BY <3>2
  <2> QED
    BY <1>1, <2>1 DEF Weights
<1> DEFINE Bad == {J \in SUBSET K : Total(b, J) # Total(w, within(J))}
<1>3. ASSUME Bad # {} PROVE FALSE
  <2>1. PICK J \in Bad : \A y \in Bad : y \subseteq J => y = J
    <3>1. Bad \subseteq SUBSET K
      OBVIOUS
    <3> HIDE DEF Bad
    <3> QED
      BY <1>1, <1>3, <3>1, Smallest
  <2>2. J \in SUBSET K /\ Total(b, J) # Total(w, within(J)) /\ Weights(b, J)
    <3>1. J \in SUBSET K
      BY <2>1
    <3> QED
      BY <1>2, <2>1, <3>1, Fewer
  <2>3. J # {}
    <3>1. ASSUME J = {} PROVE FALSE
      <4>1. within(J) = {} /\ Weights(w, {})
        BY <3>1, Fewer
      <4>2. Total(w, {}) = 0 /\ Total(b, J) = 0
        BY <2>2, <3>1, <4>1, TotalStep
      <4>3. Total(w, within(J)) = Total(w, {})
        BY ONLY <4>1
      <4> QED
        BY <2>2, <4>2, <4>3
    <3> QED
      BY <3>1
  <2>4. PICK k \in J : TRUE
    BY <2>3
  <2>5. J \ {k} \in SUBSET K /\ J \ {k} \notin Bad
    BY <2>1, <2>4
  <2>6. Total(b, J \ {k}) = Total(w, within(J \ {k}))
    BY <2>5
  <2>7. Total(b, J) = b[k] + Total(b, J \ {k}) /\ b[k] = Total(w, group[k])
    BY <2>2, <2>4, TotalStep
  <2>8. /\ group[k] \in SUBSET S /\ within(J \ {k}) \in SUBSET S
        /\ group[k] \cap within(J \ {k}) = {}
        /\ within(J) = group[k] \cup within(J \ {k})
    BY <2>4
  <2>9. Total(w, within(J)) = Total(w, group[k]) + Total(w, within(J \ {k}))
    <3>1. PICK A, B, C : A = group[k] /\ B = within(J \ {k}) /\ C = within(J)
      OBVIOUS
    <3>2. A \in SUBSET S /\ B \in SUBSET S /\ A \cap B = {} /\ C = A \cup B
      BY <2>8, <3>1
    <3>3. Weights(w, S)
      OBVIOUS
    <3>4. Total(w, A \cup B) = Total(w, A) + Total(w, B)
      BY ONLY <3>2, <3>3, TotalUnion
    <3>5. Total(w, C) = Total(w, A) + Total(w, B)
      BY ONLY <3>2, <3>4
    <3> HIDE DEF within
    <3> QED
      BY ONLY <3>1, <3>5
  <2> QED
    BY ONLY <2>2, <2>6, <2>7, <2>9
<1>4. K \notin Bad
  <2> HIDE DEF Bad
  <2> QED
    BY <1>3
<1>5. within(K) = S
  OBVIOUS
<1>6. Total(b, K) = Total(w, within(K))
  BY <1>4
<1> QED
  BY ONLY <1>2, <1>5, <1>6

(* The subtotals of all groups sum to the revenue, whatever the sales are  *)
(* grouped by, and none of them is negative.                               *)
LEMMA SubtotalsTotal ==
  ASSUME NEW tab, NEW S \in SUBSET DOMAIN tab, Weights(Amounts(tab), S),
         \A r \in S : tab[r].amount >= 0, NEW column
  PROVE  LET g == Subtotals(tab, S, column)
         IN  /\ DOMAIN g = GroupKeys(tab, S, column)
             /\ Weights(g, DOMAIN g) /\ Total(g, DOMAIN g) = Revenue(tab, S)
             /\ \A k \in DOMAIN g : g[k] >= 0
<1> DEFINE b == Subtotals(tab, S, column)
           w == Amounts(tab)
<1>1. PICK key : key = [r \in S |-> tab[r][column]]
  OBVIOUS
<1>2. PICK K : K = {key[r] : r \in S}
  OBVIOUS
<1>3. PICK group : group = [k \in K |-> {r \in S : key[r] = k}]
  OBVIOUS
<1>4. DOMAIN b = K
  BY <1>1, <1>2 DEF Subtotals, GroupKeys
<1>5. ASSUME NEW k \in K PROVE b[k] = Total(w, group[k])
  <2>1. b[k] = Revenue(tab, {r \in S : tab[r][column] = k})
    BY <1>4 DEF Subtotals
  <2>2. group[k] = {r \in S : tab[r][column] = k}
    BY <1>1, <1>3
  <2>3. group[k] \in SUBSET S /\ group[k] \in SUBSET DOMAIN tab
    BY <2>2
  <2>4. Revenue(tab, group[k]) = Total(w, group[k])
    BY <2>3, Fewer, RevenueTotals
  <2> QED
    BY <2>1, <2>2, <2>4
<1> HIDE DEF b
<1>6. Weights(b, K) /\ Total(b, K) = Total(w, S)
  <2>1. Groups(group, key, K, S)
    BY <1>2, <1>3 DEF Groups
  <2>2. Weights(w, S)
    OBVIOUS
  <2> HIDE DEF w
  <2> QED
    BY ONLY <1>5, <2>1, <2>2, GroupsTotal
<1>7. Revenue(tab, S) = Total(w, S)
  BY RevenueTotals
<1>8. DOMAIN b = GroupKeys(tab, S, column)
  BY DEF b, Subtotals
<1>9. ASSUME NEW k \in K PROVE b[k] >= 0
  <2>1. group[k] \in SUBSET S /\ {} \in SUBSET group[k]
    BY <1>3
  <2>2. Weights(w, group[k]) /\ Weights(w, {}) /\ \A x \in group[k] : w[x] >= 0
    BY <2>1, Fewer DEF w, Amounts
  <2> HIDE DEF w
  <2>3. Total(w, {}) = 0 /\ Total(w, group[k]) \in Int
    BY <2>2, TotalStep
  <2>4. Total(w, {}) <= Total(w, group[k])
    BY <2>1, <2>2, TotalGrows
  <2> QED
    BY <1>5, <2>3, <2>4
<1>10. /\ DOMAIN b = GroupKeys(tab, S, column)
       /\ Weights(b, DOMAIN b) /\ Total(b, DOMAIN b) = Revenue(tab, S)
       /\ \A k \in DOMAIN b : b[k] >= 0
  <2>1. Total(b, DOMAIN b) = Total(b, K)
    BY ONLY <1>4
  <2> HIDE DEF w
  <2> QED
    BY <1>4, <1>6, <1>7, <1>8, <1>9, <2>1
<1> QED
  BY ONLY <1>10 DEF b

(* A breakdown of sales that are not negative never sums to more than the  *)
(* revenue, and if they fall into no more groups than it returns it sums   *)
(* to just that, whatever it is broken down by.                            *)
THEOREM BreakdownSums ==
  ASSUME NEW tab, NEW S \in SUBSET DOMAIN tab, Weights(Amounts(tab), S),
         \A r \in S : tab[r].amount >= 0, NEW column, NEW b \in Breakdown(tab, S, column)
  PROVE  /\ Sum(b) \in Int /\ Revenue(tab, S) \in Int /\ Sum(b) <= Revenue(tab, S)
         /\ Cardinality(GroupKeys(tab, S, column)) <= GroupLimit => Sum(b) = Revenue(tab, S)
<1> DEFINE all == DOMAIN Subtotals(tab, S, column)
<1>1. PICK g : g = Subtotals(tab, S, column)
  OBVIOUS
<1>2. /\ all = GroupKeys(tab, S, column) /\ all = DOMAIN g
      /\ Weights(g, all) /\ Total(g, all) = Revenue(tab, S) /\ \A k \in all : g[k] >= 0
  BY <1>1, SubtotalsTotal
<1>3. PICK K : K \in Page(all, [k \in all |-> -g[k]], GroupLimit) /\ b = [k \in K |-> g[k]]
  BY <1>1 DEF Breakdown
<1> HIDE DEF all
<1>4. /\ K \in SUBSET all /\ DOMAIN b = K /\ \A k \in K : b[k] = g[k]
      /\ K # all => Cardinality(K) = GroupLimit
  BY <1>3 DEF Page
<1>5. Weights(g, K)
  BY <1>2, <1>4, Fewer
<1>6. Weights(b, K) /\ Total(b, K) = Total(g, K)
  BY <1>4, <1>5, TotalSame
<1>7. Sum(b) = Total(g, K)
  <2>1. Weights(b, DOMAIN b)
    BY <1>4, <1>6
  <2>2. Sum(b) = Total(b, DOMAIN b)
    BY <2>1, SumIsTotal
  <2> QED
    BY ONLY <1>4, <1>6, <2>2
<1>8. Total(g, K) \in Int /\ Total(g, all) \in Int
  BY <1>2, <1>5, TotalStep
<1>9. Total(g, K) <= Total(g, all)
  BY <1>2, <1>4, TotalGrows
<1>10. ASSUME Cardinality(all) <= GroupLimit PROVE K = all
  <2>1. IsFiniteSet(all) /\ IsFiniteSet(K)
    BY <1>2, <1>5 DEF Weights
  <2>2. Cardinality(K) <= Cardinality(all) /\ (Cardinality(all) = Cardinality(K) => all = K)
    BY <1>4, <2>1, FS_Subset
  <2>3. Cardinality(K) \in Nat /\ Cardinality(all) \in Nat
    BY <2>1, FS_CardinalityType
  <2> QED
    BY <1>4, <1>10, <2>2, <2>3, LimitsAssumption
<1>11. Cardinality(all) <= GroupLimit => Sum(b) = Total(g, all)
  BY <1>7, <1>10
<1> QED
  BY <1>2, <1>7, <1>8, <1>9, <1>11


-----------------------------------------------------------------------------
(* Reports.  A table whose rows are finitely many, with amounts that are   *)
(* not negative.                                                           *)
Sound(tab) ==
  IsFiniteSet(DOMAIN tab) /\ \A r \in DOMAIN tab : tab[r].amount \in Int /\ tab[r].amount >= 0

(* What the statements of a report return, on a sound table.               *)
LEMMA Earned ==
  ASSUME NEW tab, Sound(tab), NEW S \in SUBSET DOMAIN tab
  PROVE  /\ Revenue(tab, S) \in Int
         /\ \A A \in SUBSET S : Revenue(tab, A) <= Revenue(tab, S)
         /\ \A A, B \in SUBSET S :
              A \cap B = {} => Revenue(tab, A \cup B) = Revenue(tab, A) + Revenue(tab, B)
         /\ \A column : \A b \in Breakdown(tab, S, column) :
              /\ Sum(b) \in Int /\ Sum(b) <= Revenue(tab, S)
              /\ Cardinality(GroupKeys(tab, S, column)) <= GroupLimit
                   => Sum(b) = Revenue(tab, S)
<1> DEFINE w == Amounts(tab)
<1>1. \A A \in SUBSET S : /\ Weights(w, A) /\ A \in SUBSET DOMAIN tab
                          /\ \A x \in A : w[x] >= 0
  BY FS_Subset DEF Sound, Weights, Amounts
<1>2. \A A \in SUBSET S : Revenue(tab, A) = Total(w, A)
  <2>1. ASSUME NEW A \in SUBSET S PROVE Revenue(tab, A) = Total(w, A)
    BY <1>1, RevenueTotals
  <2> QED
    BY <2>1
<1> HIDE DEF w
<1>3. Total(w, S) \in Int
  BY <1>1, TotalStep
<1>4. \A A \in SUBSET S : Total(w, A) <= Total(w, S)
  <2>1. \A x \in S : w[x] >= 0
    BY <1>1
  <2> QED
    BY <1>1, <2>1, TotalGrows
<1>5. ASSUME NEW A \in SUBSET S, NEW B \in SUBSET S, A \cap B = {}
      PROVE  Revenue(tab, A \cup B) = Revenue(tab, A) + Revenue(tab, B)
  <2>1. Weights(w, S)
    BY <1>1
  <2>2. Total(w, A \cup B) = Total(w, A) + Total(w, B)
    BY <1>5, <2>1, TotalUnion
  <2> QED
    BY <1>2, <2>2
<1>6. ASSUME NEW column, NEW b \in Breakdown(tab, S, column)
      PROVE  /\ Sum(b) \in Int /\ Sum(b) <= Revenue(tab, S)
             /\ Cardinality(GroupKeys(tab, S, column)) <= GroupLimit
                  => Sum(b) = Revenue(tab, S)
  <2>1. Weights(Amounts(tab), S) /\ \A r \in S : tab[r].amount >= 0
    BY <1>1 DEF w, Sound
  <2> QED
    BY <2>1, BreakdownSums
<1> QED
  BY <1>2, <1>3, <1>4, <1>5, <1>6

(* Rows that are in two tables earn the same in both.                      *)
LEMMA EarnedSame ==
  ASSUME NEW tab, NEW copy, Sound(tab), NEW S \in SUBSET DOMAIN tab,
         S \subseteq DOMAIN copy, \A r \in S : copy[r] = tab[r]
  PROVE  Revenue(copy, S) = Revenue(tab, S)
<1>1. Weights(Amounts(tab), S)
  BY FS_Subset DEF Sound, Weights, Amounts
<1>2. \A r \in S : Amounts(copy)[r] = Amounts(tab)[r]
  BY DEF Amounts
<1>3. Weights(Amounts(copy), S) /\ Total(Amounts(copy), S) = Total(Amounts(tab), S)
  BY <1>1, <1>2, TotalSame
<1>4. S \in SUBSET DOMAIN copy
  OBVIOUS
<1> QED
  BY <1>1, <1>3, <1>4, RevenueTotals

-----------------------------------------------------------------------------
Summing == {"totalled", "grouped", "compared"}

Asks(c) == req[c].tool \in {"get_sales_summary", "generate_weekly_report"}

(* The sales of a period that were answered before a report began, which   *)
(* are all there are while nobody else reports any.                        *)
Part(c, period) == {d \in InPeriod(sales, period) : d \in earlier[c]}
Owed(c, period) == Revenue(sales, Part(c, period))
Current(c) == Revenue(sales, Reported(c))

Read == [total : Int, products : Int, regions : Int, previous : Int]

Undisturbed(c) == \A d \in DOMAIN sales : d \in earlier[c] \/ c \in earlier[d]

Totalled(c) == Asks(c) /\ (stage[c] \in Summing \/ answer[c] = "reported")
Grouped(c) == Asks(c) /\ (stage[c] \in {"grouped", "compared"} \/ answer[c] = "reported")
Regional(c) == Asks(c) /\ (stage[c] = "compared" \/ answer[c] = "reported")

(* The sum of a breakdown is no more than what the report owes, and is     *)
(* that if the sales it owes fall into no more groups than are returned.   *)
Agrees(c, column, sum) ==
  /\ sum <= Owed(c, Period(c))
  /\ Few(Reported(c) \cap earlier[c], column) => sum = Owed(c, Period(c))

(* Sales are never negative, and a sale is there before its call is over.  *)
RowsInv ==
  Sound(sales) /\ \A d \in DOMAIN sales : d \in Calls /\ stage[d] \in {"answering", "over"}

(* What a report has read so far.  No statement read more than there is    *)
(* now, and none that was not cut off less than the one before it.  While  *)
(* nobody disturbed the report the total is what it owes, and a breakdown  *)
(* no more than that, and just that if it was not cut off.                 *)
ReportInv(c) ==
  /\ answer[c] = "reported" => Asks(c) /\ stage[c] \in {"answering", "over"}
  /\ Totalled(c) => /\ seen[c] \in Read
                    /\ Undisturbed(c) => seen[c].total = Owed(c, Period(c))
                    /\ stage[c] \in {"totalled", "grouped"} => seen[c].total <= Current(c)
  /\ Grouped(c) => /\ Few(Reported(c), "product") => seen[c].total <= seen[c].products
                   /\ stage[c] = "grouped" => seen[c].products <= Current(c)
                   /\ Undisturbed(c) => Agrees(c, "product", seen[c].products)
  /\ Regional(c) => /\ Few(Reported(c), "region") => /\ seen[c].total <= seen[c].regions
                                                     /\ seen[c].products <= seen[c].regions
                    /\ Undisturbed(c) => Agrees(c, "region", seen[c].regions)
  /\ answer[c] = "reported" /\ req[c].tool = "generate_weekly_report" /\ Undisturbed(c)
       => seen[c].previous = Owed(c, PreviousWeek(Period(c)))

(* Rows are added, and none of them by a call that b takes for earlier.    *)
Extended(b) ==
  /\ Sound(sales)' /\ DOMAIN sales \subseteq DOMAIN sales'
  /\ \A d \in DOMAIN sales : sales'[d] = sales[d] /\ earlier'[d] = earlier[d]
  /\ \A d \in DOMAIN sales' : d \in earlier[b] => d \in DOMAIN sales

(* What a report has read is as it was, if it is still of interest.        *)
Kept(b) ==
  /\ req'[b] = req[b] /\ earlier'[b] = earlier[b]
  /\ answer'[b] = "reported" => /\ answer[b] = "reported" /\ seen'[b] = seen[b]
                                /\ stage'[b] \in {"answering", "over"}
  /\ stage'[b] \in Summing => stage'[b] = stage[b] /\ seen'[b] = seen[b]

(* Groups may be added to the sales of a report, not to those it owes.     *)
LEMMA FewKept ==
  ASSUME NEW b, RowsInv, Extended(b), Kept(b), NEW column
  PROVE  /\ Few(Reported(b), column)' => Few(Reported(b), column)
         /\ Few(Reported(b) \cap earlier[b], column)' <=> Few(Reported(b) \cap earlier[b], column)
<1>1. Period(b)' = Period(b)
  BY DEF Period, Kept
<1>2. /\ Reported(b) \subseteq Reported(b)' /\ Reported(b)' \subseteq DOMAIN sales'
      /\ \A r \in Reported(b) : sales'[r] = sales[r]
      /\ (Reported(b) \cap earlier[b])' = Reported(b) \cap earlier[b]
  BY <1>1 DEF Reported, InPeriod, Extended, Kept
<1>3. PICK A, B : /\ A = GroupKeys(sales, Reported(b), column)
                  /\ B = GroupKeys(sales', Reported(b)', column)
  OBVIOUS
<1>4. A \in SUBSET B
  BY <1>2, <1>3 DEF GroupKeys
<1>5. IsFiniteSet(B)
  <2>1. PICK T : T = Reported(b)'
    OBVIOUS
  <2>2. IsFiniteSet(T)
    BY <1>2, <2>1, FS_Subset DEF Extended, Sound
  <2>3. PICK f : f = [r \in T |-> sales'[r][column]]
    OBVIOUS
  <2>4. f \in Surjection(T, B)
    BY <1>3, <2>1, <2>3 DEF Surjection, GroupKeys
  <2> QED
    BY <2>2, <2>4, FS_Surjection
<1>6. IsFiniteSet(A) /\ Cardinality(A) <= Cardinality(B)
  BY <1>4, <1>5, FS_Subset
<1>7. Cardinality(A) \in Nat /\ Cardinality(B) \in Nat
  BY <1>5, <1>6, FS_CardinalityType
<1>8. Cardinality(B) <= GroupLimit => Cardinality(A) <= GroupLimit
  BY <1>6, <1>7, LimitsAssumption
<1>9. Few(Reported(b) \cap earlier[b], column)' <=> Few(Reported(b) \cap earlier[b], column)
  <2>1. PICK D : D = Reported(b) \cap earlier[b] /\ D = (Reported(b) \cap earlier[b])'
    BY <1>2
  <2>2. GroupKeys(sales', D, column) = GroupKeys(sales, D, column)
    BY <1>2, <2>1 DEF GroupKeys
  <2> QED
    BY <2>1, <2>2 DEF Few
<1> QED
  BY <1>3, <1>8, <1>9 DEF Few

LEMMA ReportKept ==
  ASSUME NEW b, RowsInv, ReportInv(b), Extended(b), Kept(b)
  PROVE  ReportInv(b)'
<1>1. Undisturbed(b)' => Undisturbed(b)
  BY DEF Undisturbed, Extended, Kept
<1>2. Period(b)' = Period(b)
  BY DEF Period, Kept
<1>3. ASSUME NEW period PROVE Owed(b, period)' = Owed(b, period)
  <2>1. Part(b, period)' = Part(b, period)
    BY DEF Part, InPeriod, Extended, Kept
  <2>2. /\ Part(b, period) \in SUBSET DOMAIN sales /\ Part(b, period) \subseteq DOMAIN sales'
        /\ \A d \in Part(b, period) : sales'[d] = sales[d]
    BY DEF Part, InPeriod, Extended
  <2>3. Revenue(sales', Part(b, period)) = Revenue(sales, Part(b, period))
    BY <2>2, EarnedSame DEF RowsInv
  <2> QED
    BY <2>1, <2>3 DEF Owed
<1>4. Current(b) \in Int /\ Current(b)' \in Int /\ Current(b) <= Current(b)'
  <2>1. /\ Reported(b) \in SUBSET DOMAIN sales /\ Reported(b)' \in SUBSET DOMAIN sales'
        /\ Reported(b) \in SUBSET (Reported(b)')
        /\ Reported(b) \subseteq DOMAIN sales' /\ \A d \in Reported(b) : sales'[d] = sales[d]
    BY <1>2 DEF Reported, InPeriod, Extended
  <2>2. Revenue(sales', Reported(b)) = Revenue(sales, Reported(b))
    BY <2>1, EarnedSame DEF RowsInv
  <2>3. Revenue(sales, Reported(b)) \in Int
    BY <2>1, Earned DEF RowsInv
  <2>4. /\ Revenue(sales', Reported(b)') \in Int
        /\ Revenue(sales', Reported(b)) <= Revenue(sales', Reported(b)')
    <3>1. Sound(sales')
      BY DEF Extended, Sound
    <3> QED
      BY <2>1, <3>1, Earned
  <2> QED
    BY <2>2, <2>3, <2>4 DEF Current
<1>5. /\ Totalled(b)' => Totalled(b) /\ seen'[b] = seen[b]
      /\ Grouped(b)' => Grouped(b) /\ seen'[b] = seen[b]
      /\ Regional(b)' => Regional(b) /\ seen'[b] = seen[b]
      /\ Asks(b)' <=> Asks(b)
  BY DEF Totalled, Grouped, Regional, Asks, Kept, Summing
<1>6. /\ stage'[b] \in {"totalled", "grouped"} => stage'[b] = stage[b]
      /\ answer'[b] = "reported" => /\ answer[b] = "reported" /\ seen'[b] = seen[b]
                                    /\ stage'[b] \in {"answering", "over"}
  BY DEF Kept, Summing
<1>7. Owed(b, Period(b))' = Owed(b, Period(b))
      /\ Owed(b, PreviousWeek(Period(b)))' = Owed(b, PreviousWeek(Period(b)))
  <2>1. PICK p, q : p = Period(b) /\ q = PreviousWeek(Period(b))
    OBVIOUS
  <2>2. Owed(b, p)' = Owed(b, p) /\ Owed(b, q)' = Owed(b, q)
    BY <1>3
  <2>3. Period(b)' = p /\ PreviousWeek(Period(b))' = q
    BY <1>2, <2>1 DEF PreviousWeek
  <2> QED
    BY <2>1, <2>2, <2>3 DEF Owed, Part
<1>8. ASSUME NEW column
      PROVE  /\ Few(Reported(b), column)' => Few(Reported(b), column)
             /\ \A v : Agrees(b, column, v) => Agrees(b, column, v)'
  <2>1. /\ Few(Reported(b), column)' => Few(Reported(b), column)
        /\ Few(Reported(b) \cap earlier[b], column)'
             <=> Few(Reported(b) \cap earlier[b], column)
    BY FewKept
  <2> QED
    BY <1>7, <2>1 DEF Agrees
<1>9. Totalled(b)' => /\ seen'[b] \in Read
                      /\ Undisturbed(b)' => seen'[b].total = Owed(b, Period(b))'
                      /\ stage'[b] \in {"totalled", "grouped"}
                           => seen'[b].total <= Current(b)'
  BY <1>1, <1>4, <1>5, <1>6, <1>7 DEF ReportInv, Read
<1>10. Grouped(b)' => /\ Few(Reported(b), "product")' => seen'[b].total <= seen'[b].products
                      /\ stage'[b] = "grouped" => seen'[b].products <= Current(b)'
                      /\ Undisturbed(b)' => Agrees(b, "product", seen[b].products)'
  <2>1. Grouped(b) => Totalled(b)
    BY DEF Grouped, Totalled, Summing
  <2>2. /\ Few(Reported(b), "product")' => Few(Reported(b), "product")
        /\ \A v : Agrees(b, "product", v) => Agrees(b, "product", v)'
    BY <1>8
  <2>3. Grouped(b)' => /\ Few(Reported(b), "product")' => seen'[b].total <= seen'[b].products
                       /\ stage'[b] = "grouped" => seen'[b].products <= Current(b)'
    BY <1>4, <1>5, <1>6, <2>1, <2>2 DEF ReportInv, Read
  <2>4. ASSUME Grouped(b)', Undisturbed(b)'
        PROVE  Agrees(b, "product", seen[b].products)'
    <3>1. PICK v : v = seen[b].products /\ v = seen'[b].products
      BY <1>5, <2>4
    <3>2. Agrees(b, "product", v)
      BY <1>1, <1>5, <2>4, <3>1 DEF ReportInv
    <3>3. Agrees(b, "product", v)'
      BY <2>2, <3>2
    <3> QED
      BY <3>1, <3>3
  <2> QED
    BY <2>3, <2>4
<1>11. Regional(b)' => /\ Few(Reported(b), "region")'
                            => /\ seen'[b].total <= seen'[b].regions
                               /\ seen'[b].products <= seen'[b].regions
                       /\ Undisturbed(b)' => Agrees(b, "region", seen[b].regions)'
  <2>1. /\ Few(Reported(b), "region")' => Few(Reported(b), "region")
        /\ \A v : Agrees(b, "region", v) => Agrees(b, "region", v)'
    BY <1>8
  <2>2. Regional(b)' /\ Few(Reported(b), "region")' => /\ seen'[b].total <= seen'[b].regions
                                                      /\ seen'[b].products <= seen'[b].regions
    BY <1>5, <2>1 DEF ReportInv
  <2>3. ASSUME Regional(b)', Undisturbed(b)'
        PROVE  Agrees(b, "region", seen[b].regions)'
    <3>1. PICK v : v = seen[b].regions /\ v = seen'[b].regions
      BY <1>5, <2>3
    <3>2. Agrees(b, "region", v)
      BY <1>1, <1>5, <2>3, <3>1 DEF ReportInv
    <3>3. Agrees(b, "region", v)'
      BY <2>1, <3>2
    <3> QED
      BY <3>1, <3>3
  <2> QED
    BY <2>2, <2>3
<1>12. answer'[b] = "reported" /\ req'[b].tool = "generate_weekly_report" /\ Undisturbed(b)'
        => seen'[b].previous = Owed(b, PreviousWeek(Period(b)))'
  BY <1>1, <1>6, <1>7 DEF ReportInv, Kept
<1>13. answer'[b] = "reported" => Asks(b)' /\ stage'[b] \in {"answering", "over"}
  BY <1>5, <1>6 DEF ReportInv
<1> QED
  BY <1>9, <1>10, <1>11, <1>12, <1>13 DEF ReportInv

(* What a sale is asked to be recorded with is a sale somebody reports.    *)
LEMMA Selling ==
  ASSUME NEW r \in Requests, r.tool = "add_sales_record" PROVE r.sale \in Sales
<1>1. PICK s \in Servers : r \in Served(s)
  BY DEF Requests
<1>2. s = "spreadsheets"
  BY <1>1 DEF Served, Servers
<1>3. \/ r \in [tool : {"add_sales_record"}, sale : Sales]
      \/ r \in [tool : {"get_sales_summary"}, period : Periods]
      \/ r \in [tool : {"generate_weekly_report"}]
  BY <1>1, <1>2 DEF Served
<1> QED
  BY <1>3

(* The actions of a call that read no sales.                               *)
Elsewhere(c) ==
  \/ Refuse(c) \/ Crm(c) \/ Tasks(c) \/ Calendar(c) \/ Email(c)
  \/ DbFails(c) \/ Answer(c) \/ Lose(c)

LEMMA EveryMove ==
  ASSUME WorkInv, NEW c \in Calls, Elsewhere(c) \/ Spreadsheets(c)
  PROVE  Moves(c)
BY OthersIdle, TasksMove, BookingsMove DEF Elsewhere, Others, Crm, Tasks, Calendar, Idles

LEMMA ElsewhereKeeps ==
  ASSUME WorkInv, NEW c \in Calls, ReportInv(c), Elsewhere(c)
  PROVE  /\ sales' = sales
         /\ \A b \in Calls \ {c} : answer'[b] = answer[b]
         /\ answer'[c] = "reported" => answer[c] = "reported" /\ seen' = seen
         /\ stage'[c] \notin Summing
<1> USE DEF Finish, Proceed, tables, Summing
<1>1. DOMAIN answer = Calls /\ DOMAIN stage = Calls /\ DOMAIN seen = Calls
  BY DEF WorkInv, LeadInv, CallInv, TypeOK
<1>2. stage[c] \in {"called", "absent", "loaded", "checked"} => answer[c] # "reported"
  BY DEF ReportInv
<1>3. CASE Refuse(c) \/ DbFails(c) \/ Answer(c) \/ Lose(c)
  BY <1>1, <1>3 DEF Refuse, DbFails, Answer, Lose
<1>4. CASE Crm(c)
  <2>1. CASE FindLead(c) \/ LoadLead(c)
    BY <1>1, <1>2, <2>1 DEF FindLead, LoadLead, At
  <2>2. CASE ReturnExisting(c) \/ InsertLead(c) \/ ReadLeads(c)
    BY <1>1, <2>2 DEF ReturnExisting, InsertLead, ReadLeads
  <2>3. CASE LeadUnknown(c) \/ SaveLead(c)
    BY <1>1, <2>3 DEF LeadUnknown, SaveLead
  <2> QED
    BY <1>4, <2>1, <2>2, <2>3 DEF Crm
<1>5. CASE Tasks(c)
  <2>1. CASE CreateTask(c) \/ LoadTask(c)
    BY <1>1, <1>2, <2>1 DEF CreateTask, LoadTask, At
  <2>2. CASE TaskUnknown(c) \/ SaveTask(c) \/ ReadTasks(c)
    BY <1>1, <2>2 DEF TaskUnknown, SaveTask, ReadTasks
  <2> QED
    BY <1>5, <2>1, <2>2 DEF Tasks
<1>6. CASE Calendar(c)
  <2>1. CASE FindConflicts(c)
    BY <1>1, <1>2, <2>1 DEF FindConflicts, At
  <2>2. CASE InsertEvent(c) \/ ReadToday(c)
    BY <1>1, <2>2 DEF InsertEvent, ReadToday
  <2> QED
    BY <1>6, <2>1, <2>2 DEF Calendar
<1>7. CASE Email(c)
  BY <1>1, <1>7 DEF Email, Draft, Send, SendFails
<1> QED
  BY <1>3, <1>4, <1>5, <1>6, <1>7 DEF Elsewhere

(* A move adds to the table what nobody takes for earlier.                 *)
LEMMA MoveExtends ==
  ASSUME WorkInv, RowsInv, NEW c \in Calls, Moves(c), Sound(sales)',
         \/ sales' = sales
         \/ sales' = Insert(sales, c, req[c].sale) /\ c \notin DOMAIN sales
  PROVE  \A b \in Calls : Extended(b)
<1> SUFFICES ASSUME NEW b \in Calls PROVE Extended(b)
  OBVIOUS
<1>1. c \notin earlier[b]
  BY DEF Moves, WorkInv, LeadInv
<1>2. CASE sales' = sales
  BY <1>2 DEF Extended, Moves
<1>3. CASE sales' = Insert(sales, c, req[c].sale) /\ c \notin DOMAIN sales
  <2>1. /\ DOMAIN sales' = DOMAIN sales \cup {c}
        /\ \A d \in DOMAIN sales : sales'[d] = sales[d]
    BY <1>3 DEF Insert
  <2> QED
    BY <1>1, <2>1 DEF Extended, Moves
<1> QED
  BY <1>2, <1>3

(* Who does not move keeps what it has read.                               *)
LEMMA MoveKeeps ==
  ASSUME WorkInv, NEW c \in Calls, Moves(c), NEW b \in Calls \ {c}, ReportInv(b),
         answer'[b] = answer[b]
  PROVE  Kept(b)
BY DEF Moves, Kept, ReportInv

LEMMA ReportElsewhere ==
  ASSUME WorkInv, RowsInv, \A b \in Calls : ReportInv(b), NEW c \in Calls, Elsewhere(c)
  PROVE  RowsInv' /\ \A b \in Calls : ReportInv(b)'
<1>1. Moves(c) /\ stage' \in [Calls -> InSession \cup {"idle", "answering", "over"}]
  BY EveryMove DEF Moves
<1>2. /\ sales' = sales
      /\ \A b \in Calls \ {c} : answer'[b] = answer[b]
      /\ answer'[c] = "reported" => answer[c] = "reported" /\ seen' = seen
      /\ stage'[c] \notin Summing
  BY ElsewhereKeeps
<1>3. RowsInv'
  <2>1. Sound(sales)'
    BY <1>2 DEF RowsInv, Sound
  <2>2. ASSUME NEW d \in DOMAIN sales PROVE stage'[d] \in {"answering", "over"}
    BY <1>1, <2>2 DEF RowsInv, Moves
  <2> QED
    BY <1>2, <2>1, <2>2 DEF RowsInv
<1>4. \A b \in Calls : Extended(b)
  BY <1>1, <1>2, <1>3, MoveExtends DEF RowsInv
<1>5. Kept(c)
  <2>1. answer'[c] = "reported" => stage'[c] \in {"answering", "over"}
    BY <1>1, <1>2 DEF ReportInv, Moves
  <2> QED
    BY <1>1, <1>2, <2>1 DEF Kept, Moves
<1> QED
  BY <1>1, <1>2, <1>3, <1>4, <1>5, MoveKeeps, ReportKept

LEMMA ReportInsert ==
  ASSUME WorkInv, RowsInv, \A b \in Calls : ReportInv(b), NEW c \in Calls, InsertSale(c)
  PROVE  RowsInv' /\ \A b \in Calls : ReportInv(b)'
<1>1. Moves(c)
  BY EveryMove DEF Spreadsheets
<1>2. /\ stage[c] = "called" /\ req[c].tool = "add_sales_record" /\ Acceptable(req[c])
      /\ sales' = Insert(sales, c, req[c].sale) /\ c \notin DOMAIN sales
      /\ stage'[c] = "answering" /\ answer'[c] = "created"
      /\ \A b \in Calls \ {c} : answer'[b] = answer[b]
  BY DEF InsertSale, At, Finish, RowsInv, WorkInv, LeadInv, CallInv, TypeOK
<1>3. DOMAIN sales' = DOMAIN sales \cup {c} /\ sales'[c] = req[c].sale
      /\ \A d \in DOMAIN sales : sales'[d] = sales[d]
  BY <1>2 DEF Insert
<1>4. req[c].sale.amount \in Int /\ req[c].sale.amount >= 0
  <2>1. req[c] \in Requests
    BY <1>2 DEF WorkInv, LeadInv, Pending
  <2>2. req[c].sale \in Sales
    BY <1>2, <2>1, Selling
  <2> QED
    BY <1>2, <2>2, SalesAssumption DEF Acceptable
<1>5. RowsInv'
  <2>1. IsFiniteSet(DOMAIN sales \cup {c})
    BY FS_AddElement DEF RowsInv, Sound
  <2>2. Sound(sales)'
    BY <1>3, <1>4, <2>1 DEF RowsInv, Sound
  <2>3. ASSUME NEW d \in DOMAIN sales' PROVE d \in Calls /\ stage'[d] \in {"answering", "over"}
    BY <1>1, <1>2, <1>3, <2>3 DEF RowsInv, Moves
  <2> QED
    BY <2>2, <2>3 DEF RowsInv
<1>6. \A b \in Calls : Extended(b)
  BY <1>1, <1>2, <1>5, MoveExtends DEF RowsInv
<1>7. Kept(c)
  BY <1>1, <1>2 DEF Kept, Moves, Summing
<1> QED
  BY <1>1, <1>2, <1>5, <1>6, <1>7, MoveKeeps, ReportKept

(* What a report owes and could read depends on nothing else.              *)
LEMMA SameTable ==
  ASSUME NEW c, UNCHANGED <<sales, req, earlier>>
  PROVE  /\ Period(c)' = Period(c) /\ Current(c)' = Current(c)
         /\ Asks(c)' <=> Asks(c)
         /\ Undisturbed(c)' <=> Undisturbed(c)
         /\ Owed(c, Period(c))' = Owed(c, Period(c))
         /\ Owed(c, PreviousWeek(Period(c)))' = Owed(c, PreviousWeek(Period(c)))
         /\ \A column : /\ Few(Reported(c), column)' <=> Few(Reported(c), column)
                        /\ \A v : Agrees(c, column, v)' <=> Agrees(c, column, v)
BY DEF Period, Current, Reported, InPeriod, Asks, Undisturbed, Owed, Part, PreviousWeek, Few,
       Agrees, GroupKeys

(* A statement reads a number.  While nothing has disturbed the report, a  *)
(* total is what is owed, and a breakdown agrees with it.                  *)
LEMMA StatementReads ==
  ASSUME WorkInv, RowsInv, NEW c \in Calls, stage[c] # "over"
  PROVE  /\ Current(c) \in Int
         /\ \A column : \A b \in Breakdown(sales, Reported(c), column) :
              /\ Sum(b) \in Int /\ Sum(b) <= Current(c)
              /\ Few(Reported(c), column) => Sum(b) = Current(c)
              /\ Undisturbed(c) => Agrees(c, column, Sum(b))
         /\ Undisturbed(c) => Current(c) = Owed(c, Period(c))
         /\ LET last == PreviousWeek(Period(c))
            IN  /\ Revenue(sales, InPeriod(sales, last)) \in Int
                /\ Undisturbed(c) => Revenue(sales, InPeriod(sales, last)) = Owed(c, last)
<1>1. \A period : InPeriod(sales, period) \in SUBSET DOMAIN sales
  BY DEF InPeriod
<1>2. \A period : Revenue(sales, InPeriod(sales, period)) \in Int
  BY <1>1, Earned DEF RowsInv
<1>3. ASSUME NEW period, Undisturbed(c)
      PROVE  Revenue(sales, InPeriod(sales, period)) = Owed(c, period)
  <2>1. \A d \in DOMAIN sales : d \in earlier[c]
    BY <1>3 DEF Undisturbed, RowsInv, WorkInv, LeadInv
  <2>2. Part(c, period) = InPeriod(sales, period)
    BY <2>1 DEF Part, InPeriod
  <2> QED
    BY <2>2 DEF Owed
<1>4. ASSUME NEW column, NEW b \in Breakdown(sales, Reported(c), column)
      PROVE  /\ Sum(b) \in Int /\ Sum(b) <= Current(c)
             /\ Few(Reported(c), column) => Sum(b) = Current(c)
             /\ Undisturbed(c) => Agrees(c, column, Sum(b))
  <2>1. /\ Sum(b) \in Int /\ Sum(b) <= Current(c)
        /\ Few(Reported(c), column) => Sum(b) = Current(c)
    <3>1. Reported(c) \in SUBSET DOMAIN sales
      BY DEF Reported, InPeriod
    <3> QED
      BY <3>1, <1>4, Earned DEF RowsInv, Current, Few
  <2>2. ASSUME Undisturbed(c) PROVE Agrees(c, column, Sum(b))
    <3>1. Current(c) = Owed(c, Period(c))
      BY <1>3, <2>2 DEF Current, Reported
    <3>2. Reported(c) \cap earlier[c] = Reported(c)
      BY <2>2 DEF Undisturbed, RowsInv, WorkInv, LeadInv, Reported, InPeriod
    <3> QED
      BY <2>1, <3>1, <3>2 DEF Agrees
  <2> QED
    BY <2>1, <2>2
<1> QED
  BY <1>2, <1>3, <1>4 DEF Current, Reported

LEMMA TotalsRead ==
  ASSUME WorkInv, RowsInv, NEW c \in Calls, ReportInv(c), SumTotals(c)
  PROVE  ReportInv(c)'
<1>1. /\ stage[c] = "called" /\ stage'[c] = "totalled" /\ answer' = answer
      /\ seen'[c] = [total |-> Current(c), products |-> 0, regions |-> 0, previous |-> 0]
      /\ UNCHANGED <<sales, req, earlier>>
  BY DEF SumTotals, Report, Proceed, Current, tables, WorkInv, LeadInv, CallInv
<1>2. answer[c] # "reported"
  BY <1>1 DEF ReportInv
<1>3. Current(c) \in Int /\ (Undisturbed(c) => Current(c) = Owed(c, Period(c)))
  BY <1>1, StatementReads
<1>4. seen'[c] \in Read /\ seen'[c].total = Current(c)
  BY <1>1, <1>3 DEF Read
<1>5. ~ Grouped(c)' /\ ~ Regional(c)'
  BY <1>1, <1>2 DEF Grouped, Regional
<1> QED
  BY <1>1, <1>2, <1>3, <1>4, <1>5, SameTable DEF ReportInv, Read

LEMMA ProductsRead ==
  ASSUME WorkInv, RowsInv, NEW c \in Calls, ReportInv(c), SumProducts(c)
  PROVE  ReportInv(c)'
<1>1. PICK b \in Breakdown(sales, Reported(c), "product") :
        /\ stage[c] = "totalled" /\ Asks(c) /\ stage'[c] = "grouped" /\ answer' = answer
        /\ seen'[c] = [seen[c] EXCEPT !.products = Sum(b)]
        /\ UNCHANGED <<sales, req, earlier>>
  BY DEF SumProducts, Report, Asks, Proceed, tables, WorkInv, LeadInv, CallInv
<1>2. answer[c] # "reported"
  BY <1>1 DEF ReportInv
<1>3. /\ Current(c) \in Int /\ Sum(b) \in Int /\ Sum(b) <= Current(c)
      /\ Few(Reported(c), "product") => Sum(b) = Current(c)
      /\ Undisturbed(c) => Agrees(c, "product", Sum(b))
  BY <1>1, StatementReads
<1>4. /\ seen[c] \in Read /\ seen[c].total <= Current(c)
      /\ Undisturbed(c) => seen[c].total = Owed(c, Period(c))
  BY <1>1 DEF ReportInv, Totalled, Summing, Read
<1>5. /\ seen'[c] \in Read /\ seen'[c].total = seen[c].total /\ seen'[c].products = Sum(b)
  BY <1>1, <1>3, <1>4 DEF Read
<1>6. ~ Regional(c)'
  BY <1>1, <1>2 DEF Regional
<1>7. /\ Few(Reported(c), "product")' => seen'[c].total <= seen'[c].products
      /\ seen'[c].products <= Current(c)' /\ seen'[c].total <= Current(c)'
      /\ Undisturbed(c)' => Agrees(c, "product", seen[c].products)'
  BY <1>1, <1>3, <1>4, <1>5, SameTable
<1> QED
  BY <1>1, <1>2, <1>4, <1>5, <1>6, <1>7, SameTable DEF ReportInv

LEMMA RegionsRead ==
  ASSUME WorkInv, RowsInv, NEW c \in Calls, ReportInv(c), SumRegions(c)
  PROVE  ReportInv(c)'
<1>1. PICK b \in Breakdown(sales, Reported(c), "region") :
        /\ stage[c] = "grouped" /\ Asks(c)
        /\ \/ stage'[c] = "compared" /\ answer' = answer
           \/ /\ req[c].tool = "get_sales_summary"
              /\ stage'[c] = "answering" /\ answer'[c] = "reported"
        /\ seen'[c] = [seen[c] EXCEPT !.regions = Sum(b)]
        /\ UNCHANGED <<sales, req, earlier>>
  BY DEF SumRegions, Regions, Report, Asks, Finish, tables, WorkInv, LeadInv, CallInv, TypeOK
<1>2. answer[c] # "reported"
  BY <1>1 DEF ReportInv
<1>3. /\ Current(c) \in Int /\ Sum(b) \in Int
      /\ Few(Reported(c), "region") => Sum(b) = Current(c)
      /\ Undisturbed(c) => Agrees(c, "region", Sum(b))
  BY <1>1, StatementReads
<1>4. /\ seen[c] \in Read /\ seen[c].total <= Current(c) /\ seen[c].products <= Current(c)
      /\ Few(Reported(c), "product") => seen[c].total <= seen[c].products
      /\ Undisturbed(c) => /\ seen[c].total = Owed(c, Period(c))
                           /\ Agrees(c, "product", seen[c].products)
  BY <1>1 DEF ReportInv, Totalled, Grouped, Summing, Read
<1>5. /\ seen'[c] \in Read /\ seen'[c].total = seen[c].total
      /\ seen'[c].products = seen[c].products /\ seen'[c].regions = Sum(b)
  BY <1>1, <1>3, <1>4 DEF Read
<1>6. /\ answer'[c] = "reported" => /\ stage'[c] = "answering"
                                    /\ req'[c].tool # "generate_weekly_report"
      /\ stage'[c] \notin {"totalled", "grouped"}
  BY <1>1, <1>2
<1>7. /\ Few(Reported(c), "product")' => seen'[c].total <= seen'[c].products
      /\ Few(Reported(c), "region")' => /\ seen'[c].total <= seen'[c].regions
                                        /\ seen'[c].products <= seen'[c].regions
      /\ Undisturbed(c)' => /\ seen'[c].total = Owed(c, Period(c))'
                            /\ Agrees(c, "product", seen[c].products)'
                            /\ Agrees(c, "region", seen[c].regions)'
  BY <1>1, <1>3, <1>4, <1>5, SameTable
<1> QED
  BY <1>1, <1>5, <1>6, <1>7, SameTable DEF ReportInv

LEMMA PreviousRead ==
  ASSUME WorkInv, RowsInv, NEW c \in Calls, ReportInv(c), SumPrevious(c)
  PROVE  ReportInv(c)'
<1> DEFINE before == Revenue(sales, InPeriod(sales, PreviousWeek(Period(c))))
<1>1. /\ stage[c] = "compared" /\ Asks(c) /\ stage'[c] = "answering" /\ answer'[c] = "reported"
      /\ seen'[c] = [seen[c] EXCEPT !.previous = before]
      /\ UNCHANGED <<sales, req, earlier>>
  BY DEF SumPrevious, Report, Asks, Finish, tables, WorkInv, LeadInv, CallInv, TypeOK
<1>2. /\ before \in Int
      /\ Undisturbed(c) => before = Owed(c, PreviousWeek(Period(c)))
  BY <1>1, StatementReads
<1>3. seen[c] \in Read
  BY <1>1 DEF ReportInv, Totalled, Summing
<1>4. /\ Few(Reported(c), "product") => seen[c].total <= seen[c].products
      /\ Few(Reported(c), "region") => /\ seen[c].total <= seen[c].regions
                                       /\ seen[c].products <= seen[c].regions
      /\ Undisturbed(c) => /\ seen[c].total = Owed(c, Period(c))
                           /\ Agrees(c, "product", seen[c].products)
                           /\ Agrees(c, "region", seen[c].regions)
  BY <1>1 DEF ReportInv, Totalled, Grouped, Regional, Summing
<1> HIDE DEF before
<1>5. /\ seen'[c] \in Read /\ seen'[c].total = seen[c].total
      /\ seen'[c].products = seen[c].products /\ seen'[c].regions = seen[c].regions
      /\ seen'[c].previous = before
  BY <1>1, <1>2, <1>3 DEF Read
<1>6. /\ Few(Reported(c), "product")' => seen'[c].total <= seen'[c].products
      /\ Few(Reported(c), "region")' => /\ seen'[c].total <= seen'[c].regions
                                        /\ seen'[c].products <= seen'[c].regions
      /\ Undisturbed(c)' => /\ seen'[c].total = Owed(c, Period(c))'
                            /\ Agrees(c, "product", seen[c].products)'
                            /\ Agrees(c, "region", seen[c].regions)'
  BY <1>1, <1>4, <1>5, SameTable
<1> QED
  BY <1>1, <1>2, <1>5, <1>6, SameTable DEF ReportInv

LEMMA ReportReads ==
  ASSUME WorkInv, RowsInv, \A b \in Calls : ReportInv(b), NEW c \in Calls,
         SumTotals(c) \/ SumProducts(c) \/ SumRegions(c) \/ SumPrevious(c)
  PROVE  RowsInv' /\ \A b \in Calls : ReportInv(b)'
<1>1. Moves(c)
  BY EveryMove DEF Spreadsheets
<1>2. /\ sales' = sales /\ stage[c] \notin {"answering", "over"}
      /\ \A b \in Calls \ {c} : answer'[b] = answer[b]
  <2>1. DOMAIN answer = Calls
    BY DEF WorkInv, CallInv, TypeOK
  <2>2. CASE SumTotals(c) \/ SumProducts(c)
    BY <2>2 DEF SumTotals, SumProducts, Report, Proceed, tables
  <2>3. CASE SumRegions(c) \/ SumPrevious(c)
    BY <2>1, <2>3 DEF SumRegions, SumPrevious, Report, Finish, tables
  <2> QED
    BY <2>2, <2>3
<1>3. RowsInv'
  <2>1. Sound(sales)'
    BY <1>2 DEF RowsInv, Sound
  <2>2. ASSUME NEW d \in DOMAIN sales PROVE stage'[d] \in {"answering", "over"}
    BY <1>1, <1>2, <2>2 DEF RowsInv, Moves
  <2> QED
    BY <1>2, <2>1, <2>2 DEF RowsInv
<1>4. \A b \in Calls : Extended(b)
  BY <1>1, <1>2, <1>3, MoveExtends DEF RowsInv
<1>5. \A b \in Calls \ {c} : ReportInv(b)'
  BY <1>1, <1>2, <1>4, MoveKeeps, ReportKept
<1> QED
  BY <1>3, <1>5, TotalsRead, ProductsRead, RegionsRead, PreviousRead

LEMMA ReportBegin ==
  ASSUME WorkInv, RowsInv, \A b \in Calls : ReportInv(b), NEW c \in Calls, Begin(c)
  PROVE  RowsInv' /\ \A b \in Calls : ReportInv(b)'
<1>1. /\ stage[c] = "idle" /\ stage'[c] = "called" /\ UNCHANGED <<seen, answer, sales>>
      /\ \A b \in Calls \ {c} : /\ stage'[b] = stage[b] /\ req'[b] = req[b]
                                 /\ earlier'[b] = earlier[b]
  BY DEF Begin, tables, WorkInv, LeadInv
<1>2. c \notin DOMAIN sales /\ answer[c] # "reported"
  BY <1>1 DEF RowsInv, ReportInv
<1>3. RowsInv'
  BY <1>1, <1>2 DEF RowsInv, Sound
<1>4. ASSUME NEW b \in Calls \ {c} PROVE ReportInv(b)'
  <2>1. Extended(b)
    BY <1>1, <1>2, <1>3 DEF Extended, RowsInv
  <2>2. Kept(b)
    BY <1>1 DEF Kept, ReportInv
  <2> QED
    BY <2>1, <2>2, ReportKept
<1>5. ReportInv(c)'
  BY <1>1, <1>2 DEF ReportInv, Totalled, Grouped, Regional, Summing
<1> QED
  BY <1>3, <1>4, <1>5

LEMMA ReportStep ==
  WorkInv /\ RowsInv /\ (\A b \in Calls : ReportInv(b)) /\ [Next]_vars
    => RowsInv' /\ \A b \in Calls : ReportInv(b)'
<1> SUFFICES ASSUME WorkInv, RowsInv, \A b \in Calls : ReportInv(b), [Next]_vars
             PROVE  RowsInv' /\ \A b \in Calls : ReportInv(b)'
  OBVIOUS
<1>1. CASE UNCHANGED vars
  <2>1. RowsInv'
    BY <1>1 DEF vars, RowsInv, Sound
  <2>2. ASSUME NEW b \in Calls PROVE Extended(b) /\ Kept(b)
    BY <1>1, <2>1 DEF vars, Extended, Kept, RowsInv, ReportInv
  <2> QED
    BY <2>1, <2>2, ReportKept
<1> QED
  BY <1>1, ReportBegin, ReportElsewhere, ReportInsert, ReportReads
     DEF Next, Over, Elsewhere, Spreadsheets

(* The two weeks of a weekly report have no day in common, and are the     *)
(* fourteen days of both.                                                  *)
LEMMA TwoWeeks ==
  ASSUME NEW c, req[c].tool = "generate_weekly_report", NEW day
  PROVE  LET this == Period(c)
             last == PreviousWeek(Period(c))
         IN  /\ ~ (day \in this.from .. this.to /\ day \in last.from .. last.to)
             /\ day \in this.from - 7 .. this.to
                  <=> day \in this.from .. this.to \/ day \in last.from .. last.to
<1>1. /\ Period(c) = [from |-> Today - (Today % 7), to |-> Today - (Today % 7) + 6]
  BY DEF Period, WeekBounds
<1>2. PICK m \in Int : m = Today - (Today % 7)
  BY CalendarAssumption
<1>3. Period(c) = [from |-> m, to |-> m + 6]
  BY <1>1, <1>2
<1>4. PreviousWeek(Period(c)) = [from |-> m - 7, to |-> m - 1]
  BY <1>3 DEF PreviousWeek
<1>5. CASE day \in Int
  BY <1>2, <1>3, <1>4, <1>5
<1>6. CASE day \notin Int
  BY <1>2, <1>3, <1>4, <1>6
<1> QED
  BY <1>5, <1>6

(* A report adds up, as far as its breakdowns return every group: what     *)
(* comes in between its statements is in the later ones only; undisturbed, *)
(* no breakdown exceeds the total, one that was not cut off sums to it,    *)
(* and a weekly report covers every sale of two weeks before it once.      *)
THEOREM ReportsSum == Spec => []ReportsAddUp
<1> DEFINE Inv == RowsInv /\ \A c \in Calls : ReportInv(c)
<1>1. Init => Inv
  <2> SUFFICES ASSUME Init PROVE Inv
    OBVIOUS
  <2>1. RowsInv
    BY FS_EmptySet DEF Init, RowsInv, Sound
  <2>2. \A c \in Calls : ReportInv(c)
    BY DEF Init, ReportInv, Totalled, Grouped, Regional, Summing
  <2> QED
    BY <2>1, <2>2
<1>2. ASSUME Inv, NEW c \in Calls, answer[c] = "reported", Undisturbed(c),
             req[c].tool = "generate_weekly_report"
      PROVE  LET known == [d \in DOMAIN sales \cap earlier[c] |-> sales[d]]
                 both == [from |-> Period(c).from - 7, to |-> Period(c).to]
             IN  seen[c].total + seen[c].previous = Revenue(known, InPeriod(known, both))
  <2>1. PICK known : known = [d \in DOMAIN sales \cap earlier[c] |-> sales[d]]
    OBVIOUS
  <2>2. PICK both : both = [from |-> Period(c).from - 7, to |-> Period(c).to]
    OBVIOUS
  <2>3. PICK A, B : A = Part(c, Period(c)) /\ B = Part(c, PreviousWeek(Period(c)))
    OBVIOUS
  <2>4. InPeriod(known, both) = A \cup B /\ A \cap B = {}
    <3>1. InPeriod(known, both)
            = {d \in DOMAIN sales \cap earlier[c] : sales[d].day \in both.from .. both.to}
      BY <2>1 DEF InPeriod
    <3>2. both.from = Period(c).from - 7 /\ both.to = Period(c).to
      BY <2>2
    <3>3. ASSUME NEW d \in DOMAIN sales \cap earlier[c]
          PROVE  /\ d \in InPeriod(known, both) <=> d \in A \/ d \in B
                 /\ ~ (d \in A /\ d \in B)
      <4>1. /\ d \in A <=> sales[d].day \in Period(c).from .. Period(c).to
            /\ d \in B <=> sales[d].day \in PreviousWeek(Period(c)).from
                                              .. PreviousWeek(Period(c)).to
        BY <2>3 DEF Part, InPeriod
      <4>2. d \in InPeriod(known, both) <=> sales[d].day \in Period(c).from - 7 .. Period(c).to
        BY <3>1, <3>2
      <4> QED
        BY <1>2, <4>1, <4>2, TwoWeeks
    <3>4. /\ A \subseteq DOMAIN sales \cap earlier[c] /\ B \subseteq DOMAIN sales \cap earlier[c]
          /\ InPeriod(known, both) \subseteq DOMAIN sales \cap earlier[c]
      BY <2>3, <3>1 DEF Part, InPeriod
    <3> QED
      BY <3>3, <3>4
  <2>5. /\ A \in SUBSET DOMAIN sales /\ B \in SUBSET DOMAIN sales /\ Sound(sales)
        /\ A \cup B \in SUBSET DOMAIN sales
        /\ A \cup B \subseteq DOMAIN known /\ \A r \in A \cup B : known[r] = sales[r]
    BY <1>2, <2>1, <2>3 DEF Part, InPeriod, RowsInv
  <2>6. Revenue(known, A \cup B) = Revenue(sales, A \cup B)
    BY <2>5, EarnedSame
  <2>7. Revenue(sales, A \cup B) = Revenue(sales, A) + Revenue(sales, B)
    <3>1. DOMAIN sales \in SUBSET DOMAIN sales
      OBVIOUS
    <3> QED
      BY <2>4, <2>5, <3>1, Earned
  <2>8. seen[c].total = Revenue(sales, A) /\ seen[c].previous = Revenue(sales, B)
    BY <1>2, <2>3 DEF ReportInv, Totalled, Owed
  <2>9. seen[c].total + seen[c].previous = Revenue(known, InPeriod(known, both))
    BY <2>4, <2>6, <2>7, <2>8
  <2> QED
    BY <2>1, <2>2, <2>9
<1>3. Inv => ReportsAddUp
  <2> SUFFICES ASSUME Inv, NEW c \in Calls, answer[c] = "reported"
               PROVE  /\ Few(Reported(c), "product") => seen[c].total <= seen[c].products
                      /\ Few(Reported(c), "region") => /\ seen[c].total <= seen[c].regions
                                                       /\ seen[c].products <= seen[c].regions
                      /\ Undisturbed(c) =>
                           LET before == Reported(c) \cap earlier[c]
                           IN  /\ seen[c].products <= seen[c].total
                               /\ seen[c].regions <= seen[c].total
                               /\ Few(before, "product") => seen[c].products = seen[c].total
                               /\ Few(before, "region") => seen[c].regions = seen[c].total
    BY <1>2 DEF ReportsAddUp, Undisturbed
  <2>1. Totalled(c) /\ Grouped(c) /\ Regional(c)
    BY DEF ReportInv, Totalled, Grouped, Regional
  <2> QED
    BY <2>1 DEF ReportInv, Agrees
<1>4. WorkInv /\ Inv /\ [Next]_vars => Inv'
  BY ReportStep
<1> QED
  BY <1>1, <1>3, <1>4, WorkInit, WorkStep, PTL DEF Spec
================================================================================

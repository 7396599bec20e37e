----------------------------- MODULE BusinessTools -----------------------------
(***************************************************************************)
(* Calls of the tools of one MCP server as units of work on its tables: no *)
(* two of the servers write the same table.  Every call has a database     *)
(* session of its own and commits once, at its end; each statement reads   *)
(* what others have committed by then.  An agent that repeats a call after *)
(* a timeout is another call, begun while the first may still be running.  *)
(*                                                                         *)
(* A row is called by the call that inserts it.  The update that a flush   *)
(* sends and the commit behind it are one step: nobody reads the row in    *)
(* between, and a second writer waits for the first.                       *)
(***************************************************************************)
EXTENDS BusinessData

CONSTANTS
  Calls,          \* tool calls
  Seed,           \* the lead and the task that are there from the start
  Spellings,      \* addresses as a model writes them
  Normal,         \* an address stripped and in lower case, as it is stored
  Slots,          \* pairs of start and end of an event somebody books
  Today,
  Sales,          \* sales somebody reports
  Periods,        \* pairs of days somebody asks a summary for
  Messages,       \* emails: addresses, copies and whether all are well-formed
  MaxRecipients,  \* addresses of one email
  None            \* no row, no value

(* The stored form of an address fits every way of writing it.             *)
ASSUME SpellingsAssumption ==
  Seed \notin Calls /\ \A s \in Spellings : <<s, Normal[s]>> \in Fits

(* An email has finitely many addresses, and the limit is a number.        *)
ASSUME MailAssumption ==
  /\ MaxRecipients \in Nat
  /\ \A m \in Messages : IsFiniteSet(m.to) /\ IsFiniteSet(m.cc)

(* Days are counted, and every day has a last tick.                        *)
ASSUME CalendarAssumption == Today \in Int /\ DayLength \in Nat \ {0}

(* Money is counted; a negative amount is a number too, and is refused.    *)
ASSUME SalesAssumption == \A s \in Sales : s.amount \in Int

Rows == Calls \cup {Seed}
LeadStatuses == {"new", "qualified"}

VARIABLES
  server,     \* the server
  stage,      \* where a call stands
  req,        \* its tool and arguments
  earlier,    \* calls that were over when it began
  seen,       \* what its statements returned so far
  answer,     \* what it answers
  leads, tasks, events, sales,
  delivered   \* addresses that got the email of a call

vars == <<server, stage, req, earlier, seen, answer, leads, tasks, events, sales, delivered>>
tables == <<leads, tasks, events, sales, delivered>>

(* The servers and the calls each of them has tools for.                   *)
Servers == {"crm", "tasks", "calendar", "spreadsheets", "email"}

Served(s) ==
  CASE s = "crm" ->
         [tool : {"create_lead"}, email : Spellings]
           \cup [tool : {"update_lead_status"}, lead : {Seed}, status : LeadStatuses,
                 note : BOOLEAN]
           \cup [tool : {"update_lead_status"}, lead : {None}, status : {"new"},
                 note : {FALSE}]
           \cup [tool : {"get_leads"}, wanted : {"any", "qualified"}]
    [] s = "tasks" ->
         [tool : {"create_task"}, due : {"past", "future"}]
           \cup [tool : {"complete_task"}, task : {Seed, None}]
           \cup [tool : {"get_tasks", "get_overdue_tasks"}]
    [] s = "calendar" ->
         [tool : {"create_event"}, slot : Slots] \cup [tool : {"get_todays_meetings"}]
    [] s = "spreadsheets" ->
         [tool : {"add_sales_record"}, sale : Sales]
           \cup [tool : {"get_sales_summary"}, period : Periods]
           \cup [tool : {"generate_weekly_report"}]
    [] s = "email" -> [tool : {"draft_email", "send_email"}, message : Messages]

Requests == UNION {Served(s) : s \in Servers}

Pending == [tool |-> "none"]

Init ==
  /\ server \in Servers
  /\ stage = [c \in Calls |-> "idle"]
  /\ req = [c \in Calls |-> Pending]
  /\ earlier = [c \in Calls |-> {}]
  /\ seen = [c \in Calls |-> None]
  /\ answer = [c \in Calls |-> "none"]
  /\ leads = [r \in {Seed} |-> [email |-> Seed, status |-> "new", notes |-> {}, made |-> 0]]
  /\ tasks = [r \in {Seed} |-> [status |-> "open", due |-> "past", completed |-> None]]
  /\ events = [r \in {} |-> None]
  /\ sales = [r \in {} |-> None]
  /\ delivered = [c \in Calls |-> {}]

-----------------------------------------------------------------------------
(* A call arrives at its server.                                           *)
Begin(c) ==
  /\ stage[c] = "idle"
  /\ \E r \in Served(server) : req' = [req EXCEPT ![c] = r]
  /\ stage' = [stage EXCEPT ![c] = "called"]
  /\ earlier' = [earlier EXCEPT ![c] = {d \in Calls : stage[d] = "over"}]
  /\ UNCHANGED <<server, seen, answer, tables>>

(* Mutant: the copies do not count.                                        *)
SendableWithoutCopies(m) ==
  m.valid /\ m.to # {} /\ Cardinality(m.to) <= MaxRecipients

(* build_draft, for a draft and for a sending alike.                       *)
Sendable(m) ==
  m.valid /\ m.to # {} /\ Cardinality(m.to) + Cardinality(m.cc) <= MaxRecipients

(* What a tool refuses before it opens a session.                          *)
Acceptable(r) ==
  /\ r.tool = "create_event" => r.slot[1] < r.slot[2]
  /\ r.tool = "add_sales_record" => r.sale.amount >= 0
  /\ r.tool \in {"draft_email", "send_email"} => Sendable(r.message)

At(c, s, tool) == stage[c] = s /\ req[c].tool = tool /\ Acceptable(req[c])

Finish(c, a) ==
  /\ stage' = [stage EXCEPT ![c] = "answering"]
  /\ answer' = [answer EXCEPT ![c] = a]
  /\ UNCHANGED <<server, req, earlier>>

Proceed(c, s, v) ==
  /\ stage' = [stage EXCEPT ![c] = s]
  /\ seen' = [seen EXCEPT ![c] = v]
  /\ UNCHANGED <<server, req, earlier, answer, tables>>

Refuse(c) ==
  /\ stage[c] = "called" /\ ~ Acceptable(req[c])
  /\ Finish(c, "refused")
  /\ UNCHANGED <<seen, tables>>

-----------------------------------------------------------------------------
(* Leads.                                                                  *)
FindLead(c) ==
  /\ At(c, "called", "create_lead")
  /\ Fitting(leads, req[c].email) = {}
  /\ Proceed(c, "absent", None)

ReturnExisting(c) ==
  /\ At(c, "called", "create_lead")
  /\ Fitting(leads, req[c].email) # {}
  /\ Finish(c, "existing")
  /\ seen' = [seen EXCEPT ![c] = Newest(leads, Fitting(leads, req[c].email))]
  /\ UNCHANGED tables

(* No constraint of the table keeps two leads from sharing an address.     *)
InsertLead(c) ==
  /\ At(c, "absent", "create_lead")
  /\ leads' = Insert(leads, c, [email |-> Normal[req[c].email], status |-> "new",
                                notes |-> {}, made |-> Cardinality(DOMAIN leads)])
  /\ Finish(c, "created")
  /\ UNCHANGED <<seen, tasks, events, sales, delivered>>

(* session.get by an identifier: malformed or unknown ones find nothing.   *)
LoadLead(c) ==
  /\ At(c, "called", "update_lead_status")
  /\ req[c].lead \in DOMAIN leads
  /\ Proceed(c, "loaded", leads[req[c].lead])

LeadUnknown(c) ==
  /\ At(c, "called", "update_lead_status")
  /\ req[c].lead \notin DOMAIN leads
  /\ Finish(c, "refused")
  /\ UNCHANGED <<seen, tables>>

(* Mutant: the note replaces the history.                                  *)
ReplaceNotes(c, row) == IF req[c].note THEN {c} ELSE row.notes

(* The history as this call read it, with its own note.                    *)
AppendNote(c, row) == IF req[c].note THEN seen[c].notes \cup {c} ELSE row.notes

(* Columns that are what this call read are not written.                   *)
Changed(c, row) ==
  [row EXCEPT !.status = IF req[c].status # seen[c].status THEN req[c].status ELSE row.status,
              !.notes = AppendNote(c, row)]

SaveLead(c) ==
  /\ At(c, "loaded", "update_lead_status")
  /\ leads' = [leads EXCEPT ![req[c].lead] = Changed(c, @)]
  /\ Finish(c, "updated")
  /\ UNCHANGED <<seen, tasks, events, sales, delivered>>

(* get_leads, get_lead and search_leads differ in what they select by.     *)
ReadLeads(c) ==
  /\ At(c, "called", "get_leads")
  /\ seen' = [seen EXCEPT ![c] = ListLeads(leads, req[c].wanted)]
  /\ Finish(c, "listed")
  /\ UNCHANGED tables

-----------------------------------------------------------------------------
(* Tasks.  The lead a task is linked to is left out: a malformed one is no *)
(* lead, and an unknown one breaks the foreign key, which is DbFails.      *)
CreateTask(c) ==
  /\ At(c, "called", "create_task")
  /\ tasks' = Insert(tasks, c, [status |-> "open", due |-> req[c].due, completed |-> None])
  /\ Finish(c, "created")
  /\ UNCHANGED <<seen, leads, events, sales, delivered>>

LoadTask(c) ==
  /\ At(c, "called", "complete_task")
  /\ req[c].task \in DOMAIN tasks
  /\ Proceed(c, "loaded", tasks[req[c].task])

TaskUnknown(c) ==
  /\ At(c, "called", "complete_task")
  /\ req[c].task \notin DOMAIN tasks
  /\ Finish(c, "refused")
  /\ UNCHANGED <<seen, tables>>

(* Mutant: completing a completed task again.                              *)
CompleteAgain(c) == TRUE

NotDone(c) == seen[c].status # "done"

(* The timestamp of a completion is the call that wrote it.                *)
DoneBy(c, row) == [row EXCEPT !.status = "done", !.completed = c]

SaveTask(c) ==
  /\ At(c, "loaded", "complete_task")
  /\ tasks' = IF NotDone(c) THEN [tasks EXCEPT ![req[c].task] = DoneBy(c, @)] ELSE tasks
  /\ Finish(c, "completed")
  /\ UNCHANGED <<seen, leads, events, sales, delivered>>

ReadTasks(c) ==
  /\ \/ At(c, "called", "get_tasks") /\ seen' = [seen EXCEPT ![c] = ListTasks(tasks)]
     \/ /\ At(c, "called", "get_overdue_tasks")
        /\ seen' = [seen EXCEPT ![c] = ListOverdue(tasks)]
  /\ Finish(c, "listed")
  /\ UNCHANGED tables

-----------------------------------------------------------------------------
(* The calendar.                                                           *)

(* Mutant: only events that lie within the slot are looked for.            *)
Containment(c) ==
  Page({r \in DOMAIN events : /\ events[r].from >= req[c].slot[1]
                              /\ events[r].to <= req[c].slot[2]},
       [r \in DOMAIN events |-> events[r].from], ConflictLimit)

(* Overlapping events, the earliest first, and no more than the limit.     *)
Conflicts(c) ==
  Page(ListEvents(events, req[c].slot[1], req[c].slot[2]),
       [r \in DOMAIN events |-> events[r].from], ConflictLimit)

(* How many were found is logged; the answer does not have them.           *)
FindConflicts(c) ==
  /\ At(c, "called", "create_event")
  /\ \E found \in Conflicts(c) : Proceed(c, "checked", found)

InsertEvent(c) ==
  /\ At(c, "checked", "create_event")
  /\ events' = Insert(events, c, [from |-> req[c].slot[1], to |-> req[c].slot[2]])
  /\ Finish(c, "created")
  /\ UNCHANGED <<seen, leads, tasks, sales, delivered>>

ReadToday(c) ==
  /\ At(c, "called", "get_todays_meetings")
  /\ LET day == DayBounds(Today)
     IN  seen' = [seen EXCEPT ![c] = ListEvents(events, day.from, day.to)]
  /\ Finish(c, "listed")
  /\ UNCHANGED tables

-----------------------------------------------------------------------------
(* Sales.  A report is several statements, each on what is committed then. *)
InsertSale(c) ==
  /\ At(c, "called", "add_sales_record")
  /\ sales' = Insert(sales, c, req[c].sale)
  /\ Finish(c, "created")
  /\ UNCHANGED <<seen, leads, tasks, events, delivered>>

Period(c) == IF req[c].tool = "get_sales_summary" THEN Ordered(req[c].period[1], req[c].period[2])
                                                  ELSE WeekBounds(Today)

Reported(c) == InPeriod(sales, Period(c))

Report(c, s) == req[c].tool \in {"get_sales_summary", "generate_weekly_report"} /\ stage[c] = s

SumTotals(c) ==
  /\ Report(c, "called")
  /\ Proceed(c, "totalled", [total |-> Revenue(sales, Reported(c)), products |-> 0,
                             regions |-> 0, previous |-> 0])

SumProducts(c) ==
  /\ Report(c, "totalled")
  /\ \E b \in Breakdown(sales, Reported(c), "product") :
       Proceed(c, "grouped", [seen[c] EXCEPT !.products = Sum(b)])

(* Mutant: a sale without a region is in no group.                         *)
RegionsKnown(c) ==
  Breakdown(sales, {r \in Reported(c) : sales[r].region # None}, "region")

Regions(c) == Breakdown(sales, Reported(c), "region")

SumRegions(c) ==
  /\ Report(c, "grouped")
  /\ \E b \in Regions(c) : seen' = [seen EXCEPT ![c].regions = Sum(b)]
  /\ IF req[c].tool = "get_sales_summary"
     THEN Finish(c, "reported")
     ELSE stage' = [stage EXCEPT ![c] = "compared"] /\ UNCHANGED <<server, req, earlier, answer>>
  /\ UNCHANGED tables

SumPrevious(c) ==
  /\ Report(c, "compared")
  /\ seen' = [seen EXCEPT ![c].previous =
                Revenue(sales, InPeriod(sales, PreviousWeek(Period(c))))]
  /\ Finish(c, "reported")
  /\ UNCHANGED tables

-----------------------------------------------------------------------------
(* Email.  There is no session, and so nothing to roll back.               *)
Draft(c) ==
  /\ At(c, "called", "draft_email")
  /\ Finish(c, "drafted")
  /\ UNCHANGED <<seen, tables>>

Addressees(c) == req[c].message.to \cup req[c].message.cc

(* The outbox takes the message whole; a mail server may refuse some of    *)
(* the addresses, which counts as sent, or all of them, which does not.    *)
Send(c) ==
  /\ At(c, "called", "send_email")
  /\ \E S \in (SUBSET Addressees(c)) \ {{}} : delivered' = [delivered EXCEPT ![c] = S]
  /\ Finish(c, "sent")
  /\ UNCHANGED <<seen, leads, tasks, events, sales>>

(* Nothing left, or it did and the goodbye of the server went wrong.       *)
SendFails(c) ==
  /\ At(c, "called", "send_email")
  /\ \E S \in {{}, Addressees(c)} : delivered' = [delivered EXCEPT ![c] = S]
  /\ Finish(c, "failed")
  /\ UNCHANGED <<seen, leads, tasks, events, sales>>

-----------------------------------------------------------------------------
InSession == {"called", "absent", "loaded", "checked", "totalled", "grouped", "compared"}

(* A statement or the commit fails: rollback, and the client is told.      *)
DbFails(c) ==
  /\ stage[c] \in InSession /\ Acceptable(req[c])
  /\ req[c].tool \notin {"draft_email", "send_email"}
  /\ Finish(c, "failed")
  /\ UNCHANGED <<seen, tables>>

Answer(c) ==
  /\ stage[c] = "answering"
  /\ stage' = [stage EXCEPT ![c] = "over"]
  /\ UNCHANGED <<server, req, earlier, seen, answer, tables>>

(* The server process or the connection is gone, before or after a commit. *)
Lose(c) ==
  /\ stage[c] \in InSession \cup {"answering"}
  /\ stage' = [stage EXCEPT ![c] = "over"]
  /\ answer' = [answer EXCEPT ![c] = "lost"]
  /\ UNCHANGED <<server, req, earlier, seen, tables>>

Crm(c) == \/ FindLead(c) \/ ReturnExisting(c) \/ InsertLead(c) \/ ReadLeads(c)
          \/ LoadLead(c) \/ LeadUnknown(c) \/ SaveLead(c)
Tasks(c) == CreateTask(c) \/ LoadTask(c) \/ TaskUnknown(c) \/ SaveTask(c) \/ ReadTasks(c)
Calendar(c) == FindConflicts(c) \/ InsertEvent(c) \/ ReadToday(c)
Spreadsheets(c) == \/ InsertSale(c) \/ SumTotals(c) \/ SumProducts(c) \/ SumRegions(c)
                   \/ SumPrevious(c)
Email(c) == Draft(c) \/ Send(c) \/ SendFails(c)

Over == (\A c \in Calls : stage[c] = "over") /\ UNCHANGED vars

Next ==
  \/ \E c \in Calls : \/ Begin(c) \/ Refuse(c)
                      \/ Crm(c) \/ Tasks(c) \/ Calendar(c) \/ Spreadsheets(c) \/ Email(c)
                      \/ DbFails(c) \/ Answer(c) \/ Lose(c)
  \/ Over

Spec == Init /\ [][Next]_vars

-----------------------------------------------------------------------------
(* Types of the calls and the tables.                                      *)
TypeOK ==
  /\ server \in Servers
  /\ stage \in [Calls -> InSession \cup {"idle", "answering", "over"}]
  /\ req \in [Calls -> Requests \cup {Pending}]
  /\ earlier \in [Calls -> SUBSET Calls]
  /\ answer \in [Calls -> {"none", "refused", "failed", "lost", "existing", "created",
                           "updated", "completed", "listed", "reported", "drafted", "sent"}]
  /\ DOMAIN leads \subseteq Rows /\ DOMAIN tasks \subseteq Rows
  /\ DOMAIN events \subseteq Calls /\ DOMAIN sales \subseteq Calls
  /\ \A r \in DOMAIN leads : leads[r].status \in LeadStatuses /\ leads[r].notes \subseteq Calls
  /\ \A r \in DOMAIN tasks :
       tasks[r].status \in OpenStatuses \cup {"done"} /\ tasks[r].completed \in Calls \cup {None}

(* Neither of two calls was over when the other one began.                 *)
Overlap(c, d) == c \notin earlier[d] /\ d \notin earlier[c]

(* crm/local.py: a create repeated after it ended finds the lead, however  *)
(* the address is written.  Two leads of one address come only from calls  *)
(* that were open at the same time.                                        *)
DuplicatesOverlap ==
  \A c, d \in DOMAIN leads \cap Calls :
    c # d /\ leads[c].email = leads[d].email => Overlap(c, d)

Updates(c, l) == req[c].tool = "update_lead_status" /\ req[c].lead = l

(* lead_repository.py, update_status: an answered change of a lead stands. *)
(* Its note is lost only to an overlapping change that wrote a note, and   *)
(* its status only to a change that overlapped or came later.              *)
UpdateStands ==
  \A l \in DOMAIN leads, c \in Calls :
    Updates(c, l) /\ answer[c] = "updated" =>
      /\ req[c].note => \/ c \in leads[l].notes
                        \/ \E d \in Calls \ {c} : Updates(d, l) /\ req[d].note /\ Overlap(c, d)
      /\ \/ leads[l].status = req[c].status
         \/ \E d \in Calls \ {c} : Updates(d, l) /\ d \notin earlier[c]

(* task_repository.py, complete: the time of a completion is kept, except  *)
(* from a call that began before the first completion had ended.           *)
CompletionKept ==
  [][\A t \in DOMAIN tasks : LET first == tasks[t].completed
                                 last == tasks'[t].completed
                             IN  first # None /\ last # first => Overlap(first, last)]_vars

(* What a write had answered before a listing began, the listing shows: a  *)
(* new lead, a booked meeting of today that does not begin with its last   *)
(* tick, and no task as outstanding that was completed.                    *)
ListingsAreCurrent ==
  \A r, c \in Calls :
    answer[r] = "listed" /\ c \in earlier[r] =>
      /\ req[r] = [tool |-> "get_leads", wanted |-> "any"]
           => /\ req[c].tool = "create_lead" /\ answer[c] = "created" => c \in seen[r]
              /\ answer[c] = "existing" => seen[c] \in seen[r]
      /\ req[r].tool \in {"get_tasks", "get_overdue_tasks"}
           => (answer[c] = "completed" => req[c].task \notin seen[r])
      /\ req[r].tool = "get_todays_meetings"
           => (req[c].tool = "create_event" /\ answer[c] = "created" =>
                 (c \in seen[r] <=> /\ events[c].from < (Today + 1) * DayLength - 1
                                   /\ events[c].to > Today * DayLength))

(* The sales fall into no more groups than a breakdown returns.            *)
Few(S, column) == Cardinality(GroupKeys(sales, S, column)) <= GroupLimit

(* A report adds up, as far as grouped_totals returns every group.  Sales  *)
(* that come in between its statements are in the later ones only; without *)
(* such sales no breakdown exceeds the total, one that was not cut off     *)
(* sums to it, and a weekly report covers two whole weeks, each once.      *)
ReportsAddUp ==
  \A c \in Calls :
    answer[c] = "reported" =>
      /\ Few(Reported(c), "product") => seen[c].total <= seen[c].products
      /\ Few(Reported(c), "region") => /\ seen[c].total <= seen[c].regions
                                      /\ seen[c].products <= seen[c].regions
      /\ (\A d \in DOMAIN sales : d \in earlier[c] \/ c \in earlier[d]) =>
           LET before == Reported(c) \cap earlier[c]
               known == [d \in DOMAIN sales \cap earlier[c] |-> sales[d]]
               both == [from |-> Period(c).from - 7, to |-> Period(c).to]
           IN  /\ seen[c].products <= seen[c].total /\ seen[c].regions <= seen[c].total
               /\ Few(before, "product") => seen[c].products = seen[c].total
               /\ Few(before, "region") => seen[c].regions = seen[c].total
               /\ req[c].tool = "generate_weekly_report" =>
                    seen[c].total + seen[c].previous = Revenue(known, InPeriod(known, both))

(* What d was shown has c in it, or is the limit of events, none of which  *)
(* begins after c.                                                         *)
Noticed(d, c) ==
  \/ c \in seen[d]
  \/ /\ Cardinality(seen[d]) = ConflictLimit
     /\ \A e \in seen[d] : events[e].from <= events[c].from

Clash(c, d) == events[c].from < events[d].to /\ events[d].from < events[c].to

(* calendar/server.py, create_event: what a booking finds does clash with  *)
(* it, and an event that was booked before it began is noticed by it,      *)
(* unless the search returned its limit of events that begin no later.     *)
ClashIsNoticed ==
  \A d \in DOMAIN events :
    /\ seen[d] \subseteq DOMAIN events
    /\ \A e \in seen[d] : Clash(e, d)
    /\ \A c \in DOMAIN events \cap earlier[d] : Clash(c, d) => Noticed(d, c)

(* email/base.py, MAX_RECIPIENTS: no email reaches more people than the    *)
(* limit; one that is said to be sent reached somebody, one that was       *)
(* refused or only drafted nobody.                                         *)
MailIsBounded ==
  \A c \in Calls : /\ Cardinality(delivered[c]) <= MaxRecipients
                   /\ answer[c] = "sent" => delivered[c] # {}
                   /\ answer[c] \in {"refused", "drafted"} => delivered[c] = {}
================================================================================

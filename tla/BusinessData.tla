----------------------------- MODULE BusinessData -----------------------------
(***************************************************************************)
(* What the statements of the business repositories return.  A table is a  *)
(* function from the identifiers of its rows to the rows.                  *)
(*                                                                         *)
(* Days are numbers, day 0 a Monday.  A day has DayLength ticks, the last  *)
(* one standing for the last microsecond.  Money is in cents.  A listing   *)
(* that a caller asks for is not longer than the limit the caller gives;   *)
(* the limits no caller can lift are constants.                            *)
(***************************************************************************)
EXTENDS Integers, FiniteSets, FiniteSetsExt

CONSTANTS
  Fits,           \* pairs of an address as written and a stored one that ILIKE relates
  DayLength,      \* ticks of a day
  ConflictLimit,  \* events one search for conflicts returns
  GroupLimit      \* products or regions one breakdown returns

ASSUME LimitsAssumption == ConflictLimit \in Nat /\ GroupLimit \in Nat

Insert(table, id, row) ==
  [r \in DOMAIN table \cup {id} |-> IF r = id THEN row ELSE table[r]]

(* The pages ORDER BY rank LIMIT limit may return of S, by how ties fall.  *)
Page(S, rank, limit) ==
  {K \in SUBSET S : /\ Cardinality(K) <= limit
                    /\ K # S => Cardinality(K) = limit
                    /\ \A k \in K, j \in S \ K : rank[k] <= rank[j]}

-----------------------------------------------------------------------------
(* Leads and tasks.                                                        *)

(* Mutant: the address is compared as it was written.                      *)
FittingExactly(leads, email) == {r \in DOMAIN leads : leads[r].email = email}

(* ILIKE ignores case, and takes "_" and "%" in the address for wildcards. *)
Fitting(leads, email) == {r \in DOMAIN leads : <<email, leads[r].email>> \in Fits}

Newest(leads, S) == CHOOSE r \in S : \A q \in S : leads[q].made <= leads[r].made

OpenStatuses == {"open", "in_progress"}

ListLeads(leads, wanted) == {r \in DOMAIN leads : wanted \in {"any", leads[r].status}}

ListTasks(tasks) == {r \in DOMAIN tasks : tasks[r].status \in OpenStatuses}

(* Mutant: the status is left out of the query.                            *)
ListLate(tasks) == {r \in DOMAIN tasks : tasks[r].due = "past"}

ListOverdue(tasks) ==
  {r \in DOMAIN tasks : tasks[r].status \in OpenStatuses /\ tasks[r].due = "past"}

-----------------------------------------------------------------------------
(* The calendar.                                                           *)
ListEvents(events, from, to) ==
  {r \in DOMAIN events : events[r].from < to /\ events[r].to > from}

(* time.max is the last tick of the day, not the first of the next.        *)
DayBounds(d) == [from |-> d * DayLength, to |-> d * DayLength + DayLength - 1]

-----------------------------------------------------------------------------
(* Sales.                                                                  *)
WeekBounds(d) == [from |-> d - (d % 7), to |-> d - (d % 7) + 6]

PreviousWeek(week) == [from |-> week.from - 7, to |-> week.from - 1]

(* A model that writes the days backwards gets the period it meant.        *)
Ordered(from, to) == IF from > to THEN [from |-> to, to |-> from]
                                  ELSE [from |-> from, to |-> to]

InPeriod(sales, period) == {r \in DOMAIN sales : sales[r].day \in period.from .. period.to}

Revenue(sales, S) == MapThenSumSet(LAMBDA r : sales[r].amount, S)

(* Rows without a region are a group of their own, called "unknown".       *)
GroupKeys(sales, S, column) == {sales[r][column] : r \in S}

Subtotals(sales, S, column) ==
  [k \in GroupKeys(sales, S, column) |->
     Revenue(sales, {r \in S : sales[r][column] = k})]

(* The breakdowns a query may return: the groups that sold most.           *)
Breakdown(sales, S, column) ==
  LET all == Subtotals(sales, S, column)
  IN  {[k \in K |-> all[k]] :
         K \in Page(DOMAIN all, [k \in DOMAIN all |-> -all[k]], GroupLimit)}

Sum(breakdown) == MapThenSumSet(LAMBDA k : breakdown[k], DOMAIN breakdown)
===============================================================================

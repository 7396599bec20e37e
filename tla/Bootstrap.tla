------------------------------ MODULE Bootstrap ------------------------------
(***************************************************************************)
(* Processes of the application that start on one PostgreSQL database, are *)
(* killed and are restarted by the container's restart policy: the schema, *)
(* the demo data, then the MCP layer.  Meanwhile tool servers store real   *)
(* business rows, and the first requests look for the demo user.           *)
(*                                                                         *)
(* A session sees what others committed.  An insert that would collide     *)
(* with a row another session has not committed waits for that session.    *)
(***************************************************************************)
EXTENDS Naturals

CONSTANTS
  Processes,   \* processes of the application, with AUTO_CREATE_SCHEMA
  Requests,    \* requests without authentication
  Host,        \* the process a request is sent to
  MaxFaults    \* kills, and failures of a dependency, over all sessions

Nobody == "nobody"     \* the author of rows whose author makes no difference

ASSUME BootstrapAssumption ==
  /\ Nobody \notin Processes
  /\ Processes \cap Requests = {} /\ Host \in [Requests -> Processes]
  /\ MaxFaults \in Nat

VARIABLES
  db,        \* committed rows
  tx,        \* rows a session has written and not committed
  pc,        \* what a session does next
  seeds,     \* SEED_DEMO_DATA of a process, as it was last started
  starts,    \* starts of a process so far
  faults,    \* faults so far
  leadAt     \* had a lead been committed when the process started

settings == <<seeds, starts, leadAt>>
vars == <<db, tx, pc, settings, faults>>

Sessions == Processes \cup Requests

(* Tables are told apart by their order; who filled them, by the start.    *)
Schema == 0
Users == 5
Leads == 1
Sales == 3
Business == 1 .. 4     \* leads, tasks, sales, events: the order of the seed
Row(t, p, n) == [table |-> t, by |-> p, start |-> n]
Own(t) == Row(t, Nobody, 0)
BatchRow(p, t) == Row(t, p, starts[p])

Present(t) == \E x \in db : x.table = t
Locked(s, t) == \E q \in Sessions \ {s} : \E x \in tx[q] : x.table = t

Init ==
  /\ db \in {{}, {Own(Schema)}, {Own(Schema), Own(Users)}}
  /\ tx = [s \in Sessions |-> {}]
  /\ pc = [s \in Sessions |-> IF s \in Processes THEN "down" ELSE "idle"]
  /\ seeds = [p \in Processes |-> FALSE]
  /\ starts = [p \in Processes |-> 0]
  /\ faults = 0
  /\ leadAt = [p \in Processes |-> FALSE]

Goto(s, to) == pc' = [pc EXCEPT ![s] = to]
Write(s, x) == tx' = [tx EXCEPT ![s] = @ \cup {x}] /\ UNCHANGED db
Commit(s) == db' = db \cup tx[s] /\ tx' = [tx EXCEPT ![s] = {}]

(* Mutant: a failed unit of work leaves its transaction open.              *)
LeftOpen(s) == UNCHANGED <<db, tx>>

Rollback(s) == tx' = [tx EXCEPT ![s] = {}] /\ UNCHANGED db

Read == UNCHANGED <<db, tx>>

-----------------------------------------------------------------------------
(* The lifespan of a process, up to the point where it serves.             *)
Start(p) ==
  /\ pc[p] = "down"
  /\ Goto(p, "checking")
  /\ \E seed \in BOOLEAN : seeds' = [seeds EXCEPT ![p] = seed]
  /\ starts' = [starts EXCEPT ![p] = @ + 1]
  /\ leadAt' = [leadAt EXCEPT ![p] = Present(Leads)]
  /\ UNCHANGED <<db, tx, faults>>

Prepared(p) == IF seeds[p] THEN "counting" ELSE "connecting"

(* create_all: what is not there yet is created, in one transaction.       *)
CheckSchema(p) ==
  /\ pc[p] = "checking"
  /\ Goto(p, IF Present(Schema) THEN Prepared(p) ELSE "creating")
  /\ Read /\ UNCHANGED <<settings, faults>>

CreateSchema(p) ==
  /\ pc[p] = "creating" /\ ~ Locked(p, Schema) /\ ~ Present(Schema)
  /\ Write(p, Own(Schema))
  /\ Goto(p, "created")
  /\ UNCHANGED <<settings, faults>>

CommitSchema(p) ==
  /\ pc[p] = "created"
  /\ Commit(p)
  /\ Goto(p, Prepared(p))
  /\ UNCHANGED <<settings, faults>>

(* Mutant: the demo user stands for the demo data.                         *)
EmptyOfUsers == ~ Present(Users)

(* Mutant: another table is counted.                                       *)
EmptyOfSales == ~ Present(Sales)

(* seed_demo_data skips unless there is no lead.                           *)
Empty == ~ Present(Leads)

Count(p) ==
  /\ pc[p] = "counting"
  /\ Goto(p, IF Empty THEN "identifying" ELSE "connecting")
  /\ Read /\ UNCHANGED <<settings, faults>>

(* get_by_email, in the spelling create_user stores.                       *)
Known == Present(Users)

(* get_or_create of the demo user: the owner of the demo data, and the     *)
(* caller of every request without authentication.                         *)
Identify(s) ==
  /\ pc[s] = "identifying"
  /\ Goto(s, IF Known THEN "working" ELSE "enrolling")
  /\ Read /\ UNCHANGED <<settings, faults>>

Enroll(s) ==
  /\ pc[s] = "enrolling" /\ ~ Locked(s, Users) /\ ~ Present(Users)
  /\ Write(s, Own(Users))
  /\ Goto(s, "working")
  /\ UNCHANGED <<settings, faults>>

Filled(p, t) == BatchRow(p, t) \in tx[p]

Fill(p, t) ==
  /\ pc[p] = "working" /\ ~ Filled(p, t)
  /\ \A u \in Business : u < t => Filled(p, u)
  /\ Write(p, BatchRow(p, t))
  /\ UNCHANGED <<pc, settings, faults>>

(* The one commit of the demo data.                                        *)
CommitSeed(p) ==
  /\ pc[p] = "working" /\ \A t \in Business : Filled(p, t)
  /\ Commit(p)
  /\ Goto(p, "connecting")
  /\ UNCHANGED <<settings, faults>>

(* The provider is built and the MCP layer starts.                         *)
Serve(p) ==
  /\ pc[p] = "connecting"
  /\ Goto(p, "serving")
  /\ Read /\ UNCHANGED <<settings, faults>>

-----------------------------------------------------------------------------
(* A request is attributed to the demo user before anything else; what it  *)
(* inserted for that is committed with its first unit of work.             *)
Ask(r) ==
  /\ pc[r] \in {"idle", "error"} /\ pc[Host[r]] = "serving"
  /\ Goto(r, "identifying")
  /\ Read /\ UNCHANGED <<settings, faults>>

Answer(r) ==
  /\ pc[r] = "working"
  /\ Commit(r)
  /\ Goto(r, "answered")
  /\ UNCHANGED <<settings, faults>>

(* The row was committed by another session: the insert is refused.  The   *)
(* start fails with it, and so does a request.                             *)
Collide(s) ==
  /\ \/ pc[s] = "creating" /\ ~ Locked(s, Schema) /\ Present(Schema)
     \/ pc[s] = "enrolling" /\ ~ Locked(s, Users) /\ Present(Users)
  /\ Rollback(s)
  /\ Goto(s, IF s \in Processes THEN "down" ELSE "error")
  /\ UNCHANGED <<settings, faults>>

-----------------------------------------------------------------------------
(* A tool server of its own, or another client, stores a business row.     *)
Store(t) ==
  /\ Present(Schema)
  /\ db' = db \cup {Own(t)}
  /\ UNCHANGED <<tx, pc, settings, faults>>

(* The process is killed, or a dependency makes its start fail: its        *)
(* transaction is rolled back and its requests are gone.                   *)
Die(p) ==
  /\ faults < MaxFaults /\ pc[p] # "down"
  /\ faults' = faults + 1
  /\ LET gone == {p} \cup {r \in Requests : Host[r] = p /\ pc[r] # "answered"}
     IN  /\ tx' = [s \in Sessions |-> IF s \in gone THEN {} ELSE tx[s]]
         /\ pc' = [s \in Sessions |-> IF s = p THEN "down"
                                      ELSE IF s \in gone THEN "idle" ELSE pc[s]]
  /\ UNCHANGED <<db, settings>>

(* A request fails before its first commit.                                *)
Abort(r) ==
  /\ faults < MaxFaults /\ pc[r] = "working"
  /\ faults' = faults + 1
  /\ Rollback(r)
  /\ Goto(r, "error")
  /\ UNCHANGED settings

(* A start, up to the MCP layer: it waits for the database only.           *)
Prepare(p) ==
  \/ Start(p) \/ CheckSchema(p) \/ CreateSchema(p) \/ CommitSchema(p) \/ Count(p)
  \/ Identify(p) \/ Enroll(p) \/ CommitSeed(p) \/ Collide(p)
  \/ \E t \in Business : Fill(p, t)

(* A request, up to its own work.                                          *)
Attribute(r) == Identify(r) \/ Enroll(r) \/ Collide(r)

Next ==
  \/ \E p \in Processes : Prepare(p) \/ Serve(p) \/ Die(p)
  \/ \E r \in Requests : Ask(r) \/ Attribute(r) \/ Answer(r) \/ Abort(r)
  \/ \E t \in Business : Store(t)

Spec == Init /\ [][Next]_vars

(* The restart policy starts a process that ended, and a session goes on   *)
(* when the database lets it.  Nothing is asked of what may wait for a     *)
(* tool server: the start of the MCP layer and the work of a request.      *)
FairSpec ==
  /\ Spec
  /\ \A p \in Processes : WF_vars(Prepare(p))
  /\ \A r \in Requests : WF_vars(Attribute(r))
-----------------------------------------------------------------------------
(* Types of the database and of the sessions.                              *)
AllRows == [table : Business \cup {Schema, Users}, by : Processes \cup {Nobody}, start : Nat]

TypeOK ==
  /\ db \subseteq AllRows
  /\ tx \in [Sessions -> SUBSET AllRows]
  /\ pc \in [Sessions -> {"down", "checking", "creating", "created", "counting", "identifying",
                          "enrolling", "working", "connecting", "serving", "idle", "answered",
                          "error"}]
  /\ seeds \in [Processes -> BOOLEAN] /\ leadAt \in [Processes -> BOOLEAN]
  /\ starts \in [Processes -> Nat] /\ faults \in Nat

(* A start that finds a lead, whoever stored it, stores no demo row: after *)
(* kills and restarts a second batch appears only where two starts seeded  *)
(* at the same time.                                                       *)
SeedsOnlyWithoutLeads ==
  [][\A x \in db' \ db : x.by \in Processes => ~ leadAt[x.by]]_vars

(* Wherever a process is killed, a batch of demo data is there as a whole  *)
(* or not at all, and a process that was told to seed does not serve an    *)
(* assistant without leads.                                                *)
ServesPrepared ==
  /\ \A x \in db : x.by \in Processes => {Row(t, x.by, x.start) : t \in Business} \subseteq db
  /\ \A p \in Processes : pc[p] = "serving" /\ seeds[p] => Present(Leads)

(* What the code sets no limit to: discovery awaits a tool server without  *)
(* a timeout, when the MCP layer starts and when a request asks for it     *)
(* that holds the demo user it has not committed.                          *)
HeldUp(p) ==
  \/ pc[p] = "connecting"
  \/ pc[p] = "enrolling" /\ \E r \in Requests : pc[r] = "working" /\ Own(Users) \in tx[r]

(* However starts and first requests collide, no process is restarted for  *)
(* ever, as each collision leaves behind what the next attempt finds: in   *)
(* the end a process serves, or waits for a tool server, its own or that   *)
(* of a request.  If every start of the MCP layer returns and the work of  *)
(* every request ends, all processes come up.                              *)
AllServe ==
  /\ <>[](\A p \in Processes : pc[p] = "serving" \/ HeldUp(p))
  /\ (\A p \in Processes : WF_vars(Serve(p))) /\ (\A r \in Requests : WF_vars(Answer(r)))
       => <>[](\A p \in Processes : pc[p] = "serving")

-----------------------------------------------------------------------------
(* The inductive invariant behind the two safety properties: what a session*)
(* has written and not committed is its own, a start that goes on to seed  *)
(* began without a lead, and one that need not seed finds one.             *)
Batch(p) == {BatchRow(p, t) : t \in Business}

TxInv ==
  /\ \A r \in Requests : tx[r] \subseteq {Own(Users)}
  /\ \A p \in Processes :
       /\ tx[p] \subseteq {Own(Schema), Own(Users)} \cup Batch(p)
       /\ pc[p] # "working" => tx[p] \subseteq {Own(Schema), Own(Users)}

SeedInv ==
  \A p \in Processes :
    /\ leadAt[p] => Present(Leads)
    /\ pc[p] \in {"identifying", "enrolling", "working"} => ~ leadAt[p]
    /\ pc[p] \in {"connecting", "serving"} /\ seeds[p] => Present(Leads)

IInv == TypeOK /\ TxInv /\ SeedInv /\ ServesPrepared
==============================================================================

------------------------------ MODULE McpManager ------------------------------
(***************************************************************************)
(* MCPManager and its MCPServerConnections: start-up, the supervisor task  *)
(* that owns each session, catalog discovery, and shutdown.                *)
(*                                                                         *)
(* Everything runs on one event loop; an action below is what a coroutine  *)
(* does between two awaits.  connect() and disconnect() of all servers run *)
(* concurrently, each against the supervisor task of its connection.       *)
(***************************************************************************)
EXTENDS Naturals

CONSTANTS
  Servers,      \* configured MCP servers
  Refreshers    \* requests to GET /tools?refresh=true

ASSUME StartupAssumption == {"startup", "free"} \cap Refreshers = {}

VARIABLES
  failFast,  \* mcp_fail_fast, read once per process
  state,     \* MCPServerConnection.state
  client,    \* MCPServerConnection._client is set
  held,      \* MCPServerConnection._supervisor is set
  ready,     \* the _ready event
  stop,      \* the _stop event
  task,      \* the supervisor task
  op,        \* the connect() or disconnect() of a connection
  failures,  \* MCPManager._failures
  catalog,   \* servers whose tools are in the catalog snapshot
  phase,     \* the life of the application
  lock,      \* who holds MCPManager._lock
  todo,      \* servers a refresh has still to list
  found      \* servers it has listed

connection == <<state, client, held, ready, stop, task>>
discovery  == <<catalog, lock, todo, found>>
vars == <<connection, op, failures, discovery, phase, failFast>>

Tasks == Refreshers \cup {"startup"}

Init ==
  /\ failFast \in BOOLEAN
  /\ state = [s \in Servers |-> "disconnected"]
  /\ client = [s \in Servers |-> FALSE] /\ held = [s \in Servers |-> FALSE]
  /\ ready = [s \in Servers |-> FALSE] /\ stop = [s \in Servers |-> FALSE]
  /\ task = [s \in Servers |-> "none"]
  /\ op = [s \in Servers |-> "none"]
  /\ failures = {} /\ catalog = {}
  /\ phase = "starting" /\ lock = "free"
  /\ todo = [t \in Tasks |-> {}] /\ found = [t \in Tasks |-> {}]

At(f, s, v) == [f EXCEPT ![s] = v]
Step(s, from, to) == op[s] = from /\ op' = At(op, s, to)
Connected(s) == state[s] = "connected" /\ client[s]

-----------------------------------------------------------------------------
(* The supervisor task.                                                    *)

(* The session is initialised and published.                               *)
EnterSession(s) ==
  /\ task[s] = "entering"
  /\ task' = At(task, s, "parked")
  /\ client' = At(client, s, TRUE)
  /\ state' = At(state, s, "connected")
  /\ ready' = At(ready, s, TRUE)
  /\ UNCHANGED <<held, stop, op, failures, discovery, phase, failFast>>

(* The stop event lets the task leave the session; closing takes a while.  *)
LeaveSession(s) ==
  /\ task[s] = "parked" /\ stop[s]
  /\ task' = At(task, s, "leaving")
  /\ UNCHANGED <<state, client, held, ready, stop, op, failures, discovery, phase, failFast>>

(* Mutant: the finally block does not withdraw the client.                 *)
FinallyKeepsClient(s) ==
  /\ ready' = At(ready, s, TRUE)
  /\ task' = At(task, s, "done")
  /\ UNCHANGED client

Finally(s) ==
  /\ client' = At(client, s, FALSE)
  /\ ready' = At(ready, s, TRUE)
  /\ task' = At(task, s, "done")

(* It could not connect, the transport broke, or it broke while closing.   *)
SessionFails(s) ==
  /\ task[s] \in {"entering", "parked", "leaving", "cancelled"}
  /\ Finally(s)
  /\ state' = At(state, s, "failed")
  /\ UNCHANGED <<held, stop, op, failures, discovery, phase, failFast>>

(* Closed in an orderly way, or unwound by a cancellation.                 *)
SessionEnds(s) ==
  /\ task[s] \in {"leaving", "cancelled"}
  /\ Finally(s)
  /\ state' = At(state, s, IF state[s] = "connected" THEN "closed" ELSE state[s])
  /\ UNCHANGED <<held, stop, op, failures, discovery, phase, failFast>>

-----------------------------------------------------------------------------
(* connect(), one per server, gathered by startup().                       *)
Connect(s) ==
  /\ phase = "starting"
  /\ Step(s, "none", "connecting")
  /\ state' = At(state, s, "connecting")
  /\ ready' = At(ready, s, FALSE) /\ stop' = At(stop, s, FALSE)
  /\ task' = At(task, s, "entering") /\ held' = At(held, s, TRUE)
  /\ UNCHANGED <<client, failures, discovery, phase, failFast>>

ConnectSucceeds(s) ==
  /\ ready[s] /\ state[s] = "connected"
  /\ Step(s, "connecting", "up")
  /\ failures' = failures \ {s}
  /\ UNCHANGED <<connection, discovery, phase, failFast>>

(* The event was set to report a failure: the task is over.                *)
ConnectFails(s) ==
  /\ ready[s] /\ state[s] # "connected"
  /\ Step(s, "connecting", "down")
  /\ held' = At(held, s, FALSE) /\ client' = At(client, s, FALSE)
  /\ failures' = failures \cup {s}
  /\ UNCHANGED <<state, ready, stop, task, discovery, phase, failFast>>

(* Mutant: the task is awaited without being cancelled.                    *)
AwaitUncancelled(s, from, to) == Step(s, from, to) /\ UNCHANGED task

(* _abort: cancel the task unless it is over; what follows awaits it.      *)
Cancel(s, from, to) ==
  /\ Step(s, from, to)
  /\ task' = At(task, s, IF task[s] = "done" THEN "done" ELSE "cancelled")

(* The session did not come up within mcp_startup_timeout_seconds.         *)
ConnectTimesOut(s) ==
  /\ Cancel(s, "connecting", "timing_out")
  /\ UNCHANGED <<state, client, held, ready, stop, failures, discovery, phase, failFast>>

(* Mutant: the cancelled task is not awaited.                              *)
ConnectForgets(s) ==
  /\ Step(s, "timing_out", "down")
  /\ held' = At(held, s, FALSE) /\ client' = At(client, s, FALSE)
  /\ state' = At(state, s, "failed")
  /\ failures' = failures \cup {s}
  /\ UNCHANGED <<ready, stop, task, discovery, phase, failFast>>

ConnectGivesUp(s) ==
  /\ task[s] = "done"
  /\ Step(s, "timing_out", "down")
  /\ held' = At(held, s, FALSE) /\ client' = At(client, s, FALSE)
  /\ state' = At(state, s, "failed")
  /\ failures' = failures \cup {s}
  /\ UNCHANGED <<ready, stop, task, discovery, phase, failFast>>

Settled == \A s \in Servers : op[s] \in {"up", "down"}

MustRefuse == failFast /\ failures # {}

StartupRefuses ==
  /\ phase = "starting" /\ Settled /\ MustRefuse
  /\ phase' = "refusing"
  /\ UNCHANGED <<connection, op, failures, discovery, failFast>>

StartupGoesOn ==
  /\ phase = "starting" /\ Settled /\ ~ MustRefuse
  /\ phase' = "discovering"
  /\ UNCHANGED <<connection, op, failures, discovery, failFast>>

-----------------------------------------------------------------------------
(* refresh_catalog(), by startup() and by requests, under the lock.        *)
BeginRefresh(t) ==
  /\ phase = IF t = "startup" THEN "discovering" ELSE "serving"
  /\ lock = "free"
  /\ lock' = t
  /\ todo' = At(todo, t, Servers) /\ found' = At(found, t, {})
  /\ UNCHANGED <<connection, op, failures, catalog, phase, failFast>>

(* Mutant: only servers that did not connect are skipped, not broken ones. *)
SkipUnconnected(t, s) ==
  /\ lock = t /\ s \in todo[t] /\ op[s] = "down"
  /\ todo' = At(todo, t, todo[t] \ {s})
  /\ UNCHANGED <<connection, op, failures, catalog, lock, found, phase, failFast>>

SkipServer(t, s) ==
  /\ lock = t /\ s \in todo[t] /\ ~ Connected(s)
  /\ todo' = At(todo, t, todo[t] \ {s})
  /\ UNCHANGED <<connection, op, failures, catalog, lock, found, phase, failFast>>

ListTools(t, s) ==
  /\ lock = t /\ s \in todo[t] /\ Connected(s)
  /\ todo' = At(todo, t, todo[t] \ {s}) /\ found' = At(found, t, found[t] \cup {s})
  /\ UNCHANGED <<connection, op, failures, catalog, lock, phase, failFast>>

(* Mutant: a server that fails mid-discovery is skipped and not recorded.  *)
ListUnrecorded(t, s) ==
  /\ lock = t /\ s \in todo[t] /\ Connected(s)
  /\ todo' = At(todo, t, todo[t] \ {s})
  /\ UNCHANGED <<connection, op, failures, catalog, lock, found, phase, failFast>>

ListFails(t, s) ==
  /\ lock = t /\ s \in todo[t] /\ Connected(s)
  /\ todo' = At(todo, t, todo[t] \ {s})
  /\ failures' = failures \cup {s}
  /\ UNCHANGED <<connection, op, catalog, lock, found, phase, failFast>>

EndRefresh(t) ==
  /\ lock = t /\ todo[t] = {}
  /\ catalog' = found[t]
  /\ lock' = "free"
  /\ phase' = IF t = "startup" THEN "serving" ELSE phase
  /\ UNCHANGED <<connection, op, failures, todo, found, failFast>>

-----------------------------------------------------------------------------
(* shutdown(): after the requests have drained, or because of fail-fast.   *)
Shutdown ==
  /\ phase = "serving" /\ lock = "free"
  /\ phase' = "stopping"
  /\ UNCHANGED <<connection, op, failures, discovery, failFast>>

Stopping == phase \in {"stopping", "refusing"}

Disconnect(s) ==
  /\ Stopping /\ op[s] \in {"up", "down"}
  /\ op' = At(op, s, IF held[s] THEN "disconnecting" ELSE "gone")
  /\ stop' = IF held[s] THEN At(stop, s, TRUE) ELSE stop
  /\ UNCHANGED <<state, client, held, ready, task, failures, discovery, phase, failFast>>

(* The transport does not close within ten seconds.                        *)
DisconnectTimesOut(s) ==
  /\ Cancel(s, "disconnecting", "aborting")
  /\ UNCHANGED <<state, client, held, ready, stop, failures, discovery, phase, failFast>>

Disconnected(s) ==
  /\ task[s] = "done"
  /\ Step(s, "disconnecting", "gone") \/ Step(s, "aborting", "gone")
  /\ held' = At(held, s, FALSE) /\ client' = At(client, s, FALSE)
  /\ state' = At(state, s, "closed")
  /\ UNCHANGED <<ready, stop, task, failures, discovery, phase, failFast>>

Stopped ==
  /\ Stopping /\ \A s \in Servers : op[s] = "gone"
  /\ phase' = IF phase = "refusing" THEN "refused" ELSE "stopped"
  /\ catalog' = {}
  /\ UNCHANGED <<connection, op, failures, lock, todo, found, failFast>>

Over == phase \in {"refused", "stopped"} /\ UNCHANGED vars

-----------------------------------------------------------------------------
(* What the application's own coroutines do once they can.                 *)
Lifecycle(s) ==
  \/ Connect(s) \/ ConnectSucceeds(s) \/ ConnectFails(s) \/ ConnectTimesOut(s)
  \/ ConnectGivesUp(s)
  \/ LeaveSession(s) \/ Disconnect(s) \/ DisconnectTimesOut(s) \/ Disconnected(s)

Unwind(s) == task[s] = "cancelled" /\ SessionEnds(s)

Advance ==
  \/ StartupRefuses \/ StartupGoesOn \/ Stopped
  \/ \E t \in Tasks : EndRefresh(t) \/ \E s \in Servers : SkipServer(t, s)

Next ==
  \/ \E s \in Servers : EnterSession(s) \/ SessionFails(s) \/ SessionEnds(s) \/ Lifecycle(s)
  \/ Advance
  \/ \E t \in Tasks : BeginRefresh(t)
  \/ \E t \in Tasks, s \in Servers : ListTools(t, s) \/ ListFails(t, s)
  \/ Shutdown
  \/ Over

Spec == Init /\ [][Next]_vars

(* Coroutines that can go on do, timers fire and a cancelled task unwinds. *)
(* A server owes no answer: it may hang in initialize, in tools/list and   *)
(* in an orderly close.                                                    *)
FairSpec ==
  /\ Spec
  /\ \A s \in Servers : WF_vars(Lifecycle(s)) /\ WF_vars(Unwind(s))
  /\ WF_vars(Advance)
  /\ WF_vars(BeginRefresh("startup"))
-----------------------------------------------------------------------------
(* Types of the connections and of the manager.                            *)
TypeOK ==
  /\ state \in [Servers -> {"disconnected", "connecting", "connected", "failed", "closed"}]
  /\ client \in [Servers -> BOOLEAN] /\ held \in [Servers -> BOOLEAN]
  /\ ready \in [Servers -> BOOLEAN] /\ stop \in [Servers -> BOOLEAN]
  /\ task \in [Servers -> {"none", "entering", "parked", "leaving", "cancelled", "done"}]
  /\ op \in [Servers -> {"none", "connecting", "timing_out", "up", "down", "disconnecting",
                          "aborting", "gone"}]
  /\ failFast \in BOOLEAN /\ failures \subseteq Servers /\ catalog \subseteq Servers
  /\ phase \in {"starting", "discovering", "serving", "stopping", "stopped", "refusing",
                 "refused"}
  /\ lock \in Tasks \cup {"free"}
  /\ todo \in [Tasks -> SUBSET Servers] /\ found \in [Tasks -> SUBSET Servers]

(* A session that requests may borrow belongs to a live supervisor: when   *)
(* the task is over, however it ended, no call can be routed to it.        *)
SessionIsSupervised ==
  \A s \in Servers : client[s] \/ state[s] = "connected" =>
    client[s] /\ task[s] \in {"parked", "leaving", "cancelled"} /\ held[s]

(* connect() only gives up, or fails, with its supervisor task over; and   *)
(* no supervisor, and so no child process, outlives the application, also  *)
(* when a server timed out, hung while closing or start-up was refused.    *)
NothingLeftBehind ==
  /\ \A s \in Servers : op[s] = "down" => task[s] = "done" /\ ~ held[s]
  /\ phase \in {"stopped", "refused"} =>
       \A s \in Servers : task[s] \in {"none", "done"} /\ ~ client[s] /\ catalog = {}

(* Between refreshes a connected server is in the catalog, or its absence  *)
(* is on record and reported by the health endpoint.                       *)
AbsenceIsRecorded ==
  phase = "serving" /\ lock = "free" =>
    \A s \in Servers : Connected(s) => s \in catalog \cup failures

(* Start-up ends, provided that connected servers answer tools/list, or    *)
(* fail: discovery has no timeout of its own and holds the lock.           *)
Answers(s) == ListTools("startup", s) \/ ListFails("startup", s)
StartupEnds ==
  (\A s \in Servers : WF_vars(Answers(s))) => <>(phase \in {"serving", "refused"})

(* No server can keep the others from being connected or given up, however *)
(* it hangs, nor keep the application from stopping.                       *)
NobodyHangs ==
  /\ <>(phase # "starting")
  /\ Stopping ~> phase \in {"stopped", "refused"}

-----------------------------------------------------------------------------
(* What a comment of the repository says and the code does not do.         *)

(* manager.py: is_degraded is "True when at least one configured server is *)
(* unavailable".                                                           *)
DegradedWhenUnavailable ==
  phase = "serving" /\ (\E s \in Servers : ~ Connected(s)) => failures # {}

==============================================================================

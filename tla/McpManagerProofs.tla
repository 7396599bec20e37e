--------------------------- MODULE McpManagerProofs ---------------------------
(***************************************************************************)
(* A session always has a live supervisor, a connected server without      *)
(* tools in the catalog has its reason on record, and nothing outlives a   *)
(* connect that failed or an application that stopped, for every number of *)
(* servers and of refreshes.                                               *)
(***************************************************************************)
EXTENDS McpManager, TLAPS

(* A client is published together with the connected state, and withdrawn  *)
(* with it by a task that ends.                                            *)
SessionInv(s) ==
  /\ client[s] <=> state[s] = "connected"
  /\ client[s] => task[s] \in {"parked", "leaving", "cancelled"}
  /\ task[s] = "parked" => client[s]

(* What the supervisor may be doing at each stage of connect and           *)
(* disconnect; only these two hold, cancel and let go of it.               *)
SupervisorInv(s) ==
  /\ op[s] = "none" <=> task[s] = "none"
  /\ held[s] <=> op[s] \in {"connecting", "timing_out", "up", "disconnecting", "aborting"}
  /\ op[s] = "connecting" =>
       \/ task[s] = "entering" /\ ~ ready[s]
       \/ task[s] \in {"parked", "done"}
  /\ op[s] \in {"timing_out", "aborting"} => task[s] \in {"cancelled", "done"}
  /\ op[s] = "up" => task[s] \in {"parked", "done"}
  /\ op[s] = "disconnecting" => task[s] \in {"parked", "leaving", "done"}
  /\ op[s] \in {"down", "gone"} => task[s] = "done"
  /\ stop[s] => op[s] \in {"disconnecting", "aborting", "gone"}

(* The lock is held in the phase its holder belongs to, and the last       *)
(* phases are reached when every server is gone and the catalog empty.     *)
PhaseInv ==
  /\ lock # "free" => phase = IF lock = "startup" THEN "discovering" ELSE "serving"
  /\ phase \in {"stopped", "refused"} => catalog = {} /\ \A s \in Servers : op[s] = "gone"

IInv == TypeOK /\ PhaseInv /\ \A s \in Servers : SessionInv(s) /\ SupervisorInv(s)
-------------------------------------------------------------------------------
LEMMA InvInit == Init => IInv
BY DEF Init, IInv, TypeOK, PhaseInv, SessionInv, SupervisorInv, Tasks

LEMMA TypeStep == TypeOK /\ [Next]_vars => TypeOK'
<1> SUFFICES ASSUME TypeOK, [Next]_vars PROVE TypeOK'
  OBVIOUS
<1> USE DEF TypeOK, At, Step, connection, discovery
<1>1. ASSUME NEW s \in Servers, EnterSession(s) \/ SessionFails(s) \/ SessionEnds(s) PROVE TypeOK'
  BY <1>1 DEF EnterSession, SessionFails, SessionEnds, Finally
<1>2. ASSUME NEW s \in Servers, Lifecycle(s) PROVE TypeOK'
  <2>1. CASE Connect(s) BY <2>1 DEF Connect
  <2>2. CASE ConnectSucceeds(s) BY <2>2 DEF ConnectSucceeds
  <2>3. CASE ConnectFails(s) BY <2>3 DEF ConnectFails
  <2>4. CASE ConnectTimesOut(s) BY <2>4 DEF ConnectTimesOut, Cancel
  <2>5. CASE ConnectGivesUp(s) BY <2>5 DEF ConnectGivesUp
  <2>6. CASE LeaveSession(s) BY <2>6 DEF LeaveSession
  <2>7. CASE Disconnect(s) BY <2>7 DEF Disconnect
  <2>8. CASE DisconnectTimesOut(s) BY <2>8 DEF DisconnectTimesOut, Cancel
  <2>9. CASE Disconnected(s) BY <2>9 DEF Disconnected
  <2> QED BY <1>2, <2>1, <2>2, <2>3, <2>4, <2>5, <2>6, <2>7, <2>8, <2>9 DEF Lifecycle
<1>3. CASE StartupRefuses \/ StartupGoesOn \/ Stopped \/ Shutdown
  BY <1>3 DEF StartupRefuses, StartupGoesOn, Stopped, Shutdown
<1>4. ASSUME NEW t \in Tasks, BeginRefresh(t) \/ EndRefresh(t) PROVE TypeOK'
  BY <1>4 DEF BeginRefresh, EndRefresh
<1>5. ASSUME NEW t \in Tasks, NEW s \in Servers, SkipServer(t, s) \/ ListTools(t, s) \/ ListFails(t, s)
      PROVE  TypeOK'
  BY <1>5 DEF SkipServer, ListTools, ListFails
<1>6. CASE UNCHANGED vars
  BY <1>6 DEF vars
<1> QED
  BY <1>1, <1>2, <1>3, <1>4, <1>5, <1>6 DEF Next, Advance, Over

-------------------------------------------------------------------------------
(* A step of one connection leaves the invariants of the others alone.     *)
Others(s) == \A q \in Servers \ {s} :
  /\ op'[q] = op[q] /\ task'[q] = task[q] /\ held'[q] = held[q] /\ client'[q] = client[q]
  /\ state'[q] = state[q] /\ ready'[q] = ready[q] /\ stop'[q] = stop[q]

Own(s) == SessionInv(s) /\ SupervisorInv(s)

LEMMA OthersKept ==
  ASSUME NEW s \in Servers, \A q \in Servers : Own(q), Others(s), Own(s)'
  PROVE  \A q \in Servers : Own(q)'
BY DEF Others, Own, SessionInv, SupervisorInv

(* What the supervisor task does.                                          *)
LEMMA TaskStep ==
  ASSUME IInv, NEW s \in Servers, EnterSession(s) \/ SessionFails(s) \/ SessionEnds(s) \/ LeaveSession(s)
  PROVE  Others(s) /\ Own(s)'
<1> USE DEF IInv, TypeOK, Others, Own, SessionInv, SupervisorInv, At
<1>1. CASE EnterSession(s) BY <1>1 DEF EnterSession
<1>2. CASE SessionFails(s) BY <1>2 DEF SessionFails, Finally
<1>3. CASE SessionEnds(s) BY <1>3 DEF SessionEnds, Finally
<1>4. CASE LeaveSession(s) BY <1>4 DEF LeaveSession
<1> QED
  BY <1>1, <1>2, <1>3, <1>4

(* What connect and disconnect do.                                         *)
LEMMA OperationStep ==
  ASSUME IInv, NEW s \in Servers, Lifecycle(s)
  PROVE  Others(s) /\ Own(s)'
<1> USE DEF IInv, TypeOK, Others, Own, SessionInv, SupervisorInv, At, Step, connection
<1>1. CASE Connect(s) BY <1>1 DEF Connect
<1>2. CASE ConnectSucceeds(s) BY <1>2 DEF ConnectSucceeds
<1>3. CASE ConnectFails(s) BY <1>3 DEF ConnectFails
<1>4. CASE ConnectTimesOut(s) BY <1>4 DEF ConnectTimesOut, Cancel
<1>5. CASE ConnectGivesUp(s) BY <1>5 DEF ConnectGivesUp
<1>6. CASE LeaveSession(s) BY <1>6, TaskStep
<1>7. CASE Disconnect(s) BY <1>7 DEF Disconnect
<1>8. CASE DisconnectTimesOut(s) BY <1>8 DEF DisconnectTimesOut, Cancel
<1>9. CASE Disconnected(s) BY <1>9 DEF Disconnected
<1> QED
  BY <1>1, <1>2, <1>3, <1>4, <1>5, <1>6, <1>7, <1>8, <1>9 DEF Lifecycle

LEMMA ConnectionStep ==
  ASSUME IInv, [Next]_vars
  PROVE  \A s \in Servers : Own(s)'
<1>0. \A s \in Servers : Own(s)
  BY DEF IInv, Own
<1>1. ASSUME NEW s \in Servers,
             EnterSession(s) \/ SessionFails(s) \/ SessionEnds(s) \/ Lifecycle(s)
      PROVE  \A q \in Servers : Own(q)'
  <2>1. Others(s) /\ Own(s)'
    BY <1>1, TaskStep, OperationStep
  <2> QED
    BY <1>0, <2>1, OthersKept
<1>2. CASE UNCHANGED <<connection, op>>
  BY <1>0, <1>2 DEF Own, SessionInv, SupervisorInv, connection
<1>3. ASSUME NEW t \in Tasks, BeginRefresh(t) \/ EndRefresh(t) PROVE UNCHANGED <<connection, op>>
  BY <1>3 DEF BeginRefresh, EndRefresh
<1>4. ASSUME NEW t \in Tasks, NEW s \in Servers, SkipServer(t, s) \/ ListTools(t, s) \/ ListFails(t, s)
      PROVE  UNCHANGED <<connection, op>>
  BY <1>4 DEF SkipServer, ListTools, ListFails
<1>5. ASSUME StartupRefuses \/ StartupGoesOn \/ Stopped \/ Shutdown \/ UNCHANGED vars
      PROVE  UNCHANGED <<connection, op>>
  BY <1>5 DEF StartupRefuses, StartupGoesOn, Stopped, Shutdown, vars, connection
<1> QED
  BY <1>1, <1>2, <1>3, <1>4, <1>5 DEF Next, Advance, Over

LEMMA PhaseStep ==
  ASSUME IInv, [Next]_vars
  PROVE  PhaseInv'
<1> USE StartupAssumption DEF IInv, TypeOK, PhaseInv, At, Step, Tasks
<1>1. ASSUME NEW s \in Servers, EnterSession(s) \/ SessionFails(s) \/ SessionEnds(s) PROVE PhaseInv'
  BY <1>1 DEF EnterSession, SessionFails, SessionEnds, discovery
<1>2. ASSUME NEW s \in Servers, Lifecycle(s) PROVE PhaseInv'
  <2>1. /\ phase' = phase /\ lock' = lock /\ catalog' = catalog
        /\ \A q \in Servers : op[q] = "gone" => op'[q] = "gone" \/ phase = "starting"
    BY <1>2 DEF Lifecycle, Connect, ConnectSucceeds, ConnectFails, ConnectTimesOut, ConnectGivesUp,
       LeaveSession, Disconnect, DisconnectTimesOut, Disconnected, Cancel, Stopping, discovery
  <2> QED
    BY <2>1
<1>3. CASE StartupRefuses \/ StartupGoesOn
  BY <1>3 DEF StartupRefuses, StartupGoesOn, discovery
<1>4. CASE Stopped \/ Shutdown
  BY <1>4 DEF Stopped, Shutdown, Stopping, discovery
<1>5. ASSUME NEW t \in Tasks, BeginRefresh(t) \/ EndRefresh(t) PROVE PhaseInv'
  BY <1>5 DEF BeginRefresh, EndRefresh
<1>6. ASSUME NEW t \in Tasks, NEW s \in Servers, SkipServer(t, s) \/ ListTools(t, s) \/ ListFails(t, s)
      PROVE  PhaseInv'
  BY <1>6 DEF SkipServer, ListTools, ListFails
<1>7. CASE UNCHANGED vars
  BY <1>7 DEF vars, discovery
<1> QED
  BY <1>1, <1>2, <1>3, <1>4, <1>5, <1>6, <1>7 DEF Next, Advance, Over

(* The inductive invariant of connections, supervisors and phases.         *)
THEOREM Invariant == Spec => []IInv
<1>1. IInv /\ [Next]_vars => IInv'
  BY TypeStep, ConnectionStep, PhaseStep DEF IInv, Own
<1> QED
  BY InvInit, <1>1, PTL DEF Spec

(* The connections, the refreshes and the manager keep their types.        *)
THEOREM TypeCorrect == Spec => []TypeOK
<1>1. IInv => TypeOK
  BY DEF IInv
<1> QED
  BY Invariant, <1>1, PTL

(* However a session ends, no call can be routed to it afterwards: a client*)
(* or a connected state belongs to a supervisor that is alive and held.    *)
THEOREM Supervised == Spec => []SessionIsSupervised
<1>1. IInv => SessionIsSupervised
  BY DEF IInv, TypeOK, SessionInv, SupervisorInv, SessionIsSupervised
<1> QED
  BY Invariant, <1>1, PTL

(* A connect that failed leaves no supervisor, and an application that     *)
(* stopped or refused to start leaves no supervisor, client or catalog.    *)
THEOREM NothingRemains == Spec => []NothingLeftBehind
<1>1. IInv => NothingLeftBehind
  BY DEF IInv, TypeOK, PhaseInv, SessionInv, SupervisorInv, NothingLeftBehind
<1> QED
  BY Invariant, <1>1, PTL
-------------------------------------------------------------------------------
(* Once start-up has gathered the connects no session can come up any more,*)
(* so a refresh accounts for every connected server: it is still to be     *)
(* listed, listed, or recorded as failed.                                  *)
AccountInv ==
  /\ phase # "starting" => \A s \in Servers : op[s] \notin {"none", "connecting", "timing_out"}
  /\ lock # "free" =>
       \A s \in Servers : Connected(s) => s \in todo[lock] \cup found[lock] \cup failures
  /\ AbsenceIsRecorded

(* A step that lets nobody connect, forgets no failure and leaves the      *)
(* refreshes alone keeps the account.                                      *)
LEMMA AccountKept ==
  ASSUME AccountInv, UNCHANGED discovery,
         failures \subseteq failures',
         phase' = "serving" => phase = "serving",
         \A s \in Servers : Connected(s)' => Connected(s),
         phase' # "starting" =>
           \A s \in Servers : op'[s] \notin {"none", "connecting", "timing_out"}
  PROVE  AccountInv'
<1>1. lock # "free" => \A s \in Servers : Connected(s)' => s \in (todo[lock] \cup found[lock] \cup failures)'
  BY DEF AccountInv, discovery
<1>2. AbsenceIsRecorded'
  BY DEF AccountInv, AbsenceIsRecorded, discovery
<1> QED
  BY <1>1, <1>2 DEF AccountInv, discovery

LEMMA AccountOfConnections ==
  ASSUME IInv, AccountInv, NEW s \in Servers,
         EnterSession(s) \/ SessionFails(s) \/ SessionEnds(s) \/ Lifecycle(s)
  PROVE  AccountInv'
<1>1. CASE EnterSession(s) \/ ConnectSucceeds(s)
  <2>1. op[s] = "connecting"
    BY <1>1 DEF IInv, TypeOK, SupervisorInv, EnterSession, ConnectSucceeds, Step
  <2>2. phase = "starting" /\ lock = "free"
    BY <2>1 DEF AccountInv, IInv, PhaseInv
  <2>3. phase' = "starting" /\ lock' = "free"
    BY <1>1, <2>2 DEF EnterSession, ConnectSucceeds, discovery
  <2> QED
    BY <2>3 DEF AccountInv, AbsenceIsRecorded
<1>2. CASE SessionFails(s) \/ SessionEnds(s)
  <2>1. \A q \in Servers : Connected(q)' => Connected(q)
    BY <1>2 DEF SessionFails, SessionEnds, Finally, Connected, At, IInv, TypeOK
  <2> QED
    BY <1>2, <2>1, AccountKept DEF SessionFails, SessionEnds, AccountInv
<1>3. CASE Connect(s)
  <2>1. \A q \in Servers : Connected(q)' => Connected(q)
    BY <1>3 DEF Connect, Connected, At, IInv, TypeOK
  <2> QED
    BY <1>3, <2>1, AccountKept DEF Connect, AccountInv
<1>4. CASE ConnectFails(s) \/ ConnectTimesOut(s) \/ ConnectGivesUp(s) \/ LeaveSession(s)
           \/ Disconnect(s) \/ DisconnectTimesOut(s) \/ Disconnected(s)
  <2>1. \A q \in Servers : Connected(q)' => Connected(q)
    BY <1>4 DEF ConnectFails, ConnectTimesOut, ConnectGivesUp, LeaveSession, Disconnect,
       DisconnectTimesOut, Disconnected, Connected, Step, Cancel, At, IInv, TypeOK
  <2>2. UNCHANGED <<discovery, phase>> /\ failures \subseteq failures'
    BY <1>4 DEF ConnectFails, ConnectTimesOut, ConnectGivesUp, LeaveSession, Disconnect,
       DisconnectTimesOut, Disconnected
  <2>3. phase # "starting" =>
          \A q \in Servers : op'[q] \notin {"none", "connecting", "timing_out"}
    BY <1>4 DEF AccountInv, ConnectFails, ConnectTimesOut, ConnectGivesUp, LeaveSession,
       Disconnect, DisconnectTimesOut, Disconnected, Step, Cancel, At, IInv, TypeOK
  <2> QED
    BY <2>1, <2>2, <2>3, AccountKept
<1> QED
  BY <1>1, <1>2, <1>3, <1>4 DEF Lifecycle

(* A refresh starts with every server to do, lists, skips or records each, *)
(* and publishes what it has listed.                                       *)
LEMMA AccountOfRefreshes ==
  ASSUME IInv, AccountInv, NEW t \in Tasks, NEW s \in Servers,
         BeginRefresh(t) \/ EndRefresh(t) \/ SkipServer(t, s) \/ ListTools(t, s) \/ ListFails(t, s)
  PROVE  AccountInv'
<1> USE StartupAssumption DEF IInv, TypeOK, At, Tasks, Connected, AccountInv, AbsenceIsRecorded, connection
<1>1. CASE BeginRefresh(t)
  BY <1>1 DEF BeginRefresh
<1>2. CASE EndRefresh(t)
  BY <1>2 DEF EndRefresh, PhaseInv
<1>3. CASE SkipServer(t, s)
  BY <1>3 DEF SkipServer
<1>4. CASE ListTools(t, s)
  BY <1>4 DEF ListTools
<1>5. CASE ListFails(t, s)
  BY <1>5 DEF ListFails
<1> QED
  BY <1>1, <1>2, <1>3, <1>4, <1>5

LEMMA AccountStep ==
  ASSUME IInv, AccountInv, [Next]_vars
  PROVE  AccountInv'
<1>1. ASSUME NEW s \in Servers,
             EnterSession(s) \/ SessionFails(s) \/ SessionEnds(s) \/ Lifecycle(s)
      PROVE  AccountInv'
  BY <1>1, AccountOfConnections
<1>2. ASSUME NEW t \in Tasks, BeginRefresh(t) \/ EndRefresh(t)
      PROVE  AccountInv'
  <2>1. CASE Servers = {}
    BY <2>1, <1>2 DEF AccountInv, AbsenceIsRecorded
  <2>2. CASE Servers # {}
    BY <2>2, <1>2, AccountOfRefreshes
  <2> QED BY <2>1, <2>2
<1>3. ASSUME NEW t \in Tasks, NEW s \in Servers,
             SkipServer(t, s) \/ ListTools(t, s) \/ ListFails(t, s)
      PROVE  AccountInv'
  BY <1>3, AccountOfRefreshes
<1>4. CASE StartupRefuses \/ StartupGoesOn \/ Stopped \/ Shutdown
  <2>1. Settled \/ phase # "starting"
    BY <1>4 DEF StartupRefuses, StartupGoesOn, Stopped, Shutdown, Stopping
  <2>2. phase' # "serving"
    BY <1>4 DEF StartupRefuses, StartupGoesOn, Stopped, Shutdown
  <2>3. UNCHANGED <<connection, op, failures, lock, todo, found>>
    BY <1>4 DEF StartupRefuses, StartupGoesOn, Stopped, Shutdown, discovery
  <2> QED
    BY <2>1, <2>2, <2>3 DEF AccountInv, AbsenceIsRecorded, Settled, Connected, connection
<1>5. CASE UNCHANGED vars
  BY <1>5 DEF vars, connection, discovery, AccountInv, AbsenceIsRecorded, Connected
<1> QED
  BY <1>1, <1>2, <1>3, <1>4, <1>5 DEF Next, Advance, Over

(* Between refreshes a server that is connected is in the catalog or its   *)
(* absence is on record, whatever happened to it while it was listed.  Of  *)
(* a server whose session broke nothing is said: it may be in neither.     *)
THEOREM AbsenceRecorded == Spec => []AbsenceIsRecorded
<1>1. Init => IInv /\ AccountInv
  BY InvInit DEF Init, AccountInv, AbsenceIsRecorded
<1>2. IInv /\ AccountInv /\ [Next]_vars => (IInv /\ AccountInv)'
  BY AccountStep, TypeStep, ConnectionStep, PhaseStep DEF IInv, Own
<1>3. AccountInv => AbsenceIsRecorded
  BY DEF AccountInv
<1> QED
  BY <1>1, <1>2, <1>3, PTL DEF Spec
===============================================================================

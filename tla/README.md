# A TLA+ model of the MCP business assistant

This directory specifies the control logic of the assistant in TLA+, checks it
with TLC on small instances, and proves the properties that matter most for
every instance with TLAPS. Every definition is translated from the source;
`PROJECT.json` maps it to the lines it stands for. Paths below are relative to
`src/app/` unless they say otherwise.

## 1. The system

A FastAPI application lets a language model work on business data through tools
of MCP servers (separate processes). One asyncio event loop serves all HTTP
requests; every request has its own database session and every `await` lets the
others run.

| Component | State it keeps | Operations | Correct when |
|---|---|---|---|
| Approval gate: `services/approval_service.py`, `repositories/approval_repository.py`, `models/database/approval.py` | the row in `approval_requests`; a copy of it in each session | `create_request`, `confirm`, `reject`, `verify_grant`, `mark_executed`, `mark_failed`, `expire_stale` | one decision per row, at most one dispatch per approval, of the payload that was shown, by somebody entitled to it |
| Tool execution gateway: `services/tool_execution_service.py` | none of its own | `execute`, `execute_approved` | no risky call without a verified confirmation; every approved row settled |
| Policy, registry, validation: `security/`, `mcp/validation.py` | none (pure) | `evaluate`, `classify`, `validate_arguments` | a denial is never downgraded; limits exact; unknown tools are high risk |
| Agent workflow: `agents/nodes.py`, `graph.py`, `state.py`, `runner.py` | `AgentState` of one run | six nodes, two routers, `run`, `resume_after_approval` | bounded, stops at the first approval, honest status |
| Conversation: `services/conversation_service.py`, `repositories/conversation_repository.py`, `agents/runner.py` | `messages` and `status` of a conversation | append a turn, `load_history`, mirror the outcome of a run | contiguous numbers, one result per call, no orphan sent to a provider; notices, approvals and reports agree; the status tells of the last run |
| MCP connections and manager: `mcp/client.py`, `mcp/manager.py` | state, client, supervisor task and events of each connection; failures, catalog, lock | connect, disconnect, abort, start-up, discovery, routing, shutdown | no session without supervisor, no process left behind, absences on record, no hang |
| Catalog: `mcp/discovery.py`, `mcp/types.py` | the snapshot | replace, restrict to read tools | a call finds its tool in it, at the proposal and again at the dispatch |
| Audit trail: `services/audit_service.py` | `audit_logs` | `record`, which commits the caller's session | never breaks a request |
| API, sessions, lifecycle: `api/`, `db/session.py`, `main.py` | one session and one loaded user per request | routes, start-up, shutdown | as the parts they call |
| Start-up: `main.py`, `db/session.py`, `db/seed.py`, `repositories/user_repository.py` | tables, demo data, the demo user | `create_all`, `seed_demo_data`, `get_or_create` | demo data whole or absent, never over real leads; no collision keeps a process down |
| LLM providers: `providers/llm/` | none between completions | `complete` with retries; heuristic planner | requests within both budgets, failures classified, no tool planned twice in a turn |
| Tool servers and integrations: `src/mcp_servers/`, `integrations/`, business repositories | leads, tasks, sales, events, sent mail | one tool call, one unit of work | a repeated or concurrent call does no more damage than the code accepts; reports and listings tell what is stored |

How they interact. `POST /chat` loads the user, stores the user turn and runs
the workflow; each proposed call goes through the gateway, which looks it up in
the catalog, validates it, asks the policy, and then refuses it, stores an
approval and pauses the run, or calls the manager, which routes it to a
connection. `POST /approvals/{id}/confirm` claims the row by a conditional
UPDATE, then runs the stored call through the same gateway with a *grant*, and
appends the result and a closing message to the transcript. Audit entries are
written on the caller's session, so that each one is also a commit of what the
caller did before.

What is hard here: two requests on one approval or one conversation; a session
that goes on with a copy of a row others change; writes by primary key next to
conditional ones; a pause or a report that is several commits of one run;
processes that prepare one database at the same time, or are killed while they
do; a timestamp taken before the statement that uses it; answers after a
timeout; a process that dies between the effect and the record of it; servers
that hang in any await; settings, roles and catalogs that change while an
approval waits; a business call repeated while the first one still runs. The
list, each at its line, is under `hazards` in `PROJECT.json`.

## 2. Modules

| Module | What it is |
|---|---|
| `Approvals` | approval gate, routes and approved execution, concurrent handlers on shared rows |
| `ApprovalGate` | abstract specification: propose, allow or bar once, release once |
| `ApprovalsRefinement` | the mapping of `Approvals` to `ApprovalGate` |
| `ApprovalsProofs` | type, safety and refinement theorems |
| `AgentRun`, `AgentRunProofs` | one run of the workflow; its theorems |
| `AssistedRun` (extends `AgentRun`), `AssistedRunProofs` | the run with the providers that answer its planner; that it implements `AgentRun`, and its own theorems |
| `Transcript` | replay of stored turns: window and repair, as operators |
| `Conversation` (extends `Transcript`) | composition: concurrent chats that call tools and ask for approvals, confirmations that execute and report, on one transcript, its approvals and its status |
| `ConversationRefinement` | the mapping of the approvals of a conversation to `ApprovalGate` |
| `ConversationProofs` | types, contiguity and refinement |
| `McpManager`, `McpManagerProofs` | connections, supervisor tasks, discovery, start-up and shutdown; its theorems |
| `Bootstrap`, `BootstrapProofs` | processes that prepare one database, are killed and restarted; its theorems |
| `Policy` | registry, argument check and policy rules, as operators |
| `ToolGateway` (extends `Policy`), `ToolGatewayProofs` | the gateway in a changing deployment; its theorems |
| `BusinessData` | what the statements of the business repositories return, as operators |
| `BusinessTools` (extends `BusinessData`), `BusinessToolsProofs` | concurrent calls of the tools of one server; its theorems |
| `MC*` | instances for TLC: users, payloads, tools, bounds |

A definition called a mutant in its comment is no part of a specification. It
is a plausible bug in the definition below it, and the property named with it
in `PROJECT.json` fails when it takes that definition's place.

### Approvals

The row's columns are functions of the approval id (`status`, `args`, `digest`,
`shown`, `expires`, `owner`); `shown` stands for the summary, which backend code
builds from the arguments. A handler is an HTTP request to confirm or reject.
`pc` says where it stands, `seen` is its session's copy of the row (read on
arrival, refreshed after a won claim, and what `session.get` returns later),
`moment` the timestamp it bound into the claiming UPDATE, `poisoned` whether its
session holds a failed flush, `call` what became of the call it sent. An action
is what a handler does between two commits or awaits: `BeginClaim` checks the
copy and takes the timestamp, `Claim` or `LoseClaim` is the UPDATE, the refresh
and the commit; `VerifyGrant`, `GrantExpired`, `GrantTampered` are the checks
before execution; `RecordStart`, `Dispatch`, `CallSucceeds`, `CallFails`,
`MarkExecuted`, `MarkFailed`, `Close` follow the order of the code, each audit
entry with the commit it implies. `FailIntegrity` and `Expire` write by primary
key whatever the row has become. `Record` either logs, or fails and leaves the
session poisoned; `MarkRaises` is what then happens to the next flush.

The environment, each part of which `Environment` can switch off: the process
dies (`Crash`), an audit write fails (`audit`), somebody edits stored arguments
(`Tamper`), the tool leaves the catalog (`ToolGone`), `expire_stale` runs
(`ExpireStale`; nothing in the repository schedules it). The tool server
performs or refuses a call at any time, also after the timeout.

`ApprovalGate` knows neither handlers, expiry nor integrity. The mapping reads
the decision off the audit trail, because a stale write can overwrite the status
of a request that was allowed.

### AgentRun

The variables are the fields of `AgentState` that control the run, the calls
numbered in the order proposed, and counters of completions and graph steps. The
actions are the nodes, split at their awaits: `execute_tools` first runs the call
in hand (`CallPerformed`, `CallBlocked`, `CallNeedsApproval`) and then commits its
result (`RecordResult`). `Abort` ends a run between any two of them. The model's
answers and the outcomes of calls are open choices.

### AssistedRun

`AgentRun` lets the model answer anything. `AssistedRun` adds who answers. With
`provider = "openai"` the planning step is the loop of `_complete_with_retries`: each
`RequestFails` is one attempt that failed in transit together with the pause behind it
(nothing of the run changes during the pause), `GiveUp` is the end of the loop with the
verdict on the last error, `RequestFailsForGood` a failure that is not retried: refused
credentials, any other status the endpoint answers with, HTTP 5xx included although such
an error may pass, and failures of the library,
`RequestUnreadable` an answer without choices, which no handler of the provider
catches. `requests` counts what was sent, up to one more than the bill
`budget * (MaxRetries + 1)`; the code has no such counter, the property does. With
`provider = "heuristic"` a plan is the first step of the matched intent whose tool is
on offer and has no result in this turn (`Gathered`: any tool message, a failure as
well); `offered` is that list, fixed for a run because tools are discovered once.

### Transcript and Conversation

`Replay` is `load_history`: the newest turns up to a clamped limit, then the
one-pass repair that drops results without a call. `Repaired` says without
a pass what it is for: which turns are kept, and that they keep their order.

`Conversation` puts the pieces together. Its requests are chats and confirmations;
what they share is the transcript (`rows`), one approval per chat (a run pauses at
the first call that needs one, so it asks once) and the `status` column. A turn is
two steps, reading `max + 1` and inserting under the unique index, so that every race
between requests occurs; the loser of a collision fails (`Conflict`), and any request
may die between any two commits (`Abandon`). A pause is four commits in the order of
the code: the assistant turn, the approval (`AskApproval`), the result that says so
("pausing"), the notice ("noticing"). A confirmation begins with its authentication
(`Arrive`), and its session holds copies from then on: of the approval (`undecided`),
and of the conversation when the user owns it, because `User.conversations` is loaded
with the user (`models/database/user.py:35`) and `session.get` returns that copy later;
for an administrator the conversation is loaded after the claim (`LoadConversation`).
`Confirm` is the claiming UPDATE, `TurnedAway` everything that ends the request without
touching the row, `Condemn` the writes of `_expire` and `_fail_integrity`, which go by
primary key and so hit a row that others have claimed or settled meanwhile. `Execute`
sends the action, with or without an answer, or refuses it (its tool is gone, or denied
by now). `Mark` settles the row by that answer, except when the policy asks for no
approval any more: such a call runs unverified and leaves the row approved. The report
goes under a call id (`approved_<id>`) no turn proposed and says what the execution
returned (`ok`), not what the row says; then the model is asked to summarise and the
status is set. `copy` is the status in the session's copy of the conversation row;
`WriteStatus` sends an UPDATE only when it differs. `alone` and `last` are history
variables of the properties, not of the code.

Audit entries and who may decide are in `Approvals`. The deadline and an edit of the
payload behind the application are open choices here (`TurnDown`, `Condemn`).
`ConversationRefinement` shows that the approvals of a conversation still implement
`ApprovalGate`: what was claimed stays allowed (`granted`), whatever its row is made to
say later, and `performed` counts how often the tool server carried an action out.

### McpManager

Per connection: `state`, `client`, the supervisor handle (`held`), the two events,
the supervisor `task`, and the `connect` or `disconnect` in progress (`op`). Per
manager: `failures`, `catalog`, the lock and the refresh that holds it; `failFast`
is the setting. A session may fail in any stage, and a cancelled task may take any
time to unwind.

### Bootstrap

Processes (`lifespan`) and requests without authentication are database sessions: `db`
is what is committed, `tx` what a session has written. `create_all`, the demo data and
the demo user are check and write, with other sessions in between. A unique key (a
table's name in the catalog of PostgreSQL, the email of a user) makes the second writer
wait for the first (`Locked`) and then fail (`Collide`); tables without one take every
row. Every table of the seed is one step, so that a kill falls between any two of them;
`seed_demo_data` commits once. `Die` is a kill or a start that fails because of a
dependency, and rolls back; the container is restarted (`docker-compose.yml`, `restart:
unless-stopped`), with or without `SEED_DEMO_DATA`. `Store` is a tool server of another
process or any other client that commits a business row at any time. The start-up of the
MCP layer, which writes nothing, is one step here and module `McpManager` elsewhere;
`Prepare` is the start up to that point, `Serve` is its end, and `Attribute` is a request
up to the work of its handler, `Answer` the end of it.

### Policy and ToolGateway

`Policy` holds the registry as it is written, the ordered rules and the recipient
count. `ToolGateway` follows a call from the request that proposes it to the
server. `Evaluate` is called where the code calls it: once at the proposal and again
at the execution, with the role, settings and catalog of that moment. `Rediscover`,
`Redeploy` and `ChangeRole` may come between any two steps; a redeployment ends the
requests in flight but not the approvals that wait. `row` is the approval row of a call:
`Settle` marks it where a verified grant handed it to `_run`; `TurnDown` and `Condemn` are
other requests, the second with a copy from earlier on and by primary key. `Abandon` is a
request that fails on the way and settles nothing.

`GET /tools` is not part of it: the route lists the whole catalog to every role and reads
nothing a call depends on. That a viewer is shown tools the policy will deny is what the
code does, and no property says otherwise.

### BusinessData and BusinessTools

One behaviour belongs to one server: the five share no table that two of them write.
`stage` says at which statement a call stands, `seen` what its statements returned so
far, `answer` what it tells its client, and `earlier` which calls were over when it
began, so that properties can speak of overlap. A retry after a timeout is another
call. A step is a statement with what the code computes from it; the flush of an
update and the commit behind it are one step, because nobody reads the row in between
and a second writer waits for the first. `DbFails` is any statement or commit that
fails (rollback, the client is told), `Lose` the death of the server or of the
connection before or after the commit. Each statement reads what is committed when it
runs (READ COMMITTED, the default of PostgreSQL; a session of SQLite reads the same way
between transactions). `Fits` is ILIKE on the addresses of the instance, with `_` as a
wildcard; `SaveLead` writes only the columns that differ from what the call read, as
the unit of work does. Day and tick numbers stand for dates and times; the last tick of
a day is `time.max`, which `day_bounds` uses as its end.

Two statements stop at a limit no caller can lift: a breakdown returns the twenty groups
that sold most (`repositories/sales_repository.py:126`), the search for conflicts the ten
events that begin first (`repositories/calendar_repository.py:70`). `Page` is the set of
what such a statement may return, ties falling either way; `GroupLimit` and
`ConflictLimit` are constants, so that the instance reaches them.

Left out: the page sizes callers give to listings, an address written twice in one email,
and the listings that differ from a modelled one only in what they select by
(`get_events`, `get_lead`, `search_leads`, the filters of `get_tasks`).

## 3. Runs

| Run | Instance | Distinct states | What it shows |
|---|---|---|---|
| `Approvals` | 2 handlers, 1 approval, operator, viewer, admin, 2 payloads, all faults | 487,932 | the safety properties, `DecidedOnce`, the refinement |
| `Approvals_live` | 2 handlers, 1 user, no faults, weak fairness | small | requests end; an approved row is settled |
| `AgentRun` | both providers, budgets 0 to 3, up to 2 calls per completion, 1 retry, intents of up to 3 steps | 162,480 | pause, status, termination; classified failures, planner progress, `AssistedSpec => FairSpec` |
| `Conversation` | a chat of one round of up to 2 calls, a chat that only answers, 2 interchangeable confirmations, window of 3, at most two requests under way at a time | 1,118,996 | contiguous numbers, one result per call, exact replay for every window, own question, notices and approvals, reports and effects, status column, refinement of the gate |
| `McpManager` | 2 servers, 1 refresh, fail-fast on and off, weak fairness | 11,018 | supervision, recorded absences, clean shutdown, no hang |
| `ToolGateway` | 1 call, 2 users, a tool of each class and one unregistered, payloads at the limits | 313,344 | human consent for risk, finality of denials, what a call leaves on its approval row |
| `BusinessTools` | 3 calls up to symmetry, each of the 5 servers, a seeded lead and task, limits of 1 | 1,424,945 | duplicates, notes, completions, listings, reports, clashes, mail |
| `Bootstrap` | 2 processes, 1 request, up to 2 faults, any setting of `SEED_DEMO_DATA` at each start, a database that is empty, migrated or in use | 570,841 | demo data whole or absent and never over leads; every process comes up or waits for a tool server |

Why the bounds are enough to be interesting. A race for a row needs two handlers
(the properties of pairs are proved for any number); time to live 1 with a clock
of 0 and 1 puts the deadline before, between and after every pair of steps; two
payloads tell tampering from its absence. A budget of 3 reaches the
repeated-failure rule (from the second iteration) and the budget's end; two calls
make a batch that can be interrupted. In a conversation four writers collide
and interleave; a batch of two gives a pause at the first call, at the second or none,
and windows that cut a batch; the turns of the second chat and the report of an action
fall into it, and two confirmations race for one approval. Its constraint `TwoAtWork`
lets any two of the four requests overlap, from the authentication of one to the end of
the other, whatever came before them; three at a time are left to the proofs, which know
no such bound. Two processes race for the
schema, the count, the demo user and the seed; two kills fall on both of them, or on one
twice, and a start that seeds is followed by one that does not. Two
servers let one fail while another connects, and one hold the lock while the other
breaks. The addresses of an email are 50, and 51 only with the copies. One retry gives a
completion that fails once, one that fails for good, and a last error of either kind;
intents of three steps are longer, as long and shorter than the budget. Of three calls
two race and the third reads, repeats or comes later; addresses have a second spelling
and a wildcard; meetings reach into today, fill it, begin with its last tick and run
backwards; sales lie in this week, on the first day of the previous one, and without a
region; the limit on addresses is one, reached and passed with copies. The limits of a
breakdown and of the search for conflicts are one as well, which two sales and two
bookings exceed; that several groups within the limit sum to the total is left to the
proof, as three calls leave no room for it.

`Deadlock` is checked in every run; final states stutter by an explicit action
(`Quiescent`, `Ended`, `Over`), so a run also shows that nobody waits for ever in
the middle.

### Fairness

* `Approvals`: weak fairness of each handler. The event loop resumes a coroutine
  whose await returned, and the await on a tool returns at the latest by its timeout.
  Nothing is assumed of callers, clock, servers or faults.
* `AgentRun`: weak fairness of the steps of a run (`AssistedStep`, which implies that of
  `Run`), for the same reason: a request to an endpoint ends at the latest by its timeout.
  `Abort` is never forced.
* `BusinessTools`, `Conversation`: none; their properties are about safety.
* `Bootstrap`: weak fairness of each start up to its MCP layer (`Prepare`), which is the
  restart policy together with the event loop, and of each request up to its work
  (`Attribute`). A session that waits for another one is not enabled, so nothing is
  assumed of waits; kills are bounded by `MaxFaults`, as with kills for ever nothing comes
  up. Nothing is assumed of the start of the MCP layer, nor of the work of a request, as
  both may wait for `tools/list` without a timeout: a process that starts its MCP layer,
  or that must wait for the demo user a request has not committed, is `HeldUp`, and
  `AllServe` says that in the end each process serves or is held up. Its second half adds
  as a hypothesis that these waits end, and concludes that all processes serve.
* `McpManager`: coroutines that can go on do, timers fire, a cancelled task unwinds,
  and the refresh of start-up gets the lock. Servers owe nothing: `initialize`,
  `tools/list` and an orderly close may hang. `StartupEnds` alone adds, as its own
  hypothesis, that `tools/list` of a connected server returns or raises, because the
  code gives it no timeout.

### Disagreements between the code and its comments

Four runs expect a violation; the finding of each quotes the comment.

* `Approvals_TerminalIsFinal`: a handler that read a pending row may overwrite a
  terminal status, since `_expire` and `_fail_integrity` have no status predicate.
* `Approvals_AuditNeverBreaksRequest`: a failed audit commit is swallowed but not
  rolled back; the next statement of the request raises.
* `Conversation_HistoryEndsWithResult`: the result of an approved action is an orphan
  by its call id and the repair drops it before the model is asked to report it.
* `McpManager_DegradedWhenUnavailable`: a server that breaks before discovery is
  skipped without being recorded; it is neither in the catalog nor a failure.

Others are visible in the same models and have no run of their own:

* two overlapping creates both insert an address (`integrations/crm/local.py:68`), though
  `src/mcp_servers/crm_server/server.py:136` says an existing lead is returned instead;
  `DuplicatesOverlap` says that nothing but overlap does it;
* an address with an underscore is a pattern of ILIKE, so `create_lead` may return
  somebody else's lead as the existing one (`repositories/lead_repository.py:62`);
* `_sync_conversation_status` is to "mirror the run's outcome onto the conversation row",
  but writes only if the session's own copy differs: a chat that loaded `active` before
  another one paused, and ends after it, leaves `awaiting_approval` behind; so does an
  owner's confirmation that was authenticated before the chat paused, even if it claims
  the approval after the chat has ended; a rejected or expired approval never resets the
  column;
* `db/seed.py` is to insert "when the database is empty": only leads are counted, so
  tasks, sales or meetings do not keep it from seeding, nor do leads committed after the
  count; two starts that overlap may both seed. `SeedsOnlyWithoutLeads` says what is left;
* overlapping chats of one conversation may each be answered for the other's question,
  as the history is loaded after the question was committed (`OwnQuestion` says that
  requests one after the other are not);
* the first unauthenticated request holds the uncommitted demo user while its handler
  runs until its first commit: a `GET /tools?refresh=true` that waits for a hanging server
  keeps every other first request waiting;
* `verify_grant` looks at the session's copy, so a row edited after the claim passes,
  though `approval_service.py` says the row is read again from the database
  (`SentAsShown` holds all the same: what is sent is the copy, its digest is checked);
* after repeated failures `validate_results` logs that the run ends, and the router
  sends it back to the planner while budget is left;
* `create_event` finds at most ten conflicts and only logs how many there are; its
  description (`src/mcp_servers/calendar_server/server.py:100`) and the server's
  instructions (`:37`) say they are reported to the caller;
* a summary or weekly report lists at most twenty products and twenty regions and does
  not say so: beyond that its breakdowns sum to less than its total
  (`repositories/sales_repository.py:126`);
* a meeting that begins with the last microsecond of today is not among today's
  meetings, though `day_bounds` says it returns a half-open day;
* a row can be claimed after its deadline if the UPDATE runs later than the timestamp
  it carries (`moment` in `Approvals`), though `approval_service.py` says expiry is
  evaluated by the database;
* a verified approval may expire from `APPROVED`, which `enums.py` does not list;
* calls executed before the one that pauses a run are not "nothing was executed"
  (`models/schemas/api.py`), and calls after it never get a result, though
  `validate_results` claims to confirm that every call has one;
* concurrent chats whose inserts do not collide interleave their turns
  (`conversation_repository.py` says the second fails);
* with fail-fast, a server whose discovery fails leaves a partial catalog;
* a confirmed write runs without `verify_grant`, and its row stays approved, when a
  redeployment no longer gates writes; a confirmed call whose tool is gone or denied
  also leaves its row approved; a stale `_expire` or `_fail_integrity` may overwrite
  `executed` (`ReportsMatchEffects` and `RunIsOnRecord` say what is left);
* an endpoint that answers HTTP 500 or 503 is not asked again
  (`providers/llm/openai_provider.py:181`), though such an error may pass.

## 4. Proofs

**Approvals** (`ApprovalsProofs`). Assumptions: roles are roles (`RoleAssumption`), the
digest is one to one on payloads (`DigestAssumption`, the collision resistance of
SHA-256 taken as exact), the void arguments are no payload, the time to live is
positive. `SentAsShown` and `AtMostOneDispatch` are not inductive: that a second
handler cannot send relies on who may come to hold the right to act. `IInv` adds
`RowInv` (a row carries the digest of what was shown), `AuditInv` (confirmed and
rejected exclude each other and leave pending for good), `HolderInv` (at most one
handler per row is past a claim, the claim is on record, its author entitled, and
from verification on its copy is the payload shown) and `HandlerInv` (what a handler
may have sent, by where it stands). The step that matters is `Claim`: it needs
`pending`, and `AuditInv` and `HolderInv` say that a pending row has no holder.
From it follow `SingleUse`, `PayloadBound`, `Consent`, `TrueAnswers`, `ExecutedIsTrue`,
the action property `DecisionStands` and `Refinement` (`Spec => ImplementsGate`), for
every number of handlers, approvals, users and payloads and any set of faults.

**AgentRun** (`AgentRunProofs`). Assumption: `LimitsAssumption`. `LoopInv` ties the
steps to the iteration, node by node; `CallInv` says what is answered, queued and
performed at each node; `StatusInv` what the closing node may find. `LoopIsBounded`,
`AnswersBeforePlanning`, `TranscriptIsCurrent`, `StatusIsHonest`, `PauseIsFinal` and
`OrderedEffects` follow, for every budget and batch size.

**AssistedRun** (`AssistedRunProofs`). Assumptions: those of `AgentRun` and
`RetriesAssumption`. `Implements` maps each step of a provider to a step of `AgentRun`
or to a stutter (`AssistedSpec => Spec`), which carries every theorem above over to
runs with real providers. `BillIsBounded`: `requests` never exceeds the attempts of the
completions that are over plus those of the current one. `FailuresAreClassified`: the last
request and the count of attempts agree at every point of the loop. Both hold for every
budget of iterations and of retries. `IntentInv` says
what the heuristic planner has proposed: one step in each round, each later on the list
than the one before, each on offer, and none on offer left out before it.
`PlannerMakesProgress` alone is not inductive: that a step was not proposed before follows
from the order, which it does not mention. That the budget runs out only when as many
steps were on offer counts those taken, which the order makes distinct (an injection).
`PlannerAdvances` and `AssistedTypes` follow.

**BusinessTools** (`BusinessToolsProofs`). Assumptions: `SpellingsAssumption`, that the stored
form of an address fits every way of writing it, `MailAssumption`, that an email has finitely
many addresses and the limit is a number, `CalendarAssumption`, that days are counted and have
at least one tick, `SalesAssumption`, that amounts are whole numbers (the total of a row is
rounded to cents when it is stored), and `LimitsAssumption` of `BusinessData`, that the two
limits are numbers. `RepeatedCreate`: a call that found no lead has none of that address in
`earlier` (`LeadInv`), because leads are never removed and addresses never change; hence two
leads of one address come only from overlapping calls, for any number of calls, addresses and
spellings. `DoneInv`, `BookingInv` and `UpdateInv` say the same of what a call has read: it
knows of every completion and note of a call that was over when it began, or of a call that
overlapped and wrote over it, and of every event that clashes with its own, or of as many as
the search returns, none of which begins later (`PageNotices`); without them nothing ties the
stale copy in `seen` to the table when the call writes. `CompletionStands`, `ClashesNoticed`
and `UpdatesStand` follow. `MailInv` adds that nothing is delivered before a call has finished
(`MailBounded`); that a sendable message has few addressees is `FewAddressees`. `ListInv`
keeps what an answered write left (rows are never removed, a task that is done stays done,
whatever a call writes that read it before) and what each listing showed of the calls before
it. A move disturbs neither, because nobody counts a call that still moves as earlier
(`ListMove`). `MadeInv` says that leads are finitely many and numbered by age, so that the
newest of some is one of them, which an answered "existing" needs. `ListingsCurrent` follows.
`ReportsSum` needs two things. One is about sums: the library sums by a fold over the subsets
of a set, and that the function it chooses exists, that its values are numbers, that the order
does not matter and that the sum of a union of disjoint sets is the sum of their sums are
inductions over finite sets. They are done by a least counterexample (`Smallest`, from the
well-founded order of strict subsets and `WFMin`), because an induction theorem that takes a
predicate cannot be used; `SubtotalsTotal` says that the subtotals of all groups add up to the
total, for any sales, and `BreakdownSums` that those a breakdown returns add up to no more, as
no amount is negative, and to just that if there are no more groups than the limit. The other
is what a report has read: `RowsInv` and `ReportInv` say that no statement reads more than
there is now, nor less than the one before unless it was cut off, so that a report nothing was
added during read the same rows each time; groups only become more (`FewKept`), so a breakdown
that would not be cut off now was not cut off then.

**ToolGateway** (`ToolGatewayProofs`). `ClearedInv`: on the way to a server the policy,
asked again, would not forbid the call and would ask for exactly the approval that was
verified; it survives a redeployment only because that ends the requests in flight.
`GrantInv`: a confirmed call has a grant. `RiskIsConfirmed` and `ForbiddenIsFinal`
follow for any number of calls, users, tools and payloads. `RowInv` ties the row of a call
to its stage: on its way a confirmed call finds its row approved, or condemned by a stale
write, and a call that goes on unverified is a write. `RunsAreOnRecord` follows: a
confirmed call that is over leaves no approved row, but for such a write.

**McpManager** (`McpManagerProofs`). Assumption: no request has the name of the start-up
or of a free lock (`StartupAssumption`). `SessionInv`: client and connected state go
together and belong to a task that has not ended. `SupervisorInv`: what the task may be
doing at each stage of connect and disconnect; without it `NothingLeftBehind` is not
inductive, since that a failed connect leaves nothing depends on how the event was set.
`PhaseInv`: the lock is held in its holder's phase, so that no late refresh fills the
catalog again. `Supervised` and `NothingRemains` follow for any number of servers.
`AccountInv`: after start-up no session comes up any more, so what a refresh holding the
lock has still to list, has found, or has recorded as failed covers every connected
server. `AbsenceRecorded` (a connected server whose tools the catalog lacks is in the
failures) follows when the refresh publishes what it found.

**Bootstrap** (`BootstrapProofs`). Assumption: `BootstrapAssumption` (processes, requests
and the author "nobody" are different things). `TxInv`: what a session has not committed
is its own batch, the schema or the demo user, and demo rows only while it seeds.
`SeedInv`: a start that goes on to seed began without a lead, and one that need not finds
some. `WholeOrNothing` and `NeverOverLeads` follow for any number of processes, requests,
kills and restarts.

**Conversation** (`ConversationProofs`). Assumptions: `BoundsAssumption` and `NobodyAssumption`
(no request is "nobody"). `SeqInv`: a
number that was read stays at most the next one, because numbers only grow; so an insert
that finds its number free has the next one, and `Numbered` follows. `TodoInv` bounds
the calls in hand by the budget; that `NextCall` is one of them needs that a set of
numbers has a least element, for which the well-founded induction theorem `WFMin` is
cited. `GateInv`: a chat asks once, a claimed approval has one confirmation, which has
carried out nothing before it executes, whatever the row says by then. `Refinement`
(`Spec => ConfirmsOnce`) maps `AskApproval`, `Confirm`, `TurnDown`, `Execute` and the
`Condemn` of a row nobody has claimed to the steps of the gate and everything else, a
`Condemn` of a claimed row included, to a stutter, for any number of chats,
confirmations, rounds and calls.

The five properties of the transcript share `ChatInv`. `WriterInv`: who may write which
turn; without it a result of one chat could be taken for an answer to another's call.
`FreshInv`: calls are numbered on, so a batch is new when it is stored and has no result
before its turn. `ResultInv`: a call has at most one result, and has one unless it is
still in hand or the chat paused or failed. `PauseInv`: first the approval, then the
notice, then the answer. `Conversed` states them all; `EveryCallAnswered` and
`AskedBeforeShown` follow. `ReportInv` adds that a confirmation reports once, and a
success only of what was carried out; `MarkInv` that a row says executed only after such a
success, which is what the report says, because only the confirmation that was granted
writes `executed`; `AloneInv` that without overlap a copy that says pending is of an
approval nobody has claimed, so that no report is denied by an expiry (`Reporting`,
`ReportsTellEffects`). `StatusInv` says that while requests do not overlap, from their
authentication on, the copy of the status that the running one holds is the stored one;
its step from a request that is over to the next uses that nobody else runs, and that a
request that is over holds no copy (`StatusFollows`, `StatusRight`).

The replay is a fold over a sequence, which the library defines over sets of places.
`RepairPasses` shows, again by a least counterexample, that the function it chooses exists
and goes turn by turn; `RepairExact` that after n turns the pass has met the calls of these
n and kept those anchored in the window, in order. This needs that the window ascends and
that only assistants propose calls, which `Contiguous` and `PlainInv` provide.
`ReplayIsExact` follows for every transcript the requests can leave and for every limit,
`QuestionIsItsOwn` from `QuestionInv`: while nothing overlaps, the question of a chat that
reads its history is the newest turn, because the only request that could add one is the
chat itself.

Proved and not repeated in a run: the types (`TypeOK`, `AssistedTypeOK`) and the inductive
invariants of `Approvals`, `AgentRun`, `AssistedRun`, `ToolGateway`, `McpManager`,
`Bootstrap` and `Conversation`, the types of `BusinessTools`, `ExecutedWasPerformed`,
`Bounded`, `PlannerSeesAnswers`, `TranscriptKeepsUp`, `EffectsInOrder` and
`RequestsBounded`. TLC found no violation of them on the same instances before they were
proved.

Only model-checked: liveness (`RequestsEnd`, `ApprovedIsSettled`, `Termination`,
`NobodyHangs`, `StartupEnds`, `AllServe`), because fairness is beyond the prover;
and `ImplementsRun` beyond its safety part, which is `Implements`.

## 5. Not modelled, and why

* HubSpot and Google Sheets are remote services whose concurrency the repository does
  not fix; the scripted provider serves the tests.
* In `AgentRun`, `Approvals` and `Conversation` the tool behind a call stays an open
  choice, although `BusinessTools` says what such a tool does.
* The heuristic planner's arguments are left out. Its call ids are derived from the
  position in a turn and repeat in later turns; calls are told apart in the model.
* `McpManager` leaves out calls and pings in flight: they borrow a session and do not
  change it.
* Migrations are generated DDL that somebody runs by hand before the application starts;
  a database they prepared is an initial state of `Bootstrap`.
* Prompts, summaries, redaction, logging, HTTP wording, CORS and the console carry no
  control state.
* Numbers that change their form in JSON storage (and with it the digest), the recursion
  limit of the graph library and connection pooling belong to libraries whose sources
  are not here.

## 6. Plan

1. *Done*: approval gate and its abstract specification, agent run, providers,
   transcript, the composition of runs, approvals and status in a conversation, MCP
   lifecycle, policy and gateway, business tools, start-up of processes on one database;
   eight modules of proofs.
2. *Done*: proofs of every safety invariant and action property the passing runs check,
   of the types and of the safety part of the refinements.
3. *Extend*: the listings of `BusinessTools` that are left out, with the page sizes
   callers give.

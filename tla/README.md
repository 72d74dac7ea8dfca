# A TLA+ verification project for NeuroFlow

NeuroFlow is a workflow automation platform: an Express/TypeScript backend
(`src/`), a React client (`client/`), PostgreSQL through Prisma, and n8n,
which runs the workflows. This directory specifies the parts of it where order,
failure and timing matter, checks them with TLC and proves what it can with TLAPS.

Contents: 1 inventory, 2 modules and plan, 3 the execution queue, 4 the other
modules, 5 runs and bounds, 6 fairness, 7 proofs, 8 where the code and its documents
disagree, 9 what is not modelled.

## 1. Inventory

| Part | State | Operations | Hard behaviour | What makes it correct | Modelled in |
|---|---|---|---|---|---|
| Execution queue (`executionQueue.service.ts`) | `queue`, `runningExecutions`, timers, `setImmediate` callbacks | enqueue, processQueue, executeWorkflow, handleExecutionTimeout, handleExecutionError, cancelExecution, shutdown | several awaits per attempt; a timeout does not stop the attempt it times out; retries; in-memory only | the limit holds, no slot leaks, no job lost or doubled, every row has an owner, a final status stays | `ExecutionQueue`, `ConcurrencySlots`, `ErrorPath` |
| Workflow execution service (`workflowExecution.service.ts`) | none of its own | executeWorkflow, cancelWorkflowExecution, bulk, schedule | row first, queue later | a created row reaches the queue | `ExecutionQueue`, `WorkflowLifecycle` |
| Execution service (`execution.service.ts`) | rows of `executions` | trigger, updates, cancel, retry, delete, handleWebhookCallback | each is a read followed by a write; callbacks arrive whenever n8n sends them | what is finished has a time, nothing succeeds that n8n has not run, nothing waits for nobody | `ExecutionLifecycle`, `LiveUpdates` |
| Execution repository (`execution.repository.ts`, `schema.prisma`) | rows, `finishedAt` | update, delete, lists, analytics | cascades, approximate totals, a page and its total are two queries | lists are complete, nobody sees another's rows, counts agree | `ExecutionLifecycle`, `ExecutionListing` |
| n8n client (`n8n.service.ts`) | none | execute | 30 s timeout, classification of errors | what may pass is tried again | `ErrorPath` |
| Webhook callbacks (`webhook.controller.ts`, `webhook.util.ts`) | none | four routes | duplicated, late, reordered | as the execution service | `ExecutionLifecycle` |
| Workflows (`workflow.service.ts`, `workflow.repository.ts`, `workflow.schema.ts`) | rows of `workflows` | create, update, status, delete, duplicate, validate | check-then-act; what is stored is not what was validated | no execution without its workflow; a stored definition can be saved again | `WorkflowLifecycle`, `WorkflowDefinition` |
| Authentication (`auth.service.ts`, `user.service.ts`) | users, refresh tokens | register, login, refresh, logout, logoutAll, password, account | rotation in three database calls | one token gives one successor, a session ends with its logout | `RefreshTokens` |
| WebSocket server (`websocket/`, `websocket.service.ts`) | rooms, `userConnections`, `socketUsers` | connect, subscribe, emit, disconnect | an await in the handshake and before each emit | the maps agree, rooms are private, clients end with the last status | `Connections`, `SessionRegistry`, `LiveUpdates` |
| Controllers and middleware | request-scoped | parse, validate, answer, handle errors | which layer makes what of an error | authentication errors end the session, no others do | `ErrorPath`, `ExecutionListing`, `WorkflowPages` |
| Client REST cache (`api.ts`), optimistic updates | `cache`, `pendingRequests`, query cache | get, mutate, roll back | answers after an invalidation, shared promises | a shared request is one under way, a stale entry has one of two reasons | `ApiCache`, `OptimisticUpdate`, `ErrorPath` |
| Client live connection (`websocket.service.ts`, `useWebSocketConnection.ts`) | socket, timers, attempts, handlers | connect, reconnect, refresh, events | three layers that retry | it comes up again, and says so | `ClientSocket` |
| Client session (`AuthContext.tsx`, `auth.service.ts`, `authSlice.ts`) | tokens in localStorage, context of each tab, slice | check, login, refresh, logout | tabs share one single-use token | no use of a replaced token, loading ends | `ClientSession`, `AuthSlice` |
| Client pages | what each page shows, calls under way | load, filter, open, edit, cancel, retry | answers and events in any order, dialogs closed while they wait | a spinner has a call under way, what a page shows of an execution is its status | `ExecutionPages`, `WorkflowPages`, `AnalyticsPage` |
| Monitoring, health, logging, configuration | counters | report | none | | not modelled |

The parts interact so. A submission creates a PENDING row (execution service) and
asks n8n directly (`POST /executions`), which reports the run by webhook; or it calls
`enqueue` (`WorkflowExecutionService`). The queue starts attempts, writes RUNNING, calls
n8n, writes SUCCESS or FAILED or queues a retry. A cancel through `WorkflowExecutionService`
asks the queue first and the row second; the HTTP route `POST /executions/:id/cancel` goes
to the row and never asks the queue. Status writes emit WebSocket events to the rooms that
`connectionManager` and the handlers keep; the client's socket hands them to the pages,
which also load over the REST client, with its cache, its shared requests and the token
pair all tabs of the browser share.

Some of these parts nobody reaches in the program as it is; the models say what they do when
they are used:

- The queue. The controllers call `executionService.triggerExecution` only;
  `WorkflowExecutionService`, which enqueues, is exported and called by nobody.
- The live connection of the browser. It starts when the slice of the store says that the user
  is authenticated, and nothing outside tests dispatches `setCredentials`, `loginUser` or
  another thunk of the slice: `AuthContext` keeps a state of its own.
- The room of an execution. The server hears `execution:subscribe`, the client emits
  `join:execution`: events reach it through its user's room.
- The cache of answers. `getAuthenticated` caches when called with `cache: true`, which no
  service does. (The pending requests it shares are those of every GET.)
- `useOptimisticUpdate`, which no page uses, and `withRetry`, which no service uses.

`PROJECT.json` lists the hazards of this code with
their lines and the properties that guard them.

## 2. Modules and plan

| Module | What it is | State |
|---|---|---|
| `ExecutionQueue`, `ConcurrencySlots`, `ExecutionQueueProofs` | the queue, the semaphore it implements, its proofs | done but for `shutdown` |
| `ExecutionLifecycle` | one execution from trigger to delete, with n8n's callbacks | done |
| `ExecutionListing` | lists, pages, export, analytics | done |
| `ExecutionLifecycleProofs` | proofs about the rows, and of the pages and counts of the reads | done |
| `WorkflowLifecycle` | rows of workflows and the executions that hang on them | done |
| `WorkflowDefinition` | schema, sanitizing and validation of a definition | done |
| `WorkflowProofs` | proofs about both | done |
| `RefreshTokens`, `RefreshTokensProofs` | sessions on the server, with proofs | done |
| `Connections`, `SessionRegistry`, `ConnectionsProofs` | the maps of connected users, the registry they implement, proofs of the maps, the rooms, the refinement and of `ClientSocket`'s handlers | done |
| `LiveUpdates` | from the write of a status to what each tab shows | done |
| `ApiCache`, `OptimisticUpdate`, `ErrorPath` | the REST client, and what becomes of an error | done |
| `ApiCacheProofs` | proofs about the cache and the pending requests | done |
| `ClientSession`, `AuthSlice` | the session in the browser | done |
| `SessionProofs` | proofs about the tabs' tokens and about what they are told (`LiveUpdates`) | done |
| `ClientSocket` | the live connection in the browser | done |
| `ExecutionPages`, `WorkflowPages`, `AnalyticsPage` | the pages | done |
| `PagesProofs` | proofs about the pages, the slice's forms, optimistic updates and the judgement of errors | done |

Left in the plan, in this order:

1. `shutdown` of the queue, which no signal handler calls today.
2. The queue composed with `LiveUpdates` (the events of its writes).

Both are parts to be modelled; every safety property of the passing runs has its theorem
(section 7).

## 3. The execution queue

### Modules

| Module | What it is |
|---|---|
| `ExecutionQueue` | the component: state, actions, properties |
| `ConcurrencySlots` | abstract specification: a counting semaphore |
| `ExecutionQueueProofs` | theorems and proofs |
| `MCExecutionQueue` | sets for TLC and the job symmetry |
| `MCQueueFindings` | statements of comments and documents that the code does not keep |

### State and actions against the code

One step is what Node runs between two awaits. A **job** is a `QueuedExecution` object:
its fields plus `stage` (how far its `executeWorkflow` call has come) and `timer` (how far
its `setTimeout` callback `handleExecutionTimeout` has). Both may be active at once, which
is the main source of trouble in this code: the callback does not stop the call.

| Variable | Code |
|---|---|
| `queue` | `this.queue`, as job identities |
| `running` | `this.runningExecutions`: execution -> the job whose timer handle is stored |
| `immediates` | `setImmediate(() => this.processQueue())` callbacks not yet run |
| `row` | the status column; `"none"` when there is no row |
| `submit` | `WorkflowExecutionService.executeWorkflow`: before, between and after its two awaits |
| `client` | a cancel or delete call that is under way |
| `up`, `restarts`, `faults` | the process, and bounds |

`ProcessQueue(table, q, held, ticks)` is `processQueue` to its end, including
`executeWorkflow` up to its first await, on the state a caller has computed; every action
whose code ends in `this.processQueue()` uses it. `HandleExecutionError` is the shared
error path, `Caught` the catch block of `executeWorkflow`.

| Action | Code |
|---|---|
| `CreateExecution`, `Enqueue` | `executeWorkflow` of the workflow execution service, `enqueue` |
| `Immediate`, `DelayElapsed`, `DelayPasses` | the `setImmediate` and `setTimeout` of `processQueue`, the clock |
| `MarkRunning`, `MarkRefused` | the RUNNING write and its rejection |
| `N8nSucceeds`, `N8nFails` | n8n's answer |
| `SaveResult`, `SaveRefused` | the SUCCESS write and its rejection |
| `WriteFailed`, `FailedWriteRefused` | the FAILED write; its rejection is unhandled and ends the process |
| `TimerFires`, `TimerStopped`, `TimerWriteFailed` | `handleExecutionTimeout` |
| `CancelQueued`, `CancelRunning`, `CancelElsewhere`, `CancelDirect`, `CancelStopped`, `CancelChecked`, `CancelWritten`, `CancelRefused` | the two ways to cancel, await by await |
| `DeleteChecked`, `DeleteRow` | `deleteExecution` |
| `Crash`, `Restart` | the process and its restart policy (`docker-compose*.yml`) |

Abstractions: workflow definitions, input, results, error texts, log lines and emitted
events are left out; n8n's answer is success, a retryable or another error; time is only
"due or not" for a retry. A client's first read of the row is one step with the lookup in
memory that follows it. `Collect` frees the identity of a job that nothing refers to any
more; it models garbage collection and nothing the code does. Deadlock is not
checked: when everything submitted is settled the system really has nothing to do.

### Bounds

`Jobs` bounds the objects alive at one time (a step that needs one waits for a free
identity). One execution with one retry has at most three, so the runs with one execution
are not cut; more jobs give the same number of states. `queue_slots` has four for two
executions: one of them can be retried at both ends of its attempt while the other waits,
or each once; only behaviours with five or six objects alive at a time are cut (the
proofs of section 7 put no bound on `Jobs`). `MaxFaults`
bounds refused writes and crashes, `MaxRestarts` restarts, `Clients` concurrent requests.
`DefaultRetriesOption = 1` is enough for both ends of an attempt to retry and for the
retries to give up. `JobSymmetry` is sound where it is used: no safety property names a job.

## 4. The other modules

In all of them one action is what runs between two awaits (one database call, one answer,
one event, one turn of the tab's event loop), its guard is the code's conditions, and
`map` in `PROJECT.json` names the lines. What a property must tell apart and the code does
not record is kept in history variables (`raced`, `crossed`, `missed`, `lost`, `walk`, ...),
which no guard reads.

### ExecutionLifecycle - one execution between users and n8n

`row` holds status, `finishedAt`, error and n8n's id of each execution, as presence or
absence; `call` what each HTTP request does next; `n8n` the run itself (external); `mail`
the callbacks n8n has sent, which stay and so may arrive again, late or in any order;
`handling` the one callback route that reads before it writes. `heard` and `lost` are history:
whether a report of the end was written, and one of the start or of progress after it; and
whose request was lost or refused when the row was its to write. `Written` is
`ExecutionRepository.update`: a status of an end sets `finishedAt`, nothing is ever cleared.
Actions: `Trigger`, `Start`, `Answered`, `CallFailed`, `Link`, `Fail` and their refusals
(triggerExecution); `RetryChecked`, `RetryTriggers`; `CancelChecked`, `Cancel`;
`DeleteChecked`, `Remove`; `Callback`, `LegacyRead`, `LegacyWrite`; `N8nRuns`,
`N8nRefuses`, `N8nFinishes`; `Crash`. Bounds: `MaxDeliveries` callbacks, `MaxFaults` refused
writes and crashes.

### ExecutionListing - the reads

`rows` is the table, a set of executions whose ids are unique and the greater the newer
(`Place` and `Newest` put those of a filter in order), changed by `Trigger`, `Finish` and `Delete` while a
read is between its queries; `req` is the read and what its queries have found, `walk` what
became of the list since its first page was asked for, which `NextPage` turns as the
answers' page counts say. The three branches of the total (exact, whole table, sample) are
`QueryTotal` and `QueryWhole`; `QueryPage` has the limit that skips and the one that takes.
`QueryCount` and `QueryDays` are the five queries of the analytics. `MaxTake`,
`ExportLimit` and `SampleSize` stand for 100, 1000 and 1000 and are small in the runs;
`ColumnsMatch` says whether the raw query names the columns as the migration does: in the
code it does not (section 8), and both are checked.

### WorkflowLifecycle and WorkflowDefinition - workflows

`WorkflowLifecycle`: `status` of each workflow, `exec` with the workflow and status of each
execution, `call` of each request. The two ways to change a status (PUT, unchecked; PATCH,
checked against a row read two calls earlier), soft delete, the delete that finds, counts and
removes with its cascade, and the two ways to create an execution, each a chain of
actions. The foreign key is in `Inserted`. `ExecutionMoves` lets executions do what the other
modules say they may, a late callback on a finished one (`revived`) included.

`WorkflowDefinition` is an algorithm more than a process: `Parses` (the schema), `Sanitize`
(what is stored), `Valid` (the validation on request). Every definition of at most `MaxNodes`
nodes and `MaxLinks` connections is sent, with every id, the empty one among them, names and
types that may be empty, missing positions, dangerous parameters and both forms of connections; the seed's is stored past the schema. `ValidIsGraph`
compares the validation with a reference definition of a graph whose nodes are all labelled: the
schema's `z.string()` takes an empty id, name or type, the validation refuses each.

### RefreshTokens, ClientSession, AuthSlice - sessions

`RefreshTokens`: `db` is the table of tokens, `parent` and `root` say what each was exchanged
for and which login it comes from. `refresh` is `RefreshFound`, `RefreshIssue`,
`RefreshRemove` (or `RefreshExpired`): the delete throws when the row is gone, which is what
makes an exchange happen once. `Logout` deletes the row of the token it is given and takes none
for done: with a token that was exchanged before it ends no session (section 8), with the newest
of a session it ends that. Tokens are drawn in a fixed order (`Drawn`): which random string
is drawn makes no difference.

`ClientSession`: `held` is the pair in localStorage that all tabs share, `auth` the context of
each tab, `task` what each of its asynchronous functions awaits, `live` the pairs the server
still takes. `Mount` and the actions after it are the check of `AuthProvider`, with the refresh
of its own that `getCurrentUser` makes and the one the provider makes; `List` and those after it
are `getWorkflows`, which refreshes by itself. `Nested` and `HasMe` name what the client expects
of the server (tokens under `tokens`, a route `/auth/me`) and this server does not do: both are
checked.

`AuthSlice` runs the four thunks of the slice at once, with the copy of the token in
localStorage. Nothing dispatches them outside the tests (section 1).

### Connections, SessionRegistry, LiveUpdates, ClientSocket - the live connection

`Connections`: `stage` is the handshake of each socket, with the await on the users table during
which the transport may close (`HandshakeLost`); socket.io then runs the middleware and never
reports 'disconnect'. `userConnections`, `keys` and `socketUsers` are the two maps;
`SessionRegistry` is what the first promises, a refinement the run checks.

`LiveUpdates`: `writer` holds the events a service call has still to send, each after a lookup
of its own (`Emit`, `EmitFailed`); `pipe` is the ordered connection to a tab, `view` what the
tab was last told; `asking` is `execution:subscribe` between its read and its join. The client of this
repository never sends it (section 1): its behaviours are those without `Subscribe`. `Receive` is
what `setupReduxIntegration` does with an event, hand its status on.

`ClientSocket`: `conn` is the service with its current socket, flags, attempts, timers and
refreshes; `sock` every socket made, since `connect` does not close the one it replaces; `hook`
the effects of each component with the values they last ran with. Operators on a pair of `conn`
and `sock` (`Connect`, `Disconnect`, `HandleReconnect`, `Status`) are the service's functions,
so that an action can call several. `SignIn` is the reducer that the hook waits for, which nothing
dispatches (section 1). `Wanted` says when the connection is to come up: for a user the store
knows, and with a server that says no 401 for as long as the token is good. `Says401`: a refusal mentions 401, which this server's does
not; `MayKick`: the server closes connections, which this one does not; both are checked.

### ApiCache, OptimisticUpdate, ErrorPath - the REST client

`ApiCache`: `cache` and `pending` are the two maps, `flight` the request a caller has sent, `call`
what it waits for. `Call` is one call up to its first await, `Serve` the server, which may also
fail or lose the answer after the change was made, `Settle` the answer. `Clears` is what a
mutation removes (by the name in the key), `Changes` what it changes. An entry is `raced` when
its GET overlapped a mutation of its data, `missed` when a mutation that does not clear it was
applied while it was cached (`Overlooked`). `keep` is `cache: true` (section 1).

`OptimisticUpdate`: cancel, snapshot and apply, send, take the answer or put the snapshot back,
beside refetches of the library (external). The data is the set of changes made to it. No page
uses the hook.

`ErrorPath` follows an error from the handler that throws it through the server's status
(`Status`), the client's (`Handle`) or the n8n service's (`TransformError`) code, the two
wrappers that retry (`IsRetryable`, `QueueRetries`, `GetRetryDelay`) to what the user is told.
`Raw`: the wrapped function throws what it met; what the services of the client throw has been
through `Handle` already, and is then never retried (section 8).

### ExecutionPages, WorkflowPages, AnalyticsPage - the pages

Each has the server's rows, what its pages show, and `calls`, one record per request with the page
that waits for it (`"none"` once that page is gone) and the answer. Answers arrive in any
order. `ExecutionPages` adds `queue`, the events of the live connection, and requests that share
one (`Request`), those whose answer is on its way included; the server refuses what it refuses
(`Refused`: a filter in the client's spelling, the cancel of what is over), callbacks write what
they say whatever the row says (`Run`), and `late` marks the answers an event has overtaken, in a
call or on the screen. A write and its event are one step here; the lookup awaited between them is
`LiveUpdates`'. `WorkflowPages` the form in its dialog, which Escape closes while it saves;
`AnalyticsPage` the error boundary (`up`). `Mended` lists the places where client and
server disagree on the form of a request or an answer (section 8), in `ExecutionPages` the form of
a list ("wraps") and the spelling of statuses ("spells"). The repository as it is has
none of them repaired; with some repaired, more of the client's code runs. Several are checked;
the one of this repository is always among them.

## 5. Runs and bounds

A module whose name begins with MC instantiates modules for TLC. Models that share no variable
are put side by side in one state space: `part` says which one a behaviour is about, its steps
are that model's and the others stay as they start, so that state counts add up and do not
multiply. Nothing is composed that way that interacts in the code. A part whose name ends in
`AsIs` is the same model with the constants that say how this repository's server differs from
what its client expects (section 4).

| Run | Instance | Shows |
|---|---|---|
| `queue_races` | 1 execution, 4 jobs, 2 clients, 1 fault, 1 restart | `TypeOK`, `HandleOwner` (no slot held by a dead attempt), `QueueExact` (waiting jobs and queue agree), `NoOrphan` (an active row has an owner while no fault happened), `RetryFanOut` (double ends double retries, no more), `SettledStays` (nothing stale rewrites a settled row) |
| `queue_slots` | 2 executions, 4 jobs, 1 slot | `ConcurrencyLimit`; the queue implements `ConcurrencySlots` |
| `queue_live` | 1 execution, 3 jobs, 1 client, fair | `SlotsFreed`, `RunningSettles` |
| `executions` | 2 executions, 2 requests, 2 callbacks, 1 fault; tables of 2 or 3 rows of 2 users, 1 or 2 changes between queries, pages of 1 and 2 | `Typed`, `FinishedHasTime`, `SuccessIsReported`, `ActiveHasOwner` (faults included: an active row has a request or a run not yet reported, or is one of the two named kinds), `SettledStays`; `ReadsAgree` (pages are complete and lose nothing in the middle, counts agree) |
| `workflows` | all definitions of 2 nodes and 1 link; 2 workflows, 2 executions, 2 requests | `StoredIsFixed` (what is stored could be sent again and is judged alike), `ValidIsGraph` (a graph, each node with id, name and type); `DeleteRaceIsNarrow` |
| `sessions` | 1 user, 2 requests, 3 tokens, a crash; 2 tabs, 3 pairs, 1 reload; 3 writes by 2 writers, 1 tab of 2 users, 1 lost connection | `Typed`, `ExchangedOnce`, `EndedIsOver` (no session outlives its account, or a logout with its newest token); `HeldIsUnused`; `ViewsConverge` |
| `sockets` | 3 sockets of 2 users; 2 components, 4 sockets, 2 faults, 4 visits | `Typed`, `MapsAgree`, `ConnectedAreTracked` (tracked and in the room, and nobody else), the map of users implements `SessionRegistry`; `HandlersKept` |
| `pages` | 2 or 3 calls under way, 1 failure, 2 to 4 clicks, 2 events | `SpinnersAreUnderWay` (whoever waits on the screen waits for a call), `ShownIsTrue` (what is shown is the status, unless an event overtook the answer); `PendingIsUnderWay`, `StaleHasReason`; `AloneAgrees`; `ErrorsJudged` (tried again if it may pass, and the session ends by errors of authentication only) |
| `server_live` | 2 executions, 2 requests, 1 callback; 2 writes, 1 tab, fair | `PendingIsStarted`, `OwnerHears` |
| `client_live` | 2 calls, 1 tab, 1 component, fair | `CallsEnd`, `SpinnersEnd` (in every page and the session), `Reconnects` (with a server that says 401 and with this one; and no "connecting" with nobody at work on it) |
| `retry_stuck` | 1 execution, fair | refutes "queue workflow executions and retry" (section 8) |
| `stale_cache` | 1 endpoint, 2 callers | refutes "Clear related cache entries on mutations" (section 8) |

The bounds of `sessions`, `sockets`, `pages` and of the reads of `executions` are constants
of their MC modules with values in the cfg, so that the proofs about these compositions hold for
every value; the other instances have theirs in the module.

Why the bounds are enough. Every race of these modules is between two parties (two requests,
two tabs, a request and a callback, a call and an event), or two and a fault; the instances have
two of each, and three where a third can be squeezed in between (`AnalyticsPage`, `OptimisticUpdate`,
`Connections`). Counters that bound behaviours (`MaxClicks`, `MaxVisits`, `MaxDeliveries`,
`MaxWrites`, `MaxPairs`, `MaxChanges`, ...) are in guards of the environment's steps only (a
click, an event, a fault, a new pair), never of a step that answers what is under way, except
`MaxPipe`, `MaxQueue` and `MaxRefreshes`, which delay a sender until the receiver has taken what
was sent; longer pipes were checked in `sessions` than in `server_live`. `MaxAttempts = 1` for five and `MaxRetries`
as in the code reach the giving up. Symmetry is used for identities that no property names, and
never in the runs that check liveness. Deadlock is not checked: users stop clicking, tables fill
up to their bound, and what is done is done.

`Reconnects` is checked twice in `client_live`. With a server that says 401 it has no exception.
With this one, whose refusals hold no 401, nothing asks for a new token: the connection comes up
for as long as the token is good (`Wanted`), and after that neither the end (`never_401`,
`no_give_up`) nor what is shown (`shown_connecting`) is promised; section 8 says what happens then.

`pages` has the execution pages three times: with the server the client expects, with this one, and
with this one's statuses but lists the table can show, where a load shows capitals and an event the
pages' own words. Their `MaxTableClicks` and `MaxTableRuns` are 2: two clicks open a row and press
its button, two writes end an execution and undo or repeat that. They start with an execution that
is still to be triggered, which the others reach by its trigger.

A property of a run joins what models say of one question: `SpinnersEnd` is four modules' word
on loading states. `Typed` is `TypeOK` of every model in its run. `workflows`, `pages` and
`client_live` check behaviour only: `TypeOK` of their modules states what the variables hold and
can be added to the cfg of a run.

## 6. Fairness

The queue. `Fairness` is weak and asks for what the platform gives: Node runs a due callback
(`Immediate`, `DelayElapsed`, `TimerStep`), the clock moves (`DelayPasses`), the database
answers and n8n's request ends because axios gives it 30 s (`ExecuteStep`), a request in
progress goes on (`ClientStep`, `Enqueue`). A FAILED write is answered one way or the other,
so its refusal counts as its answer. No fairness on submissions, new requests, crashes or
restarts. `RunningSettles` therefore has two honest exits besides a final status: back in
the queue (where, as `retry_stuck` shows, it may stay) and a dead process.

The other modules ask for weak fairness of the same kind and no more. `ExecutionLifecycle`: a
database call or the request to n8n ends (`CallStep`), while n8n need never answer, finish or
call back. `LiveUpdates`: a lookup is answered, an open connection delivers. `ApiCache`,
`ExecutionPages`, `WorkflowPages`, `AnalyticsPage`: `fetch` settles and the tab runs what it wakes.
`ClientSession`: the same for the check of a tab at mount. `ClientSocket`: socket.io ends an
attempt, a timer fires, a refresh ends, React commits what it was told to render; transports are
lost a bounded number of times. `ErrorPath`: a delay passes, an attempt ends. Nothing is asked of
users, of faults, or of n8n.

## 7. Proofs

Eight modules hold theorems, all checked by TLAPS, for all values of the constants that the
named assumptions allow. The assumptions say that the values standing for "nobody" and
"nothing" are no users, tokens or executions, that bounds are natural numbers and that limits
are at least 1; TLC evaluates them in the runs. None says anything of the code.

Each safety theorem goes the same way: an inductive invariant, one lemma that the initial
states satisfy it, one per action or kind of action that a step keeps it, and a last
temporal step. What follows says what the invariant had to add to the property, and why.

### ExecutionQueueProofs (`QueueAssumption`)

| Theorem | States | Rests on |
|---|---|---|
| `TypeCorrect` | `Spec => []TypeOK` | |
| `QueueIsExact`, `HandlesAreOwned` | `[]QueueExact`, `[]HandleOwner` | `IInv` |
| `LimitHolds`, `ImplementsSlots` | `[]ConcurrencyLimit`; the refinement of `ConcurrencySlots` | `NextSlots` |
| `SettledIsFinal` | `SettledStays`, an action property | `NextKeepsNone`, `NextKeepsSettled` |
| `NobodyIsOrphaned` | `[]NoOrphan` | `IInv`, `JobHolds` |
| `RetriesFanOut` | `[]RetryFanOut` | `FanInv` |

`QueueExact` and `HandleOwner` are not inductive alone. The catch block clears the handle
found in the map, and that this disturbs no other entry needs to know that entries belong
to their execution; that a retry gets an identity nobody uses needs to know that free jobs
carry nothing over. `IInv == TypeOK /\ Exact(job, queue) /\ Owned(job, running) /\ Clean(job)`.
Its parts take the table, queue and map as parameters because an action computes
intermediate ones before `processQueue` runs; `ProcessQueueInv` and `HandleErrorInv` carry
them through the shared code, `ExactInsert`, `ExactRemove` and `ExactTail` through `splice`,
`unshift` and `shift`, and `MovedInv` through every step that only moves a job along.
`NextSlots`: a step claims one slot under `HasSlot`, returns one, returns all, or leaves them.
`NextKeepsNone`: only the enqueueing step gives a job to an execution that has none.
`NoOrphan` is inductive given `IInv`: a job that ends has written the final status, or leaves
a retry behind.

`RetryFanOut` says 2^n, and counting alone does not get there: the invariant must say where
each live attempt comes from. An attempt has two ends, that of `executeWorkflow` and that of
its timer, and each may ask for one retry. `FanInv` says that the live attempts of an execution
can be placed in a binary tree: there are paths `p`, sets of the levels at which the
attempt descends from the timer's side, such that no two of equal depth have the same path,
and below an attempt there is something on a side only if that end is spent. A step thins the
tree (`FanThins`), adds a leaf on a side that is now spent (`FanGrows`), or starts one for an
execution with no job (`FanRoots`); a set of 1..n is one of 2^n (`FanIsNarrow`). That the
path of a job is kept nowhere in the code is why it is quantified.

### ExecutionLifecycleProofs (`LifecycleAssumption`, `ReadAssumptions`)

`FinishedAreTimed`, `SuccessesAreReal`, `ActiveRowsAreOwned` (`Spec => []...`) and
`SettledRowsStay` (`Spec => SettledStays`), with `TypeCorrect`. No row can be judged without
what n8n did: `N8nInv` says that callbacks, which are repeated and reordered, tell of a run
that is as they say, and that the request that starts an execution is the only one and the
first (`StarterIsFirst`), so that no run is asked for twice. `ActiveHasOwner` excepts no faults:
a RUNNING row whose end was written before is one that a report of the start or of progress has
set back, and one without a run to come or a request is one whose request was lost; the invariant
must say that each report that ends a run leaves its row ended. `ReadsTypesCorrect` is
`PartsSpec => []Typed` of `MCExecutions`, for tables, pages and limits of any size.

`ReadsAlwaysAgree` (`PartsSpec => []ReadsAgree`) is about what a reader was given when the table
changes between the queries, for tables, pages, samples and numbers of changes of any size.
That nothing is wrong at the end says little of the pages before it, so the invariant follows
the reader. While nothing changes, what was shown are the newest and the page at hand are those
that follow (`WalkExact`); while nobody is lost, whoever stands before the end of what was
fetched was fetched, and with one all newer ones (`WalkDense`). The latter is kept because
executions that come only push the others back (`PlaceGrows`), and those that come and go must
leave each place at least what it was (`PlaceStays`). The order is that of a set: `Newest` lists
it by the number of executions at least as new, a bijection (`NewestLists`), so that no induction
over data is needed. Of the counts, executions split by status (`StatusesAddUp`), and each count
given so far is that of the table while nothing changes (`CountsInv`); with the columns as the
code's query names them no analysis is answered (`AsIsInv`).

### WorkflowProofs (`DefinitionAssumption`, `RowsAssumption`)

`StoredIsAFixedPoint`, `ValidAreGraphs`: for all names, dangerous parameters and sizes. The
first rests on `sanitize` being idempotent and keeping what the schema and the validation
look at, the labels of its nodes included; the second on the duplicate check by a set of names finding what counting them does
(`FS_` theorems of the library). `ForeignKeyHolds` and `DeletesRaceNarrowly`: the second needs
`CountedStay` (what a delete has counted keeps its workflow as long as that exists) and
`CountedAreOver` (only a late callback makes it active again). `RowsTypeCorrect` with them.

### RefreshTokensProofs and SessionProofs (`TokenAssumption`, `PartsAssumptions`)

`TokensAreExchangedOnce` needs to know who removes a row: a token that was given out has a
parent whose row is gone (`ParentIsGone`), rows never come back, and what a request is about to
hand out is its own (`NewIsOwn`). `EndedStaysOver` is about logouts with the newest token a client
was given, whether its row is there or not; it counts rows: apart from the tokens that
requests have stored and not handed out, a session has one row at most unless a refresh of
it failed half way (`OneRow`).

`PairHeldIsUnused` is about the tabs of a browser, against the server the client expects and
the one of this repository: what an answer on its way brings is new to everybody
(`PairsAreNew`). `ViewsConvergeAlways` follows messages through the ordered connection: the
last word about an execution, in the pipe or else on the screen, is the row's (`LastWord`,
`WordsAreTrue`), and the one call that announces has its status from the row (`OneAnnounces`).
`SessionTypes` is `Typed` of the run.

### ConnectionsProofs (`ConnectionsAssumption`, `PartsAssumptions`)

`MapsAlwaysAgree`, `ConnectedAlwaysTracked`, `TypeCorrect`. Neither map follows the other alone:
that `disconnect` removes the entry it should needs `OpenIsTracked`, that a new entry is the
socket's only one needs `GhostsAreHandshakes`, two of the three parts of `ConnectedAreTracked`
(the third is `RoomIsPrivate`). Together they are inductive. `ImplementsRegistry` is the
refinement: every step enters one session, leaves one, or leaves the registry alone.
`HandlersStay` is about the browser's end, with its types (`BothTypesCorrect`): `disconnect`
removes everybody's handlers, and what saves them is that its status makes every mounted
component render.

### ApiCacheProofs (`CacheAssumption`)

`PendingIsExact` rests on each request's own caller still waiting for it;
`EveryWaiterHasRequest` is the part of the invariant worth a name. `StaleEntriesHaveReason` holds
for any paths a mutation clears and changes, those of the code included (`Own` and `Made` in the
`pages` run, where a run of a workflow clears the workflows and changes the executions too);
`stale_cache` and `unrelated_cache` (section 8) are its two reasons. The invariant follows a
mutation under way: reads that overlap it are marked, and so is what is cached of its data meanwhile
(`CachedMeanwhile`).

### PagesProofs (`PagesAssumptions`)

`UpdatesAgree` (no assumption), `SpinnersHaveCalls` and `ShownAreTrue`, against the server the
client expects and the one of this repository. For spinners it is enough to know, of every
call, which page will hear of it. For what is shown, late callbacks included, an execution's status
is followed back from the screen: the last event of it in the queue has the row's status
(`RightQueue`), and with none in the queue every answer on its way and every page that no event has
overtaken has it (`Right`); and a dialog's call asks for what the dialog shows. `ErrorsAreJudged` (`PartsSpec => ErrorsJudged`) is about the layers an
error goes through: for every fault that may pass, the class each layer gives it is one that
the layer above tries again (`PassingIsRetried`), and a caller that gave up has used its
attempts; for any number of retries and any cap of the delay. It is stated for `Raw`, a wrapped
function that throws what it met; what becomes of errors handled before is `never_retried` of
section 8.

### What stays with TLC

Liveness: `SlotsFreed`, `RunningSettles`, `PendingIsStarted`, `OwnerHears`, `CallsEnd`,
`Reconnects` and `SpinnersEnd`. They rest on fairness, and the prover does not handle ENABLED.
Every safety property of the passing runs is stated by a theorem. The runs that refute
(section 8) are TLC's as well: a counterexample is their proof.

## 8. Where the code and its documents disagree

Modelling a handler and reading what the repository says of it brought these to light. The two
marked *run* are kept as runs, whose counterexamples TLC prints; each of the others is one
property away from one, on the module named. Paths are
from the root of the repository (`PROJECT.json` has them below `src/`); "line 5" and ":5" are
of the file named first.

**ExecutionQueue**

- `retry_stuck` (*run*), `src/services/executionQueue.service.ts:294`: handleExecutionError puts the retry at the front of the queue and returns without calling processQueue, and the round that started the attempt is long over: with no further submission the retry is never taken out. .kiro/specs/workflow-automation-platform/requirements.md:45 says "IF n8n is unavailable THEN the system SHALL queue workflow executions and retry with exponential backoff". No route submits to the queue today: the controllers call executionService.triggerExecution only, and WorkflowExecutionService, which enqueues, is exported and called by nobody.
- `pending_lost`, `src/services/executionQueue.service.ts:301`: An execution is deleted while its attempt fails for good: the FAILED write is refused, the rejection leaves executeWorkflow, which :185 calls without await or catch, the process exits, and after the restart the other submitted execution is PENDING with nothing in the queue. docs/USER_GUIDE.md:164 says "Pending: Execution is queued and waiting to start".
- `priority_inverted`, `src/services/executionQueue.service.ts:294`: unshift puts a retry of low priority at the front; findIndex at :84 then inserts a new execution of middle priority before a waiting one of high priority. The comment at line 83 says "Insert in priority order (higher priority first)".
- `cancelled_starts`, `src/services/executionQueue.service.ts:212`: POST /executions/:id/cancel (src/controllers/execution.controller.ts:223) writes CANCELLED and leaves the queue alone, and the queue writes RUNNING without looking at the row. docs/USER_GUIDE.md:168 says "Cancelled: Execution was manually cancelled" and the comment at line 104 "Remove from queue if not started".
- `in_flight_exceeded`, `src/services/executionQueue.service.ts:251`: The timeout deletes the entry of runningExecutions while n8n's answer is still awaited at :214, so the next execution starts beside it. The option at line 24 and the queue status at :143 call the limit "maxConcurrentExecutions".
- `stale_timeout`, `src/services/executionQueue.service.ts:234`: When the timeout of an earlier attempt has deleted the entry, the catch block of the later attempt finds no handle and leaves its own timer armed, which fires later and queues or fails the execution again. The comment at line 233 says "Clear timeout".
- `running_deleted`, `src/services/execution.service.ts:728`: The status is read at :717 and the row deleted at :728 by another database call, while the queue may set it to RUNNING in between. The comment at line 719 says "Don't allow deletion of running executions".

**ExecutionLifecycle**

- `result_lost`, `src/services/execution.service.ts:232`: The catch block of the 30 s request writes FAILED without looking at the row, which a callback may have set to SUCCESS while the request was pending. .kiro/specs/workflow-automation-platform/requirements.md:42 says "WHEN n8n completes a workflow execution THEN the system SHALL receive and store the execution results".
- `running_finished`, `src/controllers/webhook.controller.ts:96`: The start and progress callbacks write RUNNING over any status, and the repository never clears finishedAt. docs/USER_GUIDE.md:165 says "Running: Execution is currently in progress".
- `finished_cancelled`, `src/services/execution.service.ts:398`: The status is read at :371 and CANCELLED written at :398 by another database call that asks for no status: a result stored in between is overwritten. The comment at line 389 says "Only allow cancellation of pending or running executions".
- `retry_unfailed`, `src/services/execution.service.ts:618`: The original is read at :605 and the new execution created two database calls later: a late callback may have made the original SUCCESS, or a delete removed it. The comment at line 607 says "Only allow retry of failed executions".
- `callback_uncancels`, `src/services/execution.service.ts:763`: handleWebhookCallback and the /n8n routes overwrite CANCELLED with whatever n8n reports; cancelExecution at :398 does not stop the run in n8n, so such a report is to be expected. docs/USER_GUIDE.md:168 says "Cancelled: Execution was manually cancelled".

**WorkflowLifecycle**

- `active_deleted`, `src/repositories/workflow.repository.ts:209`: The active executions are counted and the workflow deleted by two database calls; an execution created in between is deleted with it, while n8n or the queue runs it. .kiro/specs/workflow-automation-platform/requirements.md:33 says "IF a workflow has active executions THEN the system SHALL prevent deletion until executions complete".
- `draft_runs`, `src/services/execution.service.ts:142`: triggerExecution and createExecution check that the workflow exists and whose it is, never its status. docs/USER_GUIDE.md:117 says "Draft: Workflow is being developed and won't execute".
- `stale_transition`, `src/services/workflow.service.ts:169`: The transition is checked against a status read two database calls before the write. The comment at line 167 says "Validate status transition"; what is written may be a transition that the check refuses.

**Connections**

- `ghost_online`, `src/websocket/middleware/connectionManager.middleware.ts:21`: The middleware enters a socket in its maps and relies on 'disconnect' to remove it, which socket.io reports only for a socket it has connected: when the transport closes during the awaited lookup of the user, the entry stays. .kiro/specs/workflow-automation-platform/requirements.md:59 says "WHEN a user closes the browser THEN the system SHALL clean up WebSocket connections".
- `users_counted`, `src/services/websocket.service.ts:184`: getConnectedUsersCount returns the number of sockets; its comment at line 177 says "Get connected users count (for monitoring)".

**LiveUpdates**

- `events_reordered`, `src/services/execution.service.ts:60`: emitExecutionEvent awaits a lookup of the workflow between the write of a status and its events, and the events carry the row as it was written: those of two updates can be emitted in the opposite order. .kiro/specs/workflow-automation-platform/requirements.md:55 says "WHEN a workflow execution status changes THEN the system SHALL broadcast the update to connected clients"; a connected client is left with a status the row no longer has.
- `reconnect_stale`, `src/websocket/handlers/execution.handlers.ts:212`: A reconnected socket joins the room of its user and is sent nothing of what it missed. .kiro/specs/workflow-automation-platform/requirements.md:58 says "IF the WebSocket connection drops THEN the system SHALL automatically reconnect and sync missed updates".
- `stale_subscription`, `src/websocket/handlers/execution.handlers.ts:57`: The status is read before the room is joined and sent without another read. The comment at line 57 says "Send current execution status".
- `unsubscribe_lost`, `src/websocket/handlers/execution.handlers.ts:90`: execution:unsubscribe leaves the room at once; an execution:subscribe that was received before it and still awaits its read joins afterwards. The comment at line 87 says "Unsubscribe from execution updates".
- `join_unheard`, `client/src/services/websocket.service.ts:244`: joinExecutionRoom emits join:execution and leaveExecutionRoom leave:execution; the server's handlers hear execution:subscribe and execution:unsubscribe (src/websocket/handlers/execution.handlers.ts:9), and the client listens to no execution:status. The events reach this client through its user's room only. The comment at line 242 says "Join a room for execution-specific updates".

**RefreshTokens**

- `logout_survived`, `src/services/auth.service.ts:45`: A refresh that has found its token creates the successor without looking again: a logout in between leaves the new row (and, when the delete then throws, one that nobody was given). .kiro/specs/workflow-automation-platform/requirements.md:18 says "WHEN a user logs out THEN the system SHALL invalidate both access and refresh tokens".
- `logout_of_exchanged`, `src/services/auth.service.ts:55`: logout deletes the row of the token it is given and swallows the error when there is none: called with a token that was exchanged before, it ends no session and is answered as if it did. .kiro/specs/workflow-automation-platform/requirements.md:18 says "WHEN a user logs out THEN the system SHALL invalidate both access and refresh tokens".
- `password_race`, `src/services/user.service.ts:58`: changePassword verifies against a row read before two bcrypt calls and writes without another look: the password may have been changed meanwhile. The comment at line 48 says "Verify current password".

**ApiCache**

- `stale_cache` (*run*), `client/src/services/api.ts:139`: The cache is cleared before the mutation is sent; a GET answered with the old data while the mutation is under way is cached afterwards, for the whole TTL. The comment at line 227 says "Clear related cache entries on mutations". getAuthenticated caches when it is called with cache: true, as its test does; no service of the client passes it today.
- `unrelated_cache`, `client/src/services/api.ts:228`: A mutation clears the keys that contain the first segment of its endpoint: POST /workflows/:id/execute leaves GET:/executions in the cache. The comment at line 227 says "Clear related cache entries on mutations".
- `strangers_data`, `client/src/services/api.ts:48`: The key of the cache and of the pending requests names the method, the endpoint and the body, never the user, and no sign-out clears them. .kiro/specs/workflow-automation-platform/requirements.md:11 says "so that I can access my personal workflows and data".
- `no_refresh`, `client/src/services/api.ts:178`: authenticatedRequest refreshes when the error is an instance of Error whose message contains '401'; request() only throws the plain objects of ApiErrorHandler.handle. client/src/services/__tests__/api.test.ts:136 says 'should refresh token and retry on 401 error'; line 1 says "Enhanced API service with automatic token refresh".
- `token_kept`, `client/src/services/apiErrorHandler.ts:46`: handle dispatches clearCredentials, which resets the slice and one localStorage key the services never read; the access and refresh tokens stay. The comment at line 45 says "Clear authentication state".

**OptimisticUpdate**

- `rollback_all`, `client/src/hooks/useOptimisticUpdate.ts:43`: The snapshot is the whole entry as it was when the update began: putting it back takes away what another update has changed since. The comment at line 39 says "Rollback on error".

**ClientSession**

- `login_fails`, `client/src/services/auth.service.ts:100`: login stores response.tokens; the server answers with accessToken and refreshToken beside the user (src/controllers/auth.controller.ts:39), and to register with the user alone: setTokens(undefined) throws after the server made the pair. client/src/contexts/__tests__/AuthContext.test.tsx:97 says 'should login successfully'.
- `reload_fails`, `client/src/services/auth.service.ts:140`: getCurrentUser asks for /auth/me, which routes.ts does not have: the check at mount fails, refreshes, fails again, and clears a good pair. client/src/contexts/__tests__/AuthContext.test.tsx:76 says 'should try refresh token when getCurrentUser fails' and expects the user.
- `logout_undone`, `client/src/services/auth.service.ts:134`: refreshToken stores what it was answered without a look whether the session it refreshed is still there. client/src/features/auth/README.md:43 says "Token cleanup on logout".
- `refresh_twice`, `client/src/services/workflow.service.ts:123`: Refresh tokens are exchanged once; two calls that refresh at the same time send the same one, and the refused call clears whatever pair is there, the new one included. client/src/features/auth/README.md:42 says "Automatic token refresh on API 401 errors".
- `no_redirect`, `client/src/services/workflow.service.ts:123`: getWorkflows clears the pair and throws; AuthContext, which ProtectedRoute asks, keeps its user until the tab is reloaded. .kiro/specs/workflow-automation-platform/requirements.md:20 says "WHEN a user accesses protected routes without valid authentication THEN the system SHALL redirect to login".
- `others_pair`, `client/src/services/auth.service.ts:134`: refreshToken stores its pair over that of a user who signed in while it was awaited: the screen shows one user, the requests are made as the other. .kiro/specs/workflow-automation-platform/requirements.md:11 says "so that I can access my personal workflows and data".
- `error_erased`, `client/src/features/auth/Login.tsx:32`: clearError is a new function at every render of AuthProvider and the effect depends on it: every render on the login page dispatches CLEAR_ERROR, which makes a new state and the next render. The comment at line 29 says "Clear error when component mounts".

**AuthSlice**

- `error_kept`, `client/src/store/slices/authSlice.ts:133`: clearCredentials resets the user, the token and isAuthenticated, not the error. client/src/store/slices/__tests__/authSlice.test.ts:78 says 'should clear error when clearing credentials'.

**ClientSocket**

- `never_401`, `client/src/services/websocket.service.ts:156`: handleAuthError runs for an error whose text holds '401' or 'unauthorized'; the messages of src/websocket/middleware/socketAuth.middleware.ts:52 hold neither, so an expired token is sent again until the attempts are used up. .kiro/specs/workflow-automation-platform/requirements.md:58 says "IF the WebSocket connection drops THEN the system SHALL automatically reconnect and sync missed updates".
- `socket_kept`, `client/src/services/websocket.service.ts:104`: connect stores a new socket over the one it held and does not close that: disconnect closes the last one only, and the others go on updating the store after the sign-out. The comment at client/src/hooks/useWebSocketConnection.ts:53 says "Disconnect when not authenticated".
- `two_sockets`, `client/src/hooks/useWebSocketConnection.ts:61`: The effect runs at mount and at every loss of the connection as well, beside the effect above it and socket.io's own reconnection: two sockets are opened, and every event is handled twice. The comment at line 60 says "Reconnect when authentication changes (if enabled)".
- `no_give_up`, `client/src/hooks/useWebSocketConnection.ts:47`: handleReconnect gives up by setting connecting to false, which is what the hook's effect waits for: it connects again, with no delay, for as long as the server refuses. client/src/services/websocket.service.ts:377 says "Max reconnection attempts reached".
- `never_connects`, `client/src/hooks/useWebSocketConnection.ts:13`: The hook takes isAuthenticated from the slice, which AuthContext, the pages of login and register and the REST client never set: nothing outside tests dispatches setCredentials, loginUser or another thunk of the slice. It stays false and no live connection is opened. The comment at line 46 says "Auto-connect when authenticated".
- `shown_connecting`, `client/src/services/websocket.service.ts:397`: Both effects of the hook connect, so that two sockets are tried. When the token has expired and the older of them is denied while the newer is open, handleReconnect sets connecting, and its timer finds isConnected and does nothing: "connecting" is shown for as long as the connection lasts. .kiro/specs/workflow-automation-platform/tasks.md:152 says "Add WebSocket connection status management and reconnection logic".

**ExecutionPages**

- `table_stale`, `client/src/features/executions/components/ExecutionTable.tsx:64`: loadExecutions stores whatever answer comes, so one that was read before an event undoes what the event has shown; a failed execution is not loaded again, and the load that a completed one starts joins the request under way. docs/USER_GUIDE.md:195 says "Status changes are reflected immediately".
- `detail_stale`, `client/src/features/executions/components/ExecutionDetail.tsx:26`: The detail ignores events until its execution has loaded, and the load may have read the row before the event: the detail goes on showing it running. .kiro/specs/workflow-automation-platform/requirements.md:56 says "WHEN a user navigates to execution details THEN the system SHALL show live progress updates and logs".
- `filter_lost`, `client/src/features/executions/components/ExecutionTable.tsx:63`: Answers are stored in the order they come, and handleCancel loads with the filters of the render it was pressed in: the rows of one filter are shown under another. .kiro/specs/workflow-automation-platform/requirements.md:67 says "display paginated results with filtering and sorting options".
- `statuses_unmatched`, `client/src/features/executions/components/ExecutionTable.tsx:284`: The server sends the statuses in Prisma's capitals (prisma/schema.prisma:107) and the table and the detail (client/src/features/executions/components/ExecutionDetail.tsx:230, :238) test for 'running', 'pending' and 'failed': Cancel and Retry are offered only for a row that an event has changed. The filters are sent in lower case (ExecutionTable.tsx:174) and refused by the z.enum of src/routes/execution.routes.ts:34. docs/USER_GUIDE.md:160 says "Actions: View details, retry, or cancel" and :203 "Status Filter: Show only executions with specific statuses".
- `list_broken`, `src/controllers/execution.controller.ts:129`: The list is answered as an array with its meta beside it; apiService returns the array, and the table reads items of it, which throws. client/cypress/e2e/executions.cy.ts:37 says 'should display executions when they exist'.

**WorkflowPages**

- `list_refused`, `src/middleware/validation.middleware.ts:15`: validateQuery assigns req.query, in Express 5 (package.json:35) a getter without a setter, so the assignment throws in strict mode and every list of workflows is answered 500. client/cypress/e2e/workflows.cy.ts:34 says 'should display workflows when they exist'.
- `create_refused`, `src/schemas/workflow.schema.ts:40`: The form sends status 'draft', 'active' or 'inactive' (client/src/features/workflows/components/WorkflowForm.tsx:92); the schema takes DRAFT, ACTIVE and INACTIVE and refuses the request. client/cypress/e2e/workflows.cy.ts:73 says 'should create a new workflow successfully'.
- `status_refused`, `client/src/services/workflow.service.ts:162`: updateWorkflowStatus sends PUT /workflows/:id/status; the route is PATCH, so the change is answered 404 even if its status were spelled as the server's. client/cypress/e2e/workflows.cy.ts:144 says 'should change workflow status'.
- `deleted_shown`, `client/src/features/workflows/components/WorkflowList.tsx:86`: The server answers a delete with 204 and no body, request() parses the body and throws, and the list shows an error and still the workflow. client/cypress/e2e/workflows.cy.ts:160 says 'should delete workflow with confirmation', after which the list does not contain it.
- `edit_unlisted`, `client/src/features/workflows/Workflows.tsx:31`: handleFormSave closes the form and changes selectedWorkflow; nothing loads the list under it again. client/cypress/e2e/workflows.cy.ts:130 says 'should edit workflow successfully': the list contains the updated name.
- `edit_unseen`, `client/src/features/workflows/components/WorkflowDetail.tsx:23`: The detail takes the id only and loads when it changes: after a save it shows the workflow as it was. client/src/features/workflows/Workflows.tsx:34 says "If we're in detail view and editing the same workflow, update it".
- `edit_undone`, `client/src/features/workflows/components/WorkflowForm.tsx:78`: The form sends all its fields, those the user left alone as the page had them: edited from a detail that is stale after a first save, they undo it. .kiro/specs/workflow-automation-platform/requirements.md:31 says "WHEN a user edits an existing workflow THEN the system SHALL preserve the workflow history and version the changes".
- `empty_page`, `client/src/features/workflows/components/WorkflowList.tsx:164`: A new filter, and a delete of the last row of the last page, keep currentPage: the page asked for does not exist, and without rows there is no pager to leave it. line 187 says "No workflows found".
- `detail_jumps`, `client/src/features/workflows/Workflows.tsx:35`: The dialog can be closed while it saves; handleFormSave then runs with the selectedWorkflow of the render it was submitted in and makes it the selected one, whatever detail is open. line 34 says "If we're in detail view and editing the same workflow, update it".

**ExecutionListing**

- `phantom_pages`, `src/repositories/execution.repository.ts:264`: A query of three or more conditions that 1000 or more rows match is answered, from page 2 on (and for a page size of 100 at once), with the number of all executions of all users as its total: a sample that is full says nothing of the share that matches. line 262 says 'Otherwise, estimate based on sample'.
- `export_cut`, `src/repositories/execution.repository.ts:171`: findMany cuts the 1000 rows the export asks for to 100, and the export reads the first page only. src/controllers/execution.controller.ts:311 says 'Get all executions (with a reasonable limit)'.
- `sort_skips`, `src/repositories/execution.repository.ts:182`: Sorted by status (or by a finishedAt that is missing) the query has no tie breaker, so two pages need not be of one order of the equal rows: an execution can be on two pages and another on none. .kiro/specs/workflow-automation-platform/requirements.md:67 says 'the system SHALL display paginated results with filtering and sorting options'.
- `no_analytics`, `src/repositories/execution.repository.ts:370`: The raw query reads started_at, workflow_id and user_id; the migration creates "startedAt", "workflowId" and "userId" (prisma/migrations/20250815200426_init/migration.sql:37), so every request for analytics fails. .kiro/specs/workflow-automation-platform/requirements.md:69 says 'WHEN a user requests analytics THEN the system SHALL provide success rates, average execution times, and failure patterns'.
- `rate_over`, `src/repositories/execution.repository.ts:398`: The total and the successes are counted by queries that no transaction holds together: executions that succeed in between are counted as successes only, and the rate exceeds 100. docs/USER_GUIDE.md:49 says 'Percentage of successful executions'.

**AnalyticsPage**

- `range_ignored`, `client/src/features/executions/components/ExecutionAnalytics.tsx:64`: loadAnalytics runs when the range changes and does not send it; the server would not read it either: whatever range is chosen, all executions are counted. client/cypress/e2e/executions.cy.ts:232 says 'should filter analytics by date range'.
- `no_trends`, `client/src/features/executions/components/ExecutionAnalytics.tsx:107`: The server answers executionsByDay and neither executionTrends nor performanceMetrics: the charts never have anything to draw. client/cypress/e2e/executions.cy.ts:224 says 'should display execution charts'.
- `rate_hundredfold`, `client/src/features/executions/components/ExecutionAnalytics.tsx:227`: The server's successRate is a percentage (src/repositories/execution.repository.ts:398) and the page multiplies it by 100: every success is shown as 10000%. docs/USER_GUIDE.md:49 says 'Percentage of successful executions'.
- `page_falls`, `client/src/features/executions/components/ExecutionAnalytics.tsx:422`: The page takes topFailingWorkflows to be there; the server does not send it, the render throws and the error boundary replaces the whole application. client/cypress/e2e/executions.cy.ts:214 says 'should display execution statistics'.

**WorkflowDefinition**

- `unsavable`, `src/services/workflow.service.ts:25`: Creating and updating parse the definition with the schema only; no nodes, duplicate names and connections to nowhere, which validateWorkflowDefinition refuses, are saved. .kiro/specs/workflow-automation-platform/requirements.md:29 says 'WHEN a user saves a workflow THEN the system SHALL validate the workflow configuration and store it in the database'.
- `sample_refused`, `src/schemas/workflow.schema.ts:25`: connections is a record of records; the documented definitions have an array (and nodes without a position): each of them is refused. docs/SAMPLE_WORKFLOWS.md:3 says 'This document provides examples of workflows that can be created and executed'.
- `seed_uncopied`, `prisma/seed.ts:61`: The seed writes definitions past the schema; duplicateWorkflow parses them and is refused. src/routes/workflow.routes.ts:309 says 'Workflow duplicated successfully'.

**ErrorPath**

- `message_hidden`, `client/src/services/api.ts:144`: request() throws a plain object; every page tests `instanceof Error` and so shows its own text, for a refused definition as for a broken server. .kiro/specs/workflow-automation-platform/requirements.md:85 says 'WHEN forms have validation errors THEN the system SHALL display clear, actionable error messages'.
- `absent_retried`, `src/services/executionQueue.service.ts:324`: transformError makes WORKFLOW_NOT_FOUND of n8n's 404, a code the list leaves out: it is tried again until the retries are used up. line 318 says 'Don't retry validation errors or client errors'.
- `never_retried`, `client/src/services/apiErrorHandler.ts:198`: handle() is given what handle() has already made of the error, finds neither response, name nor message, and answers UNKNOWN_ERROR, which is not retryable. line 200 says 'Don't retry if it's not a retryable error or we've exhausted retries'.

## 9. Not modelled

- `shutdown` of the queue and of the workflow execution service: no route, signal handler or
  other part of the program calls it.
- `WorkflowExecutionService.bulkExecuteWorkflows`, `scheduleWorkflowExecution`,
  `ExecutionRepository.bulkUpdateStatus`, `N8nService.retryWithBackoff` and the management of
  workflows inside n8n: reached by nothing that runs.
- Monitoring, health, logging, rate limits: counters without an effect on the rest.
- The stream of log lines, the viewer that shows it, the room of a workflow: they are joined and
  sent as the modelled rooms and events are, and nothing depends on them.
- In the client the executions and workflows slices of the store, which no page reads (but
  `realTimeUpdates`, which `ClientSocket` has), `utils/errorHandler.ts`, toasts, layout, the
  dashboard's cards. `withRetry` is used by no service; it is in `ErrorPath` because its documents
  say what it would do. What else is modelled and reached by nothing is listed in section 1.
- `join:execution`, `leave:execution` and the client's other room messages, which the server does
  not hear (section 8).
- Data: definitions' contents beyond `WorkflowDefinition`, inputs, results, texts, durations.
- Configuration, generated and vendored files; PostgreSQL, Prisma, socket.io, React, Express and
  n8n are external and modelled by what the code relies on: single statements are atomic, foreign
  keys and unique indexes hold, events to one socket keep their order, effects run after a commit
  when a dependency changed, `req.query` of Express 5 cannot be assigned.

# A formal model of LangGraph Glove

LangGraph Glove is a TypeScript monorepo: a gateway process that runs LangGraph
agents for several channels, a set of tool servers (one process each) it talks
to over HTTP or Unix sockets, a web interface, and a macOS app that serves
tools too. Nearly every part is single-threaded (Node, the browser's event
loop, Swift's actors); what makes it hard is not parallel memory access but
*interleaving at awaits*: a handler runs to its next `await`, and then anything
else may run before it goes on with what it captured.

This directory holds TLA+ modules translated from the source, TLC
configurations that check them on small instances, and proofs, checked by
TLAPS, of the properties that matter most for every value of the constants.

| module | models | run | proved |
| --- | --- | --- | --- |
| `Scheduler` | `tool-schedule`: tasks, jobs, sweep, executions | `views`, `schedule_*` | types, job table, owners, the sweep's safety |
| `ScheduledRuns` | what an execution asks of the gateway | `views` | all |
| `UnixSocketRpc`, `RpcCalls` | tool calls over Unix sockets, and what a call promises | `transport`, `rpc_torn` | all safety, refinement |
| `ContentUpload` | uploads into the gateway's content store | `transport` | all safety |
| `MacServer`, `MacBridge` | the macOS app's tool server, its bridge to an MCP server | `transport` | all |
| `ImapCrawl` | `tool-imap`: crawls, checkpoints, index rows | `stores`, `imap_clear` | all safety |
| `MailAttachments` | `tool-imap`: the attachment queue | `tools` | all safety |
| `MailSearch` | `tool-imap`: searches, pages, sources of mails | `stores` | all |
| `Chunking` | how memories and mails are cut into chunks | `stores` | all |
| `PersonalMemories` | what tokens seal and open; search of memories | `stores` | tokens |
| `Grants` | privilege grants, from activation to the tool | `stores` | all |
| `GatewayLife` | start and stop of the gateway | `stores` | all safety |
| `Accounts` | users, sessions, passkeys, challenges | `gateway` | all |
| `StreamText` | the text of a stream | `gateway`, `stream_delta` | all |
| `AgentGraph` | both graphs and the histories they send to a model | `gateway` | all |
| `Titles` | conversation titles and checkpoints | `gateway` | all |
| `Conversations` | turns, stops, the web channel's queues | `gateway` | all safety |
| `ToolRouting` | discovery of tools and calls of them | `gateway` | all |
| `Channels` | BlueBubbles, Telegram, the command line | `gateway` | all |
| `ToolProcesses` | `tool-manager`: the processes of a tool | `tools` | all |
| `Memories` | `tool-memory`: files, rows, chunks | `tools` | all |
| `BrowseSessions` | `tool-browse-session`: sessions of a browser | `tools` | all |
| `Containers` | `tool-docker`: containers, timers | `tools` | all safety |
| `ConfigEditing` | editing of configuration files | `tools` | all but the search for the cursor's agent |
| `Secrets` | files of secrets and their panel | `tools` | all |
| `ConfigLoading` | what the gateway makes of its configuration | `tools` | - |
| `WebChat`, `SignIn` | chat, signing in, privileged access in the browser | `web` | all safety |
| `ImapPanel`, `AttachmentViews` | panel and attachment drawer of a mailbox | `views` | all |
| `ContentViews` | content drawer, content of a conversation | `views` | all |
| `MemoryPanel` | panel of the memories | `views` | all |

`MCViews`, `MCTransport`, `MCStores`, `MCGateway`, `MCTools` and `MCWeb`
instantiate them for TLC; each `.cfg` is one run; `SchedulerProofs`,
`UnixSocketRpcProofs`, `ImapCrawlProofs`, `GatewayProofs`,
`ConversationsProofs` and `ToolsProofs` hold the theorems.

## How the modules are written

An action is the code between two awaits. A caller or an execution that waits
keeps in its record exactly what its closure captured (so that staleness is
visible), and the action of its continuation uses that record, never the live
state, wherever the code does. Faults the environment may inject (a rejected
`writeFile`, a failing fetch, a crash) are either actions that may always
happen, or the members of a constant `Faults`, so that a run chooses which of
them its question needs. Variables marked "history" record what no code
remembers, so that a property can speak of it; no guard of code reads them.

Operators named as variants "for mutation" above a definition are plausible
bugs of that definition. No specification uses them; they exist to show that
the properties can fail: with the variant in the definition's place, TLC finds
a counterexample to the property it is listed with in `PROJECT.json`.

**Model checking.** The components that an MC module extends share no variable.
Composing them would multiply their state spaces and show nothing new; so each
behaviour is one of the component that `focus` names, and the others stay as
they began: a run explores the sum of its components' state spaces. Fairness
conditions are guarded by `focus`, so that they constrain the behaviours of
their own component and no other. Where components interact (the gateway stops
crawls, a turn passes a grant to a tool), one module models the interaction,
with the other side reduced to what crosses the boundary.

A property that is a conjunction names its parts, which are defined and
commented one by one: `TurnsCorrect`, for instance, is `StopsAreForTheLiving`,
`QueuesDrain` and `TurnShowsItsOwn`. A `...Promise` of the form `[][P']_vars /\
L` states the invariant `P` after every step together with the action or
liveness property `L`.

## Inventory of the system

| component | state it keeps | operations | what is hard | correct when |
| --- | --- | --- | --- | --- |
| Scheduler (`tool-schedule`) | task list, cron jobs, paused flag, sweep flags, `schedule.json` | add, update, remove, pause, resume, run now, cron jobs, minute sweep, start | closures and snapshots used after a save; failing saves; a crash while a task runs | jobs are those of the present enabled tasks; a once-off task runs once and is never left running |
| Scheduled runs (`Gateway.invokeConfiguredGraph`, internal routes) | runs under way | invoke, announce, show, deliver | answers lost or late, a gateway that goes away | observers see each call under its name; the channel hears the answer or the failure |
| Tool RPC, Unix sockets (`UnixSocketRpcClient`, `UnixSocketToolServer`) | socket, pending calls, read buffer; connections | connect, call, disconnect, socket events, dispatch | events of old sockets, lines cut by the stream, a server that dies | a call settles once, with its own answer, and always |
| Tool RPC, HTTP (`HttpRpcClient`, `HttpToolServer`) | none between calls | one fetch, one handler | - | as `ToolRouting` uses it |
| Content uploads (`core/src/content`, upload clients of the tools) | content rows, sessions, chunks; token secret | init, chunk, finalize, abort, delete, purge | calls that time out and are handled late; restart; expiry | what is reported uploaded is whole; what failed is gone |
| IMAP crawl (`ImapIndexService`) | index rows, chunks, checkpoints, flags, failure limiter | crawl, start, stop, clear, reindex, poll | overlapping crawls with shared flags; checkpoints read before and written after awaits | every mail is indexed in the end, none is skipped |
| IMAP attachments (same file) | in-memory queue, tasks, rows | enqueue, drain, process | drain against mails being embedded, clears, crashes | chunks hang together with rows; what is processing has a task |
| Searches of mails (same file) | none | search, list, fetch the source | rows and offsets of before an await | answers were there; pages show each once |
| Chunks (`chunkText`) | none | cut | boundaries of the loop | nothing is lost, nothing too large |
| Agent dispatch (`Agent.ts`) | active and stopped conversations, remembered tokens | dispatch, stream, stop | dispatches of a conversation share flags | a stop reaches the run it was meant for |
| Web channel (`WebChannel.ts`) | connections, queues by conversation | receive, stream | queues of concurrent runs mixed up | each run sends what belongs to it |
| Graphs (`graphs.ts`) | checkpoints, compression digests | nodes and edges of two graphs | calls without results after an interruption or a compression | every history sent to a model is well formed |
| Gateway lifecycle (`Gateway.ts`) | channels, services, titles in progress | start, stop, title generation | crawls stopped for a check and not resumed; runs that overlap on one thread | what is paused is resumed; a title is not replaced |
| Authentication (`AuthService.ts`) | users, sessions, passkeys, challenges, grants | setup, login, ceremonies, grants | challenges used across an await | a challenge is used once; a grant ends |
| Tool discovery and calls (`Gateway`, `RemoteTool`, `ImapRouterTools`) | tools, registry, statuses | discover, probe, call | two lists of a server that restarts between them | an agent reaches only what it may, with the context it is due |
| Other channels (BlueBubbles, Telegram, CLI) | chats and conversations | receive, reply | replies after a conversation has changed; partial failures | a reply goes to its chat, whole and in order |
| Tool processes (`tool-manager`) | state of each process, PID file | start, stop, restart, quit | exit events of old processes, waits that run out | at most one process of a tool, and known |
| Memories (`tool-memory`) | files, rows, chunks | create, append, update, delete, reindex | embeddings that settle in another order, crashes | what is found is what the file says |
| Personal memories (same file) | sealed files, rows | the same, with a token | a crash between file and row | a token opens what it sealed |
| Configuration editing (admin page, `tool-config`) | drafts, files, history | load, save, restore, write a prompt | answers for another file or a closed dialog | a draft called clean is what the file holds; no version is lost |
| Secrets (`SecretsRoutes`, `SecretStore`, panel) | files of secrets, loaded values | list, reveal, save, load | saves that overlap, a crash in a write | what was confirmed is kept and loaded |
| Loading of the configuration (`ConfigLoader`, `buildAgentGraph`) | none after the start | resolve, check, merge, build | references checked in one file and used in another | strings are resolved; a graph has its agents |
| Browser sessions (`tool-browse-session`) | browser, sessions, timers | open, use, expire, close | launches and failures across awaits | no session or browser leaks |
| Containers (`tool-docker`) | records, timers | create, use, expire, remove | failing commands, calls that overlap | a container that runs is managed |
| Web interface: chat (`useWebSocket`, `App`) | socket, entries, refs | connect, send, show | sockets of a former conversation, refs against state | nothing stays "being written"; the agent knows the page's token |
| Web interface: signing in (`useAuth`, `AuthGate`) | stored session, views, grant | status, login, ceremonies, activation | requests that overlap an ended session | the session shown is the one used; a mandatory passkey is not skipped |
| IMAP panel, attachment drawer (`tool-imap-ui`) | panel state, timers | refresh, stop, start, clear, page | handlers that overlap, answers out of order | no button stays disabled; an index is cleared behind a stop |
| Content browser (`ContentBrowser`, routes) | drawer, page address | select, preview, delete | answers for what is no longer selected | what is selected is shown and named by the address |
| Memory panel (`tool-memory-ui`) | list, form | list, search, save, delete | answers out of order | a memory is saved as its own form |
| macOS tool server (`AppState`, `RpcServer`) | servers, connections, counters | start, stop, restart | connections that outlive their server, starts that overlap | the app knows its servers |
| macOS MCP bridge (`PeekabooMcpBridge`) | process, requests | discover, call, stop, probe | an actor re-entered at every await | no caller waits for ever; no process is lost |
| Admin API, conversation metadata; logging and models; configuration package; tool-admin's updates and shell; MCP client tool; stateless tools; accessibility tools; other user interfaces | none of their own, or caches | one step per request | - | - |

Components interact by calls: an agent's tool call goes through `RemoteTool`
(`ToolRouting`) and an RPC client to a tool server (`UnixSocketRpc`); tools
call back into the gateway to upload content (`ContentUpload`) and, from the
scheduler, to invoke an agent (`Scheduler` sees a fetch that returns or fails,
`ScheduledRuns` what it does); the gateway stops and starts crawls around its
health checks (`GatewayLife` against the requests `ImapCrawl` serves); a turn
(`Conversations`) streams text (`StreamText`), runs a graph (`AgentGraph`) and
carries a grant (`Grants`); the web interface talks to the gateway's routes
(`SignIn` against `Accounts` and `Grants`; `WebChat` against the web channel;
`ContentViews` against the store). Only the stores, the index, the memories,
the configuration and `schedule.json` outlive their process.

## Scheduled tasks

### Scheduler (`Scheduler.tla`, `SchedulerProofs.tla`)

**State.** `tasks` is `this.tasks` by id, `cronJobs` the table of handles with
the definition each job's closure captured, `lost` the jobs that still run
though their handle was overwritten, `paused`, `swept`/`sweeping`/`due` the
minute sweep (`lastSweepMinute`, `minuteSweepRunning`, the `dueTasks`
snapshot), `call` the tool calls waiting for their save, `run` the executions,
`disk` what is in `schedule.json`. `drift`, `orphaned` and `done` are history.
Time is what the code compares: is a minute the current one, has a `runAt`
passed.

**Actions.** `AddTask`/`AddTaskSaved`, `UpdateTask`/`UpdateTaskSaved`,
`RemoveTask`/`RemoveSaved`, `RemoveAllTasks`, `CallSaveFails`: a tool call
before and after `await this.save()`. `Pause`, `Resume`. `FireJob` (a cron
job), `RunTaskNow`, `SweepFires`/`SweepNext`/`SweepEnds` (the minute sweep
awaits one execution after the other), `Progress` (an execution from await to
await: mark running, starter message, invocation, mark completed, delivery of
the reply, or the catch block). `Start` and `Crash`, `Tick`.

**Properties.** `JobTableExact`: held jobs run exactly while not paused
(`HandlesFollowPause`), an enabled cron task has the job of its present
definition, and no other task has one (`WantedAreArmed`). `RunningIsOwned`: a once-off task shown as running has an execution that
will still settle it, or its execution died (in a crash, or with a failing save
or starter message before the try block). `SweepPromise`: a once-off task
succeeds at most once, is started at most once a minute by the sweep, and is
started once due.

`JobTableExact` leaves out the ids in `drift`. Those are the cases in which the
code does leave a wrong job behind, found while writing the module: a call
whose save failed after the list was changed (line 368); a call whose task was
removed or replaced while it was saving; and two `updateTask` calls of one task
whose saves settle in the other order, where the job armed last is the older
one's, an enabled job for a task that is now disabled included (line 376;
line 131 says of `enabled`: "When `false` the task is skipped by the cron
runner"). An id enters `drift` only by such a continuation (`DriftAfter`,
`CallSaveFails`) and leaves it with the next update, removal or resume that
makes its job right again; every other id is held to the property.

The delivery of a reply is inside the try block (line 538): when it fails, a
completed once-off task becomes "failed" and runs again, and the channel may be
sent both the answer and an error. `OnceOffRunsOnce` is therefore only checked
and proved where replies are delivered; the other theorems hold with failing
replies too.

**Proved**, for any sets of ids, definitions, callers and executions, from
`SchedulerAssumption` alone (the constants are sorted as their comments say):

- `TypeCorrect`. The types are not shallow here: `Task` says that a cron task
  carries no `runAt` and no once-off state, so every update, mark and reload
  must normalise.
- `JobTableCorrect`, by the inductive `JobInv` (`JobInvCorrect`).
  `JobTableExact` alone is not inductive: while a call waits for its save both
  directions of the equivalence may fail for its id, and only one of them for an
  `addTask`. `JobInv` therefore states them apart (`ArmedOnlyIfWanted`, which
  also holds while an `addTask` waits, and `WantedIsArmed`), adds that nothing
  mentions an id not yet given out (`IdsGivenOut`, so that a fresh id has no
  job), and that a process that is down is not paused (so that `Start` arms
  what it loads).
- `RunningCorrect`, by what each execution still owes: the one that marked a
  task running is in a state from which it marks it again, or is in `orphaned`.
- `RetriedOnce`, with any faults, as long as nobody runs tasks by hand: the
  sweep starts a once-off task at most once a minute. `TakenOnce` says that no
  task left in the sweep's snapshot has run in this minute, and none is in it
  twice.
- `OnceOffIsOnce`, where in addition saves and replies do not fail and the
  process goes on: a once-off task succeeds at most once. `OnceInv` says that a
  task that succeeded is neither in the snapshot nor being tried.

Both name these restrictions in their statements; both invariants were
model-checked first.

### Scheduled runs (`ScheduledRuns.tla`)

What an execution asks of the gateway over HTTP, with answers that are lost or
come after the caller gave up, and a gateway that goes and comes back.
`execution` is where each caller stands, `runOf` the run at the gateway,
`shownOf` what observers were sent of it, `chatOf` what reached the source
channel. `ScheduledRunsCorrect`: however the tools of a run
overlap, observers see the result of each call once, after the call and under
its name (`ResultsOfCalls`), the graph once and before all else (`GraphFirst`),
and a tool that ended is forgotten; into the channel come, in order and at most
once each, starter, reply and failure, a reply only of a run that ended well
(`ChatInOrder`).

**Proved** (`ScheduledRunsAreCorrect`, in `SchedulerProofs`), for any
executions and tool calls.

Not stated, but visible in the model: Node's own time limit of a fetch makes a
long run count as failed while it goes on; a run whose caller gave up goes on;
`sendChannelMessage` answers 204 though the channel refused the message.

## Tool calls and uploads

### Tool RPC (`UnixSocketRpc.tla`, `RpcCalls.tla`, `UnixSocketRpcProofs.tla`)

**State.** `link` each connection as the client's socket object sees it,
`socket` the current one, `call`/`on`/`pending` the promises and the map of
pending calls, `toServer`/`work`/`toClient` lines on their way (`work` are the
server's data callbacks, which run concurrently with each other and handle the
lines of one chunk in turn), `part` and `buffer` the line cut by the stream and
`readBuffer`. `runs` counts how often a handler was started.

**Actions.** `CallOnSocket`, `CallConnects`, `WriteFails`, `ConnectSettles`
(`Connected` or `ConnectFails`), `Close`, `ReceivePart`, `Receive`,
`Disconnect` on the client; `ServerReads`, `HandlerReturns`, `ServerDies`,
`ServerStarts` on the server. `Connected` goes on with whatever `this.socket`
is after the await (line 116), not with the connection that was made.

**Properties.** `ImplementsCalls`: the channel implements `RpcCalls` under the
mapping `Promise`: a handler is started at most once for a call, a promise
settles once, and it resolves only after its own handler ran. `RpcCalls` also
shows what is *not* promised: a call may fail and its handler still run.
`RpcInv`: no call is stranded but one whose response did not parse or whose
connect was cut short by a disconnect; and what stays in `pending` is a call
that waits or has failed. `ChannelPromise`: a call fails only with the
connection it was written to or waits for, unless `disconnect` has been called,
and every call settles.
Fairness: sockets deliver or report an error, and handlers return; the client
has no timeout, so a handler that never returns would be waited for.

Seen after a disconnect: the close event of the old socket may come while a
call awaits its connect (lines 83-86), and nulls `this.socket`. That call then
throws a TypeError inside its promise: it rejects, its id stays in `pending`
until the next close event, and its connection stays open with nobody holding
it. If yet another call has begun a third connection, the first is written to
that one. Close events also reject the calls of newer connections.

**Proved**, for any number of calls and connections and any faults:
`RpcInvCorrect`; `ChannelImplementsCalls`, from it, action by action (initial
states map to initial states, every step to a step of `RpcCalls` or a
stutter); `FailsAlone`, the safety part of `ChannelPromise`. `RpcInv` follows
each line over its wire: `WiresInv` says that it is unread once, stands behind
its handler or follows it, and `ConnectionsInv` which connections may still
have a line.

### Content uploads (`ContentUpload.tla`, in `GatewayProofs.tla`)

**State.** `content` the store's rows (an item with its session and chunks, which
go together by cascade), `deleted`, `signed` (uploads whose token the running
gateway's secret has signed), `clock` (what has expired), the uploader's `pc`
and `index`, `requests` still on a connection, and `answer`.

**Actions.** `Issue`, `InitUpload`, `AnsweredOk`, `CallFails` (error answer,
broken connection or timeout: the request may still be handled) for the tool;
`Handle` (the whole of `handleContentRpcRequest`, which has no await) for the
gateway; `DeleteContent`, `Cleanup`, `Expires`, `GatewayStops`,
`GatewayStarts`.

**Properties.** `UploadsCorrect`: what is reported uploaded is there whole
until it expires or is deleted (`UploadedIsWhole`), and what failed is gone
(`NothingLeaks`), but for uploads whose init or abort call did not return: the
init call is outside the uploader's try block, and after a restart the token no
longer validates, so those rows stay until they expire. `EverythingGoes`, with
clocks that run and a cleanup timer that fires: every row goes in the end. It is
of the shipped configuration (`deletedContentRetentionDays` is set): without it
no cleanup is started and abandoned uploads stay. Not claimed: the content of
an upload still pending can be downloaded, a prefix of the file.

**Proved**: `UploadsAreCorrect`, for any files of any sizes. `UploadsCorrect`
is made inductive by `RequestsFollow`, which says which requests may still be
on a connection at each step of the uploader.

### The macOS app (`MacServer.tla`, `MacBridge.tla`, in `UnixSocketRpcProofs.tla`)

`MacServer`: starts, stops and restarts that are clicked while earlier ones are
still tasks of the main actor, servers over both transports, connections that
outlive their server, and the count of them. `ServersPromise`: the app calls
itself running exactly when it holds a server; a server that listens is held,
or was lost to an overlapping start (`overwritten`: a restart during a start
leaves one nobody can stop); a stopped server answers each connection at most
once more; no connection is counted twice.

`MacBridge`: an actor whose callers interleave wherever they await: it starts a
server, shakes hands, matches answers to requests, times them out, hears of the
end of a server in a task of its own, and probes a command. `BridgePromise`: no
caller waits for ever (`NobodyStranded`), an answer is taken only from the
server asked, a server that runs is held or was told to end but for one let go
when the end of *another* was heard (`orphaned`), what is called initialized
was greeted by its own handshake unless one ended after a replacement
(`mixed`), and no probe leaves a process behind.

**Proved**: both promises in full, for any clients, requests, clicks, callers,
commands and servers. `ServerInv` adds to the property that what is held
listens and that late answers are a connection's last; `BridgeInv` is
`RequestsInv` (each waiting caller has an open request or a continuation),
`ServersInv` and `ProbeInv`.

Seen and left as they are: a command changed while an old server runs goes on
with the old one (lines 560-567); a probe may be reported "exited early";
`runWithTimeout` waits for its operation; a stop ends neither a blocked
connection nor a late task; closed events that come late hide open connections.

## Mails, memories, grants, life of the gateway

### IMAP crawl (`ImapCrawl.tla`, `ImapCrawlProofs.tla`)

**State.** `arrived` the mails on the server (a folder only grows), `emails`
and `chunked` the rows and those with chunks, `cursor` the `last_uid`
checkpoints, `active`/`abort` the two flags all crawls share, `stopped` and
`failures` the failure limiter, `crawl` the crawls with the local variables of
`crawl()` (`next`, `newest`, `count`, ...), `reindexing` the emails
`imap_reindex` is embedding. History: `excused` (mails passed over as older
than `since`, and mails a crawl in progress had passed when the index was
cleared) and `missed` (rows whose embedding failed or died).

`startup` is where `start()` stands: its own crawl is due, under way or over,
or the poll timer is set.

**Actions.** `StartUp`: `start()` begins its crawl and awaits it; only when that
crawl ends, or fails with a recoverable error, does `Timer` set the poll timer
(`NotRecoverable` is the other way). A crawl from await to await: `Begin`
(through `StartUp`, `Poll`, `StartCrawl` or `Requested`), `Connected`,
`Opened`, `StatusReturns`, `SkipOld`, `Upsert`,
`Embedded`, `FetchEnds`, `LoggedOut`, and the ways each fails. `StopCrawl`,
`ClearIndex`, `Reindex`/`ReindexSettles`, `InvalidSince`, `ClientError`,
`WindowPasses`, `Restart`, `MailArrives`.

**Properties.** `NothingSkipped`: no checkpoint passes a mail that has no row
and was not excused. `CrawlCorrect`: the inductive `IndexInv`, and
`BareIsOwned`: a row without chunks is being embedded, or its embedding failed.
`EverythingIndexed`, of `continuous-sync`, with awaits of a crawl that settle
(the IMAP client is given a socket timeout), a process that calls `start()` and
a timer that fires once it is set: a mail that arrives is indexed in the end,
unless it was left out, its embedding failed, or the service has given up
(`GivenUp`). That is the case in two ways, and only a restart ends them: the
limiter stopped crawling for good (line 2885 clears the poll timer), or the
startup crawl failed with an error that is not a recoverable one of the
connection. `start()` rethrows it (line 343) and never comes to the timer of
lines 349-366; `main.ts:39-43` only logs it.

Disagreements with the tools' descriptions that show in the state space without
a run of their own: a crawl begun after a stop resets the abort flag that the
stopped one has not yet seen (line 563), so that one goes on, although
`imap_stop_crawl` stops "the currently running IMAP crawl"; and the `finally`
block of a stopped crawl marks the runtime of its successor inactive (line
747), so a third can begin next to it, although `imap_start_crawl` "has no
effect if a crawl is already running". `NothingSkipped` and `BareIsOwned` say
that neither damages the index. Not stated: a full crawl starts at uid 1 each
time and counts unchanged mails towards its batch, so it never gets beyond the
first `batchSize` mails of a folder; line 621 never compares UIDVALIDITY, so a
renumbered folder's checkpoint speaks of other mails.

**Proved**, for any folders, number of mails, crawls, batch size and limit,
from `CrawlAssumption`: `CheckpointCorrect` and `CrawlIsCorrect`. A crawl reads
the checkpoint at the start of a folder and writes it at the end, so
`NothingSkipped` is no invariant by itself: `IndexInv` says of every crawl
inside a folder that what lies at or below its `newest` is covered and that its
`next` leaves no gap above it (`ReadsInOrder`). A clear empties `emails` under
such a crawl: this is where the mails it had passed become `excused`, which is
the finding `imap_clear`, kept out of the theorem by name.

### Attachments of mails (`MailAttachments.tla`, in `ImapCrawlProofs.tla`)

`queue` (in memory), `slot` the tasks under way, `embedding` the mails being
embedded, and the rows: `mails`, `status`, `indexed`, `markdown`. Crawls appear
as `Ingest`/`MailEmbedded`/`MailFails`; `TaskProceeds` is a task from await to
await; `ClearMails` clears the index but not the queue or the tasks;
`AttachmentCrash` takes queue and tasks and keeps the rows (`lost`, history:
their attachments stay "processing").

`AttachmentsCorrect`: chunks and Markdown belong to an attachment with a row
and that to a mail with one, what is called indexed has its chunks
(`AttachmentsHang`), what is called processing has a task unless a crash took
it (`ProcessingIsOwned`). `MailsFirst`: no task begins while a mail is being
embedded. `QueueIsServed`: an attachment does not stay at the head of the queue
for ever (tasks settle, mails end embedding). **Proved**:
`AttachmentsAreCorrect`, both safety parts, for any attachments and any number
of tasks; with the full types the property is inductive by itself.

### Searches of mails (`MailSearch.tla`), chunks (`Chunking.tla`)

`MailSearch`: a search reads rows, awaits the embedding of the query and ranks
what is left; attachments are listed page by page; the source of a mail is
fetched from a server where mails move meanwhile. `SearchCorrect`: an answer
was in the index when it was read, nothing that ranks better is left out, pages
of an unchanged index show each attachment once, and a source is that of the
mail asked for unless the folder was renumbered. **Proved**
(`SearchIsCorrect`), for any mailbox, scores, page size and moves. Not modelled as a property:
with a `chunkSource` a search for everything returns nothing
(`ImapIndexService.ts` ~1065 against `ImapTools.ts:134-138`), thread and mail
ids are compared without being normalised.

`Chunking` is the loop of `chunkText`. `ChunksCorrect`: every word is in a
chunk, no chunk is larger or overlaps further than the settings say, and with
an overlap of at most half a chunk each ends beyond the one before. **Proved**
(`ChunksAreCorrect`) for any text, size and overlap, from what the helper that
looks for a break returns (lemmas about the last break below a position, which
exists by the well-foundedness of `<` on the naturals).

### Personal memories (`PersonalMemories.tla`)

What a token seals and opens, and how a search groups chunks. `TokenOpens`: the
token a memory was last written with opens what was last said, and no other
does, but for memories whose row a crash left behind their file (`halfway`:
sealed text is then read as plain). `BestAreShown`: a search shows the best
excerpts of each memory. **Proved**: `TokenOpens` (`PersonalMemoriesOpen`), for
any memories and tokens; `BestAreShown` is a definition over its input and
TLC's alone. Seen and left: the chunks of a personal memory are
kept unsealed in the index; `memory_reindex` fails as a whole if one memory has
another token, and its "full catalog" is at most 200; `listMemories` filters
tags after `LIMIT`.

### Grants (`Grants.tla`, in `ConversationsProofs.tla`)

A grant from activation to the tool that validates it: `grantRows` (the table),
`context` (what the agent remembers of a conversation), `toolCall` (the grant a
turn passes on). `GrantsPromise`: a conversation has one live grant at most, a
tool acts only on one that is live and its conversation's own, and a grant that
died is not passed on again until a client sends it. **Proved**
(`GrantsAreCorrect`, an invariant and two action properties), with the
invariant that the newest grant of a conversation is the only one that may be
live.

### Life of the gateway (`GatewayLife.tla`, in `ConversationsProofs.tla`)

`Start` pauses the crawls tool by tool under a timeout, probes the models,
resumes, and opens its parts; a signal closes them under a timer that forces
the exit. Each tool serves its requests in order, at any time. `LifeCorrect`: a
start that gets past its probes, or fails later, has resumed every crawl it
stopped, unless the call failed or came too late (`unheard`: a stop that is
served after its caller gave up is not in the list of crawls to resume).
`SignalEnds`: a gateway that was signalled ends (the timer fires). **Proved**:
`LifeIsCorrect`, for any list of tools: `AtTool`, `Awaited`, `OnTheWay` and
`Owing` say where in the list the start stands, that one request at most is
awaited, what is on the way to each tool, and which crawls are still owed. Seen
and left: a failed start closes nothing it has opened; the branch for a second
signal is never reached.

## The gateway

### Conversations (`Conversations.tla`, `ConversationsProofs.tla`)

Turns of a conversation (`dispatchMessage`) that nothing serializes: between
any two awaits of one, a step of another or a `!stop` may come. `turn` is what
each dispatch has in its locals, `active`/`stopped` the sets the agent keeps,
`items`/`refs`/`subRefs` the queues the web channel keeps by conversation.
Actions: `Dispatch`, `Proceed` (from await to await: mirror, stream or invoke,
fallback, reply, mirrors, `finally`), `ToolResult`, `Chunk`, `StopCommand`.

`TurnsCorrect`: a turn that had its conversation to itself has shown the client
its own results, all and nothing else (`TurnShowsItsOwn`); one that came to its
end leaves nothing in the queues (`QueuesDrain`); a stop request is only kept
while a turn runs (`StopsAreForTheLiving`). `StoppedIsSilent`: once a stop is
confirmed, a stream that has its conversation to itself yields no further text.
`EveryTurnEnds`, with awaits that settle (`ConversationsFair`: the models'
clients have time limits).

Of turns that overlap little is true, and the properties say so by `alone`: the
first of two to finish clears the flags of both (line 1529), so that a stop no
longer finds the other, or is forgotten; a turn takes what another has queued.
Seen and left: a `!stop` drains the queues; the fallback and a run without
streaming look at no stop; runs of graphs other than the default are not
registered with the agent, so no stop reaches them; a stop that falls between
the last chunk and its frame (lines 797-801).

**Proved**: `TurnsAreCorrect` (from `ConvInv`, which says for each point of a
turn what is queued, shown and still to be shown of it, as long as it is
alone) and `StoppedStaysSilent`, for any turns, conversations, channels and
observers.

### Streams (`StreamText.tla`, in `GatewayProofs.tla`)

How chunks of a provider, deltas or snapshots, become the text a channel
renders. In a turn a source may write several messages, one for each call of
its model (`ToolsRun`, `Transfer`, `StreamResumes`), while what its chunks are
compared with is kept for the whole turn (line 872). `StreamCorrect`: what is
compared with the next chunk is what was rendered; the snapshots of the *first*
message of a source are rendered exactly, early, late or repeated; the deltas
of *all* its messages are, unless what it has written repeats itself.

Two exceptions, then. A delta that begins with the end of the text so far is
trimmed (line 456): the finding `stream_delta`. And the snapshots of a second
message neither extend the text of the first nor are a part of it, so each is
appended whole (lines 442-480, 1043-1048): a provider of snapshots is shown
stammering from its second message on. **Proved** (`StreamIsCorrect`), for all
texts of any length, any number of model calls and any length from which an
overlap is trimmed, from lemmas about prefixes and the longest overlap of two
sequences.

### Titles (`Titles.tla`, in `ConversationsProofs.tla`)

The title graph runs on the thread and checkpointer of the conversation while
the next turn may be under way. `TitlesPromise`: a title is never replaced, and
what a run wrote that no other overlapped stays in the conversation. **Proved**
(`TitlesAreCorrect`). What overlapping runs wrote may be lost: the newest
checkpoint is that of the last node to end.

### Graphs (`AgentGraph.tla`)

The nodes of the single agent and of the orchestrator, with the repair of
message histories and the compression digest. `PromptCorrect`: every call of a prompt is answered
right after it and nothing else is (`PromptIsWellFormed`), a result is shown as
that of its own call (`ResultsKeepTheirCalls`), each message is shown or is in
the digest that is shown (`NothingIsForgotten`), and an agent does not go on
after three failing rounds in a row that ended within the window in which
failures are searched for (`FailuresStop`). The window (`Window`) is the last
ten messages in the code (line 616). It is five in the small instance, whose
histories have up to eight messages: so they do exceed it, and an agent is also
seen going on, as in the code, when the calls of its rounds, or a digest,
have pushed the earlier failures out of the window.

**Proved** (`PromptsAreCorrect`), for histories of any length, any window and
any number of preserved messages. `GraphInv` says that a history is `Good` (its
results are linked to their calls, its messages known by their places, its
newest digest covers exactly what it no longer shows) and that no three of the
failures in a row lie in one window; the repair and the digest are recursive
functions over the prefixes of a history, about which lemmas are proved by
induction on the length, one step at a time. Seen and left: failures of earlier
turns count, the orchestrator's own tools have no such stop.

### Tools: discovery, routing, calls (`ToolRouting.tla`, in `GatewayProofs.tla`)

Every server is asked for two lists, in any order and with restarts between the
two; the mailbox servers get one router; probes; and an agent's call with what
the turn adds to its arguments. `RoutingCorrect`: statuses are those of the
tools given to agents; a privileged call runs in the turn's conversation under
its grant; an upload token is for the server called; a definition shown is that
server's, unless one dropped a name between its lists (the catalog shows the
first list's definitions; TLC confirms that the exception is needed); an agent
reaches only what it is allowed. **Proved** (`RoutingIsCorrect`) for any
servers, mailboxes, tools and agents.

Seen and left: of equal names the first is called, with the flags of the last;
a server that is down at the start is never discovered; allowing one mailbox's
key allows all; a routed tool may be missing at its instance; uploads of routed
tools are addressed by the first instance's transport.

### Accounts (`Accounts.tla`, in `GatewayProofs.tla`)

Setup, login, sessions and the WebAuthn ceremonies, next to the operator's
commands in a process of their own; what a ceremony read before its answer was
verified is used after. `AccountsCorrect`: nothing belongs to a user who is
gone, no challenge is used twice, setup happens once. **Proved**
(`AccountsAreCorrect`) for any number of users, passkeys and challenges. Seen
and left: two answers to one challenge that overlap may both be verified, and
a ceremony that completes deletes all challenges of its kind.

### Other channels (`Channels.tla`)

BlueBubbles gives a chat a new conversation after a time of silence and finds a
reply's chat by the conversation; Telegram cuts long replies; the command line
takes a line at a time. `ChannelsCorrect`: the two maps between chats and
conversations are inverse to each other but for what the eviction has yet to
take (`MapsInverse`); a reply reaches the chat of its message unless the chat's
conversation was silent for the whole time, and never another
(`RepliesReachChat`, `RepliesInTime`); a reply that did not fail brought its
text (`TextArrives`); the parts of a long reply are within the limit and
together the text (`PartsAreWhole`); the command line has one turn at a time.
**Proved** (`RepliesAreCorrect`, by `ChannelsInv`), for any chats, limits and
incoming messages; the parts are cut one step at a time (`NoText`,
`TelegramReply`, `CutPart`, `SendPart`), so the invariant speaks of the part
still to be cut. Seen and left: a reply after a silence goes to a chat named as
the conversation; a second attachment that is refused makes the text come
again; Telegram holds `!stop` back until the turn is over, and the command line
drops it.

## Tool servers and configuration

### Processes of a tool (`ToolProcesses.tla`, in `ToolsProofs.tla`)

The manager starts, stops and restarts a tool on keys that overlap, the command
`stop` works from the PID file, the administration tool stops and launches the
tool behind the manager's back. A process is named by the order of launches;
it ends whenever it likes, and one that was killed may outlive every wait.
`ProcessesCorrect`: the one process of the manager that runs is the one it
shows (`RunningIsShown`), and nothing of its own runs on after it has closed
(`NothingRunsOn`), except where a wait ran out with a process still being
stopped (`overtaken`, line 412) or a restart was under way while the manager was
closing (`crossed`). **Proved** (`ProcessesAreCorrect`), with `KeysFollow` as
what the keys rely on. Seen and left: the PID file has two writers.

### Memories (`Memories.tla`, in `ToolsProofs.tla`)

File and row of a memory are written together, its chunks once embedded, which
is awaited; nothing orders the calls. `MemoriesCorrect`: what is found is what
the file says unless two calls on it overlapped or the last failed (`stale`,
history: of two updates the one whose embedding settles last decides the
chunks, line 809), a deleted memory is not found, and no row is ahead of its
file. **Proved** (`MemoriesAreCorrect`).

### Browser sessions (`BrowseSessions.tla`, in `ToolsProofs.tla`)

Sessions of one browser that is launched when it is needed, with a timer that
every use sets anew. `SessionsCorrect`: every session has one timer, that of
its last use, and no timer outlives its session; the latest session is one of
the sessions; a browser that runs will be closed unless two launches overlapped
(`doubled`), an open context belongs to a session or a call unless its page
failed to load (`stranded`). **Proved** (`SessionsAreCorrect`).

### Containers (`Containers.tla`, in `ToolsProofs.tla`)

Records, timers and containers under calls that overlap and docker commands
that fail. `DockerCorrect`: a container that runs has a record, a call or a
removal about it unless a command failed for it (`forsaken`); timers are those
of the records that expire; uploads for a command stay within the cap.
`ExpiredIsGone`: what is to expire goes in the end (timers fire, commands
settle). **Proved** (`ContainersAreKnown`), all but the last; the invariant
adds what each call may be about (`CallsFollow`), and that a record protects
nothing once the server stops (`ManagedNow`: a create that ends during the
shutdown is not removed). Seen and left: a compose call may take another's
container for its own (`mistaken`).

### Configuration editing (`ConfigEditing.tla`)

A page of the admin interface loads a file into a draft and saves it, next to
other pages and the agent's own writes; the tool copies what the file holds
into the history before it writes. A dialog opens on the agent at the cursor
and has a prompt written for it. `ConfigPromise`: a file holds contents of its
own unless a page changed file while a save or a history was under way
(`FilesAreNotMixed`); what a page calls unchanged is what it saved or loaded
last unless it was edited while a save was under way (`CleanIsSaved`); a prompt
goes to the agent it was asked for, in the file it was asked in, unless the
dialog was closed while it was being written (`PromptsArrive`); a content that
is overwritten is in the history unless two writes of the file overlapped
(`WritesAreKept`). `CursorFindsAgents` compares the search for the agent at the
cursor with the entry the cursor is in, for all files of three short entries.
**Proved** (`ConfigIsCorrect`, in `ToolsProofs`): all but the last, which is a
definition over its input.

Seen and left, each behind one of the exceptions: overlapping writes lose a
version (`ConfigStore.ts:28-30`); an answer late for a closed dialog arrives in
the next one; an answer of a save or a list empties the open dialog; issues of
a check may be of an earlier draft; the search for the cursor's agent fails
when two consecutive entries lie on one line, and is misled by nested keys
named like an agent and by unbalanced braces in a prompt.

### Secrets (`Secrets.tla`)

A save reads the file, adds the secret and writes the file, with an await
before each; the process may end in the middle of a write. `SecretsPromise`: a
file that no two saves worked on together and no crash tore holds every secret
that was confirmed and nothing else; a start loads them, and refuses only when
a name is in two files or a file is torn; the panel shows under a name only
values saved for it. **Proved** (`SecretsAreCorrect`, in `ToolsProofs`). Seen and
left: saving an existing name into another file
makes the next start fail; a save closes whichever dialog is open.

### Loading (`ConfigLoading.tla`)

`LoadingCorrect`: a reference is replaced wherever it is not escaped and
nothing else changes (`StringsResolved`, all strings of up to six tokens);
building a graph of a loaded configuration never misses a subgraph
(`SubgraphsAreThere`); an agent has the prompt closest to it (`ClosestPrompt`).
References of a graph to agents, compression blocks and tools are *not* checked
at load: building may fail with them. A definition over its input, so it is
TLC's alone.

## The web interface

### Chat (`WebChat.tla`), signing in (`SignIn.tla`)

`WebChat` is `useWebSocket` against the web channel: sockets that open, drop,
are refused and replaced, the refs and the effects, the frames of turns. A
message begins a turn at once, also while another turn of the conversation is
under way: the channel dispatches it (`WebChannel.ts:698-711`), and the page's
input is disabled only while an entry is being written. `ChatPromise`: what is
shown as being written is what the next chunk of its conversation goes to
(`StreamsAreTracked`); an entry is of one source and, while it is written and
unless the page turned away meanwhile, of turns that are still under way
(`EntriesAreNotMixed`: of one turn, where turns do not overlap); while the page
is connected the agent remembers the page's token unless it was cleared when no
frame could tell (`missed`); a socket stays open unheard only if its effect
ended before it opened (`useWebSocket.ts:135` closes only those that are open);
the page connects again (its timer fires, and an attempt may succeed).

Seen of turns that overlap: their chunks go to one entry of their source, in
the order they come; the end of one closes the entry of the other, and what the
other still writes begins a new one. Other pages are modelled without a token.

`SignIn` is `useAuth`, `AuthGate` and the privileged access of the page against
the gateway's routes, with answers in any order. `SignInPromise`: the session
shown is the stored one; who signed up without a password is not let in with
the session of that sign-up before a passkey is registered, as long as the page
is not loaded again; an ended session is noticed (the page polls, and requests
are answered); the grant shown becomes that of the conversation. Seen and left:
a refused privilege token (401) is taken for an ended session; a late 401
clears a newer session; a reload forgets that a passkey is mandatory; a sign-in
asked for before the sign-up and answered after it clears the passkey prompt;
the grant of an earlier conversation is shown until the next poll; `logout` is
called by nothing.

**Proved**, in `UnixSocketRpcProofs`, the safety parts of both: `ChatIsCorrect`,
for any conversations, tokens, sockets and turns, by `ChatInv` (`SocketsInv`,
`TokensInv`, `EntriesInv`), and `SignInIsCorrect`, for any number of requests,
by `SignInInv` (`PageOK`, `RequestsOK`: what a request that is under way may
still do to the page).

### Panels and drawers (`ImapPanel`, `AttachmentViews`, `ContentViews`, `MemoryPanel`)

Requests overlap, fail and are answered in any order; effects run in the step
that changes what they depend on.

- `ImapPanelCorrect`: a button is disabled only while its work is under way, a
  tool is not stopped, started or cleared twice at a time unless its field was
  taken over for another tool, an index that was shown as crawling is cleared
  only behind an acknowledged stop, and a status says something of every tool.
  `EstimatesCorrect`: an estimate answered from the tool's cache is within its
  lifetime, and none of before a change of the index is given unless its
  folders were being read then (an estimate in flight across a clear restores
  the old value).
- `AttachmentViewsCorrect`: the attachment selected is on the page shown, and
  when answers came in order the detail is that of the selection.
- `ContentViewsCorrect`: the item of the address is the one selected; object
  URLs are released; the dialog stays on what it deletes, and deletes once; a
  message is shown with the items of its turn, each once (`ItemsOfTurn`).
- `MemoryPanelCorrect`: a memory is saved as its own form, one whose deletion
  the panel was told of is not shown again but by an answer asked for before,
  and nothing spins for ever.

**Proved**, in `SchedulerProofs`: `ImapPanelIsCorrect`,
`AttachmentBrowserIsCorrect`, `DrawerIsCorrect`, `ViewsAreCorrect`,
`MemoryPanelIsCorrect` and `ItemsAreOfTheirTurn`, for any numbers of tools,
handlers, requests and items.

Seen and left: an older answer replaces a newer one; handlers go on after the
panel closed; a save answered late reselects its memory and drops edits; a
stale closure leaves a selected memory without a form (`MemoryAdmin.tsx` ~315);
a page of exactly the page size offers an empty next one.

## Runs

| run | components and bounds | checks |
| --- | --- | --- |
| `views` | job table: one id, two callers, two definitions (two calls race over one task, and a stale definition can be told from the present one); one execution with two tool calls; panels with two handlers or requests and two or three items; symmetry of callers and definitions | `JobTableExact`, `ViewsCorrect`, `ItemsOfTurn` |
| `schedule_once` | one id changed between cron and once-off, with jobs, sweep, run-now, failing saves, starters, invocations, crashes | `TypeOK`, `RunningIsOwned` |
| `schedule_sweep` | two once-off ids, so that one is due while the sweep awaits the other; one caller | `SweepPromise` |
| `schedule_pause` | the same without faults | violates `NothingFiresWhilePaused` |
| `transport` | three calls, made in the order of their numbers (they differ by nothing else), and three connections (one replaced while its close event is to come, and again while the second connects), every fault; a file of three chunks and an empty one; two clicks and two connections of the macOS server; two callers and two servers of the bridge | `RpcInv`, `ImplementsCalls`, `ChannelPromise`, `UploadsCorrect`, `EverythingGoes`, `ServersPromise`, `BridgePromise` |
| `rpc_torn` | three calls, three connections, lines cut, a server that dies | violates `AnsweredWhenReceived` |
| `stores` | one folder, three mails, two crawls that overlap (of the two alike the first idle one is taken), batches of two, two upsets in any mixture, the startup crawl failing among them; four mails searched; texts of up to five characters; two personal memories and tokens; two calls and three grants; two IMAP tools | `NothingSkipped`, `CrawlCorrect`, `SearchCorrect`, `ChunksCorrect`, `TokenOpens`, `BestAreShown`, `LifeCorrect`, `StoresGoOn`, `GrantsPromise` |
| `imap_clear` | one crawl, one clear | violates `ClearedIsReingested` |
| `gateway` | two users, two challenges; texts with and without repetition, two model calls that are over and up to six letters rendered before the last chunk; histories of up to eight messages with a window of five; three turns with titles; two turns of one conversation from two channels; three servers that offer two lists each; two chats, replies cut at three characters | `AccountsCorrect`, `StreamCorrect`, `PromptCorrect`, `RoutingCorrect`, `ChannelsCorrect`, `TurnsCorrect`, `TitlesPromise`, `StoppedIsSilent`, `EveryTurnEnds` |
| `stream_delta` | texts that repeat themselves, sent in deltas | violates `EitherStyle` |
| `tools` | two keys and three launches; two memories, calls, revisions; two attachments and tasks; two files, one page and the agent; two browse calls; two docker calls; two secrets and saves; all strings and files of `ConfigLoading`'s sets | `ProcessesCorrect`, `MemoriesCorrect`, `SessionsCorrect`, `AttachmentsCorrect`, `DockerCorrect`, `ConfigurationPromise`, `ToolsGoOn` |
| `web` | two conversations, one token, three sockets, four frames (turns and changes of the token are checked apart: neither is read where the other is written; with turns, the more sockets there were the fewer frames are left); two overlapping requests of signing in, three in all | `ChatPromise`, `SignInPromise` |

The bounds are chosen by the hazard: two of whatever races, one more where a
third has to come in between (a third key press while two waits run, a third
mail behind a batch of two). Every run but `schedule_once`, `schedule_sweep`,
`schedule_pause` and `imap_clear` may stop when its bounds are used up, so deadlock is not checked
there. `Secrets` counts reveals and saves in behaviours apart: `MaxSaves` binds
those without reveals. `SchedulerOnce.cfg` and `Views.cfg` leave out failing
replies; those are covered by the theorems.

**Fairness.** Each condition is one the code's scheduling justifies: an await
settles (sockets deliver or report an error, `fetch` and model clients have
time limits, `writeFile` settles), a timer that is set fires, and the poll of
`continuous-sync` goes on. Nothing is assumed of users, of tool calls or of
crashes. Strong fairness is used once: a request of the web interface that is
made again and again is served in the end.

## Findings

| run | the code | the text it contradicts |
| --- | --- | --- |
| `schedule_pause` | `ScheduleService.ts:473` goes on with its snapshot of due tasks | `PauseResumeTool.ts:8` "While paused, no scheduled tasks will fire automatically." |
| `rpc_torn` | `UnixSocketRpcClient.ts:67` keeps `readBuffer` across sockets: a response cut by the death of the server spoils the first one on the next connection, whose call waits for ever | `UnixSocketRpcClient.ts:27` "resolved when the matching response arrives" |
| `imap_clear` | `ImapIndexService.ts:706` writes a checkpoint from before the clear | `ImapTools.ts:637` "future crawls re-ingest from scratch" |
| `stream_delta` | `Agent.ts:456` trims a delta that repeats the end of the text | `Agent.ts:422` "accepts either style and always returns only the newly-added suffix" |

## What is proved, and what stays with TLC

Every theorem holds for every value of the constants that satisfies the
`ASSUME` of its module, and these only say of what sort the constants are (sets
of names, positive sizes, a function where the code has a table). Only
`RetriedOnce` and `OnceOffIsOnce` assume something of what happens, and say so
in their statements; no other theorem assumes anything of the order of events,
of failures or of what was called. The argument is the same throughout: an inductive invariant (the property itself
where its types make it inductive, else the strengthening named above),
implied by the initial states, preserved by each action (one step per action,
and under it one per conjunct that the action can disturb), and implying the
property; action properties follow from it step by step. Each invariant was
model-checked before it was proved, and every property that has a theorem is
also checked by a run or is part of one that is.

The 43 theorems are in six modules: `SchedulerProofs` (scheduler, runs, panels
and drawers), `UnixSocketRpcProofs` (RPC, macOS app, chat and signing in),
`ImapCrawlProofs` (crawls, attachments, searches, chunks, personal memories),
`GatewayProofs` (uploads, accounts, streams, routing), `ConversationsProofs`
(turns, grants, titles, life, channels, graphs) and `ToolsProofs` (processes,
memories, browser, containers, configuration, secrets).

Two kinds of properties stay with TLC:

- Liveness under fairness and `ENABLED`: `EverySettles`, `EverythingGoes`,
  `EverythingIndexed`, `SignalEnds`, `EveryTurnEnds`, `QueueIsServed`,
  `ExpiredIsGone`, `DueIsStarted`, `ChatReconnects`, `EndedIsNoticed`,
  `GrantSettles`.
- What a definition computes of its input, for every input of a bounded size:
  `BestAreShown`, `CursorFindsAgents`, `LoadingCorrect`.

## Not modelled

- Admin API and conversation metadata: routes over the stores of the other
  components; each request reads or writes one of them in one step. Routes that
  take part in a race are modelled with it (`SignIn`, `ContentViews`,
  `ScheduledRuns`, `Secrets`, `ImapPanel`).
- Logging and models: output and construction of clients; no state another
  component reads. Configuration package: validation of entries, caches.
- tool-admin's configuration updates and shell commands: one file or one command
  per call. The MCP client tool forwards calls through the vendor's library.
  Stateless tools and the accessibility tools of the macOS app: one request or
  computation per call.
- Other user interfaces (observability, topology): presentation of state the
  services keep. The second copy of the configuration panel
  (`tool-config-ui`) does what `ConfigEditing` and `Secrets` say of the first.
- The model providers, the IMAP server, Docker, the browser engine, the
  operating system and SQLite are environment: actions that answer or fail.
- Of `schedule.json` a write is one atomic step: overlapping or torn writes
  (`ScheduleService.ts:884`) are listed as a hazard without a property.

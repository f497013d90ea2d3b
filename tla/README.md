# A TLA+ verification of AWBotNest

AWBotNest is a Telegram bot platform: one Python process with one asyncio loop
that loads plugins, connects Telegram accounts, runs plugin callbacks under
quotas, schedules jobs, receives WeCom messages, and serves a web console and an
AI assistant. The program has no test suite; what goes wrong in it goes wrong
between two awaits. This directory models the parts in which that happens.

The modules are checked with TLC (`tlc -config X.cfg M`), the modules called
`*_proofs` with TLAPS (`tlapm M.tla`). Paths below are relative to
`src/awbotnest/` unless they begin with `docs/` or name a file of the root.

Contents: [inventory](#inventory), [the modules](#the-modules),
[runs](#what-the-runs-show), [bounds](#bounds), [fairness](#fairness),
[limits found](#limits-found), [proofs](#what-is-proved), [where code and documents disagree](#where-code-and-documents-disagree),
[limits of the models](#what-is-abstracted-and-what-is-not-modelled),
[what is left](#what-is-left).

## Inventory

How the parts interact: the HTTP API, the startup task and the recovery of an
account ask **PluginRuntime** to enable, disable, reload or reconfigure plugins.
For each plugin and account it makes a **PluginContext**, through which the plugin
registers Telegram handlers, web routes, WeCom handlers, jobs and background
tasks. Whatever later calls the plugin (a Telegram event, a job, a route, a WeCom
message, another plugin's capability call) goes through
`PluginContext.execute` to the **PluginGovernor**. What the plugin sends goes
through **TelegramDelivery**, what it remembers through **SessionManager** and
**PluginKV**. Closing the context has to stop all of that.

| Component | State it keeps | Operations | What is hard | What makes it correct |
|---|---|---|---|---|
| Plugin lifecycle: `plugins.py`, `plugin_config.py`, closing in `context.py` | loaded instances, enabled list, configurations, the settings file, a lifecycle lock per plugin | enable, disable, reload, restore, account refresh, stop, live configuration save | requests of several tasks; a failure or a cancellation at any await; tasks of the old instance that will not end; a save that has to be undone | one instance at a time, nothing left of an unloaded plugin, memory, file and running instance agree, requests end |
| Execution governor: `governance.py` | policy, semaphore, queue counts and circuits per plugin, background tasks | execute, call_capability, configure, release, status, create_task, cancel_all | a deadline against a granted permit; reloads while calls wait; nested calls | permits conserved, overload never counts as failure, nothing stale starts, executions end |
| Scheduler: `scheduler.py` | registrations with generations, executions, one deferred trigger per job | add, run_now, trigger, catch-up, remove_plugin, close and stop | APScheduler's callbacks and the platform's own tables move in different loop rounds | one execution per registration, accepted runs run, nothing stale starts, triggers are not lost, a stop ends |
| WeCom messages: `wecom_commands.py`, `routing.py` | SQLite table of received ids, queue of 16, one worker | admit, claim, enqueue, dispatch, close | retries by the provider; permissions that change during a thread; disconnects; restart and crash | at most once, nothing recorded is stranded, nothing starts after close |
| Telegram delivery: `delivery.py` | a lock with a line per chat, coalesced edits, last edited texts | send, edit, flush, FloodWait retry, close | locks that are dropped and made again; futures of workers that die | one request per chat, order, no repeats, nothing after close |
| Sessions and storage: `sessions.py`, `storage.py` | sessions with a lock and an expiry; a SQLite file per plugin | get, reset, cleanup, close; get, set, delete, items | expiry against plugins that hold the lock; cancellation of a running thread; two instances with one file | a session in use is never cleared; no thread without its lock |
| Settings: `api/settings.py`, `assistant_settings.py`, `config.py` | the Settings object, `config.json`, masks | forms, proposed edits, save | pip in the middle of a save; writes that fail; overlapping saves | an edit changes what its preview showed, what runs is what is saved |
| Packages: `deps.py` | one target directory, one lock | ensure | pip leaves old metadata and may die half-way | the version that is read is that of the files |
| Market: `market.py`, `api/operations.py` | file transactions in memory, backups on disk, proven sources | install, finish, upload, delete, migrate, automatic update | a crash or failure between the moves of files; a proof that runs beside them | old or new plugin with its source, never a mixture |
| CloakBrowser: `cloak_proxy.py`, `cloak_updates.py` | one seat, FIFO of tickets, cooldown, recovery thread, maintenance | acquire, release, recover, update component, update_license | real threads and tasks together; cancellation at the claim | one session, seats never leak, key and files are those of the session |
| Telegram accounts: `telegram.py`, `api/accounts.py` | clients, watchers, recovery tasks, login flows | start, recover, login, connect, disconnect, delete, stop | recovery against login and disconnect | every client has an owner, an account is looked after or off |
| System updates: `system_updates.py` | cache, notice records on disk | check, notify, close | a crash between the record and the message | one notice per version |
| Notices: `notifier.py`, `rich_delivery.py` | channels and routes | notify, private text, card and media | lost answers; a token awaited while rights change | one copy, to whom it was checked for |
| AI service: `services/ai*.py` | learned protocols, slots, counters | chat, vision, image, tool_turn | broken streams, protocol detection, fallback, shared budget | half an answer is never executed, a broken stream never replayed |
| Backup and process: `backup.py`, `main.py` | pending import, transaction marker, rollback copy; order of the start | stage, apply_pending, commit, rollback; serve, restart, stop | a crash at every step of a start | old or new configuration, no boot loop |
| Assistant, runs: `assistant.py`, `assistant_store.py`, `assistant_context.py`, `assistant_delegates.py` | sessions, runs, confirmations, slots | submit, steer, confirm, answer, cancel, delegate, close | claims before their runs; interruption; slots shared with helpers | requirements accounted for, writes approved, runs end orderly |
| Assistant, reservations: `assistant_tasks.py` | documents with a claim | tick, claim, bind, return, toggle, delete, recover | two transactions with everything in between | each due time served once, none dropped |
| Assistant, channels: `assistant_channels.py` | binding, receipts, queue, previews | pair, revoke, receive, work, click, watch | repeated deliveries, clicks on previews of ended dialogues | once, in the pairing it was said in and not after its end |
| Assistant, tools: `assistant_issues.py`, `assistant_mcp.py`, `assistant_sandbox.py`, `../sandbox/broker.py` | drafts, servers and catalogues, containers | prepare, confirm, execute, record, reap | what was confirmed changes before it is done; lost answers | once, as confirmed, while permitted |
| The rest: formatting, API, logs, web console, outside clients | mostly none that interleaves | | | |

`PROJECT.json` lists every component with its files and status, and the hazards of
the code at their lines with the properties that watch them.

## The modules

A step of every module is what one asyncio task does between two awaits. That is
the atomicity of the program: there is one loop, and code between two awaits is
not interrupted. Waiting in `async with lock`, in `asyncio.timeout` and in
`to_thread` are steps of their own; where real threads meet (the seat gate) a
critical section is a step. Operators marked `fault:` stand next to a definition
and are variants of it with a plausible mistake: put in its place, each makes TLC
find the property it belongs to violated. No specification uses them.

### Modules that are run on their own

**PluginLifecycle** (`plugins.py`, `save_plugin_config`, `PluginContext.close`).
`task[t]` is a request: the jobs it still has to do and the await it stands at;
`holder` and `waiters` are the lifecycle lock of each plugin. `EnterEnable`,
`StartEnable`, `Import`, `SetupReturns`, `SetupFails` and `Unwind` are the pieces of
`_enable`; `EnterDisable`, `Teardown` and `Disabled` those of `_disable`;
`EnterConfigure`, `Confirm`, `Rollback` and `Revert` those of the configuration
save; `Scan` and `Pick` those of `restore_enabled`. `Cancel` can hit every await,
and each piece can raise where the code can. `open` and `draining` are the contexts
that hold registrations or tasks, `residue` the module in `sys.modules` and the
policy in the governor.

**PluginGovernor** (`governance.py`). `call[c]` is the stack of executions of a
task, since a callback may call a capability and so execute another. A budget is
what `_policies`, `_semaphores` and the circuits hold for one life of a plugin;
calls of an earlier life keep theirs after a reload. The semaphore is the one of
CPython 3.11, with waiters that have been granted a permit and have not run yet.
`Admit` and `Queued` are the entry of `_execute`, `Resume` and `GiveUp` the end of
the wait, `End`, `Raised` and `Failover` the way out with its bookkeeping.

**PluginScheduler** (`scheduler.py`). The number of a registration stands for the
`object()` of `_generations`. `task` are executions (submitted by APScheduler or
started by `run_now`), `worker` the tasks of `_resume_deferred`. A task that is
done and its done-callbacks (`Callbacks`, `WorkerEnds`) are two steps, because the
loop runs the callbacks a round later.

**WeComCommands** (`wecom_commands.py`). `request[r]` is the admission task of a
delivery: `Deliver`, `Submit` (lock, full check, the thread that looks), `Look`,
`Found`, `Claim` (the thread that inserts), `Admit` or `Reject` (second permission
check), `Undo`. `Take`, `Start`, `Finish` and `Done` are the worker. `Stop`, `Restart`
and `Crash` end a service instance; after a restart in the process, old admissions
and an old callback live on. **CommandOnce** is the abstract promise: a message is
accepted once, runs at most once per plugin, and is then over; WeComCommands
implements it through the mapping `Status`.

**TelegramDelivery** (`delivery.py`), one chat of one account. `op` are the callers
and the flush workers; `line[l]` is a chat lock with its holder and its waiters.
`Send`, `EditNow` and `EditSoon` are the calls, `Flush` the worker after its window,
`Own` the first step under the lock, `Succeed`, `FloodWait`, `Fail`, `Retry` the
request and its retries, `Leave` the exit that drops an unused lock, `Close`,
`Drain` and `Drained` the end of the instance, `Reload` the next one.

### Modules of the platform's services, explored together by MCPlatform

| Module | Code | State and steps |
|---|---|---|
| CloakBrowser | `cloak_proxy.py`, the component update of `api/settings.py`, `cloak_updates.py` | `queue`, `active`, `cooldown`, `maintenance` are the fields of `_FreeSessionGate`; `session[u]` and `lease[u]` a launcher and what it owes. Acquire with cancellation, release by close and by disconnect, the thread of `_recover_remote_seat`, the update with its pip run, the change of the licence key, restarts of the platform in the process, also while an update request and its installer run. |
| Notices | `notifier.py`, `rich_delivery.py` | A notice over its channels in any order, rich then plain, answers that get lost, the fallback to the account; private deliveries with the check before and after the token. |
| AIRequests | `services/ai.py`, `services/ai_usage.py` | `stage[r]` of a request over protocols and models, slots and their replacement, `learned` protocol, budget, counters, cancellation. |
| AIStream | `services/ai_stream.py` | One streamed turn of three protocols, with terminal reasons, broken connections and early ends. |
| SystemUpdates | `system_updates.py` | A shared fetch, the cache, the notice with its record on disk, deaths at every point. |
| SettingsSave | `api/settings.py`, `assistant_settings.py`, `config.py` | Forms and approved edits as `save[r]`, pip between their check and their commit, failing writes, masked secrets. |
| DependencyInstall | `deps.py` | `code` and `info` are the files and the metadata in the target; an `ensure` with extras, pip moving one package at a time, cleanup, death. |
| MarketInstall | `market.py`, `api/operations.py`, `api/plugins.py` | `plugin`, `backup`, `source` on disk, `op` under `install_lock`, the proof of a legacy source beside it; every rollback may fail, every request raise or be cancelled, and the process die between two file operations. |
| PluginStores | `sessions.py`, `storage.py` | `table` and `holder` for the sessions of one key; `opLock`, `thread`, `caller` for one SQLite file opened by two instances. |
| PlatformStart | `main.py`, `backup.py` | Every file operation of an import, the phases of `run_once`, restart in the process, failed starts, full disks, crashes. |

### Modules of the assistant, explored together by MCAssistant

| Module | Code | State and steps |
|---|---|---|
| AssistantRuns | `assistant.py`, `assistant_store.py`, `assistant_context.py`, `assistant_delegates.py` | `pc[s]` of the worker of each session through slot, rounds, tools, approvals, questions, helpers, summary and the record of its end; steering, cancellation, permission changes, close. |
| AssistantTasks | `assistant_tasks.py`, the binding in `submit` | `stored[t]` with its claim and revision, `ticker`, the administrator's changes, refusals, shutdown, crash and recovery. |
| AssistantChannels | `assistant_channels.py` | `binding`, `receipts`, `inbox` and its clerks, previews with buttons and their watcher, a restart. |
| AssistantIssues | `assistant_issues.py` | `draft[d]` and `attempt[x]`: preparation, confirmation, durable claim, the only request, record or loss of the answer, restarts. |
| AssistantMCP | `assistant_mcp.py` | The record of one server against `catalog`, `link` and prepared calls, with a check before and after every await. |
| Sandbox | `assistant_sandbox.py`, `../sandbox/broker.py` | Tickets of the client and sessions, containers, rooms and deletions of the broker, with lost answers. |

### The account, explored beside the lifecycle by MCAccounts

**TelegramAccounts** (`telegram.py`, `api/accounts.py`), one user account: `user` is
`users[session]`, `suppressed` its membership in `_suppressed_users`, `link[c]` the
connection of every client, `watched` its watcher, `recovery` the task of
`_recover_account`. The start of an account (`StillOnline`, `StartRefused`,
`StartOpens`, `StartSucceeds`, `StartDenied`, `StartFails`) is run by the console or
boot and by the recovery; `BeginLogin`, `LoginBegins`, `CodeSent`, `SubmitCode`,
`SignedIn`, `LoginSaved` and `LoginUnsaved` are the pieces of a login between its
awaits. A login does not ask for the connection lock, and nothing in the model keeps it
apart from a start. MCAccounts explores it in the run of one plugin, each behaviour
being one of the plugin or one of the account.

The components of MCPlatform and of MCAssistant share no state that matters between
them, so the product of their interleavings would show nothing. Each behaviour of
these two modules is one of one component: `focus` says which, and one run explores
them all. Where components do meet, the meeting is in a module: the component update
with the restart and with running sessions (CloakBrowser), pip with the forms and
edits that wait for it (SettingsSave), the process and the files of a backup
(PlatformStart), the ticker with the run it binds (AssistantTasks), helpers and
parents on the same slots (AssistantRuns), the two ends of the sandbox (Sandbox), two
instances of a plugin on one database (PluginStores). The core modules model their
neighbours by what they can do to them (the lifecycle is `Load`, `Close` and
`Release` in the governor, `Load` and `Unload` in WeComCommands, `RemovePlugin` in the
scheduler).

The other `MC*` modules name model values. MCWeComCommands spends its bounds in two
ways (`focus`): on two messages in one service instance, or on one message over a
reload, a stop, a restart and a crash, with clients that disconnect. MCPluginGovernor keeps one earlier life of the
plugin at a time (`BoundedSpec`).

## What the runs show

| Run | Module | Result |
|---|---|---|
| `lifecycle_one` | MCAccounts, 1.7 million states | Every kind of request of the startup task and an administrator on one plugin with up to two account contexts and two configurations, with failing saves, setups and imports, undone saves and cancellations. `InstancesAreSeparate` (one instance at a time, nothing left of an unloaded plugin), `SettingsAgree` (a plugin at rest runs the configuration the console shows; memory and file agree) and `LoadedIsEnabled` hold; and, of the account beside it, `AccountIsKept`. |
| `lifecycle_two` | PluginLifecycle | Two plugins, one of which requires itself; restore at startup and after an account recovered, with requests of the administrator. `RequestsEnd` (liveness) and `RestoreRespectsDisable` hold. |
| `lifecycle_leak` | PluginLifecycle | `NothingLeft` is violated, see [below](#where-code-and-documents-disagree). |
| `governor` | PluginGovernor, 0.1 million states | Two tasks, one permit, a queue of one, a callback that calls a capability provided twice by its own plugin. `PermitsAreAccounted` (permits and counts are right, nobody waits for a free permit), `ExecutionsAreTheirOwn` (only failures of an execution that ran count, nothing stale starts) and `ExecutionsEnd` (liveness, by deadlines) hold. |
| `governor_stopped` | PluginGovernor | `NothingStartsWhenOff` is violated. |
| `wecom` | WeComCommands, 0.1 million | Two messages and retries over two connections in a queue of one, or one message over disconnects, a reload, a stop, a restart and a crash. `RecordsAreTrue` (at most once; what was acknowledged stays recorded), `ClaimsHaveRoom`, `NoStrandedRecord` hold, the service implements `CommandOnce` (`KeepsThePromise`), and admissions and jobs end (`EverythingEnds`). |
| `scheduler_slots` | PluginScheduler | Timed, manual and catch-up runs of a job registered twice, removed, unloaded and stopped. `OneAtATime`, `TablesAgree` (one catch-up; a shutdown waits for what executes), `AcceptedRuns`, `StaleNeverStarts` hold; catch-ups are decided and a stop ends (`EverythingEnds`). |
| `scheduler_dropped` | PluginScheduler | `TriggersAreKept` is violated. |
| `delivery_chat` | TelegramDelivery | Two callers and two workers on two messages, FloodWaits, failures, cancellations, close and reload. `ChatIsHeld` (one request at a time, nothing left after close), `RequestsAreDue` (sends follow earlier edits, repeats are skipped, nothing leaves after close) and `EverythingEnds` (calls and close end) hold. |
| `delivery_order` | TelegramDelivery | `SendsInOrder` is violated. |
| `platform` | MCPlatform, 0.7 million | The ten modules of the services; see the next table. |
| `assistant` | MCAssistant, 2.1 million | The six modules of the assistant; see the next table. |

| Property | Of | What it says |
|---|---|---|
| `BrowsersAreSound` | CloakBrowser | The seat is taken by one session and given back once; the key stays while a session or its recovery lasts, unless a restart reads another; no session begins or runs while the files differ from the imported ones, unless a restart has overtaken the update. |
| `AccountIsKept` | TelegramAccounts | Whoever is connected is held by somebody, or was displaced where a start and a login overlapped; a disconnected account stays off; a configured account is up, watched, or being looked after, outside the windows listed [below](#limits-found). |
| `DeliveredAsChecked` | Notices | No channel brings a second copy, and the owner's account brings one only after a lost answer of a channel that cannot tell it from a refusal; what waits for a token goes out only if member and application are still those that were checked. |
| `PartialIsNotCallable` | AIStream | A turn that is returned has all tool calls with all arguments. |
| `RequestIsOne` | AIRequests | A stream that broke is not asked for again; part of an answer is followed by another protocol only if a whole answer was taken for a mismatch; one request counts once and shares one budget; a request fails for its protocol only if its model speaks none, something was taken for a mismatch, or the models of the provider speak different ones. |
| `NoticeOnce` | SystemUpdates | Nobody is told twice, nor of an older release after a newer one. |
| `ApprovedAsSeen` | SettingsSave | An approved edit changes what its preview showed and nothing else; what runs is what the file says unless a write failed. |
| `InstallsAreHonest` | DependencyInstall | The version that is read is that of the files; an extra does not replace the pinned root package. |
| `InstallIsAtomic` | MarketInstall | An installation ends with the new code and its source, with the old of both, or with its transaction open; until that is settled the old code is in the backup; a recorded source is that of the files unless an installation was left without its end. |
| `StoresAreKept` | PluginStores | A session's data goes only when it was reset, has expired or its instance closes, and never under its holder; no thread outlives its operation lock or the close. |
| `ImportIsAtomic`, `ComesUp` | PlatformStart | A boot begins with an unconfirmed import once; a transaction ends confirmed or with the old file; what is disturbed no more comes up and stays up (liveness). |
| `RunsEndOrderly` | AssistantRuns | Every requirement is answered or reported as unprocessed; close leaves no worker; slots come back, and so does the session of an interrupted run that had not ended of itself; helpers and parents never wait for each other's slots. |
| `WriteIsApproved` | AssistantRuns | A change starts only with the permission on, an unexpired approval of its own and no earlier change of unknown outcome. |
| `ServedOnce` | AssistantTasks | A due time is served by one run, never after a pause or a deletion, and is never dropped. |
| `DialogueIsObeyed` | AssistantChannels | A message, repeated or not, is handed over once, in the pairing that accepted it and never after the dialogue was ended, also when its session was deleted and made again; a click means the preview that was shown in its dialogue; a revoked binding stops its run. |
| `SubmittedOnce` | AssistantIssues | A draft is posted once, with the source and policy that were approved, and a possible issue is never recorded as failed. |
| `CalledAsShown` | AssistantMCP | A prepared tool call is executed once, on the record it was shown of, and sessions and catalogues of a replaced server are gone. |
| `ExecutedAsConfirmed` | Sandbox | An operation is executed once, under the configuration it was confirmed for, in a container that the broker counts and that nothing has spoilt, except before the broker has condemned it. |

Every module has its type invariant in one of these. The two composites turn the
deadlock check off, because their bounded counters (time, restarts, changes,
versions) bring a behaviour to an end; all other runs check for deadlock.

## Bounds

- Lifecycle: two tasks, since a lock with one holder and one waiter already has
  every kind of hand-over; `Instances` = {1, 2} names successive instances, a name
  being free again when nothing of its instance is left, so the number of reloads
  is unbounded; `Accounts` = 2, because a setup can fail in the second of two
  contexts; two configurations, the old and the new one.
- Governor: `Budgets` names the lives of a plugin whose calls are still around; a name
  is reused when nobody holds it. Circuit counts are capped at the threshold, beyond
  which the code does nothing else. Two tasks, of which one nests to depth 2: one
  executes, one is queued or refused, and a nested call competes with both.
- Scheduler: one job id, because ids share nothing but the shutdown; two executions
  and two workers alive at a time (the old and the new generation); `MaxGen` = 2
  registrations. In the program only a platform job is removed on its own; the id of
  the run plays a plugin's job and that job, which adds behaviours.
- WeCom: `Capacity` = 1 makes the queue full at once; two connections are reused
  without limit; two registrations and two service instances, the old and the new
  one. A disconnect only decides whether an answer counts as received, so it is left to
  the instance with one message. The expiry of a record after 24 hours is left out: the model is about retries
  within that time.
- Delivery: one chat, because chats share only the registry lock, which is never
  held across an await, and the close; `Retries` = 1 where the code has 2: a second
  retry is the same step. One text is enough for a repeat, since an edit may fail and
  be asked for again, and a new instance remembers nothing. A new instance starts when
  the calls excluded from the close of the old one have ended; the two share nothing.
  `delivery_order` needs three calls and no retry.
- Services: two launchers, a task and a thread, since one of them has the seat and the
  other one queues; one update request, which a restart overtakes; two overlapping saves with two contents; a package
  with an extra and two versions, three runs of pip; two repositories with two versions
  and two changes of a source; two handlers with two session objects and three
  callers on two instances; a notice with a rich and a plain channel and one private
  delivery of each kind; two requests, one of them streamed, over three protocols with a budget of three, and
  two pairs of models: they speak different protocols, or the default one speaks none; two releases and two deaths; three configurations, one of which
  cannot start, and four disturbances, which is a crash in an import, another in its
  rollback, and one more import and save.
- Account: two Telegram clients, which is what a start and a login that overlap open;
  a third one only repeats the displacement.
- Assistant: two sessions on one slot and two rounds; two reservations, one repeating,
  with one change each and a horizon of three; two messages, one clerk, a queue of one,
  two dialogues and one restart; two drafts, two confirmations, one restart and one
  change of the source; two calls and two changes of a server; two requests in two
  sessions, two slots at the client, one at the broker and two containers.

## Fairness

- Lifecycle (`FairSpec`): weak fairness of each task's steps. Every await in a request
  has a limit: 300 s for pip, 30 s for setup, 15 s for teardown, 10 s for a cleanup.
  New requests, failures and cancellations are not fair.
- Governor (`BoundedSpec`): weak fairness of a task that can run, strong fairness of the
  end of a callback at each depth (a callback does not call capabilities for ever), weak
  fairness of the deadline that `asyncio.timeout` keeps. Without deadlines
  `ExecutionsEnd` fails, as it should.
- Scheduler (`FairSpec`): weak fairness of executions, callbacks and cancelled tasks;
  strong fairness of the catch-up worker's steps, because triggers of one job are at
  least a second apart and cannot overtake it in every round.
- WeCom (`CasesSpec`): strong fairness of `Submit`, since `asyncio.Lock` is handed over
  in order; weak fairness of the threads (SQLite gives up after 0.2 s) and of the worker
  (120 s for a callback, 30 s for a reply).
- Delivery (`FairSpec`): weak fairness of each operation's steps and of the two steps of
  the drain: a request is answered, fails, or is cancelled with its callback's deadline.
- Platform (`PlatformSpec`): weak fairness of a step of the start, `BootNext`: the
  container starts a process that ended again, and a start does not stand still. The
  other services and the assistant are checked for safety only.

## Limits found

In some windows the code does less than one would like to state of it. The models have
these windows, no constant closes them, and TLC and the proofs go through them; the
properties name each as an exception, by the state or history that shows it, and hold
everywhere else. Without its exception a property is violated.

| Window | What happens | Where it is in the model |
|---|---|---|
| A restart during a component update | `POST /api/system/restart` (`api/system.py:348`) does not look at the maintenance, and the start that follows reopens the gate (`main.py:52`, `cloak_proxy.py:320`) while pip still replaces the files, although the comment at `cloak_proxy.py:305` excludes it. The same start reads the settings again, under sessions that outlive it. | `Restart`; exception `overtaken # {}` of `BrowsersMatchFiles`, `old` leases of `KeyIsStable`. |
| A start and a login of one account overlap | `begin_user_login` (`telegram.py:519`) does not ask for the connection lock, and both ends of the overlap assign `users[session]` (lines 486, 634): the former client stays open on the same session file and belongs to nobody. | `TakesOver`; exceptions `displaced` with `crossed` of `ClientsAreHeld`, `crossed` of `LookedAfter`. |
| A client comes back while its plugins are bound anew | Its watcher has ended, and the check of the recovery (`telegram.py:384`) finds it connected: nobody watches it any more. | `LinkReturns`; exception `missed` of `LookedAfter`. |
| A recovery ends before a login is saved | The session is not configured yet (`telegram.py:356`), so the recovery stops; the login then configures an account that is offline. | `RecoveryWakes`; exception `missed`. |
| An answer that was heard and cannot be used | `tool_turn` (`services/ai.py:379`) excludes a used up budget and an incomplete stream from the fallback, not an invalid tool call or an error of the receiver: the fallback model is asked although part of an answer was shown. | `ServiceFails`, `FallBack`; `NotReplayed` speaks of broken streams, and of other protocols. |
| Models of different protocols behind one URL | The learned protocol is tried alone (`services/ai_protocol.py:227`) and is never forgotten, so a model of another protocol is reported as unusable, although `README.md:15` speaks of automatic detection. | `Candidates`, `Succeed`; last exception of `DetectionIsComplete`. |
| A run is interrupted while it records its end | The wait for the lock in the `finally` of `_drive` (`assistant.py:1187`) is an await like any other: the worker leaves without clearing the tables, and its session stays busy. | `Unguarded`; `SessionIsFreed` excepts runs that had ended of themselves. |
| A DELETE of a sandbox session is late or lost | The client waits five seconds and takes a failure for a success (`assistant_sandbox.py:381`); the broker releases the lock of the session before it condemns it (`../sandbox/broker.py:277`, `304`). A second request that was queued there runs in the spoilt container. | `FinishDelete`, `Unclear`, `Condemn`; exception `NotYetCondemned` of `CleanContainer`. |
| An installation is left open | A cancelled request, an `enable` that raises (`api/operations.py:314`) or a rollback that fails (`market.py:1195`) leaves the new code under the old source, or no code, and the transaction in memory. The console then refuses every installation of the plugin; the next automatic update rolls it back. | `LeaveInstall`, `RollBack`, `StillOpen`; exceptions `pending`, `torn` of `SourceIsProven`, `pending'`, `op.open` of `EndsWhole`. |
| Channels that do not acknowledge | For bark, webhook and Bot channels without a token a lost answer is a failure (`notifier.py:539`), and the owner's account may bring a second copy. | Channels outside `Acknowledging`, which is any set of channels; `NoSecondCopy`. |

## What is proved

All constants are arbitrary within the named assumptions of their modules (finite
sets where the code counts something, natural bounds, elements that stand for nobody
outside the sets they are compared with): any number of plugins, tasks, jobs, messages,
drafts, reservations, callers, restarts and crashes.

**PluginLifecycle_proofs**
- `OneRequestPerPlugin`: two requests are never past the acquisition of the same
  lifecycle lock.
- `LoadedPluginsAreEnabled`: `LoadedIsEnabled` is an invariant. Alone it is not
  inductive: `_enable` adds to the table and to the enabled list in one step, but a
  failed or undone configuration save puts back a remembered enabled list. The
  invariant therefore says that a request in its critical section holds the lock
  (`Locking`), that a plugin being torn down is out of the table (`Removed`), and that
  a save remembers an enabled list without its plugin only if that plugin was not
  loaded (`Remembered`).
- `InstancesDoNotMix` (`InstancesAreSeparate`), `SettingsAlwaysAgree` (`SettingsAgree`)
  and `RestoresRespectDisables` (`RestoreRespectsDisable`). They share a second
  invariant, `Rows`, built on the first: what the holder of a lock knows of its plugin at
  each place of its request, and that a plugin without a request at work is at rest. A
  step changes the row of its own plugin only, so what the other requests know stays
  true; what remains is one lemma for each place inside the lock.

**PluginGovernor_proofs**
- `PermitsAccounted` (`PermitsAreAccounted`) and `OwnExecutions`
  (`ExecutionsAreTheirOwn`). The invariant says of every budget, those of earlier lives
  included, that exactly the tasks waiting in it stand in its queue, each once, that
  permits add up, and that a free permit has somebody to hand it on (`AllSound`); how
  the executions of one task are nested (`Levels`, `OnlyTopWaits`); and that two plugins
  never share a budget (`Apart`). The proof has three layers: what an operation of the
  semaphore makes of one budget, what a start or an end makes of a task's executions,
  and the actions, each of which does one thing of either kind.
- The semaphore is that of CPython 3.11, where a permit may be free while somebody
  waits, as long as a woken waiter is about to take it and wake the next one; the
  stronger "nobody waits while a permit is free" is not true of it.

**PluginScheduler_proofs**
- `ExecutionsAreExclusive` (`OneAtATime`), `AdmissionsAreKept` (`AcceptedRuns`),
  `StaleRunsAreRefused` (`StaleNeverStarts`), `TheTablesAgree` (`TablesAgree`).
- Exclusion is decided when a run is let in, not when it begins, so the invariant says
  that one unfinished execution per registration is let in (`OnePerGeneration`). That
  needs `ManualTracked`, that a manual run of the current registration is in
  `_manual`, although `_manual` is overwritten by runs of later registrations.
- That a shutdown waits for everything rests on `DyingDrains`: a cancelled worker, which
  has left `_deferred`, is in `_draining`, so what `_finish_stop` looks at is all there is
  (`OutstandingIsAll`), and nothing begins after it (`StaysQuiet`).

**WeComCommands_proofs**
- `StoreTellsTheTruth` (`RecordsAreTrue`: `AtMostOnce`, which `MessagesRunOnce` states
  on its own, and `AckedStaysRecorded`), `AdmissionsHaveRoom` (`ClaimsHaveRoom`),
  `RecordsHaveTheirJob` (`NoStrandedRecord`).
- `ServiceKeepsThePromise`: the service implements `CommandOnce`.
- The invariant gives every record exactly one owner: the admission that inserted it,
  the queue, the worker, or nobody any more (`Owned`), says that nothing was started
  for what the worker has not taken (`Untouched`, `Rest`), and that the lock of a
  service instance has one holder (`OneHolder`). At-most-once follows only because the
  undo of a refused admission can hit no record but its own. That what was acknowledged
  stays recorded needs one strengthening (`Remembered`): in the first life of the service
  whoever holds the lock is alone in the critical section, so what it has read of its
  record is still true when it answers.

**TelegramDelivery_proofs**
- `ChatHeld` (`ChatIsHeld`) and `RequestsDue` (`RequestsAreDue`). The lines of the locks
  hold whoever asked for the chat, each once, and only one lock has anybody in its line
  (`Lines`), so two requests to one chat exclude each other although a worker may create
  a new lock after a reload. An edit older than a send is ahead of it in the line, or the
  send still waits for it (`Follows`). Every action is first reduced to one of six steps
  of an operation (`OneOfThese`), and each of those keeps the invariant.

**Platform_proofs**, one invariant for each component:
- `ImportsAreAtomic` (`ImportIsAtomic`). The old file is back before the transaction
  that names it is deleted (`TakenBack`), and an import that is still being put in place
  has not been tried (`Untried`).
- `NoticesAreSentOnce` (`NoticeOnce`). What has arrived has a record
  (`ReachedIsRecorded`), and what is under way is recorded and is the first of its
  version and of every later one (`UnderWay`).
- `DataIsTakenFromNobody` (`StoresAreKept`). Whoever takes data away has looked again
  under the lock; a thread has a caller that waits for it, cancelled or not, and holds
  the operation lock (`Served`), and a closed instance has none (`Drained`).
- `OnlyWholeTurns` (`PartialIsNotCallable`). A good reason comes after every planned call
  is whole, and nothing is added after it.
- `NoticesArriveAsChecked` (`DeliveredAsChecked`), for channels of both kinds. A channel
  is tried once (`Untouched`), and a copy on a channel that acknowledges is there only
  where the sender knows that it may be (`Counted`).
- `BrowsersKeepTheirSeat` (`BrowsersAreSound`). The queue holds the waiting launchers
  once each (`Lined`), a lease is released exactly in the sessions that have no seat
  (`Leased`), a worker belongs to an update that has begun (`Orderly`), and unless a
  restart has overtaken an update, the gate is closed and empty from its start to the
  restart after it (`Quiet`).
- `AccountIsLookedAfter` (`AccountIsKept`). The account, the start under the connection
  lock and the login have no client in common but where they overlapped (`Apart`,
  `Overlaps`), so what is open is what they hold and what was displaced
  (`OpenClients`); and an account that should run and has no client is being started or
  is left to the administrator (`NotForgotten`), one that has a client is watched or
  recovered (`NotLost`).
- `EditsAreAsApproved` (`ApprovedAsSeen`). An edit is saved only while the settings are
  those its preview was made from, and a save that keeps a snapshot takes back what it
  could not write (`SavesInv`).
- `InstallsEndWhole` (`InstallIsAtomic`). Once it has moved the old code away and until
  it commits, an installation that found no open transaction (`AtWork`) has the old code
  in the backup and the old source on record, from the commit on the new ones
  (`Underway`). One that found a transaction open changes nothing but by rolling it back
  (`FoundOpen`), and a transaction without an operation is known to have been left
  (`LeftOpen`). `LeaveInstall` may end the operation at each of these places.
- `ReportsMatchFiles` (`InstallsAreHonest`). No record is later than the files, because
  pip records what it moves (`Dated`) and moves a package once (`OnlyMoved`).
- `RequestsAreOne` (`RequestIsOne`). What was learned some model speaks
  (`LearnedIsSpoken`); so the protocol of a request's model is among those still to be
  tried, or another model speaks another one (`StillToFind`); a request that has heard
  something goes on only after a mistaken mismatch or with the fallback model
  (`GoesOnMistaken`); the counters are those of the requests (`CountedOnce`).

**Assistant_proofs**
- `ReportsAreSentOnce` (`SubmittedOnce`). A draft has one owner from the durable claim
  to the record of the outcome (`DraftClaims`, `OneOwner`); only an unused claim and a
  draft have not been posted (`Unsent`), and what may be an issue is not a failure
  (`Public`).
- `DueTimesAreServedOnce` (`ServedOnce`). The claim and the binding are two
  transactions; the invariant says that the revision tells an untouched claim from one
  the administrator has overruled (`Overruled`), that what is due or claimed has not
  been served (`Unserved`), and that the next due time lies behind a claimed one
  (`Ahead`).
- `RunsEndInOrder` (`RunsEndOrderly`) and `WritesAreApproved` (`WriteIsApproved`). An
  addition is queued, taken into a round or
  answered, and a round begins with none taken (`Counted`); a helper belongs to a run
  that only waits for it (`Delegated`); a write of unknown outcome is under way or its
  run is ending (`Doubted`); after the barrier of `close` nobody is admitted (`ShutOff`); and a run that ends has
  a reason, of which an interruption is one (`EndsAreNamed`), so only those that ended of
  themselves can be thrown out of their `finally`.
- `CallsAreAsShown` (`CalledAsShown`). A call that waits for its answer was sent once, and
  before that not at all (`SentOnce`).
- `OperationsAreConfined` (`ExecutedAsConfirmed`). A session has one request at the
  client (`OneLine`), and the broker has only what the client has sent (`Attached`): of
  two requests of one session at the broker the client has given up on one. A spoilt
  container is condemned or the request that spoilt it is about to condemn it
  (`Doomed`), which is the exception of `CleanContainer`. The table of the broker has
  each container there is for one session (`Tabled`, `Placed`), and so their number
  keeps to the room.
- `DialoguesAreObeyed` (`DialogueIsObeyed`). An accepted message that was not handed over
  is in one place, the queue or one worker (`InOnePlace`); who admits it has the lock of
  the sender, so its dialogue cannot end under it, though a new one may begin with its
  session (`AdmitsUnderLock`). What the user ended last in a pairing lies before every
  message that can still reach the assistant (`LeftInv`). A button counts only after the
  whole preview arrived (`ButtonsHavePreviews`).

`DataLemmas` has what these proofs keep needing of finite sets and sequences: the number
of a set with one element more or less, and a sequence from which one element is removed.

No theorem has a hypothesis but the named assumptions of the modules. Where a property
has an exception, it is the one of the table above and part of its statement.

Only model-checked: the liveness properties, because the prover handles neither
`ENABLED` nor fairness (`RequestsEnd` of the lifecycle, `ExecutionsEnd` of the governor,
`EverythingEnds` of the scheduler, the WeCom service and delivery, `ComesUp` of the
platform). The four disagreements below have runs that show them and, being violations,
no theorems.

## Where code and documents disagree

1. `lifecycle_leak`: a cancellation during the cleanup of a failed setup ends the
   cleanup (`plugins.py:219`). The contexts of the remaining accounts keep their
   handlers and jobs, and the plugin is in no table from which it could be disabled.
   `docs/SPEC.md:119` promises the cleanup.
2. `governor_stopped`: `call_capability` (`governance.py:549`) copies the providers
   before it waits and later executes one whose plugin has been disabled.
   `docs/SPEC.md:114` excludes it.
3. `scheduler_dropped`: a trigger that fires between the expiry of an earlier deferred
   trigger and the done-callback of its worker is added to a record that is about to be
   removed (`scheduler.py:173`); it is neither run nor reported as skipped.
   `CHANGELOG.md:121` says that it is.
4. `delivery_order`: a send waits for a queued edit outside the chat's line
   (`delivery.py:164`), so a later send can pass it. `docs/PLUGIN_GUIDE.md:601`
   promises the order.

Met while modelling, in the models, and without a run of their own because no document
promises otherwise (besides the windows [above](#limits-found)):

- `governance.py:279`: whoever asks first decides a plugin's limits, so the status page
  of an unloaded plugin leaves the default limits in force for its next load.
- `delivery.py:182`: an edit back to the remembered text returns while an edit to
  another text is in flight, and the other text stays.
- `sessions.py:92`: an expired session whose lock is free is replaced by `get` while it
  is handed to a waiter; the waiter then works on a session nobody else sees.
- `market.py:90`: the generation of a source is in memory only, so after a restart an
  older draft of a report that was submitted under another draft fits again.
- `market.py:1168`: a crash between moving the installed plugin away and copying the new
  one leaves no plugin, and the next installation deletes the backup. A plugin that is
  enabled while its update is downloaded keeps the old code. An installation cancelled
  at the console leaves its entry in `_pending_installs` (`LeaveInstall`).
- `backup.py:247`: a platform that is restarted before its import is confirmed goes back
  to the old file, and with it loses the settings saved since.
- `telegram.py`: `begin_user_login` suppresses the account, and an abandoned login
  leaves it so.
- `assistant_channels.py:485`: a message that was accepted and not begun is lost in a
  restart while its receipt stays: at most once is all that is promised.
- `api/settings.py`: the forms for channels, cookies and routes keep no copy of the old
  values, so a failed write leaves memory ahead of the file; masks are resolved before
  pip, so a secret that changes meanwhile is written back.
- `services/ai.py:52`: a change of `max_concurrency` makes a new semaphore, and for as
  long as old requests run both are in use.
- `docs/API.md:101` says that a mask keeps the value of its path; `plugin_config.py:170`
  keeps that of the row whose visible fields it repeats when there is exactly one,
  wherever the row has moved.

## What is abstracted and what is not modelled

Left out everywhere: log and error texts, progress shown to the console, statistics
that nothing depends on, the validation of metadata and values (a step may fail
instead). An outside call is a step that succeeds, raises or takes any time. Further:

- Lifecycle: `update_config` of a plugin's own context (`context.py:230`), which writes
  outside the lifecycle lock; pip, imports, `setup` and `teardown` are outcomes; the registrations of
  a context are one element of `open`.
- Governor: the limit on background tasks, the replay table and the event journal.
- Scheduler: the 64-job limit, `waiting_phase`, snapshots.
- WeCom: built-in answers, the contents of messages, the 10000-record limit (a claim
  that fails).
- Delivery: keyword arguments of messages, the eviction after 1000 remembered edits.
- Stores: `items`, which reads under the same lock; keys, which share only a registry
  that is never held over an await.
- CloakBrowser: launches without a key (they pass the gate), proxies, arguments of the
  launcher, the reading of installed versions.
- Telegram: Bot accounts, which take the same paths without a login, and profiles.
- Settings: the account and Bot forms, which write one group under the same rule, and
  the tests of a connection.
- Market: reading, caching and ranking of catalogues.
- AI: the shape of requests and answers, images and audio.
- Assistant runs: the step that a run records between its last check of an approved
  operation and the operation (`assistant.py:1148`) is part of the check (`StillAllowed`).
- Issues: a restart ends every submission under way (`RestartIssues`), and the properties
  are about each draft: what a new draft does after a restart is the first entry of
  [the list above](#where-code-and-documents-disagree) about `market.py:90`.
- Backup: the archive format; plugin data travels with the same file operations as the
  configuration.
- Assistant: prompts, retention and search of sessions, attachments, the split of long
  texts, skills, web, images and audio (read-only requests and conversions); what happens
  inside a sandbox container.

Not modelled at all, with the reason in `PROJECT.json`: the plugin context surface
(its state is modelled where it matters), background tasks and journal of the governor,
discovery and loading (no interleaving state), configuration masks as functions, clients
of outside services (OCR, cookies, HTTP), handlers of the HTTP API that call one
component, resources and logs, and the web console.

## What is left

- Runs that show the [limits found](#limits-found) as violations of what a comment or
  the repository's README says of them.
- The governor's background tasks, and the shutdown order of `main.py` as a composition
  of the modules whose `close` it calls.
- Bot accounts beside user accounts, and the rebinding of plugins as a step of
  PluginLifecycle instead of an outcome in TelegramAccounts.
- Configuration masks and cron checks as operators against reference definitions.

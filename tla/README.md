# CorpClaw Lite: specifications, model checking and proofs

CorpClaw Lite is a corporate AI agent: one Python/asyncio process per channel
(web, Telegram, command line), SQLite files shared between them, a local LLM
backend with a fixed number of slots. This directory holds TLA+ specifications of
its stateful parts, the TLC configurations that check them on small instances,
and TLAPS proofs for instances of any size. Source paths below are relative to
`src/src/corpclaw_lite/`.

## 1. Inventory

| Component | State it keeps | Operations | Interacts with | What is hard | What makes it correct | Module |
|---|---|---|---|---|---|---|
| LLM queue (`llm/queue.py`) | semaphore, waiting list, slots with lock, assignment, idle timer | acquire, release, expiry | router, agent loop, status broadcasts | cancellation at each await, two-level waiting, permits in flight | permits conserved, slots exclusive, FIFO, nobody starves | `LLMQueue`, `Limiter` |
| User run gate (`runtime/user_run_gate.py`) | one entry per busy user | try_start, update, finish | every handler of web, Telegram, scheduler | finish pops unconditionally; every exit must finish | one workflow per user; the gate is always freed | `WebChat`, `Telegram` |
| Web chats, transcripts, attachments (`channels/web/*_store.py`) | sessions, messages, rows, files | ensure, create, reset, activate, delete, append, compress | web handlers, headless runs, retention | tabs race each other and a run of minutes | one open chat, a run stays in its chat, no row is lost | `WebChat` |
| Scheduler (`scheduler/`) | task rows with a claim lease | propose, accept, dismiss, pause, resume, delete, run_now, tick | gate, headless runs, three processes | stale full-row writes, leases, crashes | one run at a time, the user's decision stands, nothing is forgotten | `Scheduler` |
| Agent loop, guards, context (`agent/loop.py`, `guards.py`, `context.py`, `adaptations/`) | messages, budgets, stored rows of a turn | model call, tool batch, compress, finalise | queue, tools, approvals, transcript | time-out, error, budget, cancellation at any step | valid transcripts, one answer per turn, budgets, termination | `AgentTurn` |
| Approvals (`security/tool_guard.py`, prompts of both channels) | lock per loop, futures, prompts of tabs | ask, approve, deny, time out, connect | agent loop, channels | prompts while tabs come and go | nothing runs unasked; no prompt is missed | `Approvals` |
| LLM cache (`llm/cache.py`, the call bracket of `llm/router.py`) | what each backend slot holds, cache files | prepare, finalize, abort, prune, reset | queue, backend | eviction while another user resets | a file holds its conversation; nothing old returns | `SlotCache` |
| LLM router (`llm/router.py`) | provider instances, routes, overrides | build, override, close | runs with a depth mode | shared against owned clients | no route to a closed client, no leak | `Routing` |
| Providers (`llm/openai.py`, `llm/anthropic.py`) | the answer being assembled | stream, fall back, stall | agent loop | deltas cut, mixed, broken off | the streamed answer is the whole one | `ModelStream` |
| File journal (`agent/file_*.py`, `memory/file_changes.py`) | copies, change sets, read stamps | track, snapshot, undo | tools, web handlers | two runs write one file | no silent overwrite; undo restores | `FileJournal` |
| Sub-agents (`agent/subagent.py`, `builtin/research.py`, `agent/task_run.py`) | budgets, pages, facts, journal | dispatch, fetch, note, report | agent loop, memory | a time-out at any await | budgets hold; what was found reaches the user | `Delegation` |
| Memory (`memory/sqlite.py`, `worker*.py`) | entries, full-text index | store, recall, merge, heal | tools, the curator | index errors, overlapping writers, crashes | what is stored is found; cues stay | `Memory` |
| Tool processes, MCP servers, hot reload (`extensions/`) | pipes, clients, registries | call, connect, reload, scan | agent loop, watchers | late answers; reloads that overlap | own answers; offered tools are served | `ToolPipes`, `MCPServers`, `HotReload` |
| Containers (`container/`) | a container per user, clocks | start, reuse, call, prune | runs, loops, commands | removal and restart beside a call | no tool in a container of another policy | `Containers` |
| Calibration (`calibration/`) | prompt files, backup, score | propose, apply, score, roll back | evaluation | failed and crashed writes | the best proposal stays | `Calibration` |
| Workbooks (`agent/fill_plan.py`, `builtin/excel_workbook.py`) | cells of a report, a plan | resolve, fill, save, retry | agent loop | a sheet that cannot be saved | the report says what the sources say | `Workbook` |
| Telegram (`channels/telegram/`, `onboarding/`) | updates seen, rate window, form, keyboards | messages, uploads, /setup, /delete | gate, agent, containers | concurrent updates; a failure at each await | gate and form follow the handler; only what was shown is deleted | `Telegram`, `DeleteBrowser` |
| Channel processes (`orchestrator.py`, `runner.py` of both channels) | services, sockets, polling, requests | start, poll, reconnect, stop | everything | stop beside requests and reconnects | servers go after the requests that use them; the bot keeps listening | `WebProcess`, `BotProcess` |
| Web sign-in (`channels/web/orchestrator.py`) | failures, lockouts, tickets, grants | login, prune, use | accounts | several clocks | a lockout lasts; a ticket works once | `WebLogin` |
| Users (`users/manager.py`) | accounts, sessions, whitelist | login, rotate, merge, import | all channels | merge over three stores, repeated after failures | nothing lost or overwritten, nobody revived | `Accounts` |
| Notices (`channels/user_notifier.py`) | system session, tabs | notify, headless run, load, delete | scheduler, tabs | a tab loads while a notice is pushed | shown once, where it is stored | `Notices` |
| Web files (`channels/web/files.py`) | a workspace | rename, move, copy, delete, upload | tabs | look, then act by path | nothing saved is lost | `WebFiles` |
| Budgets for attachments and pins (`agent/budget_gate.py`, `pin_budget.py`) | tokens waiting and pinned | attach, pin, send | tabs, runs | check, await, spend | what is added fits | `ContextBudget` |
| Configuration, departments, prompts, tools' I/O, logging, evaluation, CLI | - | wiring, text, I/O | - | - | not modelled, section 8 | - |

`PROJECT.json` lists all parts with their status, and under "hazards" the places
in the code where something hard to test can go wrong.

## 2. Modules

Each component is a module with its state as VARIABLES and one action per
operation, handler or stretch of code between two awaits. Modules share nothing
but `World` (the users, and `None`). The modules of the last four tables are
checked together in two runs, `channels` and `services` (section 4).

Definitions named as mutants or bugs in comments are wrong variants of the
definition that follows them. They are used nowhere; replacing the definition by
its mutant must make TLC find the property violated (`PROJECT.json`, "mutants").

### LLM calls

| Module | Models |
|---|---|
| `Limiter` | abstract specification: what callers may rely on from the queue |
| `LLMQueue` | `llm/queue.py` with asyncio's Lock and Semaphore; implements `Limiter` |
| `SlotCache` | `llm/cache.py` and `_execute_with_queue` |
| `Routing` | `from_settings`, `with_overrides`, `aclose` of `llm/router.py`, and what a run does with its provider |
| `ModelStream` | streamed answers against the whole parse, fallback, stall monitor |

`LLMQueue`: an action is the code between two blocking awaits: the slot lock, the
semaphore, and the end of the notify task. `_lock` guards sections that never
await, so it needs no state. `sem` and the lock part of `slots` model asyncio's
Semaphore and Lock in detail (waiters, futures already resolved but not yet run),
because the bugs of such code are in the window between the two. `Enter` is
`acquire` up to its first await, `ResumeLock`/`ResumeSem`/`Settle` the
continuations, `Cancel*` and `FinishCancel` the CancelledError handler, `Release`
the `finally` in the router, `Elapse` the passing of an idle timer.

`SlotCache`: `kv` is what the backend's slots really hold, `tracked` what the
manager believes, `files` the cache files; an action ends at each request to the
backend or statement on the index. Slots are exclusive by the promise of
`LLMQueue`. The resets of a user wait for his calls (`ResetWhileBusy = FALSE`:
/new takes the user's gate on the web).

`Routing`: a provider is what it was built from, a number tells instances apart;
`owned` and `closed` say who has to close it and whether it is. A run of the channel
"system" (`headless`) works with one provider instead of a router, and a prologue may
fail (`PrologueFails`); what neither closes is recorded in `adrift`. `Queued` says
whether the calls go through the queue (`llm.queue.enabled`). `ModelStream`: an
answer is a sequence of blocks, their text and arguments sequences of pieces;
`Delta` delivers a piece of any block that may come next, `Whole` is the parse of
the unstreamed response, written separately.

### The agent's turn and its tools

| Module | Models |
|---|---|
| `AgentTurn` | `run()` of `agent/loop.py` with budgets, guards, approvals, salvage, compression, persistence |
| `FileJournal` | tracked writes, copies, the stale-write registry, undo |
| `Delegation` | a dispatched sub-agent, its research budget, its hand-over |
| `Workbook` | a fill plan over the sheets of a workbook |
| `Approvals` | the verdict of the guard, locks, prompts on web and Telegram |
| `Calibration` | the loop that rewrites the prompts |

`AgentTurn`: messages are reduced to role, call ids and the run they came from;
ids repeat from answer to answer. `store` is the stored transcript, `context` the
one in memory, `run` the locals. `Normal` is `normalize_transcript`,
`Compressions` the possible results of `ContextCompressor.compress`. The model's
answer, the tools' outcome and the success of each write are free choices; `Abort`
is an exception or cancellation at any await. A "workflow" run is a sub-agent with
a mandatory terminal tool.

`FileJournal`: contents are numbered, every write makes a new number; `knows` is
a history of what a run last read, wrote or was warned of. A call has the file the
wrapper tracks and the one the tool writes (`out`): they are the same for a
`BeginWrite`, two for a `BeginFill` of `excel_workbook`; `WriteUntracked` is a write
the wrapper cannot name. `Delegation`: one
research run under its wall-clock limit; `TimeOutTask` may fall at any await of its
tools. `Workbook`: a sheet is a sequence of rows of label and cell; the resolved
plan, the fill and save of each sheet, and `Told`, the reference: what the sources
say of a label. `Approvals`: calls of several loops, tabs with the prompts they
show and those on their way. `Calibration`: trees of files by surface, with the
crash of the process at any step.

### Channels

| Module | Models |
|---|---|
| `WebChat` | gate, chats, transcripts, attachments of one user and the handlers of the web channel and of headless runs on them |
| `Telegram` | an update from delivery to the release of the gate, with onboarding |
| `DeleteBrowser` | the /delete keyboard and uploads |
| `WebProcess`, `BotProcess` | the two processes from `start()` to `stop()` |
| `WebLogin`, `Accounts` | sign-in; users, sessions, merge, whitelist |
| `Notices` | proactive messages |
| `WebFiles` | the file manager |
| `ContextBudget` | attachments and pins |

`WebChat`: one user, since all the state is keyed by user. A task is a WebSocket
event, an HTTP request, a message run or a scheduled run. One action is the code
from one read or write transaction of the store to the next: the look-up of the open
chat (`Selected`) is a step of its own, what follows it (`Ensured`) another, and the
unique index rejects the INSERT if a chat was opened in between.
`Fail` is an exception of a store call inside a handler's `try`; `Restart` a
restart of the process. Transcripts are a number of rows: appending, reading and
replacing them is what the handlers race over.

`Telegram`: updates are delivered concurrently and more than once; `Slip` is an
exception on one of the paths that give the gate back by hand. `DeleteBrowser`:
`browse` is the one state record of the user, `screen` what each message shows.
`BotProcess`: `reconnect` is `_polling_error_task`, of which there is one at a
time; the library is external (an updater that runs or not, an application that
takes messages or not, `start_polling` that may fail). `WebProcess`: `work` is
what the sockets and the scheduler started; `ForceExit` is the expiry of
`shutdown_timeout_seconds`. `Accounts`: reads before the first write of a method
are a step of their own (SQLite's default transaction mode), the administrator's
commands are another process. `WebFiles`: the look of a request (`LookAt`) and its act
(`MoveOne`, `CopyOne`, `DeleteOne`, `OpenUpload`) are separate steps. `Notices` and `ContextBudget`: several tabs, with the model call
or push between check and write.

### Behind the channels

| Module | Models |
|---|---|
| `Scheduler` | `scheduler/store.py`, `scheduler/service.py` |
| `Memory` | entries, index, recall, curator, healing |
| `ToolPipes` | calls over stdin and stdout of other processes |
| `MCPServers` | connections, the watcher, the reload button |
| `HotReload` | skills, sub-agents, plugins against the files |
| `Containers` | sandboxes of users |

`Scheduler`: one user. Pollers and clients share only the table. An operation is
two steps: the read of the row (`Begin`), and the write of the whole row, possibly
from a stale copy. Time is abstract: a stamp is a value of `next_run_at`, a token
a claim; `BecomeDue` and `GoStale` let time pass for one of them. A poller stamps
its claims with the time of its tick; `TickAges` lets that time get older than the
TTL (a tick runs up to 20 tasks one after the other, also other users'), and `Claim`
then makes a claim that is stale from the start. The history variable `outlived` names the tasks of which a run
went on, or began, under a stale claim. `Abandon` is a
run that ends without completing its claim (crash, shutdown, failing store).
`run_now` has three branches: `run_due`, `run_early` and `run_paused`.

`Memory`: `row` is the table, `index` the full-text index, `indexing` whether a
process still writes it; a heal compares two counts and rebuilds. `UnionCues` is the
set of what may be left of the cues at their limit, `Recall` the set of the answers
that may be given at the limits of rows searched and returned. `ToolPipes`:
`half` is a line of which a part was read; calls time out, are cancelled, and
processes die. `MCPServers` and `HotReload`: the poll loop and the button run the
same code at the same time. `Containers`: `recent` and `young` stand for clock
readings.

### For TLC and TLAPS

`MCWebChat` and `MCAgentTurn` instantiate one module each; `LLMQueue` and `Scheduler`
are run as they are, with the symmetry they define last. `MCChannels` and
`MCServices` put the others into one specification. `LLMQueueProofs`,
`WebChatProofs`, `SchedulerProofs`, `TurnProofs`,
`ChannelsProofs` and `ServicesProofs` hold the theorems; `ModelProofs`, the lemmas of
cache, routes and streams for `ServicesProofs`; `SeqLemmas`, the facts about sequences
they share.

## 3. Runs

| Run | Checks | Shows |
|---|---|---|
| `queue_slots` | TypeOK, PermitConservation, SlotsAreSound, NoOvertaking, ImplementsLimiter | slot affinity, cancellations at every await, idle expiry |
| `queue_live` | EveryoneIsServed | no lost wake-up, no deadlock between lock and semaphore |
| `chat_safety` | TypeOK, OneWorkflow, ChatsAreSound | tabs, runs, retention and restarts race over the chats |
| `chat_live` | BusyOnlyWhileRunning, GateIsFreed | failures never lock the user out |
| `chat_busy` | violation of BusyOnlyWhileRunning | a compress event with a session id <= 0 locks the user out |
| `sched_claims` | TypeOK, ClaimHolderRunsAlone, OnceRunsOnce, StoppedStaysStopped, PollRunsWhatIsDue | claims against stale copies and old lists; claims that are old when they are made |
| `sched_recovery` | ActiveHasNextRun, DueTaskIsHandled | all operations and a dead run: no task is forgotten |
| `sched_exclusive` | violation of ExclusiveRun | pause writes a row from before the claim |
| `agent_turn` | TurnTypeOK, ContextIsValid, TurnIsSound, RunEnds | two turns of a chat with every way a run can end |
| `channels` | ChannelsTypeOK, BotIsSound, UserFilesAreSafe, PromptsAreSound, ShutdownIsClean, SignInIsSound, NoticesArrive, BudgetFits | the parts of the channels |
| `services` | ServicesTypeOK, CacheIsKept, JournalIsKept, ModelCallsAreSound, DelegationHolds, MemoryHolds, ExtensionsAreSound, SandboxIsCurrent, ReportIsRight, BestStays | the parts behind them |
| `plan_nudge` | violation of NudgedAfterWriting | a save that fails is answered with SUCCESS |

`PROJECT.json` "findings" quotes, for each violation, the line it contradicts.

What the composed properties say, part by part:

* `SlotsAreSound`: a slot is locked by the call that uses it and by no other; a
  sticky slot serves the user it is assigned to; no assignment outlives its calls
  and timer; the waiting list is the calls that wait.
* `ChatsAreSound`: the chat of a run stays open; a reply, stored minutes later
  without a session id, is in the chat of its message; one chat is open per
  channel; a compression loses no row.
* `ContextIsValid`: what a run sends is a transcript a provider accepts, whatever
  was aborted, lost or summarised before. `TurnIsSound`: loading repairs only
  damage; the request reaches every model call; at most one answer per turn;
  budgets; nobody is asked again after a refused salvage. `RunEnds`: every run ends.
* `BotIsSound`: the gate is held exactly while a handler works, the onboarding
  counts the answers given, a remembered update starts one run; a bot that is up
  is polling, or a network handler is on its way to make it poll, unless one used
  up its attempts.
* `UserFilesAreSafe`: what was saved and not deleted is somewhere in the workspace,
  whole, if no two requests crossed, and guarded entries always stay; with one keyboard and one tap at a time,
  /delete removes what its confirmation showed.
* `PromptsAreSound`: a call that needed the user runs only after a yes to its own
  prompt; a tab that was told what is pending shows every prompt of its user or
  will be told of it.
* `ShutdownIsClean`: servers and containers go only after the requests that were
  accepted in time; a stop that was neither forced nor cut short leaves nothing.
* `SignInIsSound`: failures that reach a limit are followed by the whole lockout;
  a ticket works once; a repeated merge moves everything and overwrites nothing; an
  import brings back nobody an administrator removed.
* `NoticesArrive`: a stored notice is shown at most once, and by every tab that
  views its session (but for the page race of section 7). `BudgetFits`: pins and
  attachments stay in the room they were checked against.
* `CacheIsKept`: a cache file holds the conversation it is named after, `prune`
  spares what is tracked, nothing from before /new is reused. `ModelCallsAreSound`:
  no route leads to a closed client, none leaks but those in `adrift`, and a model
  gets only inference settings meant for it or given by the caller; a streamed answer
  is the whole one. `JournalIsKept`: a call that writes the file it tracks overwrites
  no other run's change unwarned; undoing the only call brings back what was there.
* `DelegationHolds`: research keeps to its budget, and what it stored is in the
  skeleton or the partial report it ends with; a report of the model's own words may
  leave things out. `MemoryHolds`: while the index is whole, an answer of the recall
  misses an entry only if it is full or, for a cue, if more entries are stored than
  are scanned; no cue of an entry is lost unless two stores of it overlapped,
  and an acknowledged one is missing only from an entry that is full.
* `ExtensionsAreSound`: a call gets its own answer; an offered tool has a running
  server; registries follow the files. `SandboxIsCurrent`: no tool runs in a
  container with other labels than its policy's (image, strict capabilities, network);
  memory, seccomp and binds are not compared by the code.
* `ReportIsRight`: a plan whose sheets were saved leaves the report the sources
  call for. `BestStays`: a calibration ends with the best proposal on disk.

Some of these hold under a condition that is part of the property, a history
variable that tells what the code does not protect: `crossed`, `mixed`, `raced`,
`torn`, `overlap`, `interrupted`, `stuck`, `slips`, `misnamed`, `bare`, `calm`,
`skipped`, `late`, `lost`, `attachMet`, `pinMet`, `adrift`, `outlived`. Each is
explained where it is declared, and what happens in the excluded case is an
observation of section 7: no property is claimed to watch it. These are races of file
requests (`files.py:241`) and of delete keyboards (`file_manager.py:582`), of two pins
(web `orchestrator.py:1441`), an eviction across a reset (`cache.py:563`), a cancelled
plugin call (`sandbox_proxy.py:176`), overlapping reconnects (`mcp/watcher.py:74`), a
gate leaked by an exception on Telegram (`orchestrator.py:826`), claims stale when made
(`service.py:472`), files written beside the tracked one (`file_tracked.py:105`) and
settings taken over from a profile (`router.py:781`). Nor is one claimed for the
removal of a container in use (`container/manager.py:298`) or for a turn's epilogue
(`loop.py:1858`).

## 4. Bounds

* Queue: three calls of two users, one sticky and one overflow slot, one permit:
  the smallest instance where a slot is contended, an assignment expires under a
  waiter and an overflow slot is shared. Several permits in flight are the
  subject of the theorem `PermitsAreConserved`, which is for any number.
  Liveness uses three calls of one user on one sticky slot, where lock and
  semaphore are both contended.
* WebChat: two tasks (the gate admits one, so a second is enough to race it),
  three session ids (an open, an archived and a new one), one row, one file, one
  archived session kept. Liveness has two sessions. `MaxSession`, `MaxRows` and
  `MaxPending` bound counters that grow without limit in the code, or large
  limits of the configuration.
* Scheduler: one task (rows are independent but for limit, fingerprint and the time
  their claims share); one poller, because only the web process polls; two clients.
  `sched_claims` has the claims that age with their list (`LongLists`), whose other
  tasks need not be in the model for that, and two clients that accept, delete and
  force a due task. `pause` and `dismiss`, written with the guard of `accept`, are in
  `sched_recovery` and in the theorems, which have all operations they do not name.
  `sched_recovery` and `sched_exclusive` have ticks that are short enough.
  `MaxToken` and `MaxStamp` are large enough that a new token and a new stamp
  always exist; an identifier that no row, copy or list mentions any more is given
  out again, so runs are unbounded in length. `MaxAbandon` bounds crashes.
  `LongRuns = FALSE` says that a *single* run ends within the claim's TTL (900 s):
  the wall time of a run is limited to 300 s, time waiting in the LLM queue not
  counted. It says nothing of the runs of a list together, and no theorem assumes it.
* AgentTurn: two turns, so that the second loads what the first left; batches of
  one or two calls, three iterations, two tool calls, one lost row or abort
  (`MaxDamage`). Of the three kinds of retries one is allowed once, as they differ
  only in their text. `FillPlanBatched = FALSE`: apply_fill_plan next to other
  calls is an observation of section 7.
* `channels` and `services`: the variable `focus` picks one part per behaviour;
  the variables of the other parts are `None` and never change. The parts have no
  variable in common, so what the run reaches of a part is exactly what the part
  reaches alone: the run is the disjoint union of their state spaces, checked with
  one initial state each. (What the parts promise each other is stated where it is
  used: exclusive slots in `SlotCache`, one workflow per user in `Memory` and
  `FileJournal`.) `a` and `b` are two alike members of every set they are in, which
  makes `Permutations({a, b})` a symmetry of all the parts; it is used with
  invariants and action properties only.
* In each part two actors race, and a third where it matters (calls for approval:
  one asks, one waits for the lock, one is judged). `MaxDeliveries`, `MaxTaps`,
  `MaxBatches`, `MaxConnects`, `MaxClock`, `MaxSystem`, `MaxRequests`,
  `MaxPassword`, `MaxMishaps`, `MaxStalls`, `MaxContents`, `MaxCalls`, `MaxSteps`,
  `MaxNotices`, `MaxDeaths`, `MaxConfigs`, `MaxClients`, `MaxEdits`, `MaxSweeps`,
  `MaxBoxes`, `MaxProposals`, `MaxCrashes`, `MaxFills` bound what may happen how
  often. The limits of the configuration (`PerMinute`, `KeyLimit`, `UserLimit`,
  `MaxSources`, `InitMaxRetries`, `NetworkMaxRetries`, ...) are small enough to be
  reached and passed.
* Memory: two entries, two cues, one of which fits (`MaxCues`), one row searched for
  an exact cue (`ScanLimit`); of two entries an answer of two (`RecallLimit`) is never
  too small, so the limit of the answer is the theorem's part.
* FileJournal: one file, so a fill replaces its source there; the theorem is for any
  number. Routing: two connections and two runs, one of which may be headless.
* `MaxCalls` = 1: in the run `services` each run calls one tool on the file, so the
  condition of `UndoRestoresOneCall` always holds there. With `MaxCalls` = 2 the
  journal alone has 2.2 million states and no error (about two minutes), and the
  condition is needed.

Deadlock is not checked where the system really may stop: a bounded number of
inputs is used up, or the process has ended.

## 5. Fairness

* `LLMQueue!FairSpec`: weak fairness of the continuations and the release of each
  entry: the event loop runs ready tasks, and an LLM call ends (time-out).
* `WebChat!FairSpec`: weak fairness of what a task does once begun: store calls
  return and a run ends (budget, time-outs). Nobody is obliged to begin anything.
* `Scheduler!FairSpec`: weak fairness of the poll loop (it catches every exception
  and sleeps), of the second half of an operation, of the end of a run, and of the
  ageing of a claim. Crashes are bounded; users are never obliged to act.
* `AgentTurn!TurnFairSpec`: weak fairness of a step of the run, whichever it is: the
  queue serves every call (`queue_live`), and a model call, a tool and a prompt each
  end by their own limits. No run is obliged to start. `RunEnds` needs the budgets:
  a retry, a rejected batch or a warning leads back into the loop.

## 6. Proofs

The proofs are for every value of the constants that satisfies the `ASSUME` of the
module; these say that bounds are numbers, kinds of identifier do not overlap, the
sentinel `None` is no value, sets that are counted are finite, and files and items
that are told apart by name have different names. TLC evaluates each of them on the
runs. Every inductive invariant was checked with TLC on the instance of its run
before it was proved.

`LLMQueueProofs` (on `SeqLemmas`: what membership in a sequence is after an append,
a removal and a mapped update):

* `TypeCorrect`: the types of the queue, together with `LockNeedsSlot` (an entry
  that holds a slot's lock has chosen a slot), without which a release would write
  to a slot that is none.
* `PermitsAreConserved`: free permits, permits handed to waiters that have not run
  yet, and entries that hold one add up to `max_concurrent`. Each action moves a
  permit between two of the three; the proof counts finite sets.
* `SlotsStaySound`: the lock of a slot is held by one request, a running request is
  in a slot of its user, no cancellation leaves a slot assigned for ever, and
  `_waiting` is exact. The strengthening says which entries may hold or wait for a
  lock at each place, so that a slot that is neither active nor timed has an entry
  on the way that will make it so or give it back.
* `QueueImplementsLimiter`: the refinement of `Limiter`, step by step. An entry that
  starts finds a permit, hence by `PermitsAreConserved` fewer than `max_concurrent`
  others are active; every other action maps to a step of one entry or a stutter.

`WebChatProofs`: one inductive invariant `IInv` for all the theorems, checked with
TLC before it was proved.

* The core is `OneWorkflow`: a task inside a workflow is the only one. Each action
  that enters a workflow tests the gate in the same atomic step, and each that
  frees the gate leaves its workflow (`LocalsInOrder` says which locals are set at
  which place).
* All that follows rests on it. Every action that closes or switches a chat is
  itself a workflow, so none runs beside a run: `RunChat` (the chat of a run is
  open, and retention deletes only archived ones), `ReplyInItsChat`, and
  `Compressing` (while a compression waits for the model, the transcript has as
  many rows as were read).
* `OpenUnique`: the index rejects an INSERT beside an open chat, and a new or activated
  one archives the others in one transaction. `LookUpHolds`: what a task inside the
  gate has found is still the open chat when it uses it; outside it may be out of date.
* The lemmas `SelectedIsOpen`, `EnsuredEffect`, `FreshSessionEffect`, `ActivatedEffect` and
  `RemovedEffect` say what each store operation leaves behind; the steps of the
  invariant use these and not the definitions.
* `TypeCorrect`, `GateExcludes`, `ChatsStaySound` and its four parts
  `RunKeepsItsChat`, `ReplyKeepsItsChat`, `CompressionIsSafe`, `OpenChatIsUnique`
  are consequences of `IInv`.
* `GateIsHonest` (`BusyOnlyWhileRunning`) assumes `BadTargets = {}`: no compress event
  carries a session id <= 0. With one, `chat_busy` shows that it is false.

`SchedulerProofs`: `IInv` adds to the types that every row *and every stale copy* is
`Runnable` (a copy may be written back at any time), that an operation's copy has a
status the operation accepts, and that the stamps on a poller's list stay due.

* `ActiveIsRunnable` and `PollIsTimely` hold with all operations, any number of
  pollers, crashes and runs of any length.
* `GuardsKeepStopped` (`StoppedStaysStopped`) is proved for clients that do not call
  `run_now` on a paused or early task. The assumption is necessary: `run_now`
  writes its row without the guard (section 7).
* `ClaimsExclude` (`ClaimHolderRunsAlone`) is proved for clients that neither resume
  nor force a task, and for runs and lists of any length: two runs of a task meet
  only if one of them outlived the claim it runs under. The strengthening `Owned`
  says that a run that has not holds the claim in the row of an active task, that
  nobody takes this claim for stale (not even a poller with an old "now"), and that
  no pending task is being run; `OldIsStale` relates the times of several pollers.
  The code does *not* guarantee that a claim is not outlived, even by a short run:
  the claims of a tick carry the time of its list (section 7). Without the
  assumption on resume: `sched_exclusive`.
* `OnceTasksRunOnce` (`OnceRunsOnce`), under the same assumption and with the same
  exception: the run of a once task, and every list or copy that could start it
  again, is traced to the row, which a completion makes final.

`TurnProofs` (first: what concatenation, the pairing of calls with results,
normalisation and compression do to a transcript that is valid, or that has a batch
open at its end): one invariant `TurnInv` with seven parts. `BatchInv` says that the
transcript in memory is a valid one followed by a batch of which the first results
are in; `ContextInv`, that outside a batch it is valid and still holds the request;
`StoreInv`, that the stored rows are as good as that unless rows were lost;
`AnswerInv`, that each turn has one answer and the current none yet; `CostInv` counts
model calls against iterations by place.

* `ContextStaysValid`, `TurnStaysSound` and `TurnStaysTyped` follow, for any number of
  turns, calls, retries, aborts and lost rows, chat and workflow.
* They assume `~FillPlanBatched`: `apply_fill_plan` next to other calls puts its nudge
  between the results of the batch (`loop.py:1698`, section 7).

`ChannelsProofs`: one invariant per part of `MCChannels`, composed at the end over the
part in focus.

* `StopsAreClean`: by stage of `stop()`, what is left of runs, sockets and services.
  `BotStaysSound`: the gate is held by the handlers that work on it, a handler
  about to save the form has read its row as it is, `seen` is the tail of all engaged
  updates, and a bot that does not poll has a reconnect under way or has given up.
* `SignInStaysSound`: a lockout that began is in the record until it ends (the pruning
  takes no record that could still count); a token still there was never accepted; the
  merge has moved, or still has to move, each item exactly once; whoever was removed
  was removed after the import.
* `PromptsStaySound`: of each call, where it is and what was said to it; of each tab,
  which of the open prompts it shows or is still to be told.
* `NoticesStaySound`: rows, steps of notices and what each tab shows or has fetched.
* `UserFilesStaySafe` (`FilesInv`, `BrowserInv`): of each request, what its look has
  promised and still holds unless `crossed` is set; every entry has the folders that
  lead to it, so that a move carries a whole subtree and loses none of it; protected
  entries are never the source, the target or below one. Of the /delete dialog: in
  calm use the entries on the screen are those the taps refer to.
* `BudgetStaysKept` (`BudgetInv`): a request in flight was checked against at least the
  room there is now, unless it met another or a run; replacing the tokens of one file
  changes a sum by the difference, which is proved from the sums of finite sets.

`ServicesProofs` with `ModelProofs`, likewise for `MCServices`:

* `ExtensionsStaySound` has three parts. Tool processes (`PipesInv`): answers of
  servers are matched by id; what a plugin's pipe holds is the exchange of the call
  that reads, or nothing, as long as no call was cancelled while it read. Servers
  (`ServersInv`): while reloads do not overlap, the tools noted for a server are those
  registered for its client, or for the one about to be closed, and clients are not
  shared. Watchers (`WatchInv`): a time on disk never comes back, so a watcher that
  noted a file's time has loaded that version or, if it was primed, found it
  registered.
* `SandboxStaysCurrent`: a request is let in only after the container from before the
  start is gone, and numbers tell the old from the new.
* `CalibrationKeepsBest`: at each place of the climb, which of tree and backup is the
  best one.
* `DelegationStaysSound` (`ResearchInv`): only usable pages are stored, so no limit
  grows; the mode only goes up, and limits do not shrink with it; a fetch under way has
  room for the page it will store, and the facts are of stored pages, so that the
  report of a run cut off anywhere can name them all.
* `MemoryStaysSound` (`MemoryInv`): the index holds stored entries only, so that equal
  counts mean the same entries, and a count taken with no store beside it is still
  true when it is compared; a store of an entry nobody else wrote meanwhile has read
  it as it is, and a union cut at its limit keeps what was read. That equal counts do
  not mean equal cues came out of the proof: an exact cue is then found only among the
  rows that are scanned (`ScanLimit`). The model, hence the theorem, is without
  `clear_facts`, which only the
  evaluation and the calibration call (section 7).

* `JournalStaysKept` (`JournalInv`), an action property: what a run knows of a file is
  what it last read or wrote, and the copy a change set holds is the content its
  writer found, so that a write on anything else was announced and an undo of the
  only call puts that content back. It speaks of calls that write the file they track;
  for the others it is false (section 7, file journal).
* `CacheStaysKept` (`CacheInv`), an action property: slots, cache files and the table
  of what is tracked agree as to conversation and epoch at every place of the call
  bracket and of the reset. It assumes `~ResetWhileBusy`, resets of a user between
  his calls, as the web's /new has it, which takes his gate; a reset during a call
  brings the old conversation back (section 7, LLM calls).
* `ModelCallsStaySound` assumes `Queued`: without the queue a headless run closes a
  shared provider (section 7). It has two parts. Routes (`RoutingInv`): every provider is a
  route of the process, belongs to one run, or is in `adrift`, and is closed only when
  its run is over; the providers a run builds are counted by the places of the routes
  it replaces.
  Streams (`StreamInv`): what is assembled is a function of the answer and of how much
  of each block was sent, the pieces joined in the order of the blocks
  (`FlattenAppends` of `SeqLemmas`: what is added to the last block that said anything
  is added to the whole). It holds because Anthropic sends block after block and an
  OpenAI message has one content and one reasoning (`ModelStreamAssumption`); with the
  calls it may mix, each call keeps its own index.

* `ReportStaysRight` (`WorkbookInv`): until a sheet fails or a file is replaced, the
  book the next sheet starts from is the template as it was at the start, with the
  sheets before it filled. Filling a sheet twice changes nothing more, so a sheet
  that is named twice in the plan is right as well; what a source says of a label is
  the sum over its rows, however `Extract` groups them by key. `WorkbookAssumption`
  says what the code relies on: folding the spelling of a label twice is folding it
  once, sources hold numbers, and templates numbers, formulas, merged or empty cells.
* `ServicesStayTyped`: the invariants above hold most of the types; the rest of each
  (`PartInv`, the `...Rest` of each part) is what bounds its counters and what is only
  recorded. Two of them say more than a type: registries, reloads and calls know only
  clients that were made (`ServersRest`), and the slots, leases and files of the cache
  keep their shape also when a reset runs across a call (`CacheShape`), which
  `CacheStaysKept` excludes.

Facts by induction over numbers are proved from the least element of a set
(`LeastExists`, `ReachesAll`); that way `SeqLemmas` shows what `FlattenSeq` of the
community modules returns.

Only model-checked: `NoOvertaking`; the types of `MCChannels`. Out of the prover's
reach are liveness under fairness, `ENABLED`, and what rests on operators the provers
have no definition of (`SelectSeq`); the rows of a source that count are therefore a
set of places in `Workbook`, and the streamed answers are compared as wholes.

## 7. Observations

Met while modelling; each was read off the code, those marked (T) were also seen in
counterexamples of TLC to a property without its condition, in the instance of the
run or a larger one. Three have a run of their own (`chat_busy`, `sched_exclusive`,
`plan_nudge`) and are findings of `PROJECT.json`.

LLM calls

* A second `release` of one entry unlocks the slot of another request
  (`llm/queue.py:501`, against the docstring at :489) (T). No caller does it today.
* A user may end up with two sticky slots: `acquire` picks the slot before it waits.
  A cancellation that arrives while it waits for its notify task is suppressed
  (`llm/queue.py:361-364`); `semaphore_acquired` is never true in its handler.
* `get_position` assumes one waiting entry per user, which nothing enforces.
* `on_acquired` runs between `acquire` and the `try` that releases
  (`llm/router.py:1061`). `except Exception` at `router.py:1085` does not abort the
  cache lease on a cancellation, and the uncached retry has no abort (T).
* An eviction under way when a user resets writes the old conversation to its file
  after the reset (`llm/cache.py:563`, `:933`) (T).
* The providers' cache key omits the profile name. An override router leaks when the
  turn's context cannot be built after it (`agent/loop.py:1910`), and when the run is
  headless: its provider comes from the override, which nobody closes any more
  (`loop.py:1913`; the wrapper of the queue has no `aclose`). Today's headless callers
  give no depth mode (`scheduler/service.py:510`, `cli.py:780`), so the second leak is
  latent. `adrift` records both.
* With `llm.queue.enabled = False` the provider a headless run takes by
  `for_task("headless")` is the shared one itself: the `finally` of `run` closes it
  (`agent/loop.py:1863`, `:1913`, against the comment at :1860) and later calls of the
  process meet a closed client (T).
* `with_overrides` with neither a profile nor settings loses the profile of the route
  (`router.py:764-812` passes None), which its docstring says is kept (:676). With
  settings it takes the profile's whatever the model, without `_enforce_model_match`
  (`router.py:781`, against the docstring at :199) (T).
* A stream whose iterator ends early without an error passes for a whole answer: the
  finish reason is not looked at (`llm/openai.py:909-954`). The model takes the end of
  an iterator for the end of the answer.
* A streamed OpenAI call without arguments gives `{}`, the unstreamed one
  `{"__raw__": ""}` (`llm/openai.py:713`); a call without an id raises on one way
  and is dropped on the other; a stream that resumes in the same stage stays
  reported as stalled (`agent/loop.py:842`).

Agent

* `max_iterations` N allows N - 1 model calls, and a batch that uses up
  `max_tool_calls` exactly ends the run before the model can answer.
* apply_fill_plan in a batch puts its nudge between the results
  (`agent/loop.py:1698`), which the providers refuse; `context.py:135` says it does
  not happen (T). The in-memory fallback of the compression may drop the request.
* Siblings of a gathered call go on after a prompt that raised (`loop.py:2355`).
  Calls that were approved are not in the task journal and have the status "ok"
  whatever they returned (`loop.py:2536-2549`).
* Answers of the web come without a check that the prompt is still shown; its
  time-out sends the tabs nothing; a tab told of a prompt after another tab answered
  keeps it. On Telegram a tap between time-out and removal shows "Approved" for a
  denied call. Sub-agents have locks of their own, so two prompts of a user may be
  open.
* File journal: one copy is kept per run and path, so undo of a second change brings
  back the state before the first, or, after a read through the tracked wrapper
  (`excel_workbook` action "read"), the present one (T). `fill` and `fill_by_date`
  write `<stem>_filled.xlsx` or `output_path` while the source is tracked: what they
  write is not checked, copied, journaled or undone, against
  `extensions/tools/file_tracked.py:99`: a run replaces another run's result there
  without a warning (T). The default output of `convert_format` and
  `apply_fill_plan` is not tracked either. Undo looks at the gate once; of two undos the second may overwrite newer content. `gc_old_finalized` and
  `prune_run` have no caller.
* Delegation: the dynamic budget never grows, as `web_fetch` reports non-2xx as an
  error; failed fetches cost nothing; the report of a timed-out run uses the mode it
  was dispatched with; `submit_report` has no grounding check, nor has an empty last
  answer, which becomes the skeleton in deep mode too (`research.py:807`); `state.json` keeps the
  status "running".
* Workbook: labels that differ in case only: the last value is kept
  (`excel_workbook.py:842`); `expected_sig` is compared after the fill wrote the
  file, so a fill in place always warns; a stale-file warning in front of SUCCESS
  hides it from the nudge.
* Calibration: a rollback without a backup, when the directory did not exist, leaves
  the rejected files (`calibration/editor.py:171`, against :69) (T); a proposal whose
  settings cannot be loaded ends the loop without rollback; a crash during a
  rollback leaves a partial tree that the next backup takes for the good one.

Web channel

* The open chat is looked up outside of the transaction that creates it: of two
  requests that find none, the second is rejected by the unique index although the
  chat it wants is open by then (`chat_store.py:286`, against the docstring at :281)
  (T); the callers treat it like any failure of the store.
* The badge of a busy chat names the chat looked up before the gate is taken
  (`orchestrator.py:2862`) (T). `attach` checks the gate and adds the item after the
  file was read; it may miss the message being composed and waits for the next.
* Two requests to pin, or to attach, that overlap may together exceed the budget they
  were checked against (T); a truncated file takes the fixed portion, not what is
  left (`orchestrator.py:1438`).
* Files (T): two requests that look before either acts may overwrite one another's
  result; the failure of a copy removes whatever is at its destination, also what
  another request made (`files.py:321-331`); an upload that breaks off leaves half a
  file; a folder copied into its own subfolder is not refused.
* A tab that read the page before a notice and shows it after loses the notice until
  the next load (T); a reply of a headless run is pushed without its row id, so a
  tab that loaded it already shows it twice. Notices of the memory worker are
  stored nowhere.
* Stop: requests accepted between the cancelling and the clean-up of the runner are
  never cancelled and may start a container after the others went (T); background
  tasks, a scheduled run among them, are cancelled but not awaited; a forced exit
  leaves containers and servers.
* Sign-in: counts are kept in memory; a success from any address clears the count of
  the user name. Accounts: linking changes the password without ending sessions;
  a login between check and session survives a rotation; a rotation between the
  reads and writes of a merge is undone; what the source account stores between the
  merge of its files and chats and its disabling (`users/manager.py:574-616`) stays
  behind with it (not in the model); `seed_whitelist` adds removed ids again at
  each start of the bot.

Telegram

* After `network_max_retries` failures the reconnect handler raises in a task nobody
  awaits, so the bot stays up and hears nobody until it is restarted by hand, while
  its docstring says "then raise to crash the process for supervisor restart"
  (`channel.py:337-363`) (T). The counter of conflicts is not reset by its handler
  while polling goes on.
* If polling is down when the bot stops, `updater.stop()` raises and the application
  is neither stopped nor shut down (`channel.py:430-434`): messages under way lose
  their servers and containers (T). The reconnect handler is not cancelled by stop
  and may resume polling in its middle.
* The gate leaks on errors of `ensure_running` other than its own, on cancellation,
  and when the status message or the log fails. Two first messages of a new user race
  in `create_user`. The text that stands for an upload counts as an onboarding
  answer. `/new` takes no gate.
* /delete (T): two keyboards or two taps share one `selected_target`; the
  confirmation deletes what was selected last (`file_manager.py:582`, :638). Photos
  of one second get one name (`channel.py:779`).

Scheduler

* A task late in a list of the poll loop is claimed with the time of the list, up to
  100 minutes earlier; a `run_now` beside its run claims it again, and a once task
  completes twice (`service.py:128`, :472, against `store.py:417`) (T).
* `run_now` writes its row without the guard and may make a dismissed task active
  (`service.py:441`, CHANGELOG.md:131) (T); `resume` does not look at
  `max_tasks_per_user` (`service.py:400`, settings.py:469) (T).
* The read in `pause` and its write may bring back a claim that was completed in
  between; the task then waits until the claim is stale. The checks of
  `insert_pending_if_allowed` are not in one transaction with its INSERT. A crash
  between a run and its completion runs the task again: at least once.

Memory, extensions, containers

* Two stores of one abstraction that overlap lose a cue (T). A store of more than 16
  cues, or into an entry that has as many, is acknowledged whole (`memory.py:118`) and
  cut (`sqlite.py:62`). An answer of the recall is cut at its limit; after a failure of
  the index whose counts happen to be equal, cues may be found only among the first
  500 rows (`sqlite.py:500`) (T); a failed `clear_facts`
  leaves index rows that may make the counts equal, so nothing is healed (T); a
  partial rebuild is committed. The curator's command takes no gate. Users whose runs
  are skipped or fail keep their place in the order of a tick, before the others.
* A plugin call cancelled while it reads leaves its answer for the next call
  (`sandbox_proxy.py:151`) (T). Plugin tools are wrapped, so no `isinstance(tool,
  PluginToolProxy)` holds: their processes are killed neither on reload nor on stop.
  The first line of a chunk is taken and the rest is dropped.
* A reload by the button beside one of the poll loop leaves a client nobody knows, and
  tools that are never unregistered (T); a reload that fails is not tried again. A
  server that dies is not started again before the file changes.
* A skill is unregistered by the stem of its file, not by its id; a document edited
  between bootstrap and priming is not loaded before its next edit (T).
* `_existing_matches_policy` compares image, strict capabilities and network
  (`container/manager.py:129-155`): a container with other memory, seccomp profile or
  binds is reused.
* `IPCToolProxy` looks for the user in the arguments, `ToolRegistry` puts him into a
  context variable: sandboxed calls are refused. The `prune` command removes
  containers in use for more than ten minutes (`cli.py:1289-1296`).

## 8. What is left

Not modelled, and why: wiring and configuration (constants of the models); the
selection of prompts and tools, departments and permissions (pure look-ups of what
was read at start); document, network and script tools, vision, logging, feedback
(I/O, or a single upsert with nothing to interleave with); validation of paths and
scrubbing of credentials (string algorithms without state); the evaluation harness
(sequential, offline); the command line (its commands are clients of the modelled
stores); the browser front end (its events are the inputs of `WebChat`, `Notices`
and `WebFiles`).

Partly modelled, with what is missing in `PROJECT.json`: the REST handlers of
schedules, the profile file of the memory curator and the order of its users,
brief and formats of workbooks, feedback buttons, the reset of a calibration.

Worth proving next: `NoOvertaking` of the queue; the types of `MCChannels`, of which
the invariants of the proofs hold most. Worth modelling next: the
curator's profile file with its backup, and the schedule consent on Telegram.

----------------------------- MODULE BotProcess -----------------------------
(***************************************************************************)
(* The process of the Telegram bot: start() brings the services up, one    *)
(* after the other, any of which may raise; polling breaks and is resumed  *)
(* by one handler at a time, up to a limit; and stop() takes the           *)
(* connection to Telegram down before the servers and containers.          *)
(***************************************************************************)
EXTENDS Integers, World

CONSTANTS Incoming,         \* messages of users
          InitMaxRetries,
          NetworkMaxRetries,
          ConflictMaxRetries

ASSUME BotProcessAssumption ==
    /\ InitMaxRetries \in Nat \ {0}
    /\ {NetworkMaxRetries, ConflictMaxRetries} \subseteq Int
    /\ None \notin {"going", "over"}
    /\ None \notin [kind : {"network", "conflict"}, step : {"begin", "wait", "resume"}]

VARIABLES botStage,   \* the next step of start() or stop()
          attempt,    \* attempts at initialize() that failed
          botTasks,   \* tasks that run on their own
          application, \* the library's: absent, built, ready, running, halted, down
          polling,    \* its updater is running
          reconnect,  \* _polling_error_task: its kind and step, or None
          netErrors, conflicts, \* _polling_network_error_count, .._conflict_count
          incoming,   \* the messages: None, going, over
          botServers, botBoxes, \* MCP servers connected, a container runs
          lost,       \* history: a handler gave up on the network
          skipped     \* history: stop() left the application running
botVars == <<botStage, attempt, botTasks, application, polling, reconnect, netErrors,
             conflicts, incoming, botServers, botBoxes, lost, skipped>>
coreVars == <<application, polling, reconnect, netErrors, conflicts, lost>>

BotStarting == {"mcp", "watchers", "initialize", "commands", "polling", "tasks"}
BotStopping == {"tasks_down", "updater_down", "app_down", "mcp_down", "boxes_down", "clients_down"}

BotInit ==
    /\ botStage = "mcp" /\ attempt = 0 /\ botTasks = {}
    /\ application = "absent" /\ polling = FALSE /\ reconnect = None
    /\ netErrors = 0 /\ conflicts = 0 /\ incoming = [m \in Incoming |-> None]
    /\ botServers = FALSE /\ botBoxes = FALSE /\ lost = FALSE /\ skipped = FALSE

----------------------------------------------------------------------------
(* start() *)

\* A failure is logged and the bot goes on without.
ConnectBotServers ==
    /\ botStage = "mcp" /\ botStage' = "watchers" /\ botServers' \in BOOLEAN
    /\ UNCHANGED <<attempt, botTasks, incoming, botBoxes, skipped, coreVars>>
\* The health endpoint and the reloaders.
StartBotWatchers ==
    /\ botStage = "watchers" /\ botStage' = "initialize"
    /\ botTasks' = botTasks \cup {"health", "reloaders"} /\ application' = "built"
    /\ UNCHANGED <<attempt, polling, reconnect, netErrors, conflicts, incoming, botServers, botBoxes, lost, skipped>>
Initialize ==
    /\ botStage = "initialize" /\ botStage' = "commands" /\ application' = "ready"
    /\ UNCHANGED <<attempt, botTasks, polling, reconnect, netErrors, conflicts, incoming, botServers, botBoxes, lost, skipped>>
\* The last attempt raises, and the process stops.
InitializeFails ==
    /\ botStage = "initialize" /\ attempt' = attempt + 1
    /\ botStage' = IF attempt' < InitMaxRetries THEN "initialize" ELSE "tasks_down"
    /\ UNCHANGED <<botTasks, incoming, botServers, botBoxes, skipped, coreVars>>
StartApplication ==
    /\ botStage = "commands" /\ botStage' = "polling" /\ application' = "running"
    /\ UNCHANGED <<attempt, botTasks, polling, reconnect, netErrors, conflicts, incoming, botServers, botBoxes, lost, skipped>>
BeginPolling ==
    /\ botStage = "polling" /\ botStage' = "tasks" /\ polling' = TRUE
    /\ UNCHANGED <<attempt, botTasks, application, reconnect, netErrors, conflicts, incoming, botServers, botBoxes, lost, skipped>>
StartBotTasks ==
    /\ botStage = "tasks" /\ botStage' = "up"
    /\ botTasks' = botTasks \cup {"cleanup", "queue_notify", "prune"}
    /\ UNCHANGED <<attempt, incoming, botServers, botBoxes, skipped, coreVars>>
\* A signal, or a start() that raises or is cancelled: stop() in any case.
ShutBot ==
    /\ botStage \in BotStarting \cup {"up"} /\ botStage' = "tasks_down"
    /\ UNCHANGED <<attempt, botTasks, incoming, botServers, botBoxes, skipped, coreVars>>

----------------------------------------------------------------------------
(* Polling.  The library retries by itself; its callback is told each error. *)

\* One handler at a time.
PollingError(kind) ==
    /\ polling /\ botStage \notin {"stopped", "forced"} /\ reconnect = None
    /\ reconnect' = [kind |-> kind, step |-> "begin"]
    /\ UNCHANGED <<botStage, attempt, botTasks, application, polling, netErrors, conflicts, incoming, botServers, botBoxes, lost, skipped>>
\* The handler counts the error, and then waits; beyond the limit it raises,
\* which ends the task and nothing else.
CountNetworkError ==
    /\ reconnect = [kind |-> "network", step |-> "begin"]
    /\ netErrors' = IF netErrors > NetworkMaxRetries THEN netErrors ELSE netErrors + 1
    /\ IF netErrors' > NetworkMaxRetries THEN reconnect' = None /\ lost' = TRUE
       ELSE reconnect' = [reconnect EXCEPT !.step = "wait"] /\ UNCHANGED lost
    /\ UNCHANGED <<botStage, attempt, botTasks, application, polling, conflicts, incoming, botServers, botBoxes, skipped>>
CountConflict ==
    /\ reconnect = [kind |-> "conflict", step |-> "begin"]
    /\ conflicts' = IF conflicts > ConflictMaxRetries THEN conflicts ELSE conflicts + 1
    /\ reconnect' = IF conflicts' > ConflictMaxRetries THEN None ELSE [reconnect EXCEPT !.step = "wait"]
    /\ UNCHANGED <<botStage, attempt, botTasks, application, polling, netErrors, incoming, botServers, botBoxes, lost, skipped>>
StopPolling ==
    /\ reconnect = [kind |-> "network", step |-> "wait"]
    /\ polling' = FALSE /\ reconnect' = [reconnect EXCEPT !.step = "resume"]
    /\ UNCHANGED <<botStage, attempt, botTasks, application, netErrors, conflicts, incoming, botServers, botBoxes, lost, skipped>>
\* start_polling() refuses an updater that runs or was shut down.
Resumable == ~polling /\ application # "down"
Resuming == reconnect \in {[kind |-> "network", step |-> "resume"], [kind |-> "conflict", step |-> "wait"]}
Resume ==
    /\ Resuming /\ Resumable /\ polling' = TRUE /\ reconnect' = None
    /\ IF reconnect.kind = "network" THEN netErrors' = 0 /\ UNCHANGED conflicts
       ELSE conflicts' = 0 /\ UNCHANGED netErrors
    /\ UNCHANGED <<botStage, attempt, botTasks, application, incoming, botServers, botBoxes, lost, skipped>>
NetworkRetry == IF netErrors <= NetworkMaxRetries THEN [kind |-> "network", step |-> "begin"] ELSE None
\* A failed network handler starts the next one, a failed conflict handler none.
ResumeFails ==
    /\ Resuming
    /\ reconnect' = IF reconnect.kind = "network" THEN NetworkRetry ELSE None
    /\ UNCHANGED <<botStage, attempt, botTasks, application, polling, netErrors, conflicts, incoming, botServers, botBoxes, lost, skipped>>

----------------------------------------------------------------------------
(* Messages *)

Receive(m) ==
    /\ polling /\ application = "running" /\ incoming[m] = None
    /\ botStage \notin {"stopped", "forced"}
    /\ incoming' = [incoming EXCEPT ![m] = "going"]
    /\ UNCHANGED <<botStage, attempt, botTasks, botServers, botBoxes, skipped, coreVars>>
Dispatch(m) ==
    /\ incoming[m] = "going" /\ botStage \notin {"stopped", "forced"} /\ botBoxes' = TRUE
    /\ UNCHANGED <<botStage, attempt, botTasks, incoming, botServers, skipped, coreVars>>
MessageDone(m) ==
    /\ incoming[m] = "going" /\ incoming' = [incoming EXCEPT ![m] = "over"]
    /\ UNCHANGED <<botStage, attempt, botTasks, botServers, botBoxes, skipped, coreVars>>
PruneBoxes ==
    /\ "prune" \in botTasks /\ botBoxes /\ botBoxes' = FALSE
    /\ UNCHANGED <<botStage, attempt, botTasks, incoming, botServers, skipped, coreVars>>

----------------------------------------------------------------------------
(* stop() *)

StopBotTasks ==
    /\ botStage = "tasks_down" /\ botTasks' = {}
    /\ botStage' = IF application = "absent" THEN "mcp_down" ELSE "updater_down"
    /\ UNCHANGED <<attempt, incoming, botServers, botBoxes, skipped, coreVars>>
\* The updater refuses to stop when it is not running, and the exception skips
\* the rest of the channel's stop().
StopUpdater ==
    /\ botStage = "updater_down"
    /\ IF polling THEN polling' = FALSE /\ botStage' = "app_down" /\ UNCHANGED skipped
       ELSE skipped' = (application = "running") /\ botStage' = "mcp_down" /\ UNCHANGED polling
    /\ UNCHANGED <<attempt, botTasks, application, reconnect, netErrors, conflicts, incoming, botServers, botBoxes, lost>>
\* The application stops taking messages, and waits for those under way.
HaltApplication ==
    /\ botStage = "app_down" /\ application = "running" /\ application' = "halted"
    /\ UNCHANGED <<botStage, attempt, botTasks, polling, reconnect, netErrors, conflicts, incoming, botServers, botBoxes, lost, skipped>>
AllAnswered == \A m \in Incoming : incoming[m] # "going"
\* Its shutdown() raises when a handler has resumed the polling meanwhile.
CloseApplication ==
    /\ botStage = "app_down" /\ application = "halted" /\ AllAnswered
    /\ botStage' = "mcp_down" /\ application' = IF polling THEN "halted" ELSE "down"
    /\ UNCHANGED <<attempt, botTasks, polling, reconnect, netErrors, conflicts, incoming, botServers, botBoxes, lost, skipped>>
DisconnectBotServers ==
    /\ botStage = "mcp_down" /\ botStage' = "boxes_down" /\ botServers' = FALSE
    /\ UNCHANGED <<attempt, botTasks, incoming, botBoxes, skipped, coreVars>>
StopBotBoxes ==
    /\ botStage = "boxes_down" /\ botStage' = "clients_down" /\ botBoxes' = FALSE
    /\ UNCHANGED <<attempt, botTasks, incoming, botServers, skipped, coreVars>>
\* The clients of the providers and the plugin processes are awaited as well.
CloseBotClients ==
    /\ botStage = "clients_down" /\ botStage' = "stopped"
    /\ UNCHANGED <<attempt, botTasks, incoming, botServers, botBoxes, skipped, coreVars>>
\* stop() exceeds shutdown_timeout_seconds: the process exits as it is.
ForceBotExit ==
    /\ botStage \in BotStopping /\ botStage' = "forced"
    /\ botTasks' = {} /\ polling' = FALSE /\ reconnect' = None
    /\ incoming' = [m \in Incoming |-> IF incoming[m] = "going" THEN "over" ELSE incoming[m]]
    /\ UNCHANGED <<attempt, application, netErrors, conflicts, botServers, botBoxes, lost, skipped>>

BotNext ==
    \/ ConnectBotServers \/ StartBotWatchers \/ Initialize \/ InitializeFails
    \/ StartApplication \/ BeginPolling \/ StartBotTasks \/ ShutBot
    \/ \E kind \in {"network", "conflict"} : PollingError(kind)
    \/ CountNetworkError \/ CountConflict \/ StopPolling \/ Resume \/ ResumeFails
    \/ \E m \in Incoming : Receive(m) \/ Dispatch(m) \/ MessageDone(m)
    \/ PruneBoxes \/ StopBotTasks \/ StopUpdater \/ HaltApplication \/ CloseApplication
    \/ DisconnectBotServers \/ StopBotBoxes \/ CloseBotClients \/ ForceBotExit

----------------------------------------------------------------------------
\* The type of the state.
BotTypeOK ==
    /\ botStage \in BotStarting \cup BotStopping \cup {"up", "stopped", "forced"}
    /\ attempt \in 0 .. InitMaxRetries
    /\ application \in {"absent", "built", "ready", "running", "halted", "down"}
    /\ {polling, botServers, botBoxes, lost, skipped} \subseteq BOOLEAN
    /\ reconnect = None \/ reconnect \in [kind : {"network", "conflict"}, step : {"begin", "wait", "resume"}]
    /\ netErrors \in 0 .. NetworkMaxRetries + 1 /\ conflicts \in 0 .. ConflictMaxRetries + 1
    /\ incoming \in [Incoming -> {None, "going", "over"}]

\* While the bot is up, it hears its users or a network handler is on its way
\* to make it hear them, unless one has used up its attempts.
KeepsListening ==
    botStage = "up" /\ ~polling =>
        lost \/ (reconnect # None /\ reconnect.kind = "network")

\* Once the channel is closed in order no message is worked on, so a stop that
\* was neither forced nor cut short leaves no server or container behind.
BotStopIsClean ==
    /\ botStage \in {"mcp_down", "boxes_down", "clients_down", "stopped"} /\ ~skipped =>
         \A m \in Incoming : incoming[m] # "going"
    /\ botStage = "stopped" => botTasks = {} /\ ~botServers /\ (botBoxes => skipped)
=============================================================================

----------------------------- MODULE WebProcess -----------------------------
(***************************************************************************)
(* The process of the web channel from start() to stop(): services start   *)
(* in order and may fail, tabs connect and send while it is up and while   *)
(* it stops, and stop() ends the requests before it takes the servers,     *)
(* containers and clients they use away; it may run out of time anywhere.  *)
(***************************************************************************)
EXTENDS Naturals, FiniteSets, World

CONSTANTS Browsers,    \* tabs
          Requests,    \* messages that start a run
          Scheduled    \* runs of the scheduler

ASSUME WebProcessAssumption ==
    /\ Requests \cap Scheduled = {}
    /\ None \notin {"going", "ending", "over"}

VARIABLES stage,      \* the next step of start() or stop()
          background, \* tasks that run on their own
          listening,
          connected,  \* tabs with an open socket
          toClose,    \* the sockets stop() has found and not closed yet
          work,       \* each run: None before it, going, ending once cancelled, over
          awaited,    \* the requests stop() cancelled
          casts,      \* runs with a broadcast task pending
          servers, boxes, \* MCP servers connected, a container runs
          late        \* history: requests accepted after the others were cancelled
processVars == <<stage, background, listening, connected, toClose, work, awaited, casts, servers, boxes, late>>

Works == Requests \cup Scheduled
Starting == {"services", "mcp", "watchers", "runner"}
Stopping == {"background", "sockets", "requests", "broadcasts", "cleanup", "mcp_down", "boxes_down", "clients_down"}

ProcessInit ==
    /\ stage = "services" /\ background = {} /\ listening = FALSE
    /\ connected = {} /\ toClose = {}
    /\ work = [w \in Works |-> None] /\ awaited = {} /\ casts = {}
    /\ servers = FALSE /\ boxes = FALSE /\ late = {}

----------------------------------------------------------------------------
\* start(): the scheduler and the memory worker first.
StartServices ==
    /\ stage = "services" /\ stage' = "mcp"
    /\ background' = background \cup {"scheduler", "memory_worker"}
    /\ UNCHANGED <<listening, connected, toClose, work, awaited, casts, servers, boxes, late>>
\* A failure is logged and the channel goes on without.
ConnectServers ==
    /\ stage = "mcp" /\ stage' = "watchers" /\ servers' \in BOOLEAN
    /\ UNCHANGED <<background, listening, connected, toClose, work, awaited, casts, boxes, late>>
StartWatchers ==
    /\ stage = "watchers" /\ stage' = "runner" /\ background' = background \cup {"reloaders"}
    /\ UNCHANGED <<listening, connected, toClose, work, awaited, casts, servers, boxes, late>>
Listen ==
    /\ stage = "runner" /\ stage' = "up" /\ listening' = TRUE
    /\ background' = background \cup {"cleanup", "system_load", "prune"}
    /\ UNCHANGED <<connected, toClose, work, awaited, casts, servers, boxes, late>>
\* A signal, a start() that raises or is cancelled: stop() in any case.
Shut ==
    /\ stage \in Starting \cup {"up"} /\ stage' = "background"
    /\ UNCHANGED <<background, listening, connected, toClose, work, awaited, casts, servers, boxes, late>>

----------------------------------------------------------------------------
\* What goes on meanwhile.  stop() looks up the sockets of one user after the
\* other, so a tab that opens while it closes them may be closed as well.
OpenSocket(b) ==
    /\ listening /\ b \notin connected /\ connected' = connected \cup {b}
    /\ toClose' \in {toClose} \cup {toClose \cup {b} : s \in {stage} \cap {"sockets"}}
    /\ UNCHANGED <<stage, background, listening, work, awaited, casts, servers, boxes, late>>
LeaveSocket(b) ==
    /\ b \in connected /\ connected' = connected \ {b} /\ toClose' = toClose \ {b}
    /\ UNCHANGED <<stage, background, listening, work, awaited, casts, servers, boxes, late>>
SendRequest(b, r) ==
    /\ b \in connected /\ work[r] = None
    /\ work' = [work EXCEPT ![r] = "going"]
    /\ late' = IF stage \in Stopping \ {"background", "sockets"} THEN late \cup {r} ELSE late
    /\ UNCHANGED <<stage, background, listening, connected, toClose, awaited, casts, servers, boxes>>
RunDue(t) ==
    /\ "scheduler" \in background /\ work[t] = None
    /\ \A u \in Scheduled : work[u] # "going"
    /\ work' = [work EXCEPT ![t] = "going"]
    /\ UNCHANGED <<stage, background, listening, connected, toClose, awaited, casts, servers, boxes, late>>
StartBox(w) ==
    /\ stage # "stopped" /\ work[w] = "going" /\ boxes' = TRUE
    /\ UNCHANGED <<stage, background, listening, connected, toClose, work, awaited, casts, servers, late>>
Broadcast(w) ==
    /\ stage # "stopped" /\ work[w] \in {"going", "ending"} /\ w \notin casts /\ casts' = casts \cup {w}
    /\ UNCHANGED <<stage, background, listening, connected, toClose, work, awaited, servers, boxes, late>>
BroadcastEnds(w) ==
    /\ w \in casts /\ casts' = casts \ {w}
    /\ UNCHANGED <<stage, background, listening, connected, toClose, work, awaited, servers, boxes, late>>
EndWork(w) ==
    /\ work[w] \in {"going", "ending"} /\ work' = [work EXCEPT ![w] = "over"]
    /\ UNCHANGED <<stage, background, listening, connected, toClose, awaited, casts, servers, boxes, late>>
Reap ==
    /\ "prune" \in background /\ boxes /\ boxes' = FALSE
    /\ UNCHANGED <<stage, background, listening, connected, toClose, work, awaited, casts, servers, late>>

----------------------------------------------------------------------------
\* stop(): the background tasks are cancelled, and not awaited.
StopBackground ==
    /\ stage = "background" /\ stage' = "sockets"
    /\ background' = {} /\ toClose' = connected
    /\ work' = [w \in Works |-> IF w \in Scheduled /\ work[w] = "going" THEN "ending" ELSE work[w]]
    /\ UNCHANGED <<listening, connected, awaited, casts, servers, boxes, late>>
CloseSocket(b) ==
    /\ stage = "sockets" /\ b \in toClose
    /\ toClose' = toClose \ {b} /\ connected' = connected \ {b}
    /\ UNCHANGED <<stage, background, listening, work, awaited, casts, servers, boxes, late>>
CancelRequests ==
    /\ stage = "sockets" /\ toClose = {} /\ stage' = "requests"
    /\ awaited' = {r \in Requests : work[r] = "going"}
    /\ work' = [w \in Works |-> IF w \in awaited' THEN "ending" ELSE work[w]]
    /\ UNCHANGED <<background, listening, connected, toClose, casts, servers, boxes, late>>
\* A bug: the cancelled requests are not awaited.
AllEndedUnchecked == TRUE
AllEnded == \A r \in awaited : work[r] = "over"
AwaitRequests ==
    /\ stage = "requests" /\ AllEnded /\ stage' = "broadcasts"
    /\ UNCHANGED <<background, listening, connected, toClose, work, awaited, casts, servers, boxes, late>>
EndBroadcasts ==
    /\ stage = "broadcasts" /\ stage' = "cleanup" /\ casts' = {}
    /\ UNCHANGED <<background, listening, connected, toClose, work, awaited, servers, boxes, late>>
\* AppRunner.cleanup ends the handlers of the sockets, not the requests.
CleanUpRunner ==
    /\ stage = "cleanup" /\ stage' = "mcp_down"
    /\ listening' = FALSE /\ connected' = {}
    /\ UNCHANGED <<background, toClose, work, awaited, casts, servers, boxes, late>>
DisconnectServers ==
    /\ stage = "mcp_down" /\ stage' = "boxes_down" /\ servers' = FALSE
    /\ UNCHANGED <<background, listening, connected, toClose, work, awaited, casts, boxes, late>>
StopBoxes ==
    /\ stage = "boxes_down" /\ stage' = "clients_down" /\ boxes' = FALSE
    /\ UNCHANGED <<background, listening, connected, toClose, work, awaited, casts, servers, late>>
\* The clients of the providers and the plugin processes are awaited as well.
CloseClients ==
    /\ stage = "clients_down" /\ stage' = "stopped"
    /\ UNCHANGED <<background, listening, connected, toClose, work, awaited, casts, servers, boxes, late>>
\* stop() exceeds shutdown_timeout_seconds: the process exits as it is.
ForceExit ==
    /\ stage \in Stopping /\ stage' = "forced"
    /\ background' = {} /\ listening' = FALSE /\ connected' = {} /\ toClose' = {} /\ casts' = {}
    /\ work' = [w \in Works |-> IF work[w] = None THEN None ELSE "over"]
    /\ UNCHANGED <<awaited, servers, boxes, late>>

ProcessNext ==
    \/ StartServices \/ ConnectServers \/ StartWatchers \/ Listen \/ Shut \/ Reap
    \/ StopBackground \/ CancelRequests \/ AwaitRequests \/ EndBroadcasts
    \/ CleanUpRunner \/ DisconnectServers \/ StopBoxes \/ CloseClients \/ ForceExit
    \/ \E b \in Browsers : OpenSocket(b) \/ LeaveSocket(b) \/ CloseSocket(b)
    \/ \E b \in Browsers, r \in Requests : SendRequest(b, r)
    \/ \E t \in Scheduled : RunDue(t)
    \/ \E w \in Works : StartBox(w) \/ Broadcast(w) \/ BroadcastEnds(w) \/ EndWork(w)

----------------------------------------------------------------------------
\* The type of the state.
ProcessTypeOK ==
    /\ stage \in Starting \cup Stopping \cup {"up", "stopped", "forced"}
    /\ work \in [Works -> {None, "going", "ending", "over"}]
    /\ {listening, servers, boxes} \subseteq BOOLEAN
    /\ connected \subseteq Browsers /\ toClose \subseteq Browsers
    /\ awaited \subseteq Requests /\ casts \subseteq Works /\ late \subseteq Requests

\* Servers and containers are taken away only when every request that was
\* accepted before the cancelling is over and no scheduled run goes on; and a
\* stop that was not forced leaves no task, socket, server or container
\* behind, but for what a request accepted too late holds.
StopIsClean ==
    /\ stage \in {"mcp_down", "boxes_down", "clients_down", "stopped"} =>
         /\ \A r \in Requests \ late : work[r] \in {None, "over"}
         /\ \A t \in Scheduled : work[t] # "going"
    /\ stage = "stopped" =>
         /\ background = {} /\ ~listening /\ connected = {} /\ ~servers
         /\ boxes => late # {}
============================================================================

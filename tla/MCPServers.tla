----------------------------- MODULE MCPServers -----------------------------
(***************************************************************************)
(* MCPManager and MCPHotReloader: the servers of mcp_servers.yaml are      *)
(* started, their tools registered, and after an edit of the file every    *)
(* server is disconnected and connected again.  The poll loop and the      *)
(* reload button of the web page may do so at once, and a stop may fall    *)
(* into the middle.                                                        *)
(***************************************************************************)
EXTENDS Naturals, Sequences, SequencesExt, FiniteSets, Functions, World

CONSTANTS Servers,
          ToolsOf,                  \* [Servers -> SUBSET tool names]
          MaxConfigs, MaxClients    \* bounds: edits of the file, clients made

ASSUME MCPServersAssumption ==
    /\ MaxConfigs \in Nat \ {0} /\ MaxClients \in Nat
    /\ IsFiniteSet(Servers) /\ Cardinality(Servers) <= MaxClients
    /\ DOMAIN ToolsOf = Servers /\ None \notin Nat

VARIABLES config,     \* the servers the file names, None when it cannot be parsed; its mtime is version
          version,
          lastSeen,   \* _last_mtime
          clients,    \* _clients: server -> client
          serverTools,      \* _server_tools
          registry,   \* tool name -> client of its adapter
          running,    \* clients whose process runs
          reload,     \* what the poll loop and the button are at
          made,       \* clients made so far
          overlap,    \* history: two reloads at once, or a stop in the middle of one
          halted
mcpVars == <<config, version, lastSeen, clients, serverTools, registry, running, reload, made, overlap, halted>>

Reloaders == {"poll", "button"}
NoReload == [pc |-> "idle"]
MCPTools == UNION Range(ToolsOf)

\* registry.register(allow_replace=False): a name that is taken is skipped.
TakenBy(reg, s) == {t \in ToolsOf[s] : reg[t] = None}
WithTools(reg, s, k) == [t \in MCPTools |-> IF t \in TakenBy(reg, s) THEN k ELSE reg[t]]

\* connect_all, one server after another in the order of the file; a server
\* may not start.
MCPInit ==
    \E up \in SUBSET Servers, order \in SetToSeqs(Servers) :
        LET Before(s) == {order[i] : i \in 1..(CHOOSE n \in 1..Len(order) : order[n] = s)} \ {s}
            First(t) == {s \in up : t \in ToolsOf[s] /\ \A r \in Before(s) \cap up : t \notin ToolsOf[r]}
            Nth(s) == CHOOSE n \in 1..Len(order) : order[n] = s
        IN  /\ config = Servers /\ version = 1 /\ lastSeen = None
            /\ clients = [s \in Servers |-> IF s \in up THEN Nth(s) ELSE None]
            /\ serverTools = [s \in Servers |-> {t \in ToolsOf[s] : s \in First(t)}]
            /\ registry = [t \in MCPTools |-> IF First(t) = {} THEN None ELSE Nth(CHOOSE s \in First(t) : TRUE)]
            /\ running = {Nth(s) : s \in up}
            /\ reload = [r \in Reloaders |-> NoReload]
            /\ made = Cardinality(Servers) /\ overlap = FALSE /\ halted = FALSE

----------------------------------------------------------------------------
Connected == {s \in Servers : clients[s] # None}

EditConfig(some) ==
    /\ ~halted /\ version < MaxConfigs
    /\ config' = some /\ version' = version + 1
    /\ UNCHANGED <<lastSeen, clients, serverTools, registry, running, reload, made, overlap, halted>>

\* Removed servers first, then new ones, then all the others.
Turn(w) == IF w.remove # {} THEN w.remove ELSE IF w.add # {} THEN w.add ELSE w.again
Rest(w) == [w EXCEPT !.remove = @ \ {w.server}, !.add = @ \ {w.server}, !.again = @ \ {w.server},
                     !.pc = "next", !.server = None, !.client = None]
Goes(r, w) == reload' = [reload EXCEPT ![r] = IF Turn(w) = {} /\ w.pc = "next" THEN NoReload ELSE w]

\* _check: the first one only notes the time; a change is noted before the
\* reload has done anything about it.
CheckConfig(r) ==
    /\ ~halted /\ reload[r] = NoReload
    /\ lastSeen # version /\ lastSeen' = version
    /\ IF lastSeen = None \/ config = None THEN UNCHANGED <<reload, overlap>>
       ELSE /\ Goes(r, [pc |-> "next", remove |-> Connected \ config, add |-> config \ Connected,
                       again |-> config \cap Connected, server |-> None, client |-> None])
            /\ overlap' = (overlap \/ \E x \in Reloaders \ {r} : reload[x] # NoReload)
    /\ UNCHANGED <<config, version, clients, serverTools, registry, running, made, halted>>

\* The tools a server registered go, whoever holds their names now.
TakeTools(s) ==
    /\ registry' = [t \in MCPTools |-> IF t \in serverTools[s] THEN None ELSE registry[t]]
    /\ serverTools' = [serverTools EXCEPT ![s] = {}]

\* A removed server is done with; the others get a new client.
Replace(r, w) ==
    IF w.server \in w.remove
    THEN Goes(r, Rest(w)) /\ running' = running \ {w.client} /\ UNCHANGED made
    ELSE /\ made < MaxClients /\ made' = made + 1
         /\ running' = (running \ {w.client}) \cup {made'}
         /\ Goes(r, [w EXCEPT !.pc = "connecting", !.client = made'])

\* disconnect_server takes the client out of _clients and awaits its end; a
\* server without a client goes on at once.
BeginServer(r, s) ==
    LET w == [reload[r] EXCEPT !.server = s, !.client = clients[s]] IN
    /\ reload[r].pc = "next" /\ s \in Turn(reload[r])
    /\ clients' = [clients EXCEPT ![s] = None]
    /\ IF clients[s] = None THEN TakeTools(s) /\ Replace(r, w)
       ELSE Goes(r, [w EXCEPT !.pc = "closing"]) /\ UNCHANGED <<serverTools, registry, running, made>>
    /\ UNCHANGED <<config, version, lastSeen, overlap, halted>>
CloseServer(r) ==
    /\ reload[r].pc = "closing" /\ TakeTools(reload[r].server)
    /\ Replace(r, reload[r])
    /\ UNCHANGED <<config, version, lastSeen, clients, overlap, halted>>

\* _connect_server: handshake and tools/list have answered, or failed.
ConnectServer(r) ==
    LET w == reload[r] IN
    /\ w.pc = "connecting" /\ Goes(r, Rest(w))
    /\ clients' = [clients EXCEPT ![w.server] = w.client]
    /\ serverTools' = [serverTools EXCEPT ![w.server] = TakenBy(registry, w.server)]
    /\ registry' = WithTools(registry, w.server, w.client)
    /\ UNCHANGED <<config, version, lastSeen, running, made, overlap, halted>>
ConnectFails(r) ==
    LET w == reload[r] IN
    /\ w.pc = "connecting" /\ Goes(r, Rest(w))
    /\ running' = running \ {w.client}
    /\ UNCHANGED <<config, version, lastSeen, clients, serverTools, registry, made, overlap, halted>>

\* stop() of the channel: the poll loop is cancelled wherever it is, then
\* disconnect_all ends what _clients knows.
StopMCP ==
    /\ ~halted /\ halted' = TRUE
    /\ overlap' = (overlap \/ \E r \in Reloaders : reload[r] # NoReload)
    /\ reload' = [r \in Reloaders |-> NoReload]
    /\ running' = running \ (Range(clients) \cup {reload[r].client : r \in {x \in Reloaders : reload[x].pc = "closing"}})
    /\ clients' = [s \in Servers |-> None] /\ serverTools' = [s \in Servers |-> {}]
    /\ UNCHANGED <<config, version, lastSeen, registry, made>>

MCPNext ==
    \/ \E some \in {None} \cup SUBSET Servers : EditConfig(some)
    \/ \E r \in Reloaders : CheckConfig(r) \/ CloseServer(r) \/ ConnectServer(r) \/ ConnectFails(r)
    \/ \E r \in Reloaders, s \in Servers : BeginServer(r, s)
    \/ StopMCP

----------------------------------------------------------------------------
\* The type of the state.
MCPTypeOK ==
    /\ config \in {None} \cup SUBSET Servers /\ version \in 1..MaxConfigs /\ lastSeen \in {None} \cup 1..MaxConfigs
    /\ clients \in [Servers -> {None} \cup 1..MaxClients] /\ serverTools \in [Servers -> SUBSET MCPTools]
    /\ registry \in [MCPTools -> {None} \cup 1..MaxClients] /\ running \subseteq 1..MaxClients
    /\ \A r \in Reloaders : reload[r] = NoReload \/ reload[r].pc \in {"next", "closing", "connecting"}

\* While no reload overlapped another or was cut off, every tool that is
\* offered is one its server's present client serves, unless that client is
\* just being closed, and every process that runs belongs to a client that
\* is known or in the making.
InHand(pc) == {reload[r].client : r \in {x \in Reloaders : reload[x].pc = pc}}
ToolsAreServed ==
    ~overlap =>
        /\ ~halted => \A t \in MCPTools : registry[t] # None =>
             \/ registry[t] \in InHand("closing")
             \/ \E s \in Servers : clients[s] = registry[t] /\ t \in serverTools[s] /\ clients[s] \in running
        /\ running \subseteq Range(clients) \cup InHand("closing") \cup InHand("connecting")
        /\ halted => running = {}
============================================================================

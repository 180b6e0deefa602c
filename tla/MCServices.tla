----------------------------- MODULE MCServices -----------------------------
(***************************************************************************)
(* The parts of the service behind the channels that share no variable,    *)
(* checked in one run as MCChannels does: a behaviour is one of the part   *)
(* in focus, every other part stays unstarted.  a and b are the two        *)
(* members of every set whose members are alike.                           *)
(***************************************************************************)
EXTENDS SlotCache, Routing, ModelStream, FileJournal, Delegation, Memory,
        ToolPipes, MCPServers, HotReload, Containers, Calibration, Workbook, TLC

CONSTANTS Parts,          \* the parts to check
          a, b, c,
          xa, xb, ua, ub, \* scopes and their users
          s1, s2          \* MCP servers

ASSUME PartsAssumption ==
    Parts \subseteq {"cache", "routing", "stream", "journal", "delegation", "memory", "pipes",
                     "servers", "reload", "boxes", "calibration", "workbook"}

VARIABLE focus            \* the part this behaviour is of

ServicesSymmetry == Permutations({a, b})

----------------------------------------------------------------------------
(* Constants *)

MCOwner == xa :> ua @@ xb :> ub

\* Three rules of one connection, one whose connection cannot be built and one
\* for a sub-agent on another.
Rule(task, sub, conn, model, sampling) ==
    [task |-> task, sub |-> sub, conn |-> conn, model |-> model, sampling |-> sampling]
MCRules == << Rule("default", None, "local", "m1", "p1"),
              Rule("vision", None, "local", "m1", "p1"),
              Rule("eval", None, "local", "m1", "p1"),
              Rule("compress", None, "gone", "m1", None),
              Rule(None, "research", "cloud", "m2", "p1") >>
MCProfiles == "p1" :> "m1" @@ "p2" :> "m2"

\* Answers with reasoning, several calls, broken and unlisted calls, calls in
\* the text, endless repetition and a stop at the length limit.
Say(p) == [kind |-> "text", pieces |-> p]
Think(p, s) == [kind |-> "thinking", pieces |-> p, signed |-> s]
Ask(id, t, p) == [kind |-> "call", id |-> id, tool |-> t, pieces |-> p]
Object == <<"{", "}">>
MCAnswers ==
    {[finish |-> f, blocks |-> k] : f \in {"stop", "length"}, k \in
       {<<Think(<<"a", "b">>, TRUE), Say(<<"c", "d">>)>>,
        <<Think(<<"a">>, TRUE), Say(<<"c">>), Ask("i1", "x", Object), Ask("i2", "y", Object)>>,
        <<Think(<<"a">>, FALSE), Ask("i1", "x", <<"{">>), Ask("i2", "x", Object)>>,
        <<Say(<<"<x", "x>", "<x", "x>">>)>>,
        <<Say(<<"<x", "x>", "<y", "y>">>)>>,
        <<Think(<<"a", "<x", "x>">>, TRUE)>>,
        <<Think(<<"a", "b">>, TRUE)>>,
        <<Ask("i1", "x", <<>>), Ask(None, "x", Object), Ask("i3", "x", <<"[", "]">>)>>,
        <<Ask("i1", "x", Object), Think(<<"a">>, TRUE), Ask("i2", "x", Object)>>}}

MCMaxSources == [research |-> 1, deep |-> 2]
MCMaxWaves == [research |-> 1, deep |-> 2]
MCMaxRereads == [research |-> 0, deep |-> 1]

MCWordsOf == [f \in Facts |-> {f, "w"}]

\* Both servers offer t2.
MCToolsOf == s1 :> {"t1", "t2"} @@ s2 :> {"t2"}

\* Two documents declare one name, the second in a file named otherwise.
MCNameOf == 1 :> "x" @@ 2 :> "x" @@ 3 :> "p"
MCStemOf == 1 :> "x" @@ 2 :> "y"

MCTenantOf == [q \in Requests |-> CHOOSE u \in Tenants : TRUE]

\* Two spellings of one label, one that only a later source has, a total row.
MCLabels == {"a", "A", "b", "total", "late"}
MCFold == [l \in MCLabels |-> IF l = "A" THEN "a" ELSE l]
MCRank == [l \in MCLabels |-> CASE l = "A" -> 1 [] l = "a" -> 2 [] l = "b" -> 3 [] l = "late" -> 4 [] OTHER -> 5]
MCMarkers == {"total"}
MCLate == {"late"}
MCSources == {<<>>, << <<"a", 1>>, <<"a", 2>>, <<"total", 3>> >>,
              << <<"A", 4>>, <<"b", 5>>, <<"late", 1>> >>}
MCTemplates == {<< <<"b", Merged>>, <<"A", EmptyCell>>, <<"a", EmptyCell>>, <<"total", Formula>> >>}
MCSheets == <<"s1", "s2">>

----------------------------------------------------------------------------
(* One part at a time *)

NoSlotCache ==
    /\ kv = None /\ tracked = None /\ files = None /\ fileRows = None
    /\ flagged = None /\ epoch = None /\ call = None /\ reset = None
    /\ stuck = None /\ interrupted = None
NoRouting ==
    /\ next = None /\ built = None /\ routes = None /\ default = None
    /\ override = None /\ owned = None /\ closed = None
    /\ headless = None /\ adrift = None
NoModelStream ==
    /\ dialect = None /\ answer = None /\ sent = None /\ parts = None
    /\ phase = None /\ response = None /\ shown = None /\ stage = None
    /\ stalls = None
NoFileJournal ==
    /\ onDisk = None /\ backups = None /\ rows = None /\ sets = None
    /\ reads = None /\ writer = None /\ knows = None /\ live = None
    /\ over = None /\ tool = None /\ undo = None /\ mixed = None
    /\ content = None /\ begun = None
NoDelegation ==
    /\ agent = None /\ wait = None /\ memo = None /\ page = None
    /\ fact = None /\ journal = None /\ outcome = None
NoMemory ==
    /\ row = None /\ index = None /\ indexing = None /\ healing = None
    /\ writing = None /\ curator = None /\ turn = None /\ given = None
    /\ held = None /\ raced = None /\ whole = None
NoToolPipes ==
    /\ proc = None /\ holders = None /\ calling = None /\ torn = None
    /\ notices = None /\ deaths = None
NoMCPServers ==
    /\ config = None /\ version = None /\ lastSeen = None /\ clients = None
    /\ serverTools = None /\ registry = None /\ running = None
    /\ reload = None /\ made = None /\ overlap = None /\ halted = None
NoHotReload ==
    /\ disk = None /\ entries = None /\ loadedAt = None /\ knownFiles = None
    /\ pluginName = None /\ look = None /\ lastLook = None /\ clock = None
    /\ primedAt = None /\ misnamed = None
NoContainers ==
    /\ box = None /\ boxes = None /\ used = None /\ recent = None
    /\ young = None /\ managed = None /\ req = None /\ sweep = None
NoCalibration ==
    /\ tree = None /\ backup = None /\ climb = None /\ bestTree = None
    /\ bare = None /\ proposals = None /\ crashes = None
NoWorkbook ==
    /\ book = None /\ source = None /\ plan = None /\ fill = None
    /\ fills = None /\ nudged = None

Init ==
    /\ focus \in Parts
    /\ IF focus = "cache" THEN CacheInit ELSE NoSlotCache
    /\ IF focus = "routing" THEN RoutingInit ELSE NoRouting
    /\ IF focus = "stream" THEN StreamInit ELSE NoModelStream
    /\ IF focus = "journal" THEN JournalInit ELSE NoFileJournal
    /\ IF focus = "delegation" THEN DelegationInit ELSE NoDelegation
    /\ IF focus = "memory" THEN MemoryInit ELSE NoMemory
    /\ IF focus = "pipes" THEN PipesInit ELSE NoToolPipes
    /\ IF focus = "servers" THEN MCPInit ELSE NoMCPServers
    /\ IF focus = "reload" THEN ReloadInit ELSE NoHotReload
    /\ IF focus = "boxes" THEN ContainersInit ELSE NoContainers
    /\ IF focus = "calibration" THEN CalibrationInit ELSE NoCalibration
    /\ IF focus = "workbook" THEN WorkbookInit ELSE NoWorkbook

\* A step of one part leaves the others alone.
Apart(part) ==
    /\ UNCHANGED focus
    /\ IF part = "cache" THEN TRUE ELSE UNCHANGED cacheVars
    /\ IF part = "routing" THEN TRUE ELSE UNCHANGED routingVars
    /\ IF part = "stream" THEN TRUE ELSE UNCHANGED streamVars
    /\ IF part = "journal" THEN TRUE ELSE UNCHANGED journalVars
    /\ IF part = "delegation" THEN TRUE ELSE UNCHANGED delegationVars
    /\ IF part = "memory" THEN TRUE ELSE UNCHANGED memoryVars
    /\ IF part = "pipes" THEN TRUE ELSE UNCHANGED pipeVars
    /\ IF part = "servers" THEN TRUE ELSE UNCHANGED mcpVars
    /\ IF part = "reload" THEN TRUE ELSE UNCHANGED reloadVars
    /\ IF part = "boxes" THEN TRUE ELSE UNCHANGED boxVars
    /\ IF part = "calibration" THEN TRUE ELSE UNCHANGED calibrationVars
    /\ IF part = "workbook" THEN TRUE ELSE UNCHANGED workbookVars

Next ==
    \/ focus = "cache" /\ CacheNext /\ Apart("cache")
    \/ focus = "routing" /\ RoutingNext /\ Apart("routing")
    \/ focus = "stream" /\ StreamNext /\ Apart("stream")
    \/ focus = "journal" /\ JournalNext /\ Apart("journal")
    \/ focus = "delegation" /\ DelegationNext /\ Apart("delegation")
    \/ focus = "memory" /\ MemoryNext /\ Apart("memory")
    \/ focus = "pipes" /\ PipesNext /\ Apart("pipes")
    \/ focus = "servers" /\ MCPNext /\ Apart("servers")
    \/ focus = "reload" /\ ReloadNext /\ Apart("reload")
    \/ focus = "boxes" /\ ContainersNext /\ Apart("boxes")
    \/ focus = "calibration" /\ CalibrationNext /\ Apart("calibration")
    \/ focus = "workbook" /\ WorkbookNext /\ Apart("workbook")

----------------------------------------------------------------------------
(* Properties *)

\* The type of the part in focus.
ServicesTypeOK ==
    CASE focus = "cache" -> CacheTypeOK
      [] focus = "routing" -> RoutingTypeOK
      [] focus = "stream" -> StreamTypeOK
      [] focus = "journal" -> JournalTypeOK
      [] focus = "delegation" -> DelegationTypeOK
      [] focus = "memory" -> MemoryTypeOK
      [] focus = "pipes" -> PipesTypeOK
      [] focus = "servers" -> MCPTypeOK
      [] focus = "reload" -> ReloadTypeOK
      [] focus = "boxes" -> ContainersTypeOK
      [] focus = "calibration" -> CalibrationTypeOK
      [] focus = "workbook" -> WorkbookTypeOK

\* A cache file holds the conversation it is named after, no call reuses one
\* from before a reset, and pruning spares what a slot is tracked to hold
\* (llm/cache.py, abort, mark_user_reset and prune).
CacheIsKept ==
    [][focus = "cache" => FilesHoldTheirScope' /\ NothingOldReturns' /\ PruneSparesActive]_cacheVars

\* A run never changes a file another changed without a warning, and an undo of
\* the only call brings back what was there (agent/file_state.py, file_snapshots.py).
JournalIsKept == [][focus = "journal" => NoSilentOverwrite /\ UndoRestoresOneCall]_journalVars

\* No route of a process or run leads to a closed client, none is left open
\* when the runs are over, and a streamed answer is the one the unstreamed call
\* parses (llm/router.py, S1-01; llm/openai.py, llm/anthropic.py).
ModelCallsAreSound ==
    /\ focus = "routing" => ClientsAreOwned
    /\ focus = "stream" => StreamMatchesWhole

\* Research stays within the budget of the mode it is in, and what it found
\* reaches the caller (agent/subagent.py, research.py).
DelegationHolds == focus = "delegation" => DelegationIsSound

\* What is stored is recalled as long as the index is whole and the answer not
\* full, and no cue of an entry is lost unless it is full (memory/sqlite.py,
\* worker_merge.py).
MemoryHolds == focus = "memory" => MemoryIsSound

\* A tool call gets its own answer, a registered tool has a server that runs,
\* and the registries follow the files (extensions/mcp, extensions/plugins,
\* extensions/skills).
ExtensionsAreSound ==
    /\ focus = "pipes" => AnswersAreOwn
    /\ focus = "servers" => ToolsAreServed
    /\ focus = "reload" => RegistryFollowsFiles

\* No tool runs in a container made under another policy
\* (container/manager.py, ensure_running).
SandboxIsCurrent == focus = "boxes" => CurrentPolicyOnly

\* A plan whose sheets were saved leaves the report the sources call for
\* (agent/fill_plan.py).
ReportIsRight == focus = "workbook" => PlanIsApplied

\* A calibration that found a directory ends with the best proposal in it
\* (calibration/loop.py, editor.py).
BestStays == focus = "calibration" => CalibrationIsSound
=============================================================================

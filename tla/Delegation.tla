----------------------------- MODULE Delegation -----------------------------
(***************************************************************************)
(* A delegated task: dispatch_subagent, the sub-agent's own run under its  *)
(* wall-clock limit (agent/subagent.py), the working set of the research   *)
(* agent (research.py) and the journal of the run (agent/task_run.py).     *)
(* The research tools are not parallel-safe: one of them is at work at a   *)
(* time, and what they keep is rewritten without an await in between.  The *)
(* time-out falls at any await.                                            *)
(***************************************************************************)
EXTENDS Naturals, FiniteSets, World

CONSTANTS Urls,         \* pages
          MaxSources,   \* normal_max_sources, deep_max_sources
          MaxWaves,     \* normal_search_waves, deep_search_waves
          MaxRereads,   \* normal_max_rereads, deep_max_rereads
          Growth,       \* how far dynamic_budget_max_multiplier lets a limit grow
          Strict,       \* finalize_strict
          MaxSteps      \* bound: tool calls of the sub-agent

Modes2 == {"research", "deep"}
ASSUME DelegationAssumption ==
    /\ \A limit \in {MaxSources, MaxWaves, MaxRereads} :
         limit \in [Modes2 -> Nat] /\ limit["research"] <= limit["deep"]
    /\ Growth \in Nat /\ MaxSteps \in Nat /\ Strict \in BOOLEAN
    /\ IsFiniteSet(Urls) /\ {"model", "search"} \cap Urls = {} /\ None \notin {"ok", "partial", "skeleton"}

VARIABLES agent,      \* "none", "research" or "other": who is at work
          wait,       \* what the run awaits: "model", "search" or a page fetched
          memo,       \* state.json of the research run
          page,       \* manifest.json: the status of each stored page, or None
          fact,       \* facts.jsonl: the pages of the stored facts
          journal,    \* journal.jsonl: tool calls recorded; and the phase
          outcome     \* what the parent got

delegationVars == <<agent, wait, memo, page, fact, journal, outcome>>

NoMemo == [mode |-> "research", searches |-> 0, rereads |-> 0, down |-> 0,
           listed |-> FALSE, attempts |-> 0]
NoOutcome == [kind |-> None]

DelegationInit ==
    /\ agent = "none" /\ wait = "model" /\ memo = NoMemo
    /\ page = [u \in Urls |-> None] /\ fact = {}
    /\ journal = [calls |-> 0, phase |-> None] /\ outcome = NoOutcome

----------------------------------------------------------------------------
\* A bug: the mode of the last call wins.
LastMode(mode) == mode
\* _upgrade_mode: a deep run stays deep
Upgraded(mode) == IF memo.mode = "deep" THEN "deep" ELSE mode

\* DispatchSubagentTool.execute refuses an unknown agent, a forbidden
\* department, a missing argument
RefuseTask ==
    /\ agent = "none" /\ outcome = NoOutcome
    /\ outcome' = [kind |-> "error"]
    /\ UNCHANGED <<agent, wait, memo, page, fact, journal>>

\* dispatch: the mode comes from the depth the user chose or the words of the task
StartTask(who, mode) ==
    /\ agent = "none" /\ outcome = NoOutcome
    /\ agent' = who
    /\ memo' = IF who = "research" THEN [memo EXCEPT !.mode = Upgraded(mode)] ELSE memo
    /\ journal' = [journal EXCEPT !.phase = "started"]
    /\ UNCHANGED <<wait, page, fact, outcome>>

AtWork == agent # "none" /\ outcome = NoOutcome /\ journal.calls < MaxSteps
Thinking == AtWork /\ wait = "model"
Researching == Thinking /\ agent = "research"
Recorded == journal' = [journal EXCEPT !.calls = @ + 1]

\* a tool of another agent, or a call refused with an error
OtherTool ==
    /\ Thinking /\ Recorded
    /\ UNCHANGED <<agent, wait, memo, page, fact, outcome>>

----------------------------------------------------------------------------
Pages == {u \in Urls : page[u] # None}
Usable == {u \in Urls : page[u] = "ok"}
Least(a, b) == IF a < b THEN a ELSE b
\* effective_max_sources, effective_search_waves: one more for each stored page
\* that is not usable
Grown(limit, mode) ==
    Least(limit[mode] + Cardinality(Pages \ Usable), limit[mode] + Growth)

\* research_search: the budget is looked at before the search ...
BeginSearch(mode) ==
    /\ Researching
    /\ memo' = [memo EXCEPT !.mode = Upgraded(mode)]
    /\ memo.searches < Grown(MaxWaves, Upgraded(mode))
    /\ wait' = "search"
    /\ UNCHANGED <<agent, page, fact, journal, outcome>>

\* ... and charged after it, unless the web was unavailable
SearchAnswers(up) ==
    /\ AtWork /\ wait = "search"
    /\ memo' = CASE ~up -> [memo EXCEPT !.down = Least(@ + 1, 2)]
                 [] up /\ memo.searches < Grown(MaxWaves, memo.mode) ->
                      [memo EXCEPT !.searches = @ + 1]
                 [] OTHER -> memo
    /\ wait' = "model" /\ Recorded
    /\ UNCHANGED <<agent, page, fact, outcome>>

\* research_fetch_source: a stored page costs nothing
FetchStored(mode, u) ==
    /\ Researching /\ u \in Pages
    /\ memo' = [memo EXCEPT !.mode = Upgraded(mode)]
    /\ Recorded
    /\ UNCHANGED <<agent, wait, page, fact, outcome>>

BeginFetch(mode, u) ==
    /\ Researching /\ u \notin Pages
    /\ memo' = [memo EXCEPT !.mode = Upgraded(mode)]
    /\ Cardinality(Pages) < Grown(MaxSources, Upgraded(mode))
    /\ wait' = u
    /\ UNCHANGED <<agent, page, fact, journal, outcome>>

\* WebFetchTool: a page that is not 2xx is an error
FetchAnswers(u, ok) ==
    /\ AtWork /\ wait = u
    /\ page' = IF ok THEN [page EXCEPT ![u] = "ok"] ELSE page
    /\ wait' = "model" /\ Recorded
    /\ UNCHANGED <<agent, memo, fact, outcome>>

\* research_read_source
Reread(mode, u) ==
    /\ Researching /\ u \in Pages
    /\ memo' = [memo EXCEPT !.mode = Upgraded(mode),
                  !.rereads = IF @ < MaxRereads[Upgraded(mode)] THEN @ + 1 ELSE @]
    /\ Recorded
    /\ UNCHANGED <<agent, wait, page, fact, outcome>>

StoreFact(u) ==
    /\ Researching /\ u \in Pages
    /\ fact' = fact \cup {u} /\ Recorded
    /\ UNCHANGED <<agent, wait, memo, page, outcome>>

ListFacts ==
    /\ Researching
    /\ memo' = [memo EXCEPT !.listed = TRUE] /\ Recorded
    /\ UNCHANGED <<agent, wait, page, fact, outcome>>

----------------------------------------------------------------------------
\* _validate_report, for an answer that cites these pages
Grounded(cited, mode) ==
    /\ cited \subseteq Usable
    /\ mode = "deep" => memo.listed

MaxAttempts == 2

ReportAs(cited, kind) == [kind |-> kind, cited |-> cited]
Skeleton(kind) == [kind |-> kind, cited |-> Pages, facts |-> fact]

\* research_finalize: in strict mode two refusals, then the skeleton; an empty
\* answer is not validated and gives it at once.
FinalizeReport(mode, cited) ==
    LET m == Upgraded(mode)
        refused == Strict /\ ~Grounded(cited, m) IN
    /\ Researching
    /\ \/ /\ refused
          /\ memo' = [memo EXCEPT !.mode = m, !.attempts = @ + 1]
          /\ outcome' = IF memo.attempts >= MaxAttempts THEN Skeleton("skeleton")
                        ELSE outcome
       \/ /\ memo' = [memo EXCEPT !.mode = m]
          /\ \/ outcome' = Skeleton("skeleton")
             \/ ~refused /\ outcome' = ReportAs(cited, "report")
    /\ Recorded
    /\ UNCHANGED <<agent, wait, page, fact>>

\* submit_report, or a last answer without a tool
SubmitReport(cited) ==
    /\ Thinking
    /\ outcome' = ReportAs(cited, "submitted")
    /\ UNCHANGED <<agent, wait, memo, page, fact, journal>>

\* the wall-clock limit: the interrupted skeleton of the research agent, a
\* notice of the others, and the hand-over on disk; a bare error when that fails
TimeOutTask ==
    /\ agent # "none" /\ outcome = NoOutcome
    /\ \/ /\ outcome' = IF agent = "research" THEN Skeleton("partial") ELSE [kind |-> "notice"]
          /\ journal' = [journal EXCEPT !.phase = "partial"]
       \/ outcome' = [kind |-> "error"] /\ UNCHANGED journal
    /\ wait' = "model"
    /\ UNCHANGED <<agent, memo, page, fact>>

\* an exception of the run, or the parent's end
TaskFails ==
    /\ agent # "none" /\ outcome = NoOutcome
    /\ outcome' \in {[kind |-> "error"], [kind |-> "cancelled"]}
    /\ wait' = "model"
    /\ UNCHANGED <<agent, memo, page, fact, journal>>

\* should_return_direct: shown to the user as it is
Direct == agent = "research" /\ outcome.kind \notin {"error", "cancelled", None}

----------------------------------------------------------------------------
DelegationNext ==
    \/ RefuseTask \/ \E who \in {"research", "other"}, m \in Modes2 : StartTask(who, m)
    \/ OtherTool
    \/ \E m \in Modes2 : BeginSearch(m)
    \/ \E ok \in BOOLEAN : SearchAnswers(ok)
    \/ \E u \in Urls, m \in Modes2 : FetchStored(m, u) \/ BeginFetch(m, u) \/ Reread(m, u)
    \/ \E u \in Urls, ok \in BOOLEAN : FetchAnswers(u, ok)
    \/ \E u \in Urls : StoreFact(u)
    \/ ListFacts
    \/ \E cited \in SUBSET Urls : SubmitReport(cited) \/ \E m \in Modes2 : FinalizeReport(m, cited)
    \/ TimeOutTask \/ TaskFails

----------------------------------------------------------------------------
\* The run, its files and its outcome are well formed.
DelegationTypeOK ==
    /\ agent \in {"none", "research", "other"}
    /\ wait \in {"model", "search"} \cup Urls
    /\ memo.mode \in Modes2 /\ memo.attempts \in 0..MaxAttempts + 1
    /\ page \in [Urls -> {None, "ok"}] /\ fact \subseteq Urls
    /\ journal.calls \in 0..MaxSteps /\ journal.phase \in {None, "started", "partial"}

\* What a run has spent stays within the limits of the mode it is in, however
\* its calls name the mode (research.py:361-373, 434-606).
BudgetsHold ==
    /\ Cardinality(Pages) <= Grown(MaxSources, memo.mode)
    /\ memo.searches <= Grown(MaxWaves, memo.mode)
    /\ memo.rereads <= MaxRereads[memo.mode]

\* A skeleton and the report of a timed-out run name every stored page and
\* fact, and no fact is shown whose page is not (research.py:965-985, B-045).
HandOverIsWhole ==
    outcome.kind \in {"partial", "skeleton"} =>
        Direct /\ fact \subseteq outcome.facts /\ outcome.facts \subseteq outcome.cited

\* A delegated research keeps to its budget, and what it found is in the skeleton
\* or the partial report it ends with; a report of its own words may leave things
\* out (research.py, subagent.py:409-495).
DelegationIsSound == BudgetsHold /\ HandOverIsWhole
=============================================================================

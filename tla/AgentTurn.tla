------------------------------ MODULE AgentTurn ------------------------------
(***************************************************************************)
(* The turns of one chat (agent/loop.py): the ReAct loop of a run, the     *)
(* transcript it keeps in memory and the one it stores row by row, the     *)
(* repair of a stored transcript, mid-run compression, the budgets, the    *)
(* approval prompts and every way a run can end.                           *)
(*                                                                         *)
(* A run is a chat run (its rows are stored) or a workflow sub-agent (a    *)
(* terminal tool is mandatory, nothing is stored).  An action is the code  *)
(* between two awaits another task, a timer or the user can interfere      *)
(* with; the model's answer, the tools' outcomes and the success of each   *)
(* write are chosen freely.                                                *)
(***************************************************************************)
EXTENDS Integers, Sequences, FiniteSets, SequencesExt

CONSTANTS
  MaxBatch,       \* bound: tool calls in one answer of the model
  MaxIterations,  \* settings.max_steps
  MaxToolCalls,   \* settings.max_tool_calls
  RetryLimit,     \* corrections allowed per kind of useless answer
  MaxTurns,       \* bound: turns of the chat
  MaxDamage,      \* bound: rows lost and runs aborted, together
  Modes,          \* the kinds of run explored
  FillPlanBatched \* the model may put apply_fill_plan in a batch with other calls

ASSUME TurnAssumption ==
  /\ MaxBatch \in Nat \ {0}
  /\ MaxIterations \in Nat \ {0} /\ MaxToolCalls \in Nat \ {0} /\ MaxTurns \in Nat /\ MaxDamage \in Nat
  /\ RetryLimit \in [{"empty", "xml", "planning"} -> Nat]
  /\ Modes \subseteq {"chat", "workflow"} /\ FillPlanBatched \in BOOLEAN

VARIABLES
  store,    \* chat_context rows of the session
  context,  \* ContextBuilder.messages of the current run
  run,      \* the current run: LoopState, RunStats and the place it is at
  turn,     \* number of runs started
  active,   \* health counter active_requests
  damage,   \* number of rows lost and chat runs aborted so far
  trimmed   \* the current run fell back to in-memory compression

turnVars == <<store, context, run, turn, active, damage, trimmed>>

None == "none"

\* A backend may number the calls of every answer anew: ids repeat in a chat.
CallIds == 1..MaxBatch
NoCall == 0
Retries == DOMAIN RetryLimit

(***************************************************************************)
(* Messages.  `turn' is the run that produced a message, 0 for what is put *)
(* together: corrections, summaries, results that were lost.               *)
(***************************************************************************)
Message(role, ids, t) == [role |-> role, ids |-> ids, turn |-> t]

\* Mutant: a correction with system authority.
NoteAsSystem == Message("system", <<>>, 0)

Note == Message("user", <<>>, 0)

Results(ids, t) == [k \in DOMAIN ids |-> Message("tool", <<ids[k]>>, t)]

(***************************************************************************)
(* What a provider accepts: the first message is the user's, and a batch   *)
(* of calls is followed at once by one result per call, in order.          *)
(***************************************************************************)
Valid(msgs) ==
  /\ msgs # <<>> => msgs[1].role = "user"
  /\ \A i \in DOMAIN msgs : \A k \in DOMAIN msgs[i].ids :
       msgs[i].role = "assistant" =>
         /\ i + k \in DOMAIN msgs
         /\ msgs[i + k].role = "tool" /\ msgs[i + k].ids = <<msgs[i].ids[k]>>
  /\ \A i \in DOMAIN msgs : msgs[i].role = "tool" =>
       \E j \in 1..(i - 1) : msgs[j].role = "assistant" /\ j + Len(msgs[j].ids) >= i

(***************************************************************************)
(* normalize_transcript: leading fragments go, every batch gets exactly    *)
(* its own results, the first of each id from the tool messages that       *)
(* directly follow it or a stub; all other tool messages go.               *)
(***************************************************************************)
FollowsDirectly(msgs, i, j) == j > i /\ \A m \in (i + 1)..j : msgs[m].role = "tool"

ResultFor(msgs, i, id) ==
  LET found == {j \in DOMAIN msgs : FollowsDirectly(msgs, i, j) /\ msgs[j].ids = <<id>>}
  IN  IF found = {} THEN Message("tool", <<id>>, 0)
      ELSE msgs[CHOOSE j \in found : \A m \in found : j <= m]

\* Mutant: lost results are not made up for.
WithResultsFound(msgs, i) ==
  IF msgs[i].role = "tool" THEN <<>>
  ELSE <<msgs[i]>> \o SelectSeq([k \in DOMAIN msgs[i].ids |-> ResultFor(msgs, i, msgs[i].ids[k])],
                                LAMBDA m : m.turn # 0)

WithResults(msgs, i) ==
  IF msgs[i].role = "tool" THEN <<>>
  ELSE <<msgs[i]>> \o [k \in DOMAIN msgs[i].ids |-> ResultFor(msgs, i, msgs[i].ids[k])]

FromFirstUser(msgs) ==
  SelectInSubSeq(msgs, 1, Len(msgs), LAMBDA m : m.role = "user")

Normal(msgs) ==
  LET first == FromFirstUser(msgs)
  IN  IF first = 0 THEN <<>>
      ELSE FlattenSeq([i \in 1..(Len(msgs) - first + 1) |->
                         WithResults(msgs, i + first - 1)])

(***************************************************************************)
(* ContextCompressor.compress: the first two messages, a summary unless    *)
(* the model failed, and a tail whose start is never inside a batch; or    *)
(* the transcript as it is when it is short or mostly tail.                *)
(***************************************************************************)
HeadCount == 2

AlignedStart(msgs, i) ==
  CHOOSE j \in 1..i : /\ msgs[j].role # "tool" \/ j = 1
                      /\ \A m \in (j + 1)..i : msgs[m].role = "tool"

Summaries == {<<>>, <<Note>>}

Compressions(msgs) ==
  LET n == Normal(msgs)
      starts == {AlignedStart(n, i) : i \in 1..Len(n)}
  IN  {n} \cup {Normal(SubSeq(n, 1, HeadCount) \o summary \o SubSeq(n, i, Len(n))) :
                  summary \in Summaries,
                  i \in {j \in starts : Len(n) >= 5 /\ j > HeadCount + 3}}

IsRequest(m) == m.role = "user" /\ m.turn = turn

\* Mutant: the rewritten transcript is taken as it is.
RestoredAsIs(msgs) == msgs

\* _restore_ephemeral_user_message: the request of this run is put back when a
\* rewrite of the stored transcript summarised it away.
Restored(msgs) ==
  IF \E i \in DOMAIN msgs : IsRequest(msgs[i]) THEN msgs
  ELSE Append(msgs, Message("user", <<>>, turn))

-----------------------------------------------------------------------------
Idle == [pc |-> "idle", mode |-> None, iterations |-> 0, reserved |-> 0,
         llmCalls |-> 0, executed |-> 0, retries |-> [r \in Retries |-> 0],
         warnings |-> 0, batch |-> <<>>, todo |-> {}, kind |-> None, asking |-> NoCall,
         nudged |-> FALSE, terminalUsed |-> FALSE, refused |-> FALSE]

TurnInit ==
  /\ store = <<>> /\ context = <<>>
  /\ run = Idle /\ turn = 0 /\ active = 0 /\ damage = 0 /\ trimmed = FALSE

\* _persist_context_msg, once per row: a failing write is swallowed, a run
\* without session writes nothing.
Persist(rows) ==
  IF run.mode = "workflow" THEN UNCHANGED <<store, damage>>
  ELSE \E kept \in SUBSET DOMAIN rows :
         /\ store' = store \o FlattenSeq([k \in DOMAIN rows |->
                                 IF k \in kept THEN <<rows[k]>> ELSE <<>>])
         /\ damage' = damage + Cardinality(DOMAIN rows \ kept)
         /\ damage' <= MaxDamage

Answer == Message("assistant", <<>>, turn)

\* _finalize_turn, on every way out of run().
FinalizeTurn ==
  /\ run' = Idle /\ context' = <<>> /\ trimmed' = FALSE
  /\ active' = active - 1
  /\ UNCHANGED turn

\* _save_turn and return: the answer, or the text that stands for it.
SaveTurn == FinalizeTurn /\ Persist(<<Answer>>)

\* An exception or a cancellation leaves run(): nothing is saved.
Abort ==
  /\ FinalizeTurn /\ UNCHANGED store
  /\ damage' = damage + (IF run.mode = "chat" THEN 1 ELSE 0) /\ damage' <= MaxDamage

\* _build_turn_context: load and repair the history, count the request, store
\* the message.  A store that cannot be read gives an empty history.
Start(mode) ==
  /\ run.pc = "idle" /\ turn < MaxTurns
  /\ turn' = turn + 1 /\ active' = active + 1 /\ trimmed' = FALSE
  /\ run' = [Idle EXCEPT !.pc = "top", !.mode = mode]
  /\ LET request == Message("user", <<>>, turn + 1)
     IN  /\ \E history \in IF mode = "chat" THEN {Normal(store), <<>>} ELSE {<<>>} :
              context' = Append(history, request)
         /\ \/ mode = "workflow" /\ UNCHANGED <<store, damage>>
            \/ mode = "chat" /\ store' = Append(store, request) /\ UNCHANGED damage
            \/ mode = "chat" /\ UNCHANGED store /\ damage < MaxDamage /\ damage' = damage + 1

\* Next iteration: the budget is consumed before it is checked.
BeginIteration ==
  /\ run.pc = "top"
  /\ \E pc \in {"over", "compress"} :
       /\ run.iterations + 1 >= MaxIterations \/ run.reserved >= MaxToolCalls => pc = "over"
       /\ run' = [run EXCEPT !.iterations = @ + 1, !.pc = pc]
  /\ UNCHANGED <<store, context, turn, active, damage, trimmed>>

\* _tool_batch_incomplete: some call of the transcript has no result.
Complete(msgs) ==
  LET of(role) == UNION {ToSet(msgs[i].ids) : i \in {j \in DOMAIN msgs : msgs[j].role = role}}
  IN  of("assistant") \subseteq of("tool")

\* _maybe_compress_mid_run, then the wait for an LLM slot.
SkipCompression ==
  /\ run.pc = "compress"
  /\ run' = [run EXCEPT !.pc = "queued"]
  /\ UNCHANGED <<store, context, turn, active, damage, trimmed>>

CompressStored ==
  /\ run.pc = "compress" /\ run.mode = "chat" /\ Complete(context)
  /\ \E c \in Compressions(store) :
       /\ c # store
       /\ store' = c /\ context' = Restored(c)
  /\ run' = [run EXCEPT !.pc = "queued"]
  /\ UNCHANGED <<turn, active, damage, trimmed>>

CompressInMemory ==
  /\ run.pc = "compress" /\ Complete(context)
  /\ \E c \in Compressions(context) : context' = c
  /\ run' = [run EXCEPT !.pc = "queued"] /\ trimmed' = TRUE
  /\ UNCHANGED <<store, turn, active, damage>>

\* on_acquired: the slot is there, the budget clock runs again.
CallModel ==
  /\ run.pc = "queued"
  /\ run' = [run EXCEPT !.pc = "calling", !.llmCalls = @ + 1]
  /\ UNCHANGED <<store, context, turn, active, damage, trimmed>>

ModelTimesOut == run.pc = "calling" /\ SaveTurn

ModelFails == run.pc \in {"queued", "calling"} /\ Abort

\* A final answer; a malformed or looping one is replaced by a fallback text.
ModelAnswers == run.pc = "calling" /\ SaveTurn

\* Nothing, markup or a statement of intent instead of an answer: the model
\* is told so, a bounded number of times.
ModelMustRetry(kind) ==
  /\ run.pc = "calling" /\ run.retries[kind] < RetryLimit[kind]
  /\ context' = Append(context, Note)
  /\ run' = [run EXCEPT !.pc = "top", !.retries[kind] = @ + 1]
  /\ UNCHANGED <<store, turn, active, damage, trimmed>>

(***************************************************************************)
(* Tool calls.  "parallel": all of the batch is parallel-safe and gathered *)
(* at once; "terminal": one tool that ends the turn; "mixed": a terminal   *)
(* tool next to others; "fill": apply_fill_plan; "serial": the rest.       *)
(***************************************************************************)
BatchKinds(ids) ==
  IF Len(ids) = 1 THEN {"serial", "terminal", "fill"}
  ELSE {"parallel", "serial", "mixed"} \cup (IF FillPlanBatched THEN {"fill"} ELSE {})

Batches == {[k \in 1..n |-> k] : n \in CallIds}

\* reserve_tool_calls admits the whole batch or raises.
Admitted(n) == run.reserved + n <= MaxToolCalls

ModelCallsTools(ids, kind) ==
  /\ run.pc = "calling" /\ Admitted(Len(ids))
  /\ LET batch == Message("assistant", ids, turn)
     IN  IF kind = "mixed"
         THEN /\ context' = context \o <<batch>> \o Results(ids, turn) \o <<Note>>
              /\ Persist(<<batch>> \o Results(ids, turn))
              /\ run' = [run EXCEPT !.pc = "top", !.reserved = @ + Len(ids)]
         ELSE /\ context' = Append(context, batch)
              /\ Persist(<<batch>>)
              /\ run' = [run EXCEPT !.pc = "tools", !.reserved = @ + Len(ids),
                                    !.batch = ids, !.todo = ToSet(ids), !.kind = kind]
  /\ UNCHANGED <<turn, active, trimmed>>

\* The batch does not fit the budget, or the time is up.
ModelAsksTooMuch ==
  /\ run.pc = "calling"
  /\ run' = [run EXCEPT !.pc = "over"]
  /\ UNCHANGED <<store, context, turn, active, damage, trimmed>>

\* The calls that may start: all of a gathered batch, otherwise the next one.
Startable ==
  IF run.kind = "parallel" THEN run.todo
  ELSE {run.batch[k] : k \in {m \in DOMAIN run.batch :
          run.batch[m] \in run.todo /\ \A l \in 1..(m - 1) : run.batch[l] \notin run.todo}}

MayStart(id) == run.pc = "tools" /\ id \in Startable /\ id # run.asking

\* The fill-plan nudge goes right behind the result that earned it.
Nudge(ok) == IF run.kind = "fill" /\ ok /\ ~run.nudged THEN <<Note>> ELSE <<>>

\* The end of _execute_single_tool for call id and what the loop does with the
\* result: rows of a gathered batch are added together when the last call is
\* done; the result of a terminal tool is the answer.
Finished(id, ok, executions) ==
  LET rest == run.todo \ {id}
      rows == IF run.kind # "parallel" THEN Results(<<id>>, turn)
              ELSE IF rest = {} THEN Results(run.batch, turn) ELSE <<>>
  IN  IF run.kind = "terminal" /\ ok THEN FinalizeTurn /\ Persist(Append(rows, Answer))
      ELSE /\ context' = context \o rows \o Nudge(ok)
           /\ Persist(rows)
           /\ run' = [run EXCEPT
                        !.todo = rest, !.executed = @ + executions,
                        !.pc = IF rest = {} THEN "guards" ELSE @,
                        !.asking = IF @ = id THEN NoCall ELSE @,
                        !.nudged = @ \/ Nudge(ok) # <<>>,
                        !.terminalUsed = @ \/ run.kind = "terminal"]
           /\ UNCHANGED <<turn, active, trimmed>>

\* The guard lets the call through; the tool returns a result or an error.
RunTool(id) == MayStart(id) /\ \E ok \in BOOLEAN : Finished(id, ok, 1)

\* Not permitted, blocked, or to be approved where nobody can be asked.
BlockTool(id) == MayStart(id) /\ Finished(id, FALSE, 0)

\* An approval prompt; the lock of the user admits one at a time.
AskUser(id) ==
  /\ MayStart(id) /\ run.asking = NoCall
  /\ run' = [run EXCEPT !.asking = id]
  /\ UNCHANGED <<store, context, turn, active, damage, trimmed>>

Approve == run.asking # NoCall /\ run.pc = "tools"
           /\ \E ok \in BOOLEAN : Finished(run.asking, ok, 1)

\* "no", or no answer within the time of the prompt.
Deny == run.asking # NoCall /\ run.pc = "tools" /\ Finished(run.asking, FALSE, 0)

\* The prompt cannot be delivered: the exception leaves the run.
PromptFails == run.asking # NoCall /\ run.pc = "tools" /\ Abort

\* Dedup and progress guards: go on, or the second warning ends the turn.
GoOn ==
  /\ run.pc = "guards"
  /\ run' = [run EXCEPT !.pc = "top", !.batch = <<>>, !.kind = None]
  /\ UNCHANGED <<store, context, turn, active, damage, trimmed>>

LoopDetected ==
  /\ run.pc = "guards"
  /\ IF run.warnings = 1 THEN SaveTurn
     ELSE /\ run' = [run EXCEPT !.pc = "top", !.batch = <<>>, !.kind = None,
                                !.warnings = @ + 1]
          /\ UNCHANGED <<store, context, turn, active, damage, trimmed>>

(***************************************************************************)
(* The budget is used up.  A workflow run that never called its terminal   *)
(* tool gets auto_finalize_cascade: one more call of the model (stage B),  *)
(* then a call made up by the loop (stage C).  Where the tool is not       *)
(* registered the run gives up like a chat run.                            *)
(***************************************************************************)
GiveUp == run.pc = "over" /\ SaveTurn

FinalCall(pc, calls) ==
  /\ context' = context \o <<Note, Message("assistant", <<1>>, turn)>>
  /\ Persist(<<Message("assistant", <<1>>, turn)>>)
  /\ run' = [run EXCEPT !.pc = pc, !.llmCalls = @ + calls, !.todo = {1},
                        !.batch = <<1>>, !.kind = "final", !.asking = NoCall]
  /\ UNCHANGED <<turn, active, trimmed>>

MustRescue == run.pc = "over" /\ run.mode = "workflow" /\ ~run.terminalUsed

\* Stage B: the model calls the terminal tool, and nothing else.
Rescue == MustRescue /\ FinalCall("stageB", 1)

\* No terminal tool call came out of stage B: text, several calls, a time-out
\* or an error.
RescueByLoop == MustRescue /\ FinalCall("stageC", 1)

InFinal == run.pc \in {"stageB", "stageC"}

\* The terminal tool may need the user's approval here as well.
AskFinal ==
  /\ InFinal /\ run.asking = NoCall
  /\ run' = [run EXCEPT !.asking = 1]
  /\ UNCHANGED <<store, context, turn, active, damage, trimmed>>

\* Executed, with or without approval: its result is the answer.
FinalSucceeds == InFinal /\ SaveTurn

\* Mutant: a refused salvage is tried again by the loop.
FinalRefusedRetried ==
  /\ InFinal
  /\ run' = [run EXCEPT !.pc = "stageC", !.refused = TRUE, !.asking = NoCall]
  /\ UNCHANGED <<store, context, turn, active, damage, trimmed>>

\* An error or a refusal is not tried again: the resource-limit text is saved.
FinalRefused ==
  /\ InFinal
  /\ run' = [run EXCEPT !.pc = "refused", !.refused = TRUE, !.asking = NoCall]
  /\ UNCHANGED <<store, context, turn, active, damage, trimmed>>

FinalGivesUp == run.pc = "refused" /\ SaveTurn

\* Only an exception (the prompt cannot be delivered) leads from B to C.
FinalFails ==
  \/ run.pc = "stageB" /\ run.asking # NoCall /\ FinalCall("stageC", 0)
  \/ run.pc = "stageC" /\ run.asking # NoCall /\ SaveTurn

\* The caller cancels the run at any await, or the process goes down.
Cancel == run.pc # "idle" /\ Abort

-----------------------------------------------------------------------------
Think == BeginIteration \/ SkipCompression \/ CompressStored \/ CompressInMemory
         \/ CallModel \/ ModelTimesOut \/ ModelFails \/ ModelAnswers
         \/ (\E kind \in Retries : ModelMustRetry(kind))
         \/ (\E ids \in Batches : \E kind \in BatchKinds(ids) : ModelCallsTools(ids, kind))
         \/ ModelAsksTooMuch

Act == (\E id \in CallIds : RunTool(id) \/ BlockTool(id) \/ AskUser(id))
       \/ Approve \/ Deny \/ PromptFails \/ GoOn \/ LoopDetected

Finish == GiveUp \/ Rescue \/ RescueByLoop \/ AskFinal \/ FinalSucceeds
          \/ FinalRefused \/ FinalGivesUp \/ FinalFails

TurnNext == (\E mode \in Modes : Start(mode)) \/ Think \/ Act \/ Finish \/ Cancel

TurnSpec == TurnInit /\ [][TurnNext]_turnVars

(***************************************************************************)
(* A model call, a tool and a prompt each end, by their own time-outs, and *)
(* the queue serves every call; users owe nothing.                         *)
(***************************************************************************)
TurnFairSpec == TurnSpec /\ WF_turnVars(Think \/ Act \/ Finish)

-----------------------------------------------------------------------------
\* The state of the chat and its run is well formed.
TurnTypeOK ==
  /\ run.pc \in {"idle", "top", "compress", "queued", "calling", "tools", "guards",
                 "over", "stageB", "stageC", "refused"}
  /\ run.mode \in Modes \cup {None} /\ run.asking \in CallIds \cup {NoCall}
  /\ run.todo \subseteq CallIds /\ turn \in 0..MaxTurns /\ active \in {0, 1}
  /\ \A msgs \in {store, context} : \A i \in DOMAIN msgs :
       /\ msgs[i].role \in {"user", "assistant", "tool"}
       /\ msgs[i].turn \in 0..turn /\ ToSet(msgs[i].ids) \subseteq CallIds

\* Whatever was aborted, lost or summarised before: what a run sends to the model
\* is a transcript a provider accepts (context.py: "every declared call to receive
\* a result before the next user/assistant message").
ContextIsValid == run.pc = "calling" \/ MustRescue => Valid(context)

\* A stored transcript can always be loaded, and loading repairs only damage: the
\* transcript of a chat without aborted runs and lost rows is loaded as it is and
\* ends with an answer, so nothing a tool really returned becomes a stub.
LoadRepairsOnlyDamage ==
  /\ Valid(Normal(store))
  /\ damage = 0 => Normal(store) = store \/ run.pc # "idle"
  /\ damage = 0 /\ run.pc = "idle" /\ store # <<>> => Last(store) \in [role: {"assistant"},
                                                 ids: {<<>>}, turn: 1..turn]

\* The request of the run reaches the model in every call, also after the stored
\* transcript was rewritten in the middle of the run.
RequestReachesModel ==
  run.pc = "calling" /\ ~trimmed => \E i \in DOMAIN context : IsRequest(context[i])

\* One run is stored as one turn: at most one answer, and nothing after it.
OneAnswerPerTurn ==
  \A i \in DOMAIN store : \A j \in DOMAIN store :
    /\ store[i].role = "assistant" /\ store[i].ids = <<>>
    /\ j > i /\ store[j].turn = store[i].turn
    => FALSE

\* The budgets bound what a run costs: no tool beyond the budget but the salvage of
\* a workflow run, no model call beyond max_steps, salvage included.
WithinBudget ==
  /\ run.executed <= run.reserved /\ run.reserved <= MaxToolCalls
  /\ run.llmCalls <= MaxIterations

\* "Replaying the same terminal action through Stage C would prompt twice after a
\* denial": once the salvage was refused, nobody is asked again.
NoPromptAfterRefusal == run.refused => run.asking = NoCall /\ ~InFinal

\* The five: whatever was aborted, lost, summarised or refused, a turn keeps its
\* request, stores at most one answer, stays within the budgets, prompts nobody
\* after a refusal and leaves a transcript that loads (loop.py:1082-1858).
TurnIsSound ==
  /\ LoadRepairsOnlyDamage /\ RequestReachesModel /\ OneAnswerPerTurn
  /\ WithinBudget /\ NoPromptAfterRefusal

\* Every run ends, by an answer, a budget, a time-out, an error or a cancellation.
RunEnds == run.pc # "idle" ~> run.pc = "idle"
=============================================================================

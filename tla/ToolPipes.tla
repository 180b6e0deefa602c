----------------------------- MODULE ToolPipes -----------------------------
(***************************************************************************)
(* Tools served by other processes over stdin and stdout: MCPClient and    *)
(* PluginToolProxy.  Calls take a lock, write a request and read a line;   *)
(* a line may arrive in two pieces, a read may bring several lines, and    *)
(* whatever follows the first of them is dropped.  Calls time out, are     *)
(* cancelled with the run they belong to, and processes die.               *)
(***************************************************************************)
EXTENDS Naturals, Sequences, SequencesExt, FiniteSets, World

CONSTANTS PipeCalls,                 \* tool calls
          MCPPipes, PluginPipes,
          MaxNotices, MaxDeaths      \* bounds: notifications of the servers, deaths

ASSUME ToolPipesAssumption ==
    /\ MaxNotices \in Nat /\ MaxDeaths \in Nat
    /\ MCPPipes \cap PluginPipes = {} /\ None \notin PipeCalls

Pipes == MCPPipes \cup PluginPipes

VARIABLES proc,      \* _process of a pipe: its requests, its output, whether it lives
          holders,   \* holder of and waiters for the lock of a pipe
          calling,   \* the calls
          torn,      \* history: pipes of which a call gave up while it read
          notices, deaths
pipeVars == <<proc, holders, calling, torn, notices, deaths>>

NoProc == [alive |-> FALSE, inbox |-> <<>>, half |-> None, out |-> <<>>]
Spawned == [NoProc EXCEPT !.alive = TRUE]
NotCalled == [pc |-> "idle"]

PipesInit ==
    /\ proc = [p \in Pipes |-> IF p \in MCPPipes THEN Spawned ELSE NoProc]
    /\ holders = [p \in Pipes |-> <<>>]
    /\ calling = [c \in PipeCalls |-> NotCalled]
    /\ torn = {} /\ notices = 0 /\ deaths = 0

----------------------------------------------------------------------------
\* A message is two pieces, the newline in the second; a notification has no id.
Piece(id, last) == [id |-> id, last |-> last]

HasPipe(c) == calling[c] # NotCalled /\ c = Head(Append(holders[calling[c].pipe], None))
Reading(c) == HasPipe(c) /\ calling[c].pc = "read"
PipeOf(c) == calling[c].pipe

CallTool(c, p) ==
    /\ calling[c] = NotCalled
    /\ calling' = [calling EXCEPT ![c] = [pc |-> "lock", pipe |-> p, buf |-> <<>>, got |-> None]]
    /\ holders' = [holders EXCEPT ![p] = Append(@, c)]
    /\ UNCHANGED <<proc, torn, notices, deaths>>

\* The call ends with an answer, None for an error, and leaves the lock.
EndsWith(c, got) ==
    /\ calling' = [calling EXCEPT ![c] = [@ EXCEPT !.pc = "done", !.buf = <<>>, !.got = got]]
    /\ holders' = [holders EXCEPT ![PipeOf(c)] = RemoveFirst(@, c)]

\* _ensure_process of a plugin starts it on demand; a server is started by
\* connect alone.
Ready(p) == IF p \in PluginPipes /\ ~proc[p].alive THEN Spawned ELSE proc[p]
Send(c) ==
    /\ HasPipe(c) /\ calling[c].pc = "lock"
    /\ Ready(PipeOf(c)).alive
    /\ proc' = [proc EXCEPT ![PipeOf(c)] = [Ready(PipeOf(c)) EXCEPT !.inbox = Append(@, c)]]
    /\ calling' = [calling EXCEPT ![c].pc = "read"]
    /\ UNCHANGED <<holders, torn, notices, deaths>>
\* The process cannot be started, or nobody reads what is written.
SendFails(c) ==
    /\ HasPipe(c) /\ calling[c].pc = "lock" /\ ~proc[PipeOf(c)].alive
    /\ EndsWith(c, None)
    /\ UNCHANGED <<proc, torn, notices, deaths>>

----------------------------------------------------------------------------
\* The process writes an answer, or a server a notification, in two pieces.
BeginLine(p) ==
    /\ proc[p].alive /\ proc[p].half = None
    /\ \/ /\ proc[p].inbox # <<>> /\ UNCHANGED notices
          /\ LET id == Head(proc[p].inbox) IN
             proc' = [proc EXCEPT ![p].inbox = Tail(@), ![p].half = id, ![p].out = Append(@, Piece(id, FALSE))]
       \/ /\ p \in MCPPipes /\ notices < MaxNotices /\ notices' = notices + 1
          /\ proc' = [proc EXCEPT ![p].half = "notice", ![p].out = Append(@, Piece("notice", FALSE))]
    /\ UNCHANGED <<holders, calling, torn, deaths>>
EndLine(p) ==
    /\ proc[p].alive /\ proc[p].half # None
    /\ proc' = [proc EXCEPT ![p].half = None, ![p].out = Append(@, Piece(proc[p].half, TRUE))]
    /\ UNCHANGED <<holders, calling, torn, notices, deaths>>

\* What has been written can still be read.
Die(p) ==
    /\ proc[p].alive /\ deaths < MaxDeaths /\ deaths' = deaths + 1
    /\ proc' = [proc EXCEPT ![p].alive = FALSE, ![p].half = None, ![p].inbox = <<>>]
    /\ UNCHANGED <<holders, calling, torn, notices>>

----------------------------------------------------------------------------
\* The pieces up to the first newline; they are a message when none of its
\* pieces was lost.
FirstLine(buf) == SubSeq(buf, 1, CHOOSE i \in 1..Len(buf) : buf[i].last /\ \A j \in 1..(i - 1) : ~buf[j].last)
Parses(line) == Len(line) = 2 /\ line[1].id = line[2].id
HasNewline(buf) == \E i \in 1..Len(buf) : buf[i].last

\* A bug: the id of an answer is not compared.
AnyAnswer(c, line) == line[1].id # "notice"
\* MCPClient reads on until the id is its own.
IsAnswer(c, line) == line[1].id = c

\* A plugin forgets a process whose output it cannot read.
Forget(p) == proc' = [proc EXCEPT ![p] = NoProc]
Consume(p, n) == proc' = [proc EXCEPT ![p].out = SubSeq(@, n + 1, Len(@))]

\* _read_bounded_line, one read of the stream, and what becomes of the line.
ReadChunk(c, n) ==
    LET p == PipeOf(c)
        buf == calling[c].buf \o SubSeq(proc[p].out, 1, n) IN
    /\ Reading(c) /\ n \in 1..Len(proc[p].out)
    /\ IF ~HasNewline(buf)
       THEN Consume(p, n) /\ calling' = [calling EXCEPT ![c].buf = buf] /\ UNCHANGED holders
       ELSE LET line == FirstLine(buf) IN
            CASE ~Parses(line) -> EndsWith(c, None) /\ IF p \in PluginPipes THEN Forget(p) ELSE Consume(p, n)
              [] Parses(line) /\ p \in PluginPipes -> EndsWith(c, line[1].id) /\ Consume(p, n)
              [] Parses(line) /\ p \in MCPPipes ->
                   /\ Consume(p, n)
                   /\ IF IsAnswer(c, line) THEN EndsWith(c, line[1].id)
                      ELSE calling' = [calling EXCEPT ![c].buf = <<>>] /\ UNCHANGED holders
    /\ UNCHANGED <<torn, notices, deaths>>

\* The output ended.
ReadEnd(c) ==
    LET p == PipeOf(c) IN
    /\ Reading(c) /\ ~proc[p].alive /\ proc[p].out = <<>>
    /\ EndsWith(c, None)
    /\ UNCHANGED <<proc, torn, notices, deaths>>

\* Nothing to read for too long: a plugin is killed, a server kept.
TimeOutCall(c) ==
    LET p == PipeOf(c) IN
    /\ Reading(c) /\ proc[p].alive /\ proc[p].out = <<>>
    /\ EndsWith(c, None)
    /\ IF p \in PluginPipes THEN Forget(p) /\ UNCHANGED torn ELSE torn' = torn \cup {p} /\ UNCHANGED proc
    /\ UNCHANGED <<notices, deaths>>

\* The run is cancelled: nothing is done about the process.
CancelCall(c) ==
    /\ calling[c] # NotCalled /\ calling[c].pc \in {"lock", "read"}
    /\ EndsWith(c, None)
    /\ torn' = IF Reading(c) THEN torn \cup {PipeOf(c)} ELSE torn
    /\ UNCHANGED <<proc, notices, deaths>>

PipesNext ==
    \/ \E c \in PipeCalls, p \in Pipes : CallTool(c, p)
    \/ \E c \in PipeCalls : Send(c) \/ SendFails(c) \/ ReadEnd(c) \/ TimeOutCall(c) \/ CancelCall(c)
    \/ \E c \in PipeCalls, n \in 1..(2 * (Cardinality(PipeCalls) + MaxNotices)) : ReadChunk(c, n)
    \/ \E p \in Pipes : BeginLine(p) \/ EndLine(p) \/ Die(p)

----------------------------------------------------------------------------
\* The type of the state.
PipesTypeOK ==
    /\ \A p \in Pipes : proc[p].alive \in BOOLEAN /\ proc[p].half \in PipeCalls \cup {None, "notice"}
    /\ \A p \in Pipes : ToSet(holders[p]) \subseteq PipeCalls
    /\ \A c \in PipeCalls : calling[c] = NotCalled \/ calling[c].pc \in {"lock", "read", "done"}
    /\ torn \subseteq Pipes

\* A call of a server gets its own answer or none, whatever was cancelled or
\* late before it; so does a call of a plugin of which no call was cancelled
\* while it read.
AnswersAreOwn ==
    \A c \in PipeCalls : calling[c] # NotCalled /\ calling[c].got # None =>
        calling[c].got = c \/ calling[c].pipe \in PluginPipes \cap torn
============================================================================

---------------------------- MODULE FileJournal ----------------------------
(***************************************************************************)
(* What happens around a tool that writes a file (file_tracked.py): the    *)
(* copy taken before the write (file_snapshots.py), the warning about a    *)
(* stale write (file_state.py), the row of the journal (file_changes.py),  *)
(* and the user's undo of one change (file_review.py behind the web        *)
(* handler, which looks at the gate first).                                *)
(* The files are one user's.  Contents are numbered: every write that      *)
(* changes a file makes a new one.                                         *)
(***************************************************************************)
EXTENDS Naturals, Sequences, FiniteSets, World

CONSTANTS AgentRuns,   \* runs of the agent, sub-agents included: the run ids
          Files,
          ToolCalls,   \* tool calls under way at the same time
          Undoers,     \* browser tabs that undo a change
          MaxContents, \* bound: contents written in all
          MaxCalls     \* bound: tool calls of a run on a file

ASSUME JournalAssumption ==
    /\ None \notin AgentRuns /\ None \notin Files
    /\ MaxContents \in Nat /\ MaxCalls \in Nat

VARIABLES onDisk,     \* content of each file, or None
          backups,  \* .snapshots/<run>/<path>: one copy per run and path
          rows,     \* the journal, in the order of insertion
          sets,     \* status of the change set of each run
          reads,    \* _read_stamps: files a run has read
          writer,   \* _last_writer
          knows,    \* the content a run last read, wrote or was warned about
          live,     \* runs under way; the user's gate is free when there is none
          over,     \* runs that have ended
          tool,     \* the tool calls
          undo,     \* the undo requests
          mixed,    \* files changed behind the registry's back, see below
          content,  \* the last content made
          begun     \* tool calls begun, per run and file

journalVars == <<onDisk, backups, rows, sets, reads, writer, knows, live, over,
                 tool, undo, mixed, content, begun>>

\* file is the one the wrapper tracks, out the one the tool writes.
NoTool == [pc |-> "idle", run |-> None, file |-> None, out |-> None, before |-> None,
           after |-> None, kept |-> FALSE, warned |-> FALSE]
NoUndo == [pc |-> "idle", row |-> 0]

JournalInit ==
    /\ onDisk = [f \in Files |-> 0]
    /\ backups = [r \in AgentRuns |-> [f \in Files |-> None]]
    /\ rows = <<>>
    /\ sets = [r \in AgentRuns |-> "none"]
    /\ reads = [r \in AgentRuns |-> {}]
    /\ writer = [f \in Files |-> None]
    /\ knows = [r \in AgentRuns |-> [f \in Files |-> None]]
    /\ live = {} /\ over = {}
    /\ tool = [c \in ToolCalls |-> NoTool]
    /\ undo = [v \in Undoers |-> NoUndo]
    /\ mixed = {}
    /\ content = 0
    /\ begun = [r \in AgentRuns |-> [f \in Files |-> 0]]

----------------------------------------------------------------------------
\* A run begins: a request, or a sub-agent of a run under way.
StartRun(r) ==
    /\ r \notin live \cup over
    /\ live' = live \cup {r}
    /\ UNCHANGED <<onDisk, backups, rows, sets, reads, writer, knows, over, tool,
                   undo, mixed, content, begun>>

EndRun(r) ==
    /\ r \in live
    /\ \A c \in ToolCalls : tool[c].run # r
    /\ live' = live \ {r}
    /\ over' = over \cup {r}
    /\ UNCHANGED <<onDisk, backups, rows, sets, reads, writer, knows, tool, undo,
                   mixed, content, begun>>

\* a read tool; ToolRegistry.execute stamps the path
ReadFile(r, f) ==
    /\ r \in live
    /\ onDisk[f] # None
    /\ reads' = [reads EXCEPT ![r] = @ \cup {f}]
    /\ knows' = [knows EXCEPT ![r][f] = onDisk[f]]
    /\ UNCHANGED <<onDisk, backups, rows, sets, writer, live, over, tool, undo,
                   mixed, content, begun>>

\* check_stale: the stamps of the read are not compared with the file
Stale(r, f) == f \notin reads[r] \/ writer[f] \notin {None, r}

Open(f) == {c \in ToolCalls : tool[c].file = f}

\* backup: the copy of the run and path, replaced if there is one
Copied(r, f) == [backups EXCEPT ![r][f] = onDisk[f]]

\* execute() up to the call of the tool, no await in between.
BeginCall(c, r, f, out, warned) ==
    /\ tool[c].pc = "idle"
    /\ r \in live
    /\ begun[r][f] < MaxCalls
    /\ \E kept \in {onDisk[f] # None, FALSE} :
          /\ backups' = IF kept THEN Copied(r, f) ELSE backups
          /\ tool' = [tool EXCEPT ![c] = [pc |-> "running", run |-> r, file |-> f, out |-> out,
                          before |-> onDisk[f], after |-> None, kept |-> kept,
                          warned |-> warned]]
    /\ mixed' = IF Open(f) = {} THEN mixed ELSE mixed \cup {f}
    /\ begun' = [begun EXCEPT ![r][f] = @ + 1]
    /\ UNCHANGED <<onDisk, rows, sets, writer, live, over, undo, content>>

\* A tool that writes the file it tracks.  One that makes a new file is not
\* checked when there is none yet.
BeginWrite(c, r, f, inPlace) ==
    LET warned == (inPlace \/ onDisk[f] # None) /\ Stale(r, f) IN
    /\ BeginCall(c, r, f, f, warned)
    /\ knows' = IF warned THEN [knows EXCEPT ![r][f] = onDisk[f]] ELSE knows
    /\ UNCHANGED reads

\* excel_workbook's fill and fill_by_date: the source is tracked, and counted
\* as read; the tool writes it, the output_path it is given or <name>_filled.
BeginFill(c, r, f, out) ==
    LET seen == IF onDisk[f] = None THEN reads[r] ELSE reads[r] \cup {f} IN
    /\ BeginCall(c, r, f, out, f \notin seen \/ writer[f] \notin {None, r})
    /\ reads' = [reads EXCEPT ![r] = seen]
    /\ knows' = [knows EXCEPT ![r][f] = onDisk[f]]

\* The tool itself: it changes the file, or refuses and changes nothing.  Of an
\* output that is not the tracked file the registry learns nothing.
ToolWrites(c) ==
    LET t == tool[c] IN
    /\ t.pc = "running"
    /\ tool' = [tool EXCEPT ![c].pc = "ran"]
    /\ \/ /\ content < MaxContents
          /\ t.out = t.file \/ onDisk[t.file] # None
          /\ content' = content + 1
          /\ onDisk' = [onDisk EXCEPT ![t.out] = content']
          /\ knows' = [knows EXCEPT ![t.run][t.out] = content']
          /\ mixed' = IF t.out = t.file THEN mixed ELSE mixed \cup {t.out}
       \/ UNCHANGED <<content, onDisk, knows, mixed>>
    /\ UNCHANGED <<backups, rows, sets, reads, writer, live, over, undo, begun>>

\* A call whose output the wrapper cannot name (convert_format and
\* apply_fill_plan without output_path): nothing is checked, copied or noted.
WriteUntracked(r, f) ==
    /\ r \in live
    /\ content < MaxContents
    /\ content' = content + 1
    /\ onDisk' = [onDisk EXCEPT ![f] = content']
    /\ knows' = [knows EXCEPT ![r][f] = content']
    /\ mixed' = mixed \cup {f}
    /\ UNCHANGED <<backups, rows, sets, reads, writer, live, over, tool, undo, begun>>

\* Mutant: the registry learns only of writes that replaced a file.
NoteReplaced(c) ==
    /\ tool[c].pc = "ran"
    /\ LET f == tool[c].file IN
       /\ writer' = IF onDisk[f] # tool[c].before THEN writer
                    ELSE [writer EXCEPT ![f] = tool[c].run]
       /\ tool' = [tool EXCEPT ![c] =
                     IF onDisk[f] # None /\ onDisk[f] # tool[c].before
                     THEN [@ EXCEPT !.pc = "record", !.after = onDisk[f]] ELSE NoTool]
    /\ UNCHANGED <<onDisk, backups, rows, sets, reads, knows, live, over, undo, mixed,
                   content, begun>>

\* After the tool: note_write, whatever it did, and the hash of the file;
\* an unchanged file is not journaled.
Note(c) ==
    /\ tool[c].pc = "ran"
    /\ LET f == tool[c].file IN
       /\ writer' = [writer EXCEPT ![f] = tool[c].run]
       /\ tool' = [tool EXCEPT ![c] =
                     IF onDisk[f] # None /\ onDisk[f] # tool[c].before
                     THEN [@ EXCEPT !.pc = "record", !.after = onDisk[f]] ELSE NoTool]
    /\ UNCHANGED <<onDisk, backups, rows, sets, reads, knows, live, over, undo, mixed,
                   content, begun>>

RowOf(t) ==
    [run |-> t.run, file |-> t.file, op |-> IF t.before = None THEN "create" ELSE "modify",
     before |-> t.before, after |-> t.after, kept |-> t.kept, status |-> "open"]

\* record_change in a worker thread; its failure is only logged.  A set that
\* was reverted stays so.
RecordChange(c) ==
    /\ tool[c].pc = "record"
    /\ tool' = [tool EXCEPT ![c] = NoTool]
    /\ \/ /\ rows' = Append(rows, RowOf(tool[c]))
          /\ sets' = [sets EXCEPT ![tool[c].run] = IF @ = "none" THEN "open" ELSE @]
       \/ UNCHANGED <<rows, sets>>
    /\ UNCHANGED <<onDisk, backups, reads, writer, knows, live, over, undo, mixed,
                   content, begun>>

\* A call cut off in the tool: nothing is noted, whatever it wrote.
CancelWrite(c) ==
    /\ tool[c].pc \in {"running", "ran"}
    /\ tool' = [tool EXCEPT ![c] = NoTool]
    /\ mixed' = mixed \cup {tool[c].file, tool[c].out}
    /\ UNCHANGED <<onDisk, backups, rows, sets, reads, writer, knows, live, over, undo,
                   content, begun>>

----------------------------------------------------------------------------
\* The handler of the undo button: the gate is looked at once.
BeginUndo(v, i) ==
    /\ undo[v].pc = "idle"
    /\ live = {}
    /\ undo' = [undo EXCEPT ![v] = [pc |-> "get", row |-> i]]
    /\ UNCHANGED <<onDisk, backups, rows, sets, reads, writer, knows, live, over, tool,
                   mixed, content, begun>>

GetChange(v) ==
    /\ undo[v].pc = "get"
    /\ undo' = [undo EXCEPT ![v] = IF rows[@.row].status = "reverted" THEN NoUndo
                                   ELSE [@ EXCEPT !.pc = "restore"]]
    /\ UNCHANGED <<onDisk, backups, rows, sets, reads, writer, knows, live, over, tool,
                   mixed, content, begun>>

\* the copy comes back, or the file that was made is deleted, or 400
Restore(v) ==
    /\ undo[v].pc = "restore"
    /\ LET row == rows[undo[v].row]
           able == row.kept \/ row.op = "create"
       IN /\ undo' = [undo EXCEPT ![v] = IF able THEN [@ EXCEPT !.pc = "mark"] ELSE NoUndo]
          /\ onDisk' = IF ~able THEN onDisk
                     ELSE [onDisk EXCEPT ![row.file] = IF row.kept THEN backups[row.run][row.file]
                                                     ELSE None]
          /\ mixed' = IF able /\ live # {} THEN mixed \cup {row.file} ELSE mixed
    /\ UNCHANGED <<backups, rows, sets, reads, writer, knows, live, over, tool,
                   content, begun>>

\* mark_reverted: one transaction; the second of two gets 500
MarkReverted(v) ==
    /\ undo[v].pc = "mark"
    /\ LET i == undo[v].row
           r == rows[i].run
       IN IF rows[i].status = "open"
          THEN /\ rows' = [rows EXCEPT ![i].status = "reverted"]
               /\ sets' = [sets EXCEPT ![r] =
                     IF \E j \in DOMAIN rows : rows'[j].run = r /\ rows'[j].status = "open"
                     THEN "open" ELSE "reverted"]
          ELSE UNCHANGED <<rows, sets>>
    /\ undo' = [undo EXCEPT ![v] = NoUndo]
    /\ UNCHANGED <<onDisk, backups, reads, writer, knows, live, over, tool, mixed,
                   content, begun>>

JournalNext ==
    \/ \E r \in AgentRuns : StartRun(r) \/ EndRun(r)
                            \/ \E f \in Files : ReadFile(r, f) \/ WriteUntracked(r, f)
    \/ \E c \in ToolCalls :
          \/ \E r \in AgentRuns, f \in Files :
                \/ \E p \in BOOLEAN : BeginWrite(c, r, f, p)
                \/ \E g \in Files : BeginFill(c, r, f, g)
          \/ ToolWrites(c) \/ Note(c) \/ RecordChange(c) \/ CancelWrite(c)
    \/ \E v \in Undoers :
          \/ \E i \in DOMAIN rows : BeginUndo(v, i)
          \/ GetChange(v) \/ Restore(v) \/ MarkReverted(v)

----------------------------------------------------------------------------
(* Properties *)

Contents == 0..MaxContents \cup {None}

JournalTypeOK ==
    /\ onDisk \in [Files -> Contents]
    /\ backups \in [AgentRuns -> [Files -> Contents]]
    /\ \A i \in DOMAIN rows : rows[i] \in
          [run : AgentRuns, file : Files, op : {"create", "modify"}, before : Contents,
           after : Contents, kept : BOOLEAN, status : {"open", "reverted"}]
    /\ sets \in [AgentRuns -> {"none", "open", "reverted"}]
    /\ writer \in [Files -> AgentRuns \cup {None}]

Overwrites(c, f) ==
    /\ tool[c].pc = "running" /\ tool'[c].pc = "ran"
    /\ onDisk'[f] # onDisk[f] /\ onDisk[f] # None

\* A call that writes the file it tracks never changes one that another run
\* changed, since its run last read, wrote or was warned of it, without a
\* warning: check_stale before, note_write after ("Re-read the file before
\* writing to avoid a stale overwrite").  A file is mixed when the registry did
\* not see what became of it: calls on it that overlap, a call cut off, an undo
\* that began before the run, an output no call tracks.
NoSilentOverwrite ==
    \A c \in ToolCalls : LET f == tool[c].file IN
        Overwrites(c, f) /\ tool[c].out = f /\ f \notin mixed
        => tool[c].warned \/ onDisk[f] = knows[tool[c].run][f]

Undone(i) == \E v \in Undoers :
    undo[v].pc = "restore" /\ undo[v].row = i /\ undo'[v].pc = "mark"

\* Undoing a change brings back what the file was before it, as long as the run
\* has called a tool that tracks the file once, whatever became of it since.  A
\* second call replaces the copy, even one that only reads or is refused; what
\* a tool wrote elsewhere has no row to undo.
UndoRestoresOneCall ==
    \A i \in DOMAIN rows : Undone(i) /\ begun[rows[i].run][rows[i].file] = 1
        => onDisk'[rows[i].file] = rows[i].before
============================================================================

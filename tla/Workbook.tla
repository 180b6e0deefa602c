------------------------------ MODULE Workbook ------------------------------
(***************************************************************************)
(* Filling a workbook from sources by a plan (agent/fill_plan.py, the      *)
(* writers of extensions/tools/builtin/excel_workbook.py and the readers   *)
(* of agent/workbook_brief.py).  A plan is resolved to values first, then  *)
(* each of its sheets is loaded, filled and saved; a save may fail, the    *)
(* user may replace a file between two steps, and the model may call the   *)
(* tool again.                                                             *)
(***************************************************************************)
EXTENDS Naturals, Sequences, FiniteSets, SequencesExt, World

CONSTANTS Labels,       \* what a row is called: a key, or a date as written
          Fold,         \* each label casefolded, or the day it stands for
          Rank,         \* the order in which labels sort
          Markers,      \* labels of total rows
          LateLabels,   \* dates after the cutoff
          SourceBooks,  \* the contents a source file may have
          Templates,    \* the contents a template may have
          SheetNames,   \* the sheets, in the order of the plan
          EmptyCell, Formula, Merged,  \* a cell without a value, with a formula,
                        \* and one that is not the first of a merged range
          MaxFills      \* bound: calls of the tools

Sheets == Range(SheetNames)
Cells == Nat \cup {EmptyCell, Formula, Merged}

ASSUME WorkbookAssumption ==
    /\ Fold \in [Labels -> Labels] /\ \A l \in Labels : Fold[Fold[l]] = Fold[l]
    /\ Rank \in [Labels -> Nat] /\ SourceBooks \subseteq Seq(Labels \X Nat)
    /\ Templates \subseteq Seq(Labels \X Cells)
    /\ MaxFills \in Nat /\ SheetNames \in Seq(Sheets) /\ SheetNames # <<>>

VARIABLES book,    \* the files: "template" and, once made, "report"
          source,  \* rows of each source file, <<label, number>>
          plan,    \* the plan the model passes
          fill,    \* the call under way
          fills,   \* calls so far
          nudged   \* the run was told to stop: the report is ready

workbookVars == <<book, source, plan, fill, fills, nudged>>

NoFill == [pc |-> "none"]
SourceFiles == {"first", "second"}

Plans == [out : {"template", "report"}, mode : {"date", "key"},
          aggregate : {"sum", "first"}, onlyEmpty : BOOLEAN]

WorkbookInit ==
    /\ book \in [{"template"} -> [Sheets -> Templates]]
    /\ source \in [SourceFiles -> SourceBooks]
    /\ plan \in Plans
    /\ fill = NoFill /\ fills = 0 /\ nudged = FALSE

----------------------------------------------------------------------------
\* _extract_date_values, _extract_key_values: dates are read as days, keys stay
\* as they are written; rows of one key are added up
KeyOf(l, mode) == IF mode = "date" THEN Fold[l] ELSE l
Counted(rows, mode) ==
    {i \in DOMAIN rows : rows[i][1] \notin Markers /\ (mode = "date" => rows[i][1] \notin LateLabels)}
Amount(rows, at) == MapThenSumSet(LAMBDA i : rows[i][2], at)
Extract(rows, mode) ==
    LET counted == Counted(rows, mode) IN
    [k \in {KeyOf(rows[i][1], mode) : i \in counted} |->
        Amount(rows, {i \in counted : KeyOf(rows[i][1], mode) = k})]

\* resolve_fill_plan: over the sources of a sheet, in their order
Resolved(src, p) ==
    LET one == Extract(src["first"], p.mode)
        two == Extract(src["second"], p.mode)
        from(f, k) == IF k \in DOMAIN f THEN f[k] ELSE 0 IN
    [k \in DOMAIN one \cup DOMAIN two |->
        IF p.aggregate = "sum" THEN from(one, k) + from(two, k)
        ELSE IF k \in DOMAIN one THEN one[k] ELSE two[k]]

\* _fill_by_date, _fill_by_key: the first row of a label; of two spellings the
\* later wins
Target(rows, i) ==
    rows[i][1] \notin Markers /\ \A j \in 1..(i - 1) : Fold[rows[j][1]] # Fold[rows[i][1]]
Matching(values, l) == {k \in DOMAIN values : Fold[k] = Fold[l]}
ValueFor(values, l) ==
    values[CHOOSE k \in Matching(values, l) : \A h \in Matching(values, l) : Rank[h] <= Rank[k]]

\* _apply_fill_common
Writes(rows, values, onlyEmpty) ==
    {i \in DOMAIN rows : /\ Target(rows, i) /\ Matching(values, rows[i][1]) # {}
                         /\ rows[i][2] # Merged
                         /\ onlyEmpty => rows[i][2] = EmptyCell}
Filled(rows, values, onlyEmpty) ==
    [i \in DOMAIN rows |-> IF i \in Writes(rows, values, onlyEmpty)
                           THEN <<rows[i][1], ValueFor(values, rows[i][1])>> ELSE rows[i]]
Unmatched(rows, values) ==
    {k \in DOMAIN values : \A i \in DOMAIN rows : Target(rows, i) => Fold[rows[i][1]] # Fold[k]}
Status(rows, values, onlyEmpty) ==
    IF Unmatched(rows, values) # {} THEN "PARTIAL"
    ELSE IF Writes(rows, values, onlyEmpty) = {} THEN "NOOP" ELSE "SUCCESS"

----------------------------------------------------------------------------
\* ApplyFillPlanTool.execute and resolve_fill_plan: every source is read before
\* anything is written
StartPlan ==
    /\ fill.pc = "none" /\ fills < MaxFills /\ fills' = fills + 1
    /\ LET values == Resolved(source, plan) IN
       fill' = IF DOMAIN values = {} THEN NoFill
               ELSE [pc |-> "fill", at |-> 1, values |-> values, results |-> <<>>, wrote |-> 0,
                     began |-> book["template"], sources |-> source, calm |-> TRUE]
    /\ UNCHANGED <<book, source, plan, nudged>>

\* A bug: every sheet starts from the template.
BaseIsTemplate(i) == "template"
\* apply_fill_plan: the second sheet goes on from what the first one saved
BaseOf(i) == IF i = 1 THEN "template" ELSE plan.out

Report(result, wrote) ==
    fill' = [fill EXCEPT !.results = Append(@, result), !.wrote = @ + wrote,
                         !.at = @ + 1,
                         !.pc = IF result \in {"Error:", "Error saving file:"} \/ fill.at = Len(SheetNames)
                                THEN "done" ELSE "fill"]

Saved(name, s, from, rows) == [n \in DOMAIN book \cup {name} |->
    IF n = name THEN [book[from] EXCEPT ![s] = rows] ELSE book[n]]

\* one sheet; the save replaces the output whole
FillSheet ==
    /\ fill.pc = "fill" /\ BaseOf(fill.at) \in DOMAIN book
    /\ LET s == SheetNames[fill.at]
           base == BaseOf(fill.at)
           rows == book[base][s] IN
       /\ book' = Saved(plan.out, s, base, Filled(rows, fill.values, plan.onlyEmpty))
       /\ Report(Status(rows, fill.values, plan.onlyEmpty), Cardinality(Writes(rows, fill.values, plan.onlyEmpty)))
    /\ UNCHANGED <<source, plan, fills, nudged>>

\* a column that is not there, or a save that fails
FillFails(result) ==
    /\ fill.pc = "fill" /\ Report(result, 0)
    /\ UNCHANGED <<book, source, plan, fills, nudged>>

\* the file to go on from is gone: the exception ends the call
FillRaises ==
    /\ fill.pc = "fill" /\ BaseOf(fill.at) \notin DOMAIN book
    /\ fill' = NoFill
    /\ UNCHANGED <<book, source, plan, fills, nudged>>

\* What the tool answers, and what the loop makes of it: a result that begins
\* with "Error:" is one, a NOOP is not a success.
Succeeded == "Error:" \notin Range(fill.results)
EndPlan ==
    /\ fill.pc = "done"
    /\ nudged' = (nudged \/ (Succeeded /\ "NOOP" \notin Range(fill.results)))
    /\ fill' = NoFill
    /\ UNCHANGED <<book, source, plan, fills>>

\* _fill_cells: cells by address, formulas included, merged ones left
FillCells(s, i, v, out) ==
    /\ fill.pc = "none" /\ fills < MaxFills /\ fills' = fills + 1
    /\ i \in DOMAIN book["template"][s]
    /\ LET row == book["template"][s][i] IN
       book' = Saved(out, s, "template",
           [book["template"][s] EXCEPT ![i] = IF row[2] = Merged THEN row ELSE <<row[1], v>>])
    /\ UNCHANGED <<source, plan, fill, nudged>>

\* The user replaces a file, or takes the report away, while the plan is run.
Disturbed == fill' = [fill EXCEPT !.calm = FALSE]
UserReplaces ==
    /\ fill.pc = "fill" /\ fill.calm /\ Disturbed
    /\ \/ \E t \in Templates, s \in Sheets, n \in DOMAIN book :
            book' = [book EXCEPT ![n][s] = t] /\ UNCHANGED source
       \/ "report" \in DOMAIN book /\ book' = [n \in {"template"} |-> book[n]] /\ UNCHANGED source
       \/ \E f \in SourceFiles, rows \in SourceBooks :
            source' = [source EXCEPT ![f] = rows] /\ UNCHANGED book
    /\ UNCHANGED <<plan, fills, nudged>>

WorkbookNext ==
    \/ StartPlan \/ FillSheet \/ FillRaises \/ EndPlan \/ UserReplaces
    \/ \E result \in {"Error:", "Error saving file:"} : FillFails(result)
    \/ \E s \in Sheets, i \in 1..2, out \in {"template", "report"} : FillCells(s, i, 9, out)

----------------------------------------------------------------------------
\* The files and the call are well formed.
WorkbookTypeOK ==
    /\ {"template"} \subseteq DOMAIN book /\ DOMAIN book \subseteq {"template", "report"}
    /\ \A n \in DOMAIN book : DOMAIN book[n] = Sheets
    /\ fill.pc \in {"none", "fill", "done"} /\ fills \in 0..MaxFills /\ nudged \in BOOLEAN

\* What a row should come to: everything the sources say of its label, or the
\* first of them that names it.
About(rows, l) == {i \in Counted(rows, plan.mode) : Fold[rows[i][1]] = Fold[l]}
Named(src, l) == \E f \in SourceFiles : About(src[f], l) # {}
Told(src, l) ==
    LET told(f) == Amount(src[f], About(src[f], l)) IN
    IF plan.aggregate = "sum" THEN told("first") + told("second")
    ELSE IF About(src["first"], l) # {} THEN told("first") ELSE told("second")

OneSpelling(src) ==
    \A f, g \in SourceFiles : \A r \in Range(src[f]), q \in Range(src[g]) :
        Fold[r[1]] = Fold[q[1]] => r[1] = q[1]

\* A plan whose sheets were all saved leaves a report that differs from the
\* template it started with in the empty cells of the rows the sources name,
\* and those hold all the sources say, unless a file was replaced meanwhile or
\* the sources spell a key in two ways (fill_plan.py:296, 412).
PlanIsApplied ==
    fill.pc = "done" /\ fill.calm
    /\ Range(fill.results) \subseteq {"SUCCESS", "PARTIAL", "NOOP"}
    /\ (plan.mode = "key" => OneSpelling(fill.sources))
    => \A s \in Sheets : \A i \in DOMAIN fill.began[s] :
         LET was == fill.began[s][i] IN
         book[plan.out][s][i] =
           IF Target(fill.began[s], i) /\ Named(fill.sources, was[1])
              /\ was[2] # Merged /\ (plan.onlyEmpty => was[2] = EmptyCell)
           THEN <<was[1], Told(fill.sources, was[1])>> ELSE was

\* "True only when apply_fill_plan reports a non-empty successful write"
\* (agent/loop.py:190): the run is told to stop only after one.
NudgedAfterWriting ==
    [][nudged' /\ ~nudged => fill.wrote > 0 /\ Range(fill.results) \subseteq {"SUCCESS", "PARTIAL"}]_workbookVars
=============================================================================

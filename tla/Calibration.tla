---------------------------- MODULE Calibration ----------------------------
(***************************************************************************)
(* The calibration loop: a baseline, then in each iteration a proposal is  *)
(* written over config/calibrated, scored, and kept or rolled back from    *)
(* the copy taken before.  The process may crash at any step; the next one *)
(* starts from the files.                                                  *)
(***************************************************************************)
EXTENDS Naturals, FiniteSets, World

CONSTANTS Surfaces,       \* what a proposal may write: prompts, overrides, few-shots, skills
          Scenarios,      \* how many scenarios there are
          MaxIterations,
          MaxProposals, MaxCrashes  \* bounds

ASSUME CalibrationAssumption ==
    /\ {Scenarios, MaxIterations, MaxProposals, MaxCrashes} \subseteq Nat
    /\ "metadata" \notin Surfaces
    \* a directory is there or it is not
    /\ None \notin [Surfaces \cup {"metadata"} -> {None} \cup Nat]

VARIABLES tree,       \* config/calibrated: file -> the proposal it is of, None when there is no directory
          backup,     \* .backup in it, None when there is none
          climb,      \* the loop of the process
          bestTree,   \* history: what best was scored on
          bare,       \* history: a proposal was written with nothing backed up
          proposals, crashes
calibrationVars == <<tree, backup, climb, bestTree, bare, proposals, crashes>>

Blank == [s \in Surfaces \cup {"metadata"} |-> None]
Ended == {"off", "done", "failed"}
Climb(pc) == [pc |-> pc, iteration |-> 0, best |-> 0, todo |-> {}, failing |-> FALSE]

CalibrationInit ==
    /\ tree \in {None, [Blank EXCEPT !["metadata"] = 0]} /\ backup = None
    /\ climb = Climb("off") /\ bestTree = None /\ bare = FALSE
    /\ proposals = 0 /\ crashes = 0

----------------------------------------------------------------------------
BeginCalibration ==
    /\ climb.pc \in Ended /\ climb' = Climb("baseline") /\ bare' = FALSE
    /\ UNCHANGED <<tree, backup, bestTree, proposals, crashes>>

\* run_all and score_all; the rest needs a cloud provider and no dry run.
ScoreBaseline(passed, dry) ==
    /\ climb.pc = "baseline"
    /\ climb' = [climb EXCEPT !.pc = IF dry THEN "off" ELSE "analyze", !.best = passed]
    /\ bestTree' = tree
    /\ UNCHANGED <<tree, backup, bare, proposals, crashes>>

\* The cloud model proposes new contents of some files, or fails and the
\* iteration is spent.
MayIterate == climb.pc = "analyze" /\ climb.iteration < MaxIterations /\ climb.best < Scenarios
Propose(changes) ==
    /\ MayIterate /\ proposals < MaxProposals /\ proposals' = proposals + 1
    /\ climb' = [climb EXCEPT !.pc = "backup", !.iteration = @ + 1, !.todo = changes]
    /\ UNCHANGED <<tree, backup, bestTree, bare, crashes>>
AnalysisFails ==
    /\ MayIterate /\ climb' = [climb EXCEPT !.iteration = @ + 1]
    /\ UNCHANGED <<tree, backup, bestTree, bare, proposals, crashes>>

\* A bug: a backup that is there already is kept.
BackUpOnce ==
    /\ climb.pc = "backup" /\ climb' = [climb EXCEPT !.pc = "write"]
    /\ backup' = IF backup = None THEN tree ELSE backup
    /\ tree' = IF tree = None THEN Blank ELSE tree
    /\ bare' = (bare \/ tree = None)
    /\ UNCHANGED <<bestTree, proposals, crashes>>
\* _backup_current, then the directory is made if it is missing.
BackUp ==
    /\ climb.pc = "backup" /\ climb' = [climb EXCEPT !.pc = "write"]
    /\ backup' = tree
    /\ tree' = IF tree = None THEN Blank ELSE tree
    /\ bare' = (bare \/ tree = None)
    /\ UNCHANGED <<bestTree, proposals, crashes>>

\* _apply_sections, one file after another; one that cannot be written, or
\* whose name is refused, rolls the others back and ends the loop.
WriteSurface(s) ==
    /\ climb.pc = "write" /\ s \in climb.todo
    /\ tree' = [tree EXCEPT ![s] = proposals]
    /\ climb' = [climb EXCEPT !.todo = @ \ {s}]
    /\ UNCHANGED <<backup, bestTree, bare, proposals, crashes>>
WriteFails ==
    /\ climb.pc = "write" /\ climb.todo # {}
    /\ climb' = [climb EXCEPT !.pc = "remove", !.failing = TRUE]
    /\ UNCHANGED <<tree, backup, bestTree, bare, proposals, crashes>>

ScoreProposal(passed) ==
    /\ climb.pc = "write" /\ climb.todo = {}
    /\ IF passed > climb.best
       THEN /\ climb' = [climb EXCEPT !.pc = "analyze", !.best = passed]
            /\ bestTree' = tree
       ELSE climb' = [climb EXCEPT !.pc = "remove"] /\ UNCHANGED bestTree
    /\ UNCHANGED <<tree, backup, bare, proposals, crashes>>

----------------------------------------------------------------------------
\* rollback: without a backup nothing is done; else what is there is removed,
\* the copies are put back, and the backup goes.
AfterRollback == climb' = [climb EXCEPT !.pc = IF climb.failing THEN "failed" ELSE "analyze"]
NoBackup ==
    /\ climb.pc = "remove" /\ backup = None /\ AfterRollback
    /\ UNCHANGED <<tree, backup, bestTree, bare, proposals, crashes>>
RemoveFile(s) ==
    /\ climb.pc = "remove" /\ backup # None /\ tree[s] # None
    /\ tree' = [tree EXCEPT ![s] = None]
    /\ UNCHANGED <<backup, climb, bestTree, bare, proposals, crashes>>
PutBack(s) ==
    /\ climb.pc \in {"remove", "restore"} /\ backup # None /\ (climb.pc = "remove" => tree = Blank)
    /\ tree[s] = None /\ backup[s] # None
    /\ tree' = [tree EXCEPT ![s] = backup[s]] /\ climb' = [climb EXCEPT !.pc = "restore"]
    /\ UNCHANGED <<backup, bestTree, bare, proposals, crashes>>
EndRollback ==
    /\ climb.pc \in {"remove", "restore"} /\ backup # None /\ (climb.pc = "remove" => tree = Blank)
    /\ tree = backup /\ backup' = None /\ AfterRollback
    /\ UNCHANGED <<tree, bestTree, bare, proposals, crashes>>

\* save_metadata, with the best score.
FinishCalibration ==
    /\ climb.pc = "analyze" /\ ~(climb.iteration < MaxIterations /\ climb.best < Scenarios)
    /\ tree' = [(IF tree = None THEN Blank ELSE tree) EXCEPT !["metadata"] = climb.best]
    /\ climb' = [climb EXCEPT !.pc = "done"]
    /\ UNCHANGED <<backup, bestTree, bare, proposals, crashes>>

\* The process ends: killed, or the stack cannot be built from the new files.
CrashCalibration ==
    /\ climb.pc \notin Ended /\ crashes < MaxCrashes /\ crashes' = crashes + 1
    /\ climb' = Climb("off")
    /\ UNCHANGED <<tree, backup, bestTree, bare, proposals>>

CalibrationNext ==
    \/ BeginCalibration \/ AnalysisFails \/ BackUp \/ WriteFails
    \/ NoBackup \/ EndRollback \/ FinishCalibration \/ CrashCalibration
    \/ \E passed \in 0..Scenarios, dry \in BOOLEAN : ScoreBaseline(passed, dry)
    \/ \E changes \in SUBSET Surfaces : Propose(changes)
    \/ \E s \in Surfaces : WriteSurface(s)
    \/ \E s \in Surfaces \cup {"metadata"} : RemoveFile(s) \/ PutBack(s)
    \/ \E passed \in 0..Scenarios : ScoreProposal(passed)

----------------------------------------------------------------------------
\* The type of the state.
CalibrationTypeOK ==
    /\ \A t \in {tree, backup, bestTree} \ {None} : DOMAIN t = DOMAIN Blank
    /\ climb.pc \in Ended \cup {"baseline", "analyze", "backup", "write", "remove", "restore"}
    /\ climb.best \in 0..Scenarios /\ climb.todo \subseteq Surfaces

\* When the loop ends, or a proposal could not be written, the files are those
\* the best score was reached with, and the score on record is theirs
\* (calibration/loop.py:57 "Keep changes if score improved, else rollback").
Surface(t, s) == IF t = None THEN None ELSE t[s]
BestIsKept ==
    climb.pc \in {"done", "failed"} =>
        /\ \A s \in Surfaces : Surface(tree, s) = Surface(bestTree, s)
        /\ climb.pc = "done" => tree["metadata"] = climb.best

\* It holds of every calibration that found the directory there.
CalibrationIsSound == ~bare => BestIsKept
============================================================================

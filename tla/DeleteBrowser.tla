--------------------------- MODULE DeleteBrowser ---------------------------
(***************************************************************************)
(* The /delete keyboard of the bot (channels/telegram/file_manager.py) and *)
(* the uploads that write beside it (_save_and_process_file of             *)
(* channels/telegram/channel.py).  The browser's state is one record of    *)
(* the user, shared by all the keyboards he has open; a tap says only      *)
(* which button it was.  Callbacks are handled concurrently, listings and  *)
(* deletions run in threads, and an edit of a message may fail.            *)
(***************************************************************************)
EXTENDS Naturals, Sequences, FiniteSets, SequencesExt, World

CONSTANTS Listing,      \* the paths that may exist, in the order of a listing
          Folders,      \* those that are folders
          ParentOf,     \* the folder of each, or Root
          Root,         \* the workspace
          FirstFree,    \* for an upload: the names it tries, in order
          Boards,       \* messages with a keyboard
          Taps,         \* callbacks and uploads under way
          PageSize,     \* DELETE_PAGE_SIZE
          MaxTaps       \* bound: callbacks in all

Paths == Range(Listing)

ASSUME DeleteBrowserAssumption ==
    /\ Root \notin Paths /\ None \notin Paths
    /\ Folders \subseteq Paths
    /\ ParentOf \in [Paths -> Folders \cup {Root}]
    /\ FirstFree \in Seq(Paths)
    /\ PageSize \in Nat \ {0} /\ MaxTaps \in Nat

VARIABLES disk,      \* the paths that exist
          browse,    \* user_data's delete_state, or None
          screen,    \* what each message shows
          tap,       \* the callbacks and uploads
          tapCount,      \* callbacks so far
          calm,      \* one keyboard so far, and never two taps at a time
          strayed,   \* a path other than the one on the screen was deleted
          covered    \* an upload replaced a file that was there

browserVars == <<disk, browse, screen, tap, tapCount, calm, strayed, covered>>

NoTap == [pc |-> "idle"]
Blank == [kind |-> "none"]
Text == [kind |-> "text"]

BrowserInit ==
    /\ disk \in {Paths \ {p} : p \in Range(FirstFree)}
    /\ browse = None
    /\ screen = [m \in Boards |-> Blank]
    /\ tap = [t \in Taps |-> NoTap]
    /\ tapCount = 0
    /\ calm = TRUE /\ strayed = FALSE /\ covered = FALSE

Children(path) == SelectSeq(Listing, LAMBDA p : p \in disk /\ ParentOf[p] = path)
Exists(path) == path = Root \/ path \in disk
Pages(entries) == IF entries = <<>> THEN 1 ELSE (Len(entries) + PageSize - 1) \div PageSize

\* build_delete_browser: a folder that is gone is shown as the workspace
View(path, page) ==
    LET shown == IF Exists(path) THEN path ELSE Root
        entries == Children(shown)
    IN [kind |-> "browse", path |-> shown, entries |-> entries,
        page |-> IF page >= Pages(entries) THEN Pages(entries) - 1 ELSE page]

\* the buttons of a screen; an entry is known by its index in the whole listing
OnPage(v) == {i \in DOMAIN v.entries : (i - 1) \div PageSize = v.page}
ButtonsOf(v) ==
    CASE v.kind = "browse" ->
            {[do |-> IF v.entries[i] \in Folders THEN "open" ELSE "file", at |-> i] :
                i \in OnPage(v)}
            \cup {[do |-> "page", at |-> p] : p \in {v.page - 1, v.page + 1} \cap (0..(Pages(v.entries) - 1))}
            \cup {[do |-> b, at |-> 0] : b \in {"refresh", "cancel"}}
            \cup (IF v.path = Root THEN {} ELSE {[do |-> "up", at |-> 0]})
            \cup (IF v.path = Root \/ v.entries # <<>> THEN {} ELSE {[do |-> "folder", at |-> 0]})
      [] v.kind = "confirm" -> {[do |-> b, at |-> 0] : b \in {"exec", "back", "cancel"}}
      [] OTHER -> {}

----------------------------------------------------------------------------
Busy == {t \in Taps : tap[t].pc # "idle"}

\* /delete opens another keyboard
Command(t, m) ==
    /\ tap[t].pc = "idle" /\ screen[m].kind = "none"
    /\ tapCount < MaxTaps /\ tapCount' = tapCount + 1
    /\ tap' = [tap EXCEPT ![t] = [pc |-> "list", on |-> m, path |-> Root, page |-> 0]]
    /\ calm' = (calm /\ Busy = {} /\ \A n \in Boards : screen[n].kind = "none")
    /\ UNCHANGED <<disk, browse, screen, strayed, covered>>

\* a button of what the message shows now; the handler looks at it later
Press(t, m, b) ==
    /\ tap[t].pc = "idle"
    /\ tapCount < MaxTaps /\ tapCount' = tapCount + 1
    /\ b \in ButtonsOf(screen[m])
    /\ tap' = [tap EXCEPT ![t] = [pc |-> "handle", on |-> m, button |-> b,
                  shown |-> IF screen[m].kind = "confirm" THEN screen[m].target ELSE None]]
    /\ calm' = (calm /\ Busy = {})
    /\ UNCHANGED <<disk, browse, screen, strayed, covered>>

ToList(t, path, page) ==
    tap' = [tap EXCEPT ![t] = [pc |-> "list", on |-> tap[t].on, path |-> path, page |-> page]]
ToEdit(t, v) == tap' = [tap EXCEPT ![t] = [pc |-> "edit", on |-> tap[t].on, view |-> v]]

\* a refusal: the state is dropped and the message says why
Drop(t) == browse' = None /\ ToEdit(t, Text)

NoState(t) ==
    /\ tap[t].pc = "handle" /\ browse = None
    /\ ToEdit(t, Text)
    /\ UNCHANGED <<disk, browse, screen, tapCount, calm, strayed, covered>>

Handling(t, actions) ==
    tap[t].pc = "handle" /\ browse # None /\ tap[t].button.do \in actions

CancelTap(t) ==
    /\ Handling(t, {"cancel"})
    /\ Drop(t)
    /\ UNCHANGED <<disk, screen, tapCount, calm, strayed, covered>>

\* back, refresh, another page, up
Move(t) ==
    /\ Handling(t, {"back", "refresh", "page", "up"})
    /\ CASE tap[t].button.do = "page" -> ToList(t, browse.path, tap[t].button.at)
         [] tap[t].button.do = "up" ->
                ToList(t, IF browse.path = Root THEN Root ELSE ParentOf[browse.path], 0)
         [] OTHER -> ToList(t, browse.path, browse.page)
    /\ UNCHANGED <<disk, browse, screen, tapCount, calm, strayed, covered>>

\* _resolve_entry: the index is looked up in the state, whichever board it was on
Entry(t) ==
    LET i == tap[t].button.at
    IN IF i \in DOMAIN browse.entries THEN browse.entries[i] ELSE None

OpenFolder(t) ==
    /\ Handling(t, {"open"})
    /\ IF Entry(t) \in Folders
       THEN ToList(t, Entry(t), 0) /\ UNCHANGED browse
       ELSE Drop(t)
    /\ UNCHANGED <<disk, screen, tapCount, calm, strayed, covered>>

\* _render_confirmation: the target is selected before the screen is built
Select(t, p) ==
    IF p \in disk
    THEN /\ browse' = IF browse = None THEN None ELSE [browse EXCEPT !.target = p]
         /\ tap' = [tap EXCEPT ![t] = [pc |-> "confirm", on |-> tap[t].on, path |-> p]]
    ELSE Drop(t)

ChooseFile(t) ==
    /\ Handling(t, {"file"})
    /\ IF Entry(t) \in Paths \ Folders THEN Select(t, Entry(t)) ELSE Drop(t)
    /\ UNCHANGED <<disk, screen, tapCount, calm, strayed, covered>>

\* the folder looked at, if a thread finds it empty
ChooseFolder(t) ==
    /\ Handling(t, {"folder"})
    /\ IF browse.path # Root
       THEN tap' = [tap EXCEPT ![t] = [pc |-> "empty", on |-> tap[t].on, path |-> browse.path]]
       ELSE ToEdit(t, Text)
    /\ UNCHANGED <<disk, browse, screen, tapCount, calm, strayed, covered>>

IfEmpty(t) ==
    /\ tap[t].pc = "empty"
    /\ IF tap[t].path \in disk /\ Children(tap[t].path) = <<>>
       THEN Select(t, tap[t].path)
       ELSE ToEdit(t, Text) /\ UNCHANGED browse
    /\ UNCHANGED <<disk, screen, tapCount, calm, strayed, covered>>

\* _execute_delete: the selected target, if there is one and it is still there
Exec(t) ==
    /\ Handling(t, {"exec"})
    /\ IF browse.target \in disk
       THEN /\ tap' = [tap EXCEPT ![t] = [pc |-> "delete", on |-> tap[t].on,
                          path |-> browse.target, shown |-> tap[t].shown, state |-> browse]]
            /\ UNCHANGED browse
       ELSE Drop(t)
    /\ UNCHANGED <<disk, screen, tapCount, calm, strayed, covered>>

----------------------------------------------------------------------------
\* The thread that unlinks.  A folder that is not empty or gone is reported; the
\* exception of a file that is gone ends the callback.
Delete(t) ==
    /\ tap[t].pc = "delete"
    /\ LET p == tap[t].path IN
       CASE p \in disk /\ Children(p) = <<>> ->
                /\ disk' = disk \ {p}
                /\ strayed' = (strayed \/ p # tap[t].shown)
                /\ IF p \in Folders THEN ToList(t, ParentOf[p], 0)
                   ELSE ToList(t, tap[t].state.path, tap[t].state.page)
                /\ UNCHANGED browse
         [] p \in Folders /\ (p \notin disk \/ Children(p) # <<>>) ->
                Drop(t) /\ UNCHANGED <<disk, strayed>>
         [] OTHER -> tap' = [tap EXCEPT ![t] = NoTap] /\ UNCHANGED <<disk, browse, strayed>>
    /\ UNCHANGED <<screen, tapCount, calm, covered>>

\* the listing of a thread, and the new state
List(t) ==
    /\ tap[t].pc = "list"
    /\ tap' = [tap EXCEPT ![t] = [pc |-> "store", on |-> tap[t].on, path |-> tap[t].path,
                                  view |-> View(tap[t].path, tap[t].page)]]
    /\ UNCHANGED <<disk, browse, screen, tapCount, calm, strayed, covered>>

\* The state has the path asked for; a folder that is gone only shows the root.
Store(t) ==
    /\ tap[t].pc = "store"
    /\ LET v == tap[t].view
       IN browse' = [path |-> tap[t].path, page |-> v.page, entries |-> v.entries, target |-> None]
    /\ ToEdit(t, tap[t].view)
    /\ UNCHANGED <<disk, screen, tapCount, calm, strayed, covered>>

\* stat() raises if the file went away
BuildConfirm(t) ==
    /\ tap[t].pc = "confirm"
    /\ IF tap[t].path \in disk
       THEN ToEdit(t, [kind |-> "confirm", target |-> tap[t].path])
       ELSE tap' = [tap EXCEPT ![t] = NoTap]
    /\ UNCHANGED <<disk, browse, screen, tapCount, calm, strayed, covered>>

\* safe_edit_message: a failed edit leaves what was shown
Edit(t) ==
    /\ tap[t].pc = "edit"
    /\ \/ screen' = [screen EXCEPT ![tap[t].on] = tap[t].view]
       \/ UNCHANGED screen
    /\ tap' = [tap EXCEPT ![t] = NoTap]
    /\ UNCHANGED <<disk, browse, tapCount, calm, strayed, covered>>

----------------------------------------------------------------------------
\* _save_and_process_file: the first free name is looked for ...
PickName(t) ==
    /\ tap[t].pc = "idle"
    /\ tapCount < MaxTaps /\ tapCount' = tapCount + 1
    /\ \E i \in DOMAIN FirstFree :
          /\ FirstFree[i] \notin disk
          /\ \A j \in 1..(i - 1) : FirstFree[j] \in disk
          /\ tap' = [tap EXCEPT ![t] = [pc |-> "download", path |-> FirstFree[i]]]
    /\ calm' = (calm /\ Busy = {})
    /\ UNCHANGED <<disk, browse, screen, strayed, covered>>

\* ... and written when the download is over, which may fail
Download(t) ==
    /\ tap[t].pc = "download"
    /\ \/ /\ disk' = disk \cup {tap[t].path}
          /\ covered' = (covered \/ tap[t].path \in disk)
       \/ UNCHANGED <<disk, covered>>
    /\ tap' = [tap EXCEPT ![t] = NoTap]
    /\ UNCHANGED <<browse, screen, tapCount, calm, strayed>>

\* the agent removes a file
Vanish(p) ==
    /\ p \in disk \ Folders
    /\ disk' = disk \ {p}
    /\ UNCHANGED <<browse, screen, tap, tapCount, calm, strayed, covered>>

TapStep(t) ==
    \/ NoState(t) \/ CancelTap(t) \/ Move(t) \/ OpenFolder(t) \/ ChooseFile(t)
    \/ ChooseFolder(t) \/ IfEmpty(t) \/ Exec(t) \/ Delete(t) \/ List(t) \/ Store(t) \/ BuildConfirm(t)
    \/ Edit(t) \/ PickName(t) \/ Download(t)

BrowserNext ==
    \/ \E t \in Taps :
          \/ TapStep(t)
          \/ \E m \in Boards :
                \/ Command(t, m)
                \/ \E b \in ButtonsOf(screen[m]) : Press(t, m, b)
    \/ \E p \in Paths : Vanish(p)

----------------------------------------------------------------------------
(* Properties *)

BrowserTypeOK ==
    /\ disk \subseteq Paths
    /\ browse # None => /\ browse.path \in Folders \cup {Root}
                        /\ browse.entries \in Seq(Paths)
                        /\ browse.target \in Paths \cup {None}
    /\ tapCount \in 0..MaxTaps

\* One keyboard, one tap at a time: what is deleted is what the confirmation
\* showed, whatever appears, vanishes or fails to be drawn in between, and an
\* upload replaces nothing.
CalmUseIsSafe == calm => ~strayed /\ ~covered
=============================================================================

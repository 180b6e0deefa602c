------------------------------ MODULE WebFiles ------------------------------
(***************************************************************************)
(* The file manager of the web channel (channels/web/files.py): rename,    *)
(* move, copy, delete, new folder and upload in a user's workspace.  Each  *)
(* request looks at the tree, then changes it by path in a thread, one     *)
(* path of a batch after another; requests of a user overlap.  An upload   *)
(* creates its file before the data arrives.                               *)
(***************************************************************************)
EXTENDS Naturals, Sequences, FiniteSets, SequencesExt, World

CONSTANTS FirstTree,       \* the workspace at the start: path -> entry; its contents are
                           \* numbers above those of the uploads
          GivenNames,      \* names a user may type
          ProtectedRoots,  \* PROTECTED_DELETE_ROOTS and _FILES
          FileRequests,
          MaxDepth,        \* bound: folders in folders
          MaxRequests      \* bound: requests in all

Folder == [kind |-> "folder"]
Content(n, whole) == [kind |-> "file", of |-> n, whole |-> whole]

\* A workspace is finite, every entry is a folder or a whole file, and the
\* folders that lead to it are there.
ASSUME WebFilesAssumption ==
    /\ MaxDepth \in Nat \ {0} /\ MaxRequests \in Nat
    /\ GivenNames \subseteq Seq(STRING)
    /\ IsFiniteSet(DOMAIN FirstTree) /\ <<>> \notin DOMAIN FirstTree
    /\ DOMAIN FirstTree \subseteq Seq(Seq(STRING))
    /\ \A p \in DOMAIN FirstTree :
         /\ FirstTree[p] = Folder \/ FirstTree[p] = Content(FirstTree[p].of, TRUE)
         /\ \A n \in 1..(Len(p) - 1) :
              SubSeq(p, 1, n) \in DOMAIN FirstTree /\ FirstTree[SubSeq(p, 1, n)] = Folder

VARIABLES tree,     \* the entries of the workspace, by path
          job,      \* the requests under way
          jobs,     \* requests so far
          saved,    \* contents the user was told are saved
          dropped,  \* contents of what he asked to delete
          crossed   \* history: the tree changed under a request that had looked

filesVars == <<tree, job, jobs, saved, dropped, crossed>>

NoJob == [pc |-> "idle"]
Batch(op, into, recursive, ps) ==
    [pc |-> "next", op |-> op, into |-> into, recursive |-> recursive,
     src |-> <<>>, dst |-> <<>>, rest |-> ps]

ContentsAt(ps) == {tree[p].of : p \in {q \in ps : tree[q].kind = "file"}}

FilesInit ==
    /\ tree = FirstTree
    /\ job = [j \in FileRequests |-> NoJob]
    /\ jobs = 0 /\ crossed = FALSE /\ dropped = {}
    /\ saved = ContentsAt(DOMAIN tree)

----------------------------------------------------------------------------
\* A path is the sequence of its names, <<>> the workspace; a name is the
\* sequence of what was typed and of the numbers added to it.
HasPath(p) == p = <<>> \/ p \in DOMAIN tree
IsFolder(p) == p = <<>> \/ (p \in DOMAIN tree /\ tree[p] = Folder)
\* A bug: what a folder holds is left where it is.
Itself(p) == {p} \cap DOMAIN tree
Below(p) == {q \in DOMAIN tree : IsPrefix(p, q)}
Guarded(p) == p = <<>> \/ Head(p) \in ProtectedRoots

\* A bug: the name with a number is taken without another look.
NextName(dir, name) ==
    IF HasPath(Append(dir, name)) THEN Append(dir, Append(name, 1)) ELSE Append(dir, name)
\* _unique_destination
FreeName(dir, name) ==
    LET taken(k) == HasPath(Append(dir, Append(name, k))) IN
    IF ~HasPath(Append(dir, name)) THEN Append(dir, name)
    ELSE LET k == CHOOSE i \in 1..(Cardinality(DOMAIN tree) + 1) :
                      ~taken(i) /\ \A h \in 1..(i - 1) : taken(h)
         IN  Append(dir, Append(name, k))

With(p, e) == [q \in DOMAIN tree \cup {p} |-> IF q = p THEN e ELSE tree[q]]
Without(ps) == [q \in DOMAIN tree \ ps |-> tree[q]]
Onto(t, u) == [q \in DOMAIN t \cup DOMAIN u |-> IF q \in DOMAIN t THEN t[q] ELSE u[q]]
Suffix(q, p) == SubSeq(q, Len(p) + 1, Len(q))
\* what is at and below src, as it would be at dst
Rebased(src, dst) ==
    [q \in {dst \o Suffix(x, src) : x \in Below(src)} |-> tree[src \o Suffix(q, dst)]]
\* the folders that lead to a path
Parents(p) == [q \in {SubSeq(p, 1, n) : n \in 1..(Len(p) - 1)} |-> Folder]

\* rename() of the system: a file replaces a file, a folder an empty folder
CanRename(src, dst) ==
    /\ src \in DOMAIN tree /\ IsFolder(Front(dst)) /\ ~IsPrefix(src, dst)
    /\ dst \in DOMAIN tree =>
         IF IsFolder(src) THEN IsFolder(dst) /\ Below(dst) = {dst} ELSE ~IsFolder(dst)

Deep(src, dst) == \E q \in Below(src) : Len(dst) + Len(q) - Len(src) > MaxDepth

----------------------------------------------------------------------------
JobStep(j, r) == job' = [job EXCEPT ![j] = r]
StartJob(j, r) == job[j] = NoJob /\ jobs < MaxRequests /\ jobs' = jobs + 1 /\ JobStep(j, r)
Looked(r) == r.pc \in {"act", "open"}

\* Another request had chosen its paths, or was filling the file, when the
\* tree changed.
Crossing(j) ==
    crossed' = (crossed \/ (tree' # tree /\ \E i \in FileRequests \ {j} :
        \/ Looked(job[i])
        \/ /\ job[i].pc = "fill"
           /\ ~(job[i].dst \in DOMAIN tree' /\ tree'[job[i].dst] = tree[job[i].dst])))

\* rename_path, before its thread
BeginRename(j, p, name) ==
    /\ p \in DOMAIN tree /\ ~Guarded(p)
    /\ ~HasPath(Append(Front(p), name))
    /\ StartJob(j, [Batch("rename", <<>>, FALSE, <<>>) EXCEPT
                      !.pc = "act", !.src = p, !.dst = Append(Front(p), name)])
    /\ UNCHANGED <<tree, saved, dropped, crossed>>

\* move_paths, copy_paths
BeginMany(j, op, ps, dir) ==
    /\ IsFolder(dir)
    /\ StartJob(j, Batch(op, dir, FALSE, ps))
    /\ UNCHANGED <<tree, saved, dropped, crossed>>

\* delete_paths
BeginDelete(j, ps, recursive) ==
    /\ StartJob(j, Batch("delete", <<>>, recursive, ps))
    /\ UNCHANGED <<tree, saved, dropped, crossed>>

\* The next path of a batch is looked at; an error ends the batch there.
LookAt(j) ==
    LET r == job[j]
        p == Head(r.rest)
        dst == IF r.op = "delete" THEN p ELSE FreeName(r.into, Last(p)) IN
    /\ r.pc = "next"
    /\ JobStep(j, IF HasPath(p) /\ ~Guarded(p) /\ ~(r.op = "move" /\ IsPrefix(p, r.into))
               THEN [r EXCEPT !.pc = "act", !.rest = Tail(@), !.src = p, !.dst = dst]
               ELSE NoJob)
    /\ UNCHANGED <<tree, jobs, saved, dropped, crossed>>

MoreOf(j) == IF job[j].rest = <<>> THEN NoJob
           ELSE [job[j] EXCEPT !.pc = "next", !.src = <<>>, !.dst = <<>>]

JobActs(j, ops) == job[j].pc = "act" /\ job[j].op \in ops

MoveOne(j) ==
    LET r == job[j] IN
    /\ JobActs(j, {"rename", "move"}) /\ ~Deep(r.src, r.dst)
    /\ IF CanRename(r.src, r.dst)
       THEN tree' = Onto(Rebased(r.src, r.dst), Without(Below(r.src))) /\ JobStep(j, MoreOf(j))
       ELSE JobStep(j, NoJob) /\ UNCHANGED tree
    /\ Crossing(j)
    /\ UNCHANGED <<jobs, saved, dropped>>

\* copy2 of a file, into a folder that came to be there; copytree of a folder,
\* which takes away whatever it finds at its destination
CopyOne(j) ==
    LET r == job[j]
        to == IF IsFolder(r.dst) THEN Append(r.dst, Last(r.src)) ELSE r.dst IN
    /\ JobActs(j, {"copy"}) /\ ~Deep(r.src, to)
    /\ ~(Len(r.dst) > Len(r.src) + 1 /\ IsPrefix(r.src, r.dst))
    /\ CASE r.src \in DOMAIN tree /\ ~IsFolder(r.src) /\ IsFolder(Front(r.dst)) /\ ~IsFolder(to) ->
              tree' = Onto(Rebased(r.src, to), tree) /\ JobStep(j, MoreOf(j))
         [] IsFolder(r.src) /\ ~HasPath(r.dst) /\ ~(\E q \in DOMAIN Parents(r.dst) : HasPath(q) /\ ~IsFolder(q)) ->
              /\ tree' = Onto(Onto(Rebased(r.src, r.dst), Parents(r.dst)), tree)
              /\ JobStep(j, MoreOf(j))
         [] IsFolder(r.src) /\ HasPath(r.dst) ->
              tree' = Without(Below(r.dst)) /\ JobStep(j, NoJob)
         [] OTHER -> JobStep(j, NoJob) /\ UNCHANGED tree
    /\ Crossing(j)
    /\ UNCHANGED <<jobs, saved, dropped>>

\* delete_path, in its thread
DeleteOne(j) ==
    LET r == job[j] IN
    /\ JobActs(j, {"delete"})
    /\ IF HasPath(r.src) /\ (r.recursive \/ Below(r.src) = {r.src})
       THEN /\ tree' = Without(Below(r.src))
            /\ dropped' = dropped \cup ContentsAt(Below(r.src))
            /\ JobStep(j, MoreOf(j))
       ELSE JobStep(j, NoJob) /\ UNCHANGED <<tree, dropped>>
    /\ Crossing(j)
    /\ UNCHANGED <<jobs, saved>>

\* make_directory
MakeFolder(j, p) ==
    /\ StartJob(j, NoJob)
    /\ tree' = IF HasPath(p) THEN tree ELSE With(p, Folder)
    /\ Crossing(j)
    /\ UNCHANGED <<saved, dropped>>

----------------------------------------------------------------------------
\* save_upload_stream: the name is chosen, the file opened, then filled
BeginUpload(j, dir, name) ==
    /\ IsFolder(dir)
    /\ StartJob(j, [pc |-> "open", dst |-> FreeName(dir, name), of |-> jobs])
    /\ UNCHANGED <<tree, saved, dropped, crossed>>

OpenUpload(j) ==
    LET r == job[j] IN
    /\ r.pc = "open"
    /\ IF IsFolder(Front(r.dst)) /\ ~IsFolder(r.dst)
       THEN tree' = With(r.dst, Content(r.of, FALSE)) /\ JobStep(j, [r EXCEPT !.pc = "fill"])
       ELSE JobStep(j, NoJob) /\ UNCHANGED tree
    /\ Crossing(j)
    /\ UNCHANGED <<jobs, saved, dropped>>

\* the data goes into the file, wherever it is by now
FinishUpload(j) ==
    LET r == job[j] IN
    /\ r.pc = "fill"
    /\ tree' = [q \in DOMAIN tree |->
                  IF tree[q] = Content(r.of, FALSE) THEN Content(r.of, TRUE) ELSE tree[q]]
    /\ saved' = saved \cup {r.of}
    /\ JobStep(j, NoJob)
    /\ UNCHANGED <<jobs, dropped, crossed>>

\* more than upload_max_bytes: the path is unlinked
RefuseUpload(j) ==
    LET r == job[j] IN
    /\ r.pc = "fill"
    /\ tree' = IF HasPath(r.dst) /\ ~IsFolder(r.dst) THEN Without({r.dst}) ELSE tree
    /\ JobStep(j, NoJob)
    /\ Crossing(j)
    /\ UNCHANGED <<jobs, saved, dropped>>

\* the connection breaks: half of the file stays
BreakUpload(j) ==
    /\ job[j].pc = "fill" /\ JobStep(j, NoJob)
    /\ UNCHANGED <<tree, jobs, saved, dropped, crossed>>

FoldersNow == {p \in DOMAIN tree : IsFolder(p)} \cup {<<>>}
Batches == {<<p>> : p \in DOMAIN tree} \cup {b \in {<<p, q>> : p, q \in DOMAIN tree} : b[1] # b[2]}

FilesNext ==
    \E j \in FileRequests :
        \/ \E p \in DOMAIN tree, name \in GivenNames : BeginRename(j, p, name)
        \/ \E op \in {"move", "copy"}, ps \in Batches, dir \in FoldersNow : BeginMany(j, op, ps, dir)
        \/ \E ps \in Batches, recursive \in BOOLEAN : BeginDelete(j, ps, recursive)
        \/ \E dir \in FoldersNow, name \in GivenNames :
             /\ Len(dir) < MaxDepth
             /\ BeginUpload(j, dir, name) \/ MakeFolder(j, Append(dir, name))
        \/ LookAt(j) \/ MoveOne(j) \/ CopyOne(j) \/ DeleteOne(j)
        \/ OpenUpload(j) \/ FinishUpload(j) \/ RefuseUpload(j) \/ BreakUpload(j)

----------------------------------------------------------------------------
\* Every entry is in a folder, and every request has its paths.
FilesTypeOK ==
    /\ \A p \in DOMAIN tree : IsFolder(Front(p)) /\ tree[p].kind \in {"folder", "file"}
    /\ \A j \in FileRequests : job[j].pc \in {"idle", "next", "act", "open", "fill"}
    /\ jobs \in 0..MaxRequests /\ crossed \in BOOLEAN

\* What was saved and not deleted is somewhere in the workspace, whole, after
\* any moves, copies, half failed batches and uploads, as long as no request
\* changed the tree between the look and the act of another (files.py:229).
NothingIsLost ==
    crossed \/ \A n \in saved \ dropped : \E p \in DOMAIN tree : tree[p] = Content(n, TRUE)

\* What the channel protects is never renamed, moved, replaced or deleted, even
\* when requests cross (files.py:213).
GuardedStay ==
    \A p \in DOMAIN FirstTree :
        Guarded(p) => p \in DOMAIN tree /\ tree[p] = FirstTree[p]

\* What was saved stays unless somebody asked to replace or delete it, and the
\* guarded entries stay.
FilesAreSafe == NothingIsLost /\ GuardedStay
=============================================================================

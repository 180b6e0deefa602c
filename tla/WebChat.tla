------------------------------ MODULE WebChat -------------------------------
(***************************************************************************)
(* One user's chats in the web channel: the per-user run gate              *)
(* (runtime/user_run_gate.py), the chat sessions and their LLM transcripts *)
(* (channels/web/chat_store.py, chat_context_store.py), the pending        *)
(* attachments, and the handlers of channels/web/orchestrator.py and       *)
(* channels/service.py that work on them.  Every key of this state is a    *)
(* user id, so users do not interact here.                                 *)
(*                                                                         *)
(* A task is one WebSocket event, HTTP request, message run or scheduled   *)
(* run.  Store calls run in worker threads and other tasks while they are  *)
(* awaited.  A store call that writes is one SQLite transaction from its   *)
(* first write on; what it reads before that it reads outside of it.  An   *)
(* action is the code from one such read or transaction to the next.       *)
(***************************************************************************)
EXTENDS Naturals, FiniteSets

CONSTANTS
    Task,        \* concurrent requests of the user
    MaxSession,  \* bound: session ids are 1..MaxSession
    File,        \* workspace files that can be attached
    MaxPending,  \* MAX_PENDING_ATTACHMENTS
    MaxRows,     \* bound: transcript rows of a session
    MaxArchived, \* chat_max_archived_sessions_per_user
    BadTargets,  \* session ids <= 0 that a compress event may carry
    NoSession    \* None

Session == 1..MaxSession
SessionOrNone == Session \cup {NoSession}

ASSUME WebChatAssumption ==
    /\ MaxSession \in Nat /\ MaxRows \in Nat \ {0} /\ MaxArchived \in Nat
    /\ MaxPending \in Nat \ {0}
    /\ NoSession \notin Nat
    /\ BadTargets \cap SessionOrNone = {}

VARIABLES
    gate,     \* UserRunGate._active for the user
    chat,     \* web_chat_sessions
    rows,     \* number of rows of web_chat_context, per session
    pending,  \* PendingAttachmentsStore, per session
    pc,       \* where each task stands
    sess,     \* the session a task resolved or was asked for
    stored,   \* the session the user's message was stored in
    answered, \* the session the reply was stored in
    att,      \* the attachments composed into the message
    seen,     \* the rows a compression has read
    found     \* a look-up of the open chat under way: {} none, {s} it found
              \* s, {NoSession} it found no chat open

local == <<sess, stored, answered, att, seen, found>>
vars == <<gate, chat, rows, pending, pc, local>>

\* ended_at IS NULL is "open"; ids are AUTOINCREMENT and never used again.
ChatState == [state : {"absent", "open", "archived", "deleted"},
              channel : {"web", "system"}]

Outside == {"idle", "resolving", "resolved", "switch", "attaching",
            "materialize", "reading"}
Phase == Outside \cup
    {"gated", "storing", "running", "finishing", "create", "reset", "activate", "delete",
     "replace", "compress", "write", "headless", "background"}

TypeOK ==
    /\ gate \in [busy : BOOLEAN, session : SessionOrNone]
    /\ chat \in [Session -> ChatState]
    /\ rows \in [Session -> 0..MaxRows]
    /\ pending \in [Session -> SUBSET File]
    /\ pc \in [Task -> Phase]
    /\ sess \in [Task -> SessionOrNone]
    /\ stored \in [Task -> SessionOrNone]
    /\ answered \in [Task -> SessionOrNone]
    /\ att \in [Task -> SUBSET File]
    /\ seen \in [Task -> 0..MaxRows]
    /\ found \in [Task -> SUBSET SessionOrNone]

\* The tasks between a successful try_start and their finish.
Inside == {t \in Task : pc[t] \notin Outside}

-----------------------------------------------------------------------------
(* UserRunGate *)

\* try_start(); a caller that is refused answers "busy" and changes nothing.
TryStart(s) == ~gate.busy /\ gate' = [busy |-> TRUE, session |-> s]

\* finish(): pops the user's entry, whoever made it.
Finish == gate' = [busy |-> FALSE, session |-> NoSession]

-----------------------------------------------------------------------------
(* WebChatStore *)

Exists(c, s) == s \in Session /\ c[s].state \in {"open", "archived"}
OpenIn(c, ch) == {s \in Session : c[s].state = "open" /\ c[s].channel = ch}
Unused(c) == {s \in Session : c[s].state = "absent"}
IsNextId(c, s) == s \in Unused(c) /\ \A r \in Unused(c) : s <= r

Opened(c, s, ch) == [c EXCEPT ![s] = [state |-> "open", channel |-> ch]]

\* Close the open sessions of a channel, except one.
Archived(c, ch, keep) ==
    [s \in Session |-> IF s \in OpenIn(c, ch) \ {keep}
                       THEN [c[s] EXCEPT !.state = "archived"] ELSE c[s]]

\* _sync_ensure_active_session_id(), its SELECT: the open session of the
\* channel, or none.
Selected(ch, F) ==
    \/ \E s \in OpenIn(chat, ch) : F = {s}
    \/ OpenIn(chat, ch) = {} /\ F = {NoSession}

\* ... and what follows: the session found, or the INSERT of a fresh one, which
\* the unique index on open sessions rejects when another caller was faster.
\* Bound: a session is only created while ids are left.
Ensured(t, ch, s) ==
    \/ found[t] = {s} /\ UNCHANGED chat
    \/ /\ found[t] = {NoSession}
       /\ OpenIn(chat, ch) = {} /\ IsNextId(chat, s)
       /\ chat' = Opened(chat, s, ch)

\* _sync_create_session() and _sync_reset_session()
FreshSession(c, d) ==
    \E s \in Session : /\ IsNextId(c, s)
                       /\ d = Opened(Archived(c, "web", NoSession), s, "web")

\* _sync_activate_session()
Activated(c, s) ==
    IF Exists(c, s)
    THEN [Archived(c, c[s].channel, s) EXCEPT ![s] = [@ EXCEPT !.state = "open"]]
    ELSE c

\* _sync_delete_sessions(), with the transcript rows by ON DELETE CASCADE.
Removed(c, D) == [s \in Session |-> IF s \in D
                                    THEN [c[s] EXCEPT !.state = "deleted"]
                                    ELSE c[s]]
Cascade(D) == [s \in Session |-> IF s \in D THEN 0 ELSE rows[s]]

-----------------------------------------------------------------------------

Go(t, p) == pc' = [pc EXCEPT ![t] = p]
Set(f, t, x) == [f EXCEPT ![t] = x]

\* A task ends: its locals are gone.
Done(t) ==
    /\ Go(t, "idle")
    /\ sess' = Set(sess, t, NoSession)
    /\ stored' = Set(stored, t, NoSession)
    /\ answered' = Set(answered, t, NoSession)
    /\ att' = Set(att, t, {})
    /\ seen' = Set(seen, t, 0)
    /\ found' = Set(found, t, {})

\* The finally of every handler: _finish_user_request().
Leave(t) ==
    /\ pc[t] = "finishing"
    /\ Finish
    /\ Done(t)
    /\ UNCHANGED <<chat, rows, pending>>

\* Mutant: the error leaves the handler without its finally.
FailWithoutFinally(t) ==
    /\ pc[t] \in {"create", "reset", "activate", "delete", "replace",
                  "compress", "headless"}
    /\ Done(t)
    /\ UNCHANGED <<gate, chat, rows, pending>>

\* A store call raises inside the try of a handler; also when the index rejects
\* its INSERT.
Fail(t) ==
    /\ pc[t] \in {"create", "reset", "activate", "delete", "replace",
                  "compress", "headless"}
    /\ Go(t, "finishing")
    /\ found' = Set(found, t, {})
    /\ UNCHANGED <<gate, chat, rows, pending, sess, stored, answered, att, seen>>

\* The SELECT of a handler that asks for the open chat of its channel.
LookUp(t) ==
    /\ \/ pc[t] \in {"running", "headless", "replace", "attaching"}
       \/ pc[t] = "compress" /\ sess[t] = NoSession
    /\ found[t] = {}
    /\ \E F \in SUBSET SessionOrNone :
          /\ Selected(IF pc[t] = "headless" THEN "system" ELSE "web", F)
          /\ found' = Set(found, t, F)
    /\ UNCHANGED <<gate, chat, rows, pending, pc, sess, stored, answered, att, seen>>

-----------------------------------------------------------------------------
(* run_message() *)

\* _resolve_agent_run_session(), before the gate.
SendMessage(t) ==
    /\ pc[t] = "idle"
    /\ Go(t, "resolving")
    /\ \E F \in SUBSET SessionOrNone : Selected("web", F) /\ found' = Set(found, t, F)
    /\ UNCHANGED <<gate, chat, rows, pending, sess, stored, answered, att, seen>>

\* The session of the run; None when the store fails.
ResolveMessage(t) ==
    /\ pc[t] = "resolving"
    /\ Go(t, "resolved")
    /\ found' = Set(found, t, {})
    /\ \/ \E s \in Session : Ensured(t, "web", s) /\ sess' = Set(sess, t, s)
       \/ UNCHANGED <<chat, sess>>
    /\ UNCHANGED <<gate, rows, pending, stored, answered, att, seen>>

\* Mutant: the finally does not look at request_acquired.
StartMessageFinishes(t) ==
    /\ pc[t] = "resolved"
    /\ \/ TryStart(sess[t]) /\ Go(t, "gated")
       \/ gate.busy /\ Go(t, "finishing") /\ UNCHANGED gate
    /\ UNCHANGED <<chat, rows, pending, local>>

\* A refused message ends without touching the gate.
StartMessage(t) ==
    /\ pc[t] = "resolved"
    /\ \/ TryStart(sess[t]) /\ Go(t, "gated") /\ UNCHANGED local
       \/ gate.busy /\ Done(t) /\ UNCHANGED gate
    /\ UNCHANGED <<chat, rows, pending>>

\* An empty message with nothing attached is answered with an error.
RejectEmpty(t) ==
    /\ pc[t] = "gated"
    /\ sess[t] # NoSession => pending[sess[t]] = {}
    /\ Go(t, "finishing")
    /\ UNCHANGED <<gate, chat, rows, pending, local>>

\* Pop the attachments of the resolved session, compose, and look up the chat
\* to store the message in.  Composing may fail; what was popped is gone.
ComposeMessage(t) ==
    /\ pc[t] = "gated"
    /\ IF sess[t] = NoSession
       THEN UNCHANGED <<pending, att>>
       ELSE /\ att' = Set(att, t, pending[sess[t]])
            /\ pending' = [pending EXCEPT ![sess[t]] = {}]
    /\ \/ /\ Go(t, "storing")
          /\ \E F \in SUBSET SessionOrNone :
                Selected("web", F) /\ found' = Set(found, t, F)
       \/ Go(t, "running") /\ UNCHANGED found
    /\ UNCHANGED <<gate, chat, rows, sess, stored, answered, seen>>

\* persist_and_broadcast() of the message; storing it may fail.
StoreMessage(t) ==
    /\ pc[t] = "storing"
    /\ Go(t, "running")
    /\ found' = Set(found, t, {})
    /\ \/ \E s \in Session : Ensured(t, "web", s) /\ stored' = Set(stored, t, s)
       \/ UNCHANGED <<chat, stored>>
    /\ UNCHANGED <<gate, rows, pending, sess, answered, att, seen>>

\* The agent run appends to the transcript of the session it was given.
RunAppend(t) ==
    /\ pc[t] \in {"running", "background"} /\ stored[t] # NoSession
    /\ found[t] = {}
    /\ rows[stored[t]] < MaxRows
    /\ rows' = IF Exists(chat, stored[t])
               THEN [rows EXCEPT ![stored[t]] = @ + 1] ELSE rows
    /\ UNCHANGED <<gate, chat, pending, pc, local>>

\* persist_and_broadcast() of the reply, or of the error message of the except
\* branches, again without a session id; storing it may fail.
Reply(t) ==
    /\ pc[t] = "running"
    /\ Go(t, "finishing")
    /\ found' = Set(found, t, {})
    /\ \/ \E s \in Session : Ensured(t, "web", s) /\ answered' = Set(answered, t, s)
       \/ UNCHANGED <<chat, answered>>
    /\ UNCHANGED <<gate, rows, pending, sess, stored, att, seen>>

-----------------------------------------------------------------------------
(* run_headless() *)

StartHeadless(t) ==
    /\ pc[t] = "idle"
    /\ TryStart(NoSession)
    /\ Go(t, "headless")
    /\ UNCHANGED <<chat, rows, pending, local>>

\* The system session, the gate's metadata, and the task text as a message.
OpenSystem(t) ==
    /\ pc[t] = "headless"
    /\ \E s \in Session :
          /\ Ensured(t, "system", s)
          /\ gate' = [gate EXCEPT !.session = s]
          /\ stored' = Set(stored, t, s)
    /\ found' = Set(found, t, {})
    /\ Go(t, "background")
    /\ UNCHANGED <<rows, pending, sess, answered, att, seen>>

\* The reply goes to the same session by id; the run or the store may fail.
HeadlessReply(t) ==
    /\ pc[t] = "background"
    /\ Go(t, "finishing")
    /\ \/ Exists(chat, stored[t]) /\ answered' = Set(answered, t, stored[t])
       \/ UNCHANGED answered
    /\ UNCHANGED <<gate, chat, rows, pending, sess, stored, att, seen, found>>

-----------------------------------------------------------------------------
(* Chat management *)

StartCreate(t) ==
    /\ pc[t] = "idle"
    /\ TryStart(NoSession)
    /\ Go(t, "create")
    /\ UNCHANGED <<chat, rows, pending, local>>

CreateChat(t) ==
    /\ pc[t] = "create"
    /\ FreshSession(chat, chat')
    /\ Go(t, "finishing")
    /\ UNCHANGED <<gate, rows, pending, local>>

\* _reset_context_for_user(): "/new" and the reset_context event.
StartReset(t) ==
    /\ pc[t] = "idle"
    /\ TryStart(NoSession)
    /\ Go(t, "reset")
    /\ UNCHANGED <<chat, rows, pending, local>>

ResetChat(t) ==
    /\ pc[t] = "reset"
    /\ FreshSession(chat, chat')
    /\ pending' = [s \in Session |-> {}]
    /\ Go(t, "finishing")
    /\ UNCHANGED <<gate, rows, local>>

\* The look-up that answers 404 or "already active", before the gate.
RequestActivate(t, s) ==
    /\ pc[t] = "idle"
    /\ chat[s].state = "archived"
    /\ sess' = Set(sess, t, s)
    /\ Go(t, "switch")
    /\ UNCHANGED <<gate, chat, rows, pending, stored, answered, att, seen, found>>

StartActivate(t) ==
    /\ pc[t] = "switch"
    /\ \/ TryStart(NoSession) /\ Go(t, "activate") /\ UNCHANGED local
       \/ gate.busy /\ Done(t) /\ UNCHANGED gate
    /\ UNCHANGED <<chat, rows, pending>>

\* A session deleted since the look-up is not found and nothing changes.
ActivateChat(t) ==
    /\ pc[t] = "activate"
    /\ chat' = Activated(chat, sess[t])
    /\ Go(t, "finishing")
    /\ UNCHANGED <<gate, rows, pending, local>>

StartDelete(t, s) ==
    /\ pc[t] = "idle"
    /\ TryStart(NoSession)
    /\ sess' = Set(sess, t, s)
    /\ Go(t, "delete")
    /\ UNCHANGED <<chat, rows, pending, stored, answered, att, seen, found>>

\* 404, or the row, its transcript and its pending attachments go; the open
\* chat is replaced.
DeleteChat(t) ==
    LET s == sess[t] IN
    /\ pc[t] = "delete"
    /\ \/ /\ ~Exists(chat, s)
          /\ Go(t, "finishing")
          /\ UNCHANGED <<chat, rows, pending>>
       \/ /\ Exists(chat, s)
          /\ chat' = Removed(chat, {s})
          /\ rows' = Cascade({s})
          /\ pending' = [pending EXCEPT ![s] = {}]
          /\ Go(t, IF chat[s].state = "open" THEN "replace" ELSE "finishing")
    /\ UNCHANGED <<gate, local>>

ReplaceChat(t) ==
    /\ pc[t] = "replace"
    /\ \E s \in Session : Ensured(t, "web", s)
    /\ Go(t, "finishing")
    /\ found' = Set(found, t, {})
    /\ UNCHANGED <<gate, rows, pending, sess, stored, answered, att, seen>>

-----------------------------------------------------------------------------
(* The compress event *)

\* Mutant: a session id <= 0 is not refused.
StartCompressAny(t, x) ==
    /\ pc[t] = "idle"
    /\ TryStart(NoSession)
    /\ Go(t, "compress")
    /\ sess' = Set(sess, t, x)
    /\ UNCHANGED <<chat, rows, pending, stored, answered, att, seen, found>>

\* A session id <= 0 is refused after the gate was taken, without finish().
StartCompress(t, x) ==
    /\ pc[t] = "idle"
    /\ TryStart(NoSession)
    /\ IF x \in BadTargets
       THEN UNCHANGED <<pc, sess>>
       ELSE Go(t, "compress") /\ sess' = Set(sess, t, x)
    /\ UNCHANGED <<chat, rows, pending, stored, answered, att, seen, found>>

\* _compress_active_context() up to list_context(): without a session id the
\* active one is taken; a session that is not there is refused.
ReadTranscript(t) ==
    /\ pc[t] = "compress"
    /\ \/ /\ sess[t] = NoSession
          /\ \E s \in Session : /\ Ensured(t, "web", s)
                                /\ sess' = Set(sess, t, s)
                                /\ seen' = Set(seen, t, rows[s])
          /\ Go(t, "write")
       \/ /\ sess[t] # NoSession /\ Exists(chat, sess[t])
          /\ seen' = Set(seen, t, rows[sess[t]])
          /\ Go(t, "write")
          /\ UNCHANGED <<chat, sess>>
       \/ /\ sess[t] # NoSession /\ ~Exists(chat, sess[t])
          /\ Go(t, "finishing")
          /\ UNCHANGED <<chat, sess, seen>>
    /\ found' = Set(found, t, {})
    /\ UNCHANGED <<gate, rows, pending, stored, answered, att>>

\* After the LLM call: nothing to do or a failure, or replace_context(), whose
\* inserts fail when the session is gone.
WriteTranscript(t) ==
    /\ pc[t] = "write"
    /\ Go(t, "finishing")
    /\ \/ UNCHANGED rows
       \/ /\ Exists(chat, sess[t])
          /\ \E k \in 0..MaxRows : rows' = [rows EXCEPT ![sess[t]] = k]
    /\ UNCHANGED <<gate, chat, pending, local>>

-----------------------------------------------------------------------------
(* Attachments *)

\* _handle_attach_context() up to the reading of the file: refused while a run
\* is in flight; for a chat that is named, or for the open one.
RequestAttach(t) ==
    /\ pc[t] = "idle"
    /\ ~gate.busy
    /\ \/ /\ \E s \in Session : Exists(chat, s) /\ sess' = Set(sess, t, s)
          /\ Go(t, "materialize")
       \/ Go(t, "attaching") /\ UNCHANGED sess
    /\ UNCHANGED <<gate, chat, rows, pending, stored, answered, att, seen, found>>

ResolveAttach(t) ==
    /\ pc[t] = "attaching"
    /\ \/ /\ \E s \in Session : Ensured(t, "web", s) /\ sess' = Set(sess, t, s)
          /\ Go(t, "materialize")
          /\ found' = Set(found, t, {})
          /\ UNCHANGED <<stored, answered, att, seen>>
       \/ Done(t) /\ UNCHANGED chat
    /\ UNCHANGED <<gate, rows, pending>>

\* The file is read, or described by the vision model, and added; it may be
\* refused for its size or because the list is full.
AttachFile(t, f) ==
    /\ pc[t] = "materialize"
    /\ \/ /\ Cardinality(pending[sess[t]] \ {f}) < MaxPending
          /\ pending' = [pending EXCEPT ![sess[t]] = @ \cup {f}]
       \/ UNCHANGED pending
    /\ Done(t)
    /\ UNCHANGED <<gate, chat, rows>>

\* _handle_detach_context(): one file or all of them.
Detach(s) ==
    /\ Exists(chat, s)
    /\ \E F \in {pending[s]} \cup {{f} : f \in pending[s]} :
          pending' = [pending EXCEPT ![s] = @ \ F]
    /\ UNCHANGED <<gate, chat, rows, pc, local>>

-----------------------------------------------------------------------------
(* Outside the gate *)

\* The readers (history pages, usage, recent files, backfill on connect, the
\* session a detach without id is for) open a session if none is.
StartRead(t) ==
    /\ pc[t] = "idle"
    /\ Go(t, "reading")
    /\ \E F \in SUBSET SessionOrNone : Selected("web", F) /\ found' = Set(found, t, F)
    /\ UNCHANGED <<gate, chat, rows, pending, sess, stored, answered, att, seen>>

ReadActive(t) ==
    /\ pc[t] = "reading"
    /\ (\E s \in Session : Ensured(t, "web", s)) \/ UNCHANGED chat
    /\ Done(t)
    /\ UNCHANGED <<gate, rows, pending>>

Ended == {s \in Session : chat[s].state = "archived"}
Excess == {s \in Ended : Cardinality({r \in Ended : r > s}) >= MaxArchived}

\* Mutant: the retention job does not look at ended_at.
PrunableAll == {s \in Session : chat[s].state \in {"open", "archived"}}

Prunable == Ended

\* prune_retention(): archived sessions past their age (any of them) and those
\* beyond the newest MaxArchived.
Prune ==
    /\ \E D \in SUBSET Prunable :
          /\ D # {} /\ Excess \subseteq D
          /\ chat' = Removed(chat, D)
          /\ rows' = Cascade(D)
    /\ UNCHANGED <<gate, pending, pc, local>>

\* The process restarts: what was in memory is gone.
Restart ==
    /\ Finish
    /\ pending' = [s \in Session |-> {}]
    /\ pc' = [t \in Task |-> "idle"]
    /\ sess' = [t \in Task |-> NoSession]
    /\ stored' = [t \in Task |-> NoSession]
    /\ answered' = [t \in Task |-> NoSession]
    /\ att' = [t \in Task |-> {}]
    /\ seen' = [t \in Task |-> 0]
    /\ found' = [t \in Task |-> {}]
    /\ UNCHANGED <<chat, rows>>

-----------------------------------------------------------------------------

Init ==
    /\ gate = [busy |-> FALSE, session |-> NoSession]
    /\ chat = [s \in Session |-> [state |-> "absent", channel |-> "web"]]
    /\ rows = [s \in Session |-> 0]
    /\ pending = [s \in Session |-> {}]
    /\ pc = [t \in Task |-> "idle"]
    /\ sess = [t \in Task |-> NoSession]
    /\ stored = [t \in Task |-> NoSession]
    /\ answered = [t \in Task |-> NoSession]
    /\ att = [t \in Task |-> {}]
    /\ seen = [t \in Task |-> 0]
    /\ found = [t \in Task |-> {}]

Begin(t) ==
    \/ SendMessage(t) \/ StartHeadless(t) \/ StartCreate(t) \/ StartReset(t)
    \/ RequestAttach(t) \/ StartRead(t)
    \/ \E s \in Session : RequestActivate(t, s) \/ StartDelete(t, s)
    \/ \E x \in SessionOrNone \cup BadTargets : StartCompress(t, x)

\* What a task does once it has begun, up to its end.
Progress(t) ==
    \/ LookUp(t) \/ ReadActive(t) \/ ResolveMessage(t)
    \/ StartMessage(t) \/ RejectEmpty(t) \/ ComposeMessage(t) \/ StoreMessage(t)
    \/ Reply(t)
    \/ OpenSystem(t) \/ HeadlessReply(t)
    \/ CreateChat(t) \/ ResetChat(t) \/ StartActivate(t) \/ ActivateChat(t)
    \/ DeleteChat(t) \/ ReplaceChat(t)
    \/ ReadTranscript(t) \/ WriteTranscript(t)
    \/ ResolveAttach(t) \/ \E f \in File : AttachFile(t, f)
    \/ Fail(t) \/ Leave(t)

Next ==
    \/ \E t \in Task : Begin(t) \/ Progress(t) \/ RunAppend(t)
    \/ \E s \in Session : Detach(s)
    \/ Prune \/ Restart

Spec == Init /\ [][Next]_vars

\* Store calls return, and an agent run ends (its budget and its time-outs see
\* to that).  Nothing obliges users to send anything.
FairSpec == Spec /\ \A t \in Task : WF_vars(Progress(t))

-----------------------------------------------------------------------------
(* Properties *)

\* finish() releases whatever entry the user has, so one handler that calls it
\* without having started breaks every other: at most one task is between
\* try_start and finish, and the gate is busy meanwhile.
OneWorkflow ==
    /\ \A t, u \in Inside : t = u
    /\ Inside # {} => gate.busy

\* The chat a run was started in stays the open chat of its channel until the
\* run ends: creating, switching, deleting and resetting chats wait for the
\* gate, and the retention job leaves open chats alone.
RunChatStaysOpen ==
    \A t \in Task : pc[t] \in {"running", "background"} /\ stored[t] # NoSession
                    => chat[stored[t]].state = "open"

\* The reply is stored in the chat the message was stored in, although the web
\* handler looks the chat up again minutes later.
ReplyInItsChat ==
    \A t \in Task : stored[t] # NoSession /\ answered[t] # NoSession
                    => answered[t] = stored[t]

\* A user has at most one open chat per channel: the index rejects the INSERT of
\* a look-up that is out of date, and whoever creates, resets or switches archives
\* the open chat before.
OneOpenChat ==
    \A ch \in {"web", "system"} : Cardinality(OpenIn(chat, ch)) <= 1

\* A compression rewrites the transcript it has read: no row appended while the
\* model was summarising is overwritten.
CompressLosesNothing ==
    \A t \in Task : pc[t] = "write" /\ Exists(chat, sess[t])
                    => rows[sess[t]] = seen[t]

\* What a chat promises while its user works in several tabs: the run's chat
\* stays open, a reply is stored where its question is, one chat is open per
\* channel, and a compression loses no row.
ChatsAreSound ==
    /\ RunChatStaysOpen
    /\ ReplyInItsChat
    /\ OneOpenChat
    /\ CompressLosesNothing

\* The gate refuses only while a workflow of the user is active.
BusyOnlyWhileRunning == gate.busy => Inside # {}

\* Whatever fails in a handler, the user is not locked out: the gate is freed.
GateIsFreed == gate.busy ~> ~gate.busy
=============================================================================

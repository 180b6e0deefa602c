--------------------------- MODULE WebChatProofs ----------------------------
(***************************************************************************)
(* Theorems about WebChat, for any number of tasks, sessions and files.    *)
(***************************************************************************)
EXTENDS WebChat, FiniteSetTheorems, TLAPS

-----------------------------------------------------------------------------
(* The operators of the store *)

Channel == {"web", "system"}
Chats == [Session -> ChatState]

\* Archiving, opening, activating and removing yield chats.
LEMMA StoreTypes ==
    ASSUME NEW c \in Chats
    PROVE  /\ \A ch, k : Archived(c, ch, k) \in Chats
           /\ \A s \in Session, ch \in Channel : Opened(c, s, ch) \in Chats
           /\ \A s : Activated(c, s) \in Chats
           /\ \A D : Removed(c, D) \in Chats
<1>1. \A ch, k : Archived(c, ch, k) \in Chats
  BY DEF Archived, Chats, ChatState, OpenIn
<1>2. \A s \in Session, ch \in Channel : Opened(c, s, ch) \in Chats
  BY DEF Opened, Chats, ChatState, Channel
<1>3. ASSUME NEW s  PROVE Activated(c, s) \in Chats
  <2>1. Archived(c, c[s].channel, s) \in Chats
    BY <1>1
  <2>. QED
    BY <2>1 DEF Activated, Exists, Chats, ChatState
<1>4. \A D : Removed(c, D) \in Chats
  BY DEF Removed, Chats, ChatState
<1>. QED
  BY <1>1, <1>2, <1>3, <1>4

\* The SELECT returns a session only if it is open in that channel.
LEMMA SelectedIsOpen ==
    ASSUME NEW ch, NEW r \in Session, Selected(ch, {r})
    PROVE  r \in OpenIn(chat, ch)
<1>1. CASE \E s \in OpenIn(chat, ch) : {r} = {s}
  <2>1. PICK s \in OpenIn(chat, ch) : {r} = {s}
    BY <1>1
  <2>2. r = s
    <3>1. r \in {r}
      OBVIOUS
    <3>2. r \in {s}
      BY <2>1, <3>1, Zenon
    <3>. QED
      BY <3>2
  <2>. QED
    BY <2>2
<1>2. CASE OpenIn(chat, ch) = {} /\ {r} = {NoSession}
  <2>1. r \in {r} /\ r # NoSession
    BY WebChatAssumption DEF Session
  <2>2. r \in {NoSession}
    BY <1>2, <2>1, Zenon
  <2>. QED
    BY <2>1, <2>2
<1>. QED
  BY <1>1, <1>2, Zenon DEF Selected

\* What _sync_ensure_active_session_id() does to the chats: nothing, or it opens one
\* that did not exist before, in a channel where none was open.
LEMMA EnsuredEffect ==
    ASSUME chat \in Chats, NEW t \in Task, NEW ch \in Channel, NEW s \in Session,
           Ensured(t, ch, s)
    PROVE  /\ chat' \in Chats
           /\ \A r \in Session : chat'[r] # chat[r] => chat[r].state = "absent"
           /\ \/ found[t] = {s} /\ chat' = chat
              \/ /\ OpenIn(chat, ch) = {} /\ OpenIn(chat', ch) = {s}
                 /\ chat'[s] = [state |-> "open", channel |-> ch]
                 /\ \A c \in Channel \ {ch} : OpenIn(chat', c) = OpenIn(chat, c)
<1>1. CASE found[t] = {s} /\ UNCHANGED chat
  BY <1>1
<1>2. CASE /\ OpenIn(chat, ch) = {} /\ IsNextId(chat, s)
           /\ chat' = Opened(chat, s, ch)
  <2>1. chat[s].state = "absent" /\ chat' = [chat EXCEPT ![s] = [state |-> "open", channel |-> ch]]
    BY <1>2 DEF IsNextId, Unused, Opened
  <2>2. chat' \in Chats
    BY <1>2, StoreTypes
  <2>. QED
    BY <1>2, <2>1, <2>2 DEF OpenIn, Chats, Channel
<1>. QED
  BY <1>1, <1>2 DEF Ensured

-----------------------------------------------------------------------------
(* The inductive invariant *)

\* At most one open chat per channel, without counting.
OpenUnique == \A ch \in Channel : \A s, r \in OpenIn(chat, ch) : s = r

\* The locals of a run are set only once it has got that far.
LocalsInOrder ==
    \A t \in Task :
        /\ stored[t] # NoSession => pc[t] \in {"running", "background", "finishing"}
        /\ answered[t] # NoSession => pc[t] = "finishing"

\* The chat of a run is open, in the channel that the run belongs to.
RunChat ==
    \A t \in Task : /\ pc[t] = "running" /\ stored[t] # NoSession
                       => chat[stored[t]] = [state |-> "open", channel |-> "web"]
                    /\ pc[t] = "background" /\ stored[t] # NoSession
                       => chat[stored[t]] = [state |-> "open", channel |-> "system"]

\* What a compression has read, if the chat is still there; a chat that was
\* there does not become a fresh one.
Compressing ==
    \A t \in Task : pc[t] = "write" =>
        /\ sess[t] \in Session /\ chat[sess[t]].state # "absent"
        /\ Exists(chat, sess[t]) => rows[sess[t]] = seen[t]

\* Who may be between the SELECT and the INSERT of the store, and what a look-up
\* inside the gate has found: nobody else closes it.
LookUpInOrder ==
    \A t \in Task : found[t] # {} =>
        pc[t] \in {"resolving", "reading", "attaching", "storing", "running",
                  "headless", "replace", "compress"}
LookUpHolds ==
    \A t \in Task, s \in Session :
        /\ found[t] = {s} /\ pc[t] \in {"storing", "running", "replace", "compress"}
           => chat[s] = [state |-> "open", channel |-> "web"]
        /\ found[t] = {s} /\ pc[t] = "headless"
           => chat[s] = [state |-> "open", channel |-> "system"]

\* OneWorkflow carries the others: a task that changes a chat under its run or
\* its compression would have to be inside the gate as well.
IInv == /\ TypeOK /\ OneWorkflow /\ OpenUnique /\ LocalsInOrder /\ RunChat
        /\ ReplyInItsChat /\ Compressing /\ LookUpInOrder /\ LookUpHolds

-----------------------------------------------------------------------------
(* Types *)

\* Every step of a handler, of the retention job and of a restart keeps the
\* types.
LEMMA TypeStep ==
    ASSUME TypeOK, [Next]_vars
    PROVE  TypeOK'
<1>. USE WebChatAssumption DEF TypeOK, SessionOrNone, Phase, Outside
<1>0. /\ chat \in Chats
      /\ \A t \in Task, c \in Channel, r \in Session : Ensured(t, c, r) => chat' \in Chats
      /\ \A d : FreshSession(chat, d) => d \in Chats
  <2>1. chat \in Chats
    BY DEF Chats
  <2>2. \A t \in Task, c \in Channel, r \in Session : Ensured(t, c, r) => chat' \in Chats
    BY <2>1, EnsuredEffect
  <2>3. ASSUME NEW d, FreshSession(chat, d)  PROVE d \in Chats
    <3>1. Archived(chat, "web", NoSession) \in Chats
      BY <2>1, StoreTypes
    <3>. QED
      BY <2>3, <3>1, StoreTypes DEF FreshSession, Channel
  <2>. QED
    BY <2>1, <2>2, <2>3
<1>1. ASSUME NEW t \in Task, SendMessage(t)  PROVE TypeOK'
  BY <1>1 DEF SendMessage, Go, Set
<1>2. ASSUME NEW t \in Task, StartHeadless(t)  PROVE TypeOK'
  BY <1>2 DEF StartHeadless, TryStart, Go, local
<1>3. ASSUME NEW t \in Task, StartCreate(t)  PROVE TypeOK'
  BY <1>3 DEF StartCreate, TryStart, Go, local
<1>4. ASSUME NEW t \in Task, StartReset(t)  PROVE TypeOK'
  BY <1>4 DEF StartReset, TryStart, Go, local
<1>5. ASSUME NEW t \in Task, RequestAttach(t)  PROVE TypeOK'
  BY <1>5 DEF RequestAttach, Exists, Go, Set
<1>6. ASSUME NEW t \in Task, NEW s \in Session, RequestActivate(t, s)  PROVE TypeOK'
  BY <1>6 DEF RequestActivate, Go, Set
<1>7. ASSUME NEW t \in Task, NEW s \in Session, StartDelete(t, s)  PROVE TypeOK'
  BY <1>7 DEF StartDelete, TryStart, Go, Set
<1>8. ASSUME NEW t \in Task, NEW x \in SessionOrNone \cup BadTargets, StartCompress(t, x)
      PROVE TypeOK'
  BY <1>8 DEF StartCompress, TryStart, Go, Set
<1>9. ASSUME NEW t \in Task, StartMessage(t)  PROVE TypeOK'
  <2>1. CASE TryStart(sess[t]) /\ Go(t, "gated") /\ UNCHANGED local
    BY <1>9, <2>1 DEF StartMessage, TryStart, Go, local
  <2>2. CASE gate.busy /\ Done(t) /\ UNCHANGED gate
    BY <1>9, <2>2 DEF StartMessage, Done, Go, Set
  <2>. QED
    BY <1>9, <2>1, <2>2 DEF StartMessage
<1>10. ASSUME NEW t \in Task, StoreMessage(t)  PROVE TypeOK'
  <2>1. chat' \in Chats
    BY <1>10, <1>0 DEF StoreMessage, Channel
  <2>. QED
    BY <1>10, <2>1 DEF StoreMessage, Chats, Go, Set
<1>11. ASSUME NEW t \in Task, Reply(t)  PROVE TypeOK'
  <2>1. chat' \in Chats
    BY <1>11, <1>0 DEF Reply, Channel
  <2>. QED
    BY <1>11, <2>1 DEF Reply, Chats, Go, Set
<1>12. ASSUME NEW t \in Task, OpenSystem(t)  PROVE TypeOK'
  <2>1. chat' \in Chats
    BY <1>12, <1>0 DEF OpenSystem, Channel
  <2>. QED
    BY <1>12, <2>1 DEF OpenSystem, Chats, Go, Set
<1>13. ASSUME NEW t \in Task, HeadlessReply(t)  PROVE TypeOK'
  BY <1>13 DEF HeadlessReply, Go, Set
<1>14. ASSUME NEW t \in Task, CreateChat(t)  PROVE TypeOK'
  <2>1. chat' \in Chats
    BY <1>14, <1>0 DEF CreateChat
  <2>. QED
    BY <1>14, <2>1 DEF CreateChat, Chats, Go, local
<1>15. ASSUME NEW t \in Task, ResetChat(t)  PROVE TypeOK'
  <2>1. chat' \in Chats
    BY <1>15, <1>0 DEF ResetChat
  <2>. QED
    BY <1>15, <2>1 DEF ResetChat, Chats, Go, local
<1>16. ASSUME NEW t \in Task, StartActivate(t)  PROVE TypeOK'
  <2>1. CASE TryStart(NoSession) /\ Go(t, "activate") /\ UNCHANGED local
    BY <1>16, <2>1 DEF StartActivate, TryStart, Go, local
  <2>2. CASE gate.busy /\ Done(t) /\ UNCHANGED gate
    BY <1>16, <2>2 DEF StartActivate, Done, Go, Set
  <2>. QED
    BY <1>16, <2>1, <2>2 DEF StartActivate
<1>17. ASSUME NEW t \in Task, ActivateChat(t)  PROVE TypeOK'
  <2>1. chat' \in Chats
    BY <1>17, <1>0, StoreTypes DEF ActivateChat
  <2>. QED
    BY <1>17, <2>1 DEF ActivateChat, Chats, Go, local
<1>18. ASSUME NEW t \in Task, DeleteChat(t)  PROVE TypeOK'
  <2>1. chat' \in Chats
    BY <1>18, <1>0, StoreTypes DEF DeleteChat
  <2>. QED
    BY <1>18, <2>1 DEF DeleteChat, Chats, Exists, Cascade, Go, local
<1>19. ASSUME NEW t \in Task, ReplaceChat(t)  PROVE TypeOK'
  <2>1. chat' \in Chats
    BY <1>19, <1>0 DEF ReplaceChat, Channel
  <2>. QED
    BY <1>19, <2>1 DEF ReplaceChat, Chats, Go, Set
<1>20. ASSUME NEW t \in Task, ReadTranscript(t)  PROVE TypeOK'
  <2>1. chat' \in Chats
    BY <1>20, <1>0 DEF ReadTranscript, Channel
  <2>. QED
    BY <1>20, <2>1 DEF ReadTranscript, Chats, Go, Set
<1>21. ASSUME NEW t \in Task, WriteTranscript(t)  PROVE TypeOK'
  BY <1>21 DEF WriteTranscript, Exists, Go, local
<1>22. ASSUME NEW t \in Task, NEW f \in File, AttachFile(t, f)  PROVE TypeOK'
  BY <1>22 DEF AttachFile, Done, Go, Set
<1>23. ASSUME NEW t \in Task, Fail(t)  PROVE TypeOK'
  BY <1>23 DEF Fail, Go, Set
<1>24. ASSUME NEW t \in Task, Leave(t)  PROVE TypeOK'
  BY <1>24 DEF Leave, Finish, Done, Go, Set
<1>25. ASSUME NEW t \in Task, RunAppend(t)  PROVE TypeOK'
  BY <1>25 DEF RunAppend, Exists, local
<1>26. ASSUME NEW s \in Session, Detach(s)  PROVE TypeOK'
  BY <1>26 DEF Detach, local
<1>27. ASSUME NEW t \in Task, ReadActive(t)  PROVE TypeOK'
  <2>1. chat' \in Chats
    BY <1>27, <1>0 DEF ReadActive, Channel
  <2>. QED
    BY <1>27, <2>1 DEF ReadActive, Chats, Done, Go, Set
<1>28. ASSUME Prune  PROVE TypeOK'
  <2>1. chat' \in Chats
    BY <1>28, <1>0, StoreTypes DEF Prune
  <2>. QED
    BY <1>28, <2>1 DEF Prune, Chats, Cascade, local
<1>29. ASSUME Restart  PROVE TypeOK'
  BY <1>29 DEF Restart, Finish
<1>30. ASSUME NEW t \in Task, LookUp(t)  PROVE TypeOK'
  BY <1>30 DEF LookUp, Go, Set
<1>31. ASSUME NEW t \in Task, ResolveMessage(t)  PROVE TypeOK'
  <2>1. chat' \in Chats
    BY <1>31, <1>0 DEF ResolveMessage, Channel
  <2>. QED
    BY <1>31, <2>1 DEF ResolveMessage, Chats, Go, Set
<1>32. ASSUME NEW t \in Task, ComposeMessage(t)  PROVE TypeOK'
  BY <1>32 DEF ComposeMessage, Go, Set
<1>33. ASSUME NEW t \in Task, ResolveAttach(t)  PROVE TypeOK'
  <2>1. chat' \in Chats
    BY <1>33, <1>0 DEF ResolveAttach, Channel
  <2>. QED
    BY <1>33, <2>1 DEF ResolveAttach, Chats, Go, Set, Done
<1>34. ASSUME NEW t \in Task, StartRead(t)  PROVE TypeOK'
  BY <1>34 DEF StartRead, Go, Set
<1>35. ASSUME NEW t \in Task, RejectEmpty(t)  PROVE TypeOK'
  BY <1>35 DEF RejectEmpty, Go, local
<1>100. CASE UNCHANGED vars
  BY <1>100 DEF vars, local
<1>. QED
  BY <1>100, <1>1, <1>2, <1>3, <1>4, <1>5, <1>6, <1>7, <1>8, <1>9, <1>10,
     <1>11, <1>12, <1>13, <1>14, <1>15, <1>16, <1>17, <1>18, <1>19, <1>20,
     <1>21, <1>22, <1>23, <1>24, <1>25, <1>26, <1>27, <1>28, <1>29, <1>30,
     <1>31, <1>32, <1>33, <1>34, <1>35
     DEF Next, Begin, Progress
-----------------------------------------------------------------------------
(* The gate *)

\* A task enters the gate only when nobody is inside, and only a task inside
\* leaves it.
LEMMA WorkflowStep ==
    ASSUME TypeOK, OneWorkflow, [Next]_vars
    PROVE  OneWorkflow'
<1>. USE DEF TypeOK, OneWorkflow, Inside, Outside
<1>1. ASSUME NEW t \in Task, SendMessage(t)  PROVE OneWorkflow'
  BY <1>1 DEF SendMessage, Go
<1>2. ASSUME NEW t \in Task, StartHeadless(t)  PROVE OneWorkflow'
  BY <1>2 DEF StartHeadless, TryStart, Go
<1>3. ASSUME NEW t \in Task, StartCreate(t)  PROVE OneWorkflow'
  BY <1>3 DEF StartCreate, TryStart, Go
<1>4. ASSUME NEW t \in Task, StartReset(t)  PROVE OneWorkflow'
  BY <1>4 DEF StartReset, TryStart, Go
<1>5. ASSUME NEW t \in Task, RequestAttach(t)  PROVE OneWorkflow'
  BY <1>5 DEF RequestAttach, Go
<1>6. ASSUME NEW t \in Task, NEW s \in Session, RequestActivate(t, s)  PROVE OneWorkflow'
  BY <1>6 DEF RequestActivate, Go
<1>7. ASSUME NEW t \in Task, NEW s \in Session, StartDelete(t, s)  PROVE OneWorkflow'
  BY <1>7 DEF StartDelete, TryStart, Go
<1>8. ASSUME NEW t \in Task, NEW x \in SessionOrNone \cup BadTargets, StartCompress(t, x)
      PROVE OneWorkflow'
  BY <1>8 DEF StartCompress, TryStart, Go
<1>9. ASSUME NEW t \in Task, StartMessage(t)  PROVE OneWorkflow'
  BY <1>9 DEF StartMessage, TryStart, Go, Done
<1>10. ASSUME NEW t \in Task, StoreMessage(t)  PROVE OneWorkflow'
  BY <1>10 DEF StoreMessage, Go
<1>11. ASSUME NEW t \in Task, Reply(t)  PROVE OneWorkflow'
  BY <1>11 DEF Reply, Go
<1>12. ASSUME NEW t \in Task, OpenSystem(t)  PROVE OneWorkflow'
  BY <1>12 DEF OpenSystem, Go
<1>13. ASSUME NEW t \in Task, HeadlessReply(t)  PROVE OneWorkflow'
  BY <1>13 DEF HeadlessReply, Go
<1>14. ASSUME NEW t \in Task, CreateChat(t)  PROVE OneWorkflow'
  BY <1>14 DEF CreateChat, Go
<1>15. ASSUME NEW t \in Task, ResetChat(t)  PROVE OneWorkflow'
  BY <1>15 DEF ResetChat, Go
<1>16. ASSUME NEW t \in Task, StartActivate(t)  PROVE OneWorkflow'
  BY <1>16 DEF StartActivate, TryStart, Go, Done
<1>17. ASSUME NEW t \in Task, ActivateChat(t)  PROVE OneWorkflow'
  BY <1>17 DEF ActivateChat, Go
<1>18. ASSUME NEW t \in Task, DeleteChat(t)  PROVE OneWorkflow'
  BY <1>18 DEF DeleteChat, Go
<1>19. ASSUME NEW t \in Task, ReplaceChat(t)  PROVE OneWorkflow'
  BY <1>19 DEF ReplaceChat, Go
<1>20. ASSUME NEW t \in Task, ReadTranscript(t)  PROVE OneWorkflow'
  BY <1>20 DEF ReadTranscript, Go
<1>21. ASSUME NEW t \in Task, WriteTranscript(t)  PROVE OneWorkflow'
  BY <1>21 DEF WriteTranscript, Go
<1>22. ASSUME NEW t \in Task, NEW f \in File, AttachFile(t, f)  PROVE OneWorkflow'
  BY <1>22 DEF AttachFile, Done, Go
<1>23. ASSUME NEW t \in Task, Fail(t)  PROVE OneWorkflow'
  BY <1>23 DEF Fail, Go
<1>24. ASSUME NEW t \in Task, Leave(t)  PROVE OneWorkflow'
  BY <1>24 DEF Leave, Finish, Done, Go
<1>25. ASSUME NEW t \in Task, RunAppend(t)  PROVE OneWorkflow'
  BY <1>25 DEF RunAppend
<1>26. ASSUME NEW s \in Session, Detach(s)  PROVE OneWorkflow'
  BY <1>26 DEF Detach
<1>27. ASSUME NEW t \in Task, ReadActive(t)  PROVE OneWorkflow'
  BY <1>27 DEF ReadActive, Done, Go
<1>28. ASSUME Prune  PROVE OneWorkflow'
  BY <1>28 DEF Prune
<1>29. ASSUME Restart  PROVE OneWorkflow'
  BY <1>29 DEF Restart, Finish
<1>30. ASSUME NEW t \in Task, LookUp(t)  PROVE OneWorkflow'
  BY <1>30 DEF LookUp, Go
<1>31. ASSUME NEW t \in Task, ResolveMessage(t)  PROVE OneWorkflow'
  BY <1>31 DEF ResolveMessage, Go
<1>32. ASSUME NEW t \in Task, ComposeMessage(t)  PROVE OneWorkflow'
  BY <1>32 DEF ComposeMessage, Go
<1>33. ASSUME NEW t \in Task, ResolveAttach(t)  PROVE OneWorkflow'
  BY <1>33 DEF ResolveAttach, Go, Done
<1>34. ASSUME NEW t \in Task, StartRead(t)  PROVE OneWorkflow'
  BY <1>34 DEF StartRead, Go
<1>35. ASSUME NEW t \in Task, RejectEmpty(t)  PROVE OneWorkflow'
  BY <1>35 DEF RejectEmpty, Go
<1>100. CASE UNCHANGED vars
  BY <1>100 DEF vars
<1>. QED
  BY <1>100, <1>1, <1>2, <1>3, <1>4, <1>5, <1>6, <1>7, <1>8, <1>9, <1>10,
     <1>11, <1>12, <1>13, <1>14, <1>15, <1>16, <1>17, <1>18, <1>19, <1>20,
     <1>21, <1>22, <1>23, <1>24, <1>25, <1>26, <1>27, <1>28, <1>29, <1>30,
     <1>31, <1>32, <1>33, <1>34, <1>35
     DEF Next, Begin, Progress

\* A task that takes the gate stays inside until it frees the gate.
LEMMA BusyStep ==
    ASSUME BadTargets = {}, TypeOK, BusyOnlyWhileRunning, [Next]_vars
    PROVE  BusyOnlyWhileRunning'
<1>. USE DEF TypeOK, BusyOnlyWhileRunning, Inside, Outside
<1>1. ASSUME NEW t \in Task, SendMessage(t)  PROVE BusyOnlyWhileRunning'
  BY <1>1 DEF SendMessage, Go
<1>2. ASSUME NEW t \in Task, StartHeadless(t)  PROVE BusyOnlyWhileRunning'
  BY <1>2 DEF StartHeadless, TryStart, Go
<1>3. ASSUME NEW t \in Task, StartCreate(t)  PROVE BusyOnlyWhileRunning'
  BY <1>3 DEF StartCreate, TryStart, Go
<1>4. ASSUME NEW t \in Task, StartReset(t)  PROVE BusyOnlyWhileRunning'
  BY <1>4 DEF StartReset, TryStart, Go
<1>5. ASSUME NEW t \in Task, RequestAttach(t)  PROVE BusyOnlyWhileRunning'
  BY <1>5 DEF RequestAttach, Go
<1>6. ASSUME NEW t \in Task, NEW s \in Session, RequestActivate(t, s)  PROVE BusyOnlyWhileRunning'
  BY <1>6 DEF RequestActivate, Go
<1>7. ASSUME NEW t \in Task, NEW s \in Session, StartDelete(t, s)  PROVE BusyOnlyWhileRunning'
  BY <1>7 DEF StartDelete, TryStart, Go
<1>8. ASSUME NEW t \in Task, NEW x \in SessionOrNone \cup BadTargets, StartCompress(t, x)
      PROVE BusyOnlyWhileRunning'
  BY <1>8 DEF StartCompress, TryStart, Go
<1>9. ASSUME NEW t \in Task, StartMessage(t)  PROVE BusyOnlyWhileRunning'
  BY <1>9 DEF StartMessage, TryStart, Go, Done
<1>10. ASSUME NEW t \in Task, StoreMessage(t)  PROVE BusyOnlyWhileRunning'
  BY <1>10 DEF StoreMessage, Go
<1>11. ASSUME NEW t \in Task, Reply(t)  PROVE BusyOnlyWhileRunning'
  BY <1>11 DEF Reply, Go
<1>12. ASSUME NEW t \in Task, OpenSystem(t)  PROVE BusyOnlyWhileRunning'
  BY <1>12 DEF OpenSystem, Go
<1>13. ASSUME NEW t \in Task, HeadlessReply(t)  PROVE BusyOnlyWhileRunning'
  BY <1>13 DEF HeadlessReply, Go
<1>14. ASSUME NEW t \in Task, CreateChat(t)  PROVE BusyOnlyWhileRunning'
  BY <1>14 DEF CreateChat, Go
<1>15. ASSUME NEW t \in Task, ResetChat(t)  PROVE BusyOnlyWhileRunning'
  BY <1>15 DEF ResetChat, Go
<1>16. ASSUME NEW t \in Task, StartActivate(t)  PROVE BusyOnlyWhileRunning'
  BY <1>16 DEF StartActivate, TryStart, Go, Done
<1>17. ASSUME NEW t \in Task, ActivateChat(t)  PROVE BusyOnlyWhileRunning'
  BY <1>17 DEF ActivateChat, Go
<1>18. ASSUME NEW t \in Task, DeleteChat(t)  PROVE BusyOnlyWhileRunning'
  BY <1>18 DEF DeleteChat, Go
<1>19. ASSUME NEW t \in Task, ReplaceChat(t)  PROVE BusyOnlyWhileRunning'
  BY <1>19 DEF ReplaceChat, Go
<1>20. ASSUME NEW t \in Task, ReadTranscript(t)  PROVE BusyOnlyWhileRunning'
  BY <1>20 DEF ReadTranscript, Go
<1>21. ASSUME NEW t \in Task, WriteTranscript(t)  PROVE BusyOnlyWhileRunning'
  BY <1>21 DEF WriteTranscript, Go
<1>22. ASSUME NEW t \in Task, NEW f \in File, AttachFile(t, f)  PROVE BusyOnlyWhileRunning'
  BY <1>22 DEF AttachFile, Done, Go
<1>23. ASSUME NEW t \in Task, Fail(t)  PROVE BusyOnlyWhileRunning'
  BY <1>23 DEF Fail, Go
<1>24. ASSUME NEW t \in Task, Leave(t)  PROVE BusyOnlyWhileRunning'
  BY <1>24 DEF Leave, Finish, Done, Go
<1>25. ASSUME NEW t \in Task, RunAppend(t)  PROVE BusyOnlyWhileRunning'
  BY <1>25 DEF RunAppend
<1>26. ASSUME NEW s \in Session, Detach(s)  PROVE BusyOnlyWhileRunning'
  BY <1>26 DEF Detach
<1>27. ASSUME NEW t \in Task, ReadActive(t)  PROVE BusyOnlyWhileRunning'
  BY <1>27 DEF ReadActive, Done, Go
<1>28. ASSUME Prune  PROVE BusyOnlyWhileRunning'
  BY <1>28 DEF Prune
<1>29. ASSUME Restart  PROVE BusyOnlyWhileRunning'
  BY <1>29 DEF Restart, Finish
<1>30. ASSUME NEW t \in Task, LookUp(t)  PROVE BusyOnlyWhileRunning'
  BY <1>30 DEF LookUp, Go
<1>31. ASSUME NEW t \in Task, ResolveMessage(t)  PROVE BusyOnlyWhileRunning'
  BY <1>31 DEF ResolveMessage, Go
<1>32. ASSUME NEW t \in Task, ComposeMessage(t)  PROVE BusyOnlyWhileRunning'
  BY <1>32 DEF ComposeMessage, Go
<1>33. ASSUME NEW t \in Task, ResolveAttach(t)  PROVE BusyOnlyWhileRunning'
  BY <1>33 DEF ResolveAttach, Go, Done
<1>34. ASSUME NEW t \in Task, StartRead(t)  PROVE BusyOnlyWhileRunning'
  BY <1>34 DEF StartRead, Go
<1>35. ASSUME NEW t \in Task, RejectEmpty(t)  PROVE BusyOnlyWhileRunning'
  BY <1>35 DEF RejectEmpty, Go
<1>100. CASE UNCHANGED vars
  BY <1>100 DEF vars
<1>. QED
  BY <1>100, <1>1, <1>2, <1>3, <1>4, <1>5, <1>6, <1>7, <1>8, <1>9, <1>10,
     <1>11, <1>12, <1>13, <1>14, <1>15, <1>16, <1>17, <1>18, <1>19, <1>20,
     <1>21, <1>22, <1>23, <1>24, <1>25, <1>26, <1>27, <1>28, <1>29, <1>30,
     <1>31, <1>32, <1>33, <1>34, <1>35
     DEF Next, Begin, Progress

-----------------------------------------------------------------------------
(* The chats *)

\* Creating a chat closes the one that was open and opens a new one.
LEMMA FreshSessionEffect ==
    ASSUME NEW c \in Chats, NEW d, FreshSession(c, d)
    PROVE  /\ \E s \in Session : OpenIn(d, "web") = {s}
           /\ OpenIn(d, "system") = OpenIn(c, "system")
           /\ \A r \in Session : c[r].state # "absent" =>
                 d[r].state # "absent" /\ (Exists(d, r) => Exists(c, r))
<1>1. PICK s \in Session : /\ IsNextId(c, s)
                          /\ d = Opened(Archived(c, "web", NoSession), s, "web")
  BY DEF FreshSession
<1>. DEFINE a == Archived(c, "web", NoSession)
<1>2. a \in Chats
  BY StoreTypes
<1>3. \A r \in Session : /\ a[r].state # "open" \/ a[r].channel # "web"
                         /\ a[r].channel = c[r].channel
                         /\ a[r] = c[r] \/ (c[r].channel = "web" /\ c[r].state = "open"
                                            /\ a[r].state = "archived")
  BY WebChatAssumption DEF Archived, OpenIn, Chats, ChatState, Session
<1>4. c[s].state = "absent" /\ d = [a EXCEPT ![s] = [state |-> "open", channel |-> "web"]]
  BY <1>1 DEF IsNextId, Unused, Opened
<1>. HIDE DEF a
<1>. QED
  BY <1>2, <1>3, <1>4 DEF OpenIn, Exists, Chats

\* Activating a chat makes it the only open one of its channel; a chat that is
\* not there changes nothing.
LEMMA ActivatedEffect ==
    ASSUME NEW c \in Chats, NEW s
    PROVE  /\ \A ch \in Channel : \/ OpenIn(Activated(c, s), ch) = OpenIn(c, ch)
                                 \/ OpenIn(Activated(c, s), ch) = {s}
           /\ \A r \in Session : /\ c[r].state # "absent" => Activated(c, s)[r].state # "absent"
                                 /\ Exists(Activated(c, s), r) <=> Exists(c, r)
<1>1. CASE ~Exists(c, s)
  BY <1>1 DEF Activated
<1>2. CASE Exists(c, s)
  <2>. DEFINE a == Archived(c, c[s].channel, s)
  <2>1. a \in Chats
    BY StoreTypes
  <2>2. \A r \in Session : /\ a[r].channel = c[r].channel
                           /\ a[r] = c[r] \/ (c[r].state = "open" /\ a[r].state = "archived")
                           /\ a[r].channel = c[s].channel /\ r # s => a[r].state # "open"
                           /\ a[r].channel # c[s].channel => a[r] = c[r]
    BY DEF Archived, OpenIn, Chats, ChatState
  <2>3. /\ s \in Session /\ c[s].state \in {"open", "archived"}
        /\ Activated(c, s) = [a EXCEPT ![s] = [@ EXCEPT !.state = "open"]]
    BY <1>2 DEF Activated, Exists
  <2>4. \A r \in Session : /\ Activated(c, s)[r].channel = c[r].channel
                           /\ r # s => Activated(c, s)[r] = a[r]
                           /\ r = s => Activated(c, s)[r].state = "open"
    BY <2>1, <2>2, <2>3 DEF Chats, ChatState
  <2>. HIDE DEF a
  <2>. QED
    BY <1>2, <2>2, <2>3, <2>4 DEF OpenIn, Exists, Channel
<1>. QED
  BY <1>1, <1>2

\* Removing chats opens none and touches no other.
LEMMA RemovedEffect ==
    ASSUME NEW c \in Chats, NEW D
    PROVE  \A r \in Session : /\ r \in D => Removed(c, D)[r].state = "deleted"
                              /\ r \notin D => Removed(c, D)[r] = c[r]
BY DEF Removed, Chats, ChatState

\* The part of the invariant that is about chats.
ChatInv ==
    /\ OpenUnique /\ LocalsInOrder /\ RunChat /\ ReplyInItsChat /\ Compressing
    /\ LookUpInOrder /\ LookUpHolds

\* No step disturbs the chat of a run, of a reply or of a compression: what could
\* would have to be inside the gate together with it.
LEMMA ChatStep ==
    ASSUME TypeOK, OneWorkflow, ChatInv, [Next]_vars
    PROVE  ChatInv'
<1>. USE DEF TypeOK, SessionOrNone, ChatInv, OpenUnique, LocalsInOrder, RunChat,
              ReplyInItsChat, Compressing, LookUpInOrder, LookUpHolds
<1>0. chat \in Chats /\ NoSession \notin Session
  BY WebChatAssumption DEF Chats, Session
<1>1. ASSUME NEW t \in Task, SendMessage(t)  PROVE ChatInv'
  BY <1>1, <1>0 DEF SendMessage, Go, Set
<1>2. ASSUME NEW t \in Task, StartHeadless(t)  PROVE ChatInv'
  <2>10. OpenUnique'
    BY <1>2, <1>0 DEF StartHeadless, TryStart, Go, local
  <2>11. LocalsInOrder'
    BY <1>2, <1>0 DEF StartHeadless, TryStart, Go, local
  <2>12. RunChat'
    BY <1>2, <1>0 DEF StartHeadless, TryStart, Go, local
  <2>13. ReplyInItsChat'
    BY <1>2, <1>0 DEF StartHeadless, TryStart, Go, local
  <2>14. Compressing'
    BY <1>2, <1>0 DEF StartHeadless, TryStart, Go, local
  <2>15. LookUpInOrder'
    BY <1>2, <1>0 DEF StartHeadless, TryStart, Go, local
  <2>16. LookUpHolds'
    <3>. SUFFICES ASSUME NEW u \in Task, NEW r \in Session, found'[u] = {r}
                  PROVE  /\ pc'[u] \in {"storing", "running", "replace", "compress"}
                            => chat'[r] = [state |-> "open", channel |-> "web"]
                         /\ pc'[u] = "headless"
                            => chat'[r] = [state |-> "open", channel |-> "system"]
      OBVIOUS
    <3>1. CASE u = t
      BY <1>2, <3>1 DEF StartHeadless, TryStart, Go, local
    <3>2. CASE u # t
      BY <1>2, <3>2 DEF StartHeadless, TryStart, Go, local
    <3>. QED
      BY <3>1, <3>2
  <2>. HIDE DEF OpenUnique, LocalsInOrder, RunChat, ReplyInItsChat, Compressing, LookUpInOrder, LookUpHolds
  <2>. QED
    BY <2>10, <2>11, <2>12, <2>13, <2>14, <2>15, <2>16
<1>3. ASSUME NEW t \in Task, StartCreate(t)  PROVE ChatInv'
  BY <1>3, <1>0 DEF StartCreate, TryStart, Go, local
<1>4. ASSUME NEW t \in Task, StartReset(t)  PROVE ChatInv'
  BY <1>4, <1>0 DEF StartReset, TryStart, Go, local
<1>5. ASSUME NEW t \in Task, RequestAttach(t)  PROVE ChatInv'
  BY <1>5, <1>0 DEF RequestAttach, Go, Set
<1>6. ASSUME NEW t \in Task, NEW s \in Session, RequestActivate(t, s)  PROVE ChatInv'
  BY <1>6, <1>0 DEF RequestActivate, Go, Set
<1>7. ASSUME NEW t \in Task, NEW s \in Session, StartDelete(t, s)  PROVE ChatInv'
  <2>10. OpenUnique'
    BY <1>7, <1>0 DEF StartDelete, TryStart, Go, Set, Inside, Outside
  <2>11. LocalsInOrder'
    BY <1>7, <1>0 DEF StartDelete, TryStart, Go, Set, Inside, Outside
  <2>12. RunChat'
    BY <1>7, <1>0 DEF StartDelete, TryStart, Go, Set, Inside, Outside
  <2>13. ReplyInItsChat'
    BY <1>7, <1>0 DEF StartDelete, TryStart, Go, Set, Inside, Outside
  <2>14. Compressing'
    BY <1>7, <1>0 DEF StartDelete, TryStart, Go, Set, Inside, Outside
  <2>15. LookUpInOrder'
    BY <1>7, <1>0 DEF StartDelete, TryStart, Go, Set, Inside, Outside
  <2>16. LookUpHolds'
    BY <1>7, <1>0 DEF StartDelete, TryStart, Go, Set, Inside, Outside
  <2>. HIDE DEF OpenUnique, LocalsInOrder, RunChat, ReplyInItsChat, Compressing, LookUpInOrder, LookUpHolds
  <2>. QED
    BY <2>10, <2>11, <2>12, <2>13, <2>14, <2>15, <2>16
<1>8. ASSUME NEW t \in Task, NEW x \in SessionOrNone \cup BadTargets, StartCompress(t, x)
      PROVE ChatInv'
  <2>10. OpenUnique'
    BY <1>8, <1>0 DEF StartCompress, TryStart, Go, Set
  <2>11. LocalsInOrder'
    BY <1>8, <1>0 DEF StartCompress, TryStart, Go, Set
  <2>12. RunChat'
    BY <1>8, <1>0 DEF StartCompress, TryStart, Go, Set
  <2>13. ReplyInItsChat'
    BY <1>8, <1>0 DEF StartCompress, TryStart, Go, Set
  <2>14. Compressing'
    BY <1>8, <1>0 DEF StartCompress, TryStart, Go, Set
  <2>15. LookUpInOrder'
    BY <1>8, <1>0 DEF StartCompress, TryStart, Go, Set
  <2>16. LookUpHolds'
    <3>. SUFFICES ASSUME NEW u \in Task, NEW r \in Session, found'[u] = {r}
                  PROVE  /\ pc'[u] \in {"storing", "running", "replace", "compress"}
                            => chat'[r] = [state |-> "open", channel |-> "web"]
                         /\ pc'[u] = "headless"
                            => chat'[r] = [state |-> "open", channel |-> "system"]
      OBVIOUS
    <3>1. CASE u = t
      BY <1>8, <3>1 DEF StartCompress, TryStart, Go, Set
    <3>2. CASE u # t
      BY <1>8, <3>2 DEF StartCompress, TryStart, Go, Set
    <3>. QED
      BY <3>1, <3>2
  <2>. HIDE DEF OpenUnique, LocalsInOrder, RunChat, ReplyInItsChat, Compressing, LookUpInOrder, LookUpHolds
  <2>. QED
    BY <2>10, <2>11, <2>12, <2>13, <2>14, <2>15, <2>16
<1>9. ASSUME NEW t \in Task, StartMessage(t)  PROVE ChatInv'
  <2>10. OpenUnique'
    BY <1>9, <1>0 DEF StartMessage, TryStart, Go, Done, Set, local
  <2>11. LocalsInOrder'
    BY <1>9, <1>0 DEF StartMessage, TryStart, Go, Done, Set, local
  <2>12. RunChat'
    BY <1>9, <1>0 DEF StartMessage, TryStart, Go, Done, Set, local
  <2>13. ReplyInItsChat'
    BY <1>9, <1>0 DEF StartMessage, TryStart, Go, Done, Set, local
  <2>14. Compressing'
    BY <1>9, <1>0 DEF StartMessage, TryStart, Go, Done, Set, local
  <2>15. LookUpInOrder'
    BY <1>9, <1>0 DEF StartMessage, TryStart, Go, Done, Set, local
  <2>16. LookUpHolds'
    BY <1>9, <1>0 DEF StartMessage, TryStart, Go, Done, Set, local
  <2>. HIDE DEF OpenUnique, LocalsInOrder, RunChat, ReplyInItsChat, Compressing, LookUpInOrder, LookUpHolds
  <2>. QED
    BY <2>10, <2>11, <2>12, <2>13, <2>14, <2>15, <2>16
<1>10. ASSUME NEW t \in Task, StoreMessage(t)  PROVE ChatInv'
  <2>1. ASSUME NEW s \in Session, Ensured(t, "web", s)
        PROVE  /\ \A r \in Session : chat'[r] # chat[r] => chat[r].state = "absent"
               /\ OpenUnique'
               /\ \/ found[t] = {s} /\ chat' = chat
                  \/ /\ chat'[s] = [state |-> "open", channel |-> "web"]
                     /\ OpenIn(chat, "web") = {}
    BY <1>0, <2>1, EnsuredEffect DEF Channel
  <2>2. \/ chat' = chat
        \/ \E s \in Session : Ensured(t, "web", s)
    BY <1>10 DEF StoreMessage
  <2>3. /\ OpenUnique'
        /\ \A r \in Session : chat[r].state # "absent" => chat'[r] = chat[r]
    BY <2>1, <2>2
  <2>11. LocalsInOrder'
    BY <1>10, <1>0 DEF StoreMessage, Go, Set
  <2>12. RunChat'
    BY <1>10, <1>0, <2>1, <2>3 DEF StoreMessage, Go, Set, OneWorkflow, Inside, Outside
  <2>13. ReplyInItsChat'
    BY <1>10, <1>0, <2>1, <2>3 DEF StoreMessage, Go, Set, OpenIn, Channel
  <2>14. Compressing'
    BY <1>10, <1>0, <2>1, <2>3 DEF StoreMessage, Go, Set, Exists, OneWorkflow, Inside, Outside
  <2>15. LookUpInOrder'
    BY <1>10 DEF StoreMessage, Go, Set
  <2>16. LookUpHolds'
    <3>. SUFFICES ASSUME NEW u \in Task, NEW r \in Session, found'[u] = {r}
                  PROVE  /\ pc'[u] \in {"storing", "running", "replace", "compress"}
                            => chat'[r] = [state |-> "open", channel |-> "web"]
                         /\ pc'[u] = "headless"
                            => chat'[r] = [state |-> "open", channel |-> "system"]
      OBVIOUS
    <3>1. CASE u = t
      BY <1>10, <3>1 DEF StoreMessage, Go, Set
    <3>2. CASE u # t
      BY <1>10, <3>2, <2>3 DEF StoreMessage, Go, Set, OneWorkflow, Inside, Outside
    <3>. QED
      BY <3>1, <3>2
  <2>. QED
    BY <2>3, <2>11, <2>12, <2>13, <2>14, <2>15, <2>16
<1>11. ASSUME NEW t \in Task, Reply(t)  PROVE ChatInv'
  <2>1. ASSUME NEW s \in Session, Ensured(t, "web", s)
        PROVE  /\ \A r \in Session : chat'[r] # chat[r] => chat[r].state = "absent"
               /\ OpenUnique'
               /\ \/ found[t] = {s} /\ chat' = chat
                  \/ /\ chat'[s] = [state |-> "open", channel |-> "web"]
                     /\ OpenIn(chat, "web") = {}
    BY <1>0, <2>1, EnsuredEffect DEF Channel
  <2>2. \/ chat' = chat
        \/ \E s \in Session : Ensured(t, "web", s)
    BY <1>11 DEF Reply
  <2>3. /\ OpenUnique'
        /\ \A r \in Session : chat[r].state # "absent" => chat'[r] = chat[r]
    BY <2>1, <2>2
  <2>11. LocalsInOrder'
    BY <1>11, <1>0 DEF Reply, Go, Set
  <2>12. RunChat'
    BY <1>11, <1>0, <2>1, <2>3 DEF Reply, Go, Set, OneWorkflow, Inside, Outside
  <2>13. ReplyInItsChat'
    BY <1>11, <1>0, <2>1, <2>3 DEF Reply, Go, Set, OpenIn, Channel
  <2>14. Compressing'
    BY <1>11, <1>0, <2>1, <2>3 DEF Reply, Go, Set, Exists, OneWorkflow, Inside, Outside
  <2>15. LookUpInOrder'
    BY <1>11 DEF Reply, Go, Set
  <2>16. LookUpHolds'
    BY <1>11, <1>0, <2>3 DEF Reply, Go, Set, OneWorkflow, Inside, Outside
  <2>. QED
    BY <2>3, <2>11, <2>12, <2>13, <2>14, <2>15, <2>16
<1>12. ASSUME NEW t \in Task, OpenSystem(t)  PROVE ChatInv'
  <2>1. ASSUME NEW s \in Session, Ensured(t, "system", s)
        PROVE  /\ \A r \in Session : chat'[r] # chat[r] => chat[r].state = "absent"
               /\ OpenUnique'
               /\ \/ found[t] = {s} /\ chat' = chat
                  \/ /\ chat'[s] = [state |-> "open", channel |-> "system"]
                     /\ OpenIn(chat, "system") = {}
    BY <1>0, <2>1, EnsuredEffect DEF Channel
  <2>2. \/ chat' = chat
        \/ \E s \in Session : Ensured(t, "system", s)
    BY <1>12 DEF OpenSystem
  <2>3. /\ OpenUnique'
        /\ \A r \in Session : chat[r].state # "absent" => chat'[r] = chat[r]
    BY <2>1, <2>2
  <2>11. LocalsInOrder'
    BY <1>12, <1>0 DEF OpenSystem, Go, Set
  <2>12. RunChat'
    BY <1>12, <1>0, <2>1, <2>3 DEF OpenSystem, Go, Set, OneWorkflow, Inside, Outside
  <2>13. ReplyInItsChat'
    BY <1>12, <1>0, <2>1, <2>3 DEF OpenSystem, Go, Set, OpenIn, Channel
  <2>14. Compressing'
    BY <1>12, <1>0, <2>1, <2>3 DEF OpenSystem, Go, Set, Exists, OneWorkflow, Inside, Outside
  <2>15. LookUpInOrder'
    BY <1>12 DEF OpenSystem, Go, Set
  <2>16. LookUpHolds'
    BY <1>12, <1>0, <2>3 DEF OpenSystem, Go, Set, OneWorkflow, Inside, Outside
  <2>. QED
    BY <2>3, <2>11, <2>12, <2>13, <2>14, <2>15, <2>16
<1>13. ASSUME NEW t \in Task, HeadlessReply(t)  PROVE ChatInv'
  <2>10. OpenUnique'
    BY <1>13, <1>0 DEF HeadlessReply, Go, Set
  <2>11. LocalsInOrder'
    BY <1>13, <1>0 DEF HeadlessReply, Go, Set
  <2>12. RunChat'
    BY <1>13, <1>0 DEF HeadlessReply, Go, Set
  <2>13. ReplyInItsChat'
    BY <1>13, <1>0 DEF HeadlessReply, Go, Set
  <2>14. Compressing'
    BY <1>13, <1>0 DEF HeadlessReply, Go, Set
  <2>15. LookUpInOrder'
    BY <1>13, <1>0 DEF HeadlessReply, Go, Set
  <2>16. LookUpHolds'
    BY <1>13, <1>0 DEF HeadlessReply, Go, Set
  <2>. HIDE DEF OpenUnique, LocalsInOrder, RunChat, ReplyInItsChat, Compressing, LookUpInOrder, LookUpHolds
  <2>. QED
    BY <2>10, <2>11, <2>12, <2>13, <2>14, <2>15, <2>16
<1>14. ASSUME NEW t \in Task, CreateChat(t)  PROVE ChatInv'
  <2>2. \A u \in Task : /\ pc[u] \notin {"running", "background", "write", "storing",
                                       "replace", "compress", "headless"}
                      /\ pc'[u] \notin {"running", "background", "write", "storing",
                                        "compress", "headless"}
    BY <1>14 DEF CreateChat, Go, OneWorkflow, Inside, Outside
  <2>1. OpenUnique'
    BY <1>14, <1>0, FreshSessionEffect DEF CreateChat, Channel
  <2>10. OpenUnique'
    BY <2>1
  <2>11. LocalsInOrder'
    BY <1>14, <1>0, <2>1, <2>2 DEF CreateChat, Go, local
  <2>12. RunChat'
    BY <1>14, <1>0, <2>1, <2>2 DEF CreateChat, Go, local
  <2>13. ReplyInItsChat'
    BY <1>14, <1>0, <2>1, <2>2 DEF CreateChat, Go, local
  <2>14. Compressing'
    BY <1>14, <1>0, <2>1, <2>2 DEF CreateChat, Go, local
  <2>15. LookUpInOrder'
    BY <1>14, <1>0, <2>1, <2>2 DEF CreateChat, Go, local
  <2>16. LookUpHolds'
    BY <1>14, <1>0, <2>1, <2>2 DEF CreateChat, Go, local
  <2>. HIDE DEF OpenUnique, LocalsInOrder, RunChat, ReplyInItsChat, Compressing, LookUpInOrder, LookUpHolds
  <2>. QED
    BY <2>10, <2>11, <2>12, <2>13, <2>14, <2>15, <2>16
<1>15. ASSUME NEW t \in Task, ResetChat(t)  PROVE ChatInv'
  <2>2. \A u \in Task : /\ pc[u] \notin {"running", "background", "write", "storing",
                                       "replace", "compress", "headless"}
                      /\ pc'[u] \notin {"running", "background", "write", "storing",
                                        "compress", "headless"}
    BY <1>15 DEF ResetChat, Go, OneWorkflow, Inside, Outside
  <2>1. OpenUnique'
    BY <1>15, <1>0, FreshSessionEffect DEF ResetChat, Channel
  <2>10. OpenUnique'
    BY <2>1
  <2>11. LocalsInOrder'
    BY <1>15, <1>0, <2>1, <2>2 DEF ResetChat, Go, local
  <2>12. RunChat'
    BY <1>15, <1>0, <2>1, <2>2 DEF ResetChat, Go, local
  <2>13. ReplyInItsChat'
    BY <1>15, <1>0, <2>1, <2>2 DEF ResetChat, Go, local
  <2>14. Compressing'
    BY <1>15, <1>0, <2>1, <2>2 DEF ResetChat, Go, local
  <2>15. LookUpInOrder'
    BY <1>15, <1>0, <2>1, <2>2 DEF ResetChat, Go, local
  <2>16. LookUpHolds'
    BY <1>15, <1>0, <2>1, <2>2 DEF ResetChat, Go, local
  <2>. HIDE DEF OpenUnique, LocalsInOrder, RunChat, ReplyInItsChat, Compressing, LookUpInOrder, LookUpHolds
  <2>. QED
    BY <2>10, <2>11, <2>12, <2>13, <2>14, <2>15, <2>16
<1>16. ASSUME NEW t \in Task, StartActivate(t)  PROVE ChatInv'
  <2>10. OpenUnique'
    BY <1>16, <1>0 DEF StartActivate, TryStart, Go, Done, Set, local
  <2>11. LocalsInOrder'
    BY <1>16, <1>0 DEF StartActivate, TryStart, Go, Done, Set, local
  <2>12. RunChat'
    BY <1>16, <1>0 DEF StartActivate, TryStart, Go, Done, Set, local
  <2>13. ReplyInItsChat'
    BY <1>16, <1>0 DEF StartActivate, TryStart, Go, Done, Set, local
  <2>14. Compressing'
    BY <1>16, <1>0 DEF StartActivate, TryStart, Go, Done, Set, local
  <2>15. LookUpInOrder'
    BY <1>16, <1>0 DEF StartActivate, TryStart, Go, Done, Set, local
  <2>16. LookUpHolds'
    BY <1>16, <1>0 DEF StartActivate, TryStart, Go, Done, Set, local
  <2>. HIDE DEF OpenUnique, LocalsInOrder, RunChat, ReplyInItsChat, Compressing, LookUpInOrder, LookUpHolds
  <2>. QED
    BY <2>10, <2>11, <2>12, <2>13, <2>14, <2>15, <2>16
<1>17. ASSUME NEW t \in Task, ActivateChat(t)  PROVE ChatInv'
  <2>1. /\ chat' \in Chats
        /\ \A c \in Channel : \A r, q \in OpenIn(chat', c) : r = q
        /\ \A r \in Session : /\ chat[r].state # "absent" => chat'[r].state # "absent"
                              /\ Exists(chat', r) <=> Exists(chat, r)
    BY <1>17, <1>0, StoreTypes, ActivatedEffect DEF ActivateChat
  <2>2. \A u \in Task : /\ pc[u] \notin {"running", "background", "write", "storing",
                                       "replace", "compress", "headless"}
                      /\ pc'[u] \notin {"running", "background", "write", "storing",
                                        "compress", "headless"}
    BY <1>17 DEF ActivateChat, Go, OneWorkflow, Inside, Outside
  <2>10. OpenUnique'
    BY <2>1
  <2>11. LocalsInOrder'
    BY <1>17 DEF ActivateChat, Go, local
  <2>12. RunChat'
    BY <1>17, <2>2 DEF ActivateChat, Go, local
  <2>13. ReplyInItsChat'
    BY <1>17 DEF ActivateChat, Go, local
  <2>14. Compressing'
    BY <1>17, <2>2 DEF ActivateChat, Go, local
  <2>15. LookUpInOrder'
    BY <1>17 DEF ActivateChat, Go, local
  <2>16. LookUpHolds'
    BY <1>17, <2>2 DEF ActivateChat, Go, local
  <2>. HIDE DEF OpenUnique, LocalsInOrder, RunChat, ReplyInItsChat, Compressing, LookUpInOrder, LookUpHolds
  <2>. QED
    BY <2>10, <2>11, <2>12, <2>13, <2>14, <2>15, <2>16
<1>18. ASSUME NEW t \in Task, DeleteChat(t)  PROVE ChatInv'
  <2>1. /\ chat' = chat \/ \E D : chat' = Removed(chat, D)
        /\ pc' \in {[pc EXCEPT ![t] = p] : p \in {"replace", "finishing"}}
        /\ UNCHANGED local /\ pc[t] = "delete"
    BY <1>18 DEF DeleteChat, Go
  <2>2. \A r \in Session : chat'[r] = chat[r] \/ chat'[r].state = "deleted"
    BY <1>0, <2>1, RemovedEffect
  <2>3. \A u \in Task : pc[u] \notin {"running", "background", "write", "storing",
                                      "replace", "compress", "headless"}
    BY <2>1 DEF OneWorkflow, Inside, Outside
  <2>10. OpenUnique'
    BY <2>2 DEF OpenIn
  <2>11. LocalsInOrder'
    BY <2>1 DEF local
  <2>12. RunChat'
    BY <2>1, <2>3
  <2>13. ReplyInItsChat'
    BY <2>1 DEF local
  <2>14. Compressing'
    BY <2>1, <2>3
  <2>15. LookUpInOrder'
    BY <2>1 DEF local
  <2>16. LookUpHolds'
    <3>1. UNCHANGED found /\ \A u \in Task : u # t => pc'[u] = pc[u]
      BY <2>1 DEF local
    <3>2. \A r \in Session : found[t] # {r}
      BY <2>1
    <3>. QED
      BY <2>3, <3>1, <3>2
  <2>. HIDE DEF OpenUnique, LocalsInOrder, RunChat, ReplyInItsChat, Compressing, LookUpInOrder, LookUpHolds
  <2>. QED
    BY <2>10, <2>11, <2>12, <2>13, <2>14, <2>15, <2>16
<1>19. ASSUME NEW t \in Task, ReplaceChat(t)  PROVE ChatInv'
  <2>1. ASSUME NEW s \in Session, Ensured(t, "web", s)
        PROVE  /\ \A r \in Session : chat'[r] # chat[r] => chat[r].state = "absent"
               /\ OpenUnique'
               /\ \/ found[t] = {s} /\ chat' = chat
                  \/ /\ chat'[s] = [state |-> "open", channel |-> "web"]
                     /\ OpenIn(chat, "web") = {}
    BY <1>0, <2>1, EnsuredEffect DEF Channel
  <2>2. \/ chat' = chat
        \/ \E s \in Session : Ensured(t, "web", s)
    BY <1>19 DEF ReplaceChat
  <2>3. /\ OpenUnique'
        /\ \A r \in Session : chat[r].state # "absent" => chat'[r] = chat[r]
    BY <2>1, <2>2
  <2>11. LocalsInOrder'
    BY <1>19, <1>0 DEF ReplaceChat, Go, Set
  <2>12. RunChat'
    BY <1>19, <1>0, <2>1, <2>3 DEF ReplaceChat, Go, Set, OneWorkflow, Inside, Outside
  <2>13. ReplyInItsChat'
    BY <1>19, <1>0, <2>1, <2>3 DEF ReplaceChat, Go, Set, OpenIn, Channel
  <2>14. Compressing'
    BY <1>19, <1>0, <2>1, <2>3 DEF ReplaceChat, Go, Set, Exists, OneWorkflow, Inside, Outside
  <2>15. LookUpInOrder'
    BY <1>19 DEF ReplaceChat, Go, Set
  <2>16. LookUpHolds'
    BY <1>19, <1>0, <2>3 DEF ReplaceChat, Go, Set, OneWorkflow, Inside, Outside
  <2>. QED
    BY <2>3, <2>11, <2>12, <2>13, <2>14, <2>15, <2>16
<1>20. ASSUME NEW t \in Task, ReadTranscript(t)  PROVE ChatInv'
  <2>1. ASSUME NEW s \in Session, Ensured(t, "web", s)
        PROVE  /\ \A r \in Session : chat'[r] # chat[r] => chat[r].state = "absent"
               /\ OpenUnique'
               /\ \/ found[t] = {s} /\ chat' = chat
                  \/ /\ chat'[s] = [state |-> "open", channel |-> "web"]
                     /\ OpenIn(chat, "web") = {}
    BY <1>0, <2>1, EnsuredEffect DEF Channel
  <2>2. \/ chat' = chat
        \/ \E s \in Session : Ensured(t, "web", s)
    BY <1>20 DEF ReadTranscript
  <2>3. /\ OpenUnique'
        /\ \A r \in Session : chat[r].state # "absent" => chat'[r] = chat[r]
    BY <2>1, <2>2
  <2>11. LocalsInOrder'
    BY <1>20, <1>0 DEF ReadTranscript, Go, Set
  <2>12. RunChat'
    BY <1>20, <1>0, <2>1, <2>3 DEF ReadTranscript, Go, Set, OneWorkflow, Inside, Outside
  <2>13. ReplyInItsChat'
    BY <1>20, <1>0, <2>1, <2>3 DEF ReadTranscript, Go, Set, OpenIn, Channel
  <2>14. Compressing'
    BY <1>20, <1>0, <2>1, <2>3 DEF ReadTranscript, Go, Set, Exists, OneWorkflow, Inside, Outside
  <2>15. LookUpInOrder'
    BY <1>20 DEF ReadTranscript, Go, Set
  <2>16. LookUpHolds'
    BY <1>20, <1>0, <2>3 DEF ReadTranscript, Go, Set, OneWorkflow, Inside, Outside
  <2>. QED
    BY <2>3, <2>11, <2>12, <2>13, <2>14, <2>15, <2>16
<1>21. ASSUME NEW t \in Task, WriteTranscript(t)  PROVE ChatInv'
  BY <1>21, <1>0, FreshSessionEffect, ActivatedEffect, RemovedEffect
     DEF WriteTranscript, Exists, Go, local, OpenIn, Exists, OneWorkflow, Inside,
         Outside
<1>22. ASSUME NEW t \in Task, NEW f \in File, AttachFile(t, f)  PROVE ChatInv'
  BY <1>22, <1>0 DEF AttachFile, Done, Go, Set
<1>23. ASSUME NEW t \in Task, Fail(t)  PROVE ChatInv'
  BY <1>23, <1>0 DEF Fail, Go, Set
<1>24. ASSUME NEW t \in Task, Leave(t)  PROVE ChatInv'
  <2>10. OpenUnique'
    BY <1>24, <1>0 DEF Leave, Finish, Done, Go, Set
  <2>11. LocalsInOrder'
    BY <1>24, <1>0 DEF Leave, Finish, Done, Go, Set
  <2>12. RunChat'
    BY <1>24, <1>0 DEF Leave, Finish, Done, Go, Set
  <2>13. ReplyInItsChat'
    BY <1>24, <1>0 DEF Leave, Finish, Done, Go, Set
  <2>14. Compressing'
    BY <1>24, <1>0 DEF Leave, Finish, Done, Go, Set
  <2>15. LookUpInOrder'
    BY <1>24, <1>0 DEF Leave, Finish, Done, Go, Set
  <2>16. LookUpHolds'
    BY <1>24, <1>0 DEF Leave, Finish, Done, Go, Set
  <2>. HIDE DEF OpenUnique, LocalsInOrder, RunChat, ReplyInItsChat, Compressing, LookUpInOrder, LookUpHolds
  <2>. QED
    BY <2>10, <2>11, <2>12, <2>13, <2>14, <2>15, <2>16
<1>25. ASSUME NEW t \in Task, RunAppend(t)  PROVE ChatInv'
  <2>10. OpenUnique'
    BY <1>25, <1>0 DEF RunAppend, Exists, local, OneWorkflow, Inside, Outside
  <2>11. LocalsInOrder'
    BY <1>25, <1>0 DEF RunAppend, Exists, local, OneWorkflow, Inside, Outside
  <2>12. RunChat'
    BY <1>25, <1>0 DEF RunAppend, Exists, local, OneWorkflow, Inside, Outside
  <2>13. ReplyInItsChat'
    BY <1>25, <1>0 DEF RunAppend, Exists, local, OneWorkflow, Inside, Outside
  <2>14. Compressing'
    BY <1>25, <1>0 DEF RunAppend, Exists, local, OneWorkflow, Inside, Outside
  <2>15. LookUpInOrder'
    BY <1>25, <1>0 DEF RunAppend, Exists, local, OneWorkflow, Inside, Outside
  <2>16. LookUpHolds'
    BY <1>25, <1>0 DEF RunAppend, Exists, local, OneWorkflow, Inside, Outside
  <2>. HIDE DEF OpenUnique, LocalsInOrder, RunChat, ReplyInItsChat, Compressing, LookUpInOrder, LookUpHolds
  <2>. QED
    BY <2>10, <2>11, <2>12, <2>13, <2>14, <2>15, <2>16
<1>26. ASSUME NEW s \in Session, Detach(s)  PROVE ChatInv'
  BY <1>26, <1>0 DEF Detach, local
<1>27. ASSUME NEW t \in Task, ReadActive(t)  PROVE ChatInv'
  <2>1. ASSUME NEW s \in Session, Ensured(t, "web", s)
        PROVE  /\ \A r \in Session : chat'[r] # chat[r] => chat[r].state = "absent"
               /\ OpenUnique'
               /\ \/ found[t] = {s} /\ chat' = chat
                  \/ /\ chat'[s] = [state |-> "open", channel |-> "web"]
                     /\ OpenIn(chat, "web") = {}
    BY <1>0, <2>1, EnsuredEffect DEF Channel
  <2>2. \/ chat' = chat
        \/ \E s \in Session : Ensured(t, "web", s)
    BY <1>27 DEF ReadActive
  <2>3. /\ OpenUnique'
        /\ \A r \in Session : chat[r].state # "absent" => chat'[r] = chat[r]
    BY <2>1, <2>2
  <2>11. LocalsInOrder'
    BY <1>27, <1>0 DEF ReadActive, Go, Set, Done
  <2>12. RunChat'
    BY <1>27, <1>0, <2>1, <2>3 DEF ReadActive, Go, Set, Done, OneWorkflow, Inside, Outside
  <2>13. ReplyInItsChat'
    BY <1>27, <1>0, <2>1, <2>3 DEF ReadActive, Go, Set, Done, OpenIn, Channel
  <2>14. Compressing'
    BY <1>27, <1>0, <2>1, <2>3 DEF ReadActive, Go, Set, Done, Exists, OneWorkflow, Inside, Outside
  <2>15. LookUpInOrder'
    BY <1>27 DEF ReadActive, Go, Set, Done
  <2>16. LookUpHolds'
    BY <1>27, <1>0, <2>3 DEF ReadActive, Go, Set, Done, OneWorkflow, Inside, Outside
  <2>. QED
    BY <2>3, <2>11, <2>12, <2>13, <2>14, <2>15, <2>16
<1>28. ASSUME Prune  PROVE ChatInv'
  <2>1. PICK D \in SUBSET Ended : chat' = Removed(chat, D) /\ rows' = Cascade(D)
    BY <1>28 DEF Prune, Prunable
  <2>2. \A r \in Session : /\ r \in D => chat[r].state = "archived" /\ chat'[r].state = "deleted"
                           /\ r \notin D => chat'[r] = chat[r] /\ rows'[r] = rows[r]
    BY <1>0, <2>1, RemovedEffect DEF Ended, Cascade
  <2>3. UNCHANGED <<pc, local>>
    BY <1>28 DEF Prune
  <2>10. OpenUnique'
    BY <2>2 DEF OpenIn
  <2>11. LocalsInOrder'
    BY <2>3 DEF local
  <2>12. RunChat'
    BY <2>2, <2>3 DEF local
  <2>13. ReplyInItsChat'
    BY <2>3 DEF local
  <2>14. Compressing'
    BY <2>2, <2>3 DEF local, Exists
  <2>15. LookUpInOrder'
    BY <2>3 DEF local
  <2>16. LookUpHolds'
    BY <2>2, <2>3 DEF local
  <2>. HIDE DEF OpenUnique, LocalsInOrder, RunChat, ReplyInItsChat, Compressing, LookUpInOrder, LookUpHolds
  <2>. QED
    BY <2>10, <2>11, <2>12, <2>13, <2>14, <2>15, <2>16
<1>29. ASSUME Restart  PROVE ChatInv'
  <2>10. OpenUnique'
    BY <1>29, <1>0 DEF Restart, Finish
  <2>11. LocalsInOrder'
    BY <1>29, <1>0 DEF Restart, Finish
  <2>12. RunChat'
    BY <1>29, <1>0 DEF Restart, Finish
  <2>13. ReplyInItsChat'
    BY <1>29, <1>0 DEF Restart, Finish
  <2>14. Compressing'
    BY <1>29, <1>0 DEF Restart, Finish
  <2>15. LookUpInOrder'
    BY <1>29, <1>0 DEF Restart, Finish
  <2>16. LookUpHolds'
    BY <1>29, <1>0 DEF Restart, Finish
  <2>. HIDE DEF OpenUnique, LocalsInOrder, RunChat, ReplyInItsChat, Compressing, LookUpInOrder, LookUpHolds
  <2>. QED
    BY <2>10, <2>11, <2>12, <2>13, <2>14, <2>15, <2>16
<1>30. ASSUME NEW t \in Task, LookUp(t)  PROVE ChatInv'
  <2>10. OpenUnique'
    BY <1>30, <1>0 DEF LookUp, Go, Set, Selected, OpenIn, Channel, OneWorkflow, Inside, Outside
  <2>11. LocalsInOrder'
    BY <1>30, <1>0 DEF LookUp, Go, Set, Selected, OpenIn, Channel, OneWorkflow, Inside, Outside
  <2>12. RunChat'
    BY <1>30, <1>0 DEF LookUp, Go, Set, Selected, OpenIn, Channel, OneWorkflow, Inside, Outside
  <2>13. ReplyInItsChat'
    BY <1>30, <1>0 DEF LookUp, Go, Set, Selected, OpenIn, Channel, OneWorkflow, Inside, Outside
  <2>14. Compressing'
    BY <1>30, <1>0 DEF LookUp, Go, Set, Selected, OpenIn, Channel, OneWorkflow, Inside, Outside
  <2>15. LookUpInOrder'
    BY <1>30, <1>0 DEF LookUp, Go, Set, Selected, OpenIn, Channel, OneWorkflow, Inside, Outside
  <2>16. LookUpHolds'
    <3>. SUFFICES ASSUME NEW u \in Task, NEW r \in Session, found'[u] = {r}
                  PROVE  /\ pc'[u] \in {"storing", "running", "replace", "compress"}
                            => chat'[r] = [state |-> "open", channel |-> "web"]
                         /\ pc'[u] = "headless"
                            => chat'[r] = [state |-> "open", channel |-> "system"]
      OBVIOUS
    <3>1. CASE u = t
      <4>. DEFINE c == IF pc[t] = "headless" THEN "system" ELSE "web"
      <4>1. PICK F \in SUBSET SessionOrNone : Selected(c, F) /\ found' = Set(found, t, F)
        BY <1>30 DEF LookUp
      <4>5. F = {r}
        BY <3>1, <4>1 DEF Set
      <4>2. r \in OpenIn(chat, c)
        <5>. HIDE DEF c
        <5>. QED
          BY <4>1, <4>5, SelectedIsOpen
      <4>3. pc' = pc /\ chat' = chat
        BY <1>30 DEF LookUp
      <4>. QED
        BY <4>2, <4>3, <3>1, <1>0 DEF OpenIn, Chats, ChatState
    <3>2. CASE u # t
      BY <1>30, <3>2 DEF LookUp, Go, Set
    <3>. QED
      BY <3>1, <3>2
  <2>. HIDE DEF OpenUnique, LocalsInOrder, RunChat, ReplyInItsChat, Compressing, LookUpInOrder, LookUpHolds
  <2>. QED
    BY <2>10, <2>11, <2>12, <2>13, <2>14, <2>15, <2>16
<1>31. ASSUME NEW t \in Task, ResolveMessage(t)  PROVE ChatInv'
  <2>1. ASSUME NEW s \in Session, Ensured(t, "web", s)
        PROVE  /\ \A r \in Session : chat'[r] # chat[r] => chat[r].state = "absent"
               /\ OpenUnique'
               /\ \/ found[t] = {s} /\ chat' = chat
                  \/ /\ chat'[s] = [state |-> "open", channel |-> "web"]
                     /\ OpenIn(chat, "web") = {}
    BY <1>0, <2>1, EnsuredEffect DEF Channel
  <2>2. \/ chat' = chat
        \/ \E s \in Session : Ensured(t, "web", s)
    BY <1>31 DEF ResolveMessage
  <2>3. /\ OpenUnique'
        /\ \A r \in Session : chat[r].state # "absent" => chat'[r] = chat[r]
    BY <2>1, <2>2
  <2>11. LocalsInOrder'
    BY <1>31, <1>0 DEF ResolveMessage, Go, Set
  <2>12. RunChat'
    BY <1>31, <1>0, <2>1, <2>3 DEF ResolveMessage, Go, Set, OneWorkflow, Inside, Outside
  <2>13. ReplyInItsChat'
    BY <1>31, <1>0, <2>1, <2>3 DEF ResolveMessage, Go, Set, OpenIn, Channel
  <2>14. Compressing'
    BY <1>31, <1>0, <2>1, <2>3 DEF ResolveMessage, Go, Set, Exists, OneWorkflow, Inside, Outside
  <2>15. LookUpInOrder'
    BY <1>31 DEF ResolveMessage, Go, Set
  <2>16. LookUpHolds'
    BY <1>31, <1>0, <2>3 DEF ResolveMessage, Go, Set, OneWorkflow, Inside, Outside
  <2>. QED
    BY <2>3, <2>11, <2>12, <2>13, <2>14, <2>15, <2>16
<1>32. ASSUME NEW t \in Task, ComposeMessage(t)  PROVE ChatInv'
  <2>10. OpenUnique'
    BY <1>32, <1>0 DEF ComposeMessage, Go, Set, Selected, OpenIn, Channel, OneWorkflow, Inside, Outside
  <2>11. LocalsInOrder'
    BY <1>32, <1>0 DEF ComposeMessage, Go, Set, Selected, OpenIn, Channel, OneWorkflow, Inside, Outside
  <2>12. RunChat'
    BY <1>32, <1>0 DEF ComposeMessage, Go, Set, Selected, OpenIn, Channel, OneWorkflow, Inside, Outside
  <2>13. ReplyInItsChat'
    BY <1>32, <1>0 DEF ComposeMessage, Go, Set, Selected, OpenIn, Channel, OneWorkflow, Inside, Outside
  <2>14. Compressing'
    BY <1>32, <1>0 DEF ComposeMessage, Go, Set, Selected, OpenIn, Channel, OneWorkflow, Inside, Outside
  <2>15. LookUpInOrder'
    BY <1>32, <1>0 DEF ComposeMessage, Go, Set, Selected, OpenIn, Channel, OneWorkflow, Inside, Outside
  <2>16. LookUpHolds'
    <3>. SUFFICES ASSUME NEW u \in Task, NEW r \in Session, found'[u] = {r}
                  PROVE  /\ pc'[u] \in {"storing", "running", "replace", "compress"}
                            => chat'[r] = [state |-> "open", channel |-> "web"]
                         /\ pc'[u] = "headless"
                            => chat'[r] = [state |-> "open", channel |-> "system"]
      OBVIOUS
    <3>1. CASE u = t
      <4>1. CASE pc'[t] = "running"
        BY <1>32, <3>1, <4>1 DEF ComposeMessage, Go
      <4>2. CASE pc'[t] = "storing" /\ Selected("web", {r})
        <5>1. r \in OpenIn(chat, "web") /\ chat' = chat
          BY <4>2, <1>32, SelectedIsOpen DEF ComposeMessage
        <5>. QED
          BY <5>1, <4>2, <3>1, <1>0 DEF OpenIn, Chats, ChatState
      <4>3. CASE /\ Go(t, "storing")
                 /\ \E F \in SUBSET SessionOrNone :
                       Selected("web", F) /\ found' = Set(found, t, F)
        <5>1. PICK F \in SUBSET SessionOrNone : Selected("web", F) /\ found' = Set(found, t, F)
          BY <4>3
        <5>2. F = {r}
          BY <3>1, <5>1 DEF Set
        <5>3. pc'[t] = "storing"
          BY <4>3 DEF Go
        <5>. QED
          BY <5>1, <5>2, <5>3, <4>2
      <4>4. CASE Go(t, "running") /\ UNCHANGED found
        BY <4>1, <4>4 DEF Go
      <4>. QED
        BY <1>32, <4>3, <4>4 DEF ComposeMessage
    <3>2. CASE u # t
      BY <1>32, <3>2 DEF ComposeMessage, Go, Set
    <3>. QED
      BY <3>1, <3>2
  <2>. HIDE DEF OpenUnique, LocalsInOrder, RunChat, ReplyInItsChat, Compressing, LookUpInOrder, LookUpHolds
  <2>. QED
    BY <2>10, <2>11, <2>12, <2>13, <2>14, <2>15, <2>16
<1>33. ASSUME NEW t \in Task, ResolveAttach(t)  PROVE ChatInv'
  <2>1. ASSUME NEW s \in Session, Ensured(t, "web", s)
        PROVE  /\ \A r \in Session : chat'[r] # chat[r] => chat[r].state = "absent"
               /\ OpenUnique'
               /\ \/ found[t] = {s} /\ chat' = chat
                  \/ /\ chat'[s] = [state |-> "open", channel |-> "web"]
                     /\ OpenIn(chat, "web") = {}
    BY <1>0, <2>1, EnsuredEffect DEF Channel
  <2>2. \/ chat' = chat
        \/ \E s \in Session : Ensured(t, "web", s)
    BY <1>33 DEF ResolveAttach
  <2>3. /\ OpenUnique'
        /\ \A r \in Session : chat[r].state # "absent" => chat'[r] = chat[r]
    BY <2>1, <2>2
  <2>11. LocalsInOrder'
    BY <1>33, <1>0 DEF ResolveAttach, Go, Set, Done
  <2>12. RunChat'
    BY <1>33, <1>0, <2>1, <2>3 DEF ResolveAttach, Go, Set, Done, OneWorkflow, Inside, Outside
  <2>13. ReplyInItsChat'
    BY <1>33, <1>0, <2>1, <2>3 DEF ResolveAttach, Go, Set, Done, OpenIn, Channel
  <2>14. Compressing'
    <3>1. UNCHANGED rows /\ \A u \in Task : pc'[u] = "write" => /\ u # t /\ pc[u] = "write"
                                                              /\ sess'[u] = sess[u] /\ seen'[u] = seen[u]
      BY <1>33 DEF ResolveAttach, Go, Set, Done
    <3>. QED
      BY <3>1, <2>3 DEF Exists
  <2>15. LookUpInOrder'
    BY <1>33 DEF ResolveAttach, Go, Set, Done
  <2>16. LookUpHolds'
    <3>. SUFFICES ASSUME NEW u \in Task, NEW r \in Session, found'[u] = {r}
                  PROVE  /\ pc'[u] \in {"storing", "running", "replace", "compress"}
                            => chat'[r] = [state |-> "open", channel |-> "web"]
                         /\ pc'[u] = "headless"
                            => chat'[r] = [state |-> "open", channel |-> "system"]
      OBVIOUS
    <3>1. CASE u = t
      BY <1>33, <3>1, <1>0 DEF ResolveAttach, Go, Set, Done
    <3>2. CASE u # t
      BY <1>33, <3>2, <2>3 DEF ResolveAttach, Go, Set, Done
    <3>. QED
      BY <3>1, <3>2
  <2>. QED
    BY <2>3, <2>11, <2>12, <2>13, <2>14, <2>15, <2>16
<1>34. ASSUME NEW t \in Task, StartRead(t)  PROVE ChatInv'
  BY <1>34, <1>0 DEF StartRead, Go, Set
<1>35. ASSUME NEW t \in Task, RejectEmpty(t)  PROVE ChatInv'
  BY <1>35, <1>0 DEF RejectEmpty, Go, local
<1>100. CASE UNCHANGED vars
  BY <1>100 DEF vars, local
<1>. QED
  BY <1>100, <1>1, <1>2, <1>3, <1>4, <1>5, <1>6, <1>7, <1>8, <1>9, <1>10,
     <1>11, <1>12, <1>13, <1>14, <1>15, <1>16, <1>17, <1>18, <1>19, <1>20,
     <1>21, <1>22, <1>23, <1>24, <1>25, <1>26, <1>27, <1>28, <1>29, <1>30,
     <1>31, <1>32, <1>33, <1>34, <1>35
     DEF Next, Begin, Progress

-----------------------------------------------------------------------------
(* Theorems *)

\* Every reachable state satisfies the inductive invariant.
THEOREM Invariance == Spec => []IInv
<1>1. Init => IInv
  <2>. SUFFICES ASSUME Init  PROVE IInv
    OBVIOUS
  <2>1. TypeOK
    BY WebChatAssumption DEF Init, TypeOK, SessionOrNone, ChatState, Phase, Outside
  <2>2. OneWorkflow
    BY DEF Init, OneWorkflow, Inside, Outside
  <2>3. OpenUnique
    BY DEF Init, OpenUnique, OpenIn
  <2>. QED
    BY <2>1, <2>2, <2>3
       DEF Init, IInv, LocalsInOrder, RunChat, ReplyInItsChat, Compressing,
           LookUpInOrder, LookUpHolds
<1>2. IInv /\ [Next]_vars => IInv'
  BY TypeStep, WorkflowStep, ChatStep DEF IInv, ChatInv
<1>. QED
  BY <1>1, <1>2, PTL DEF Spec

\* The types of all the state of gate, chats, transcripts and attachments.
THEOREM TypeCorrect == Spec => []TypeOK
<1>1. IInv => TypeOK
  BY DEF IInv
<1>. QED
  BY <1>1, Invariance, PTL

\* The gate admits one workflow of a user at a time, although finish() releases
\* whatever entry there is.
THEOREM GateExcludes == Spec => []OneWorkflow
<1>1. IInv => OneWorkflow
  BY DEF IInv
<1>. QED
  BY <1>1, Invariance, PTL

\* The chat of a run stays open until the run ends.
THEOREM RunKeepsItsChat == Spec => []RunChatStaysOpen
<1>1. IInv => RunChatStaysOpen
  BY DEF IInv, RunChat, RunChatStaysOpen
<1>. QED
  BY <1>1, Invariance, PTL

\* The reply is stored in the chat of the message.
THEOREM ReplyKeepsItsChat == Spec => []ReplyInItsChat
<1>1. IInv => ReplyInItsChat
  BY DEF IInv
<1>. QED
  BY <1>1, Invariance, PTL

\* A compression never overwrites rows it has not read.
THEOREM CompressionIsSafe == Spec => []CompressLosesNothing
<1>1. IInv => CompressLosesNothing
  BY DEF IInv, Compressing, CompressLosesNothing
<1>. QED
  BY <1>1, Invariance, PTL

\* A user has at most one open chat per channel: the index stands behind look-ups
\* that are out of date, archiving before opening behind the others.
THEOREM OpenChatIsUnique == Spec => []OneOpenChat
<1>1. IInv => OneOpenChat
  <2>. SUFFICES ASSUME IInv, NEW ch \in Channel
                PROVE  Cardinality(OpenIn(chat, ch)) <= 1
    BY DEF OneOpenChat, Channel
  <2>1. \A s, r \in OpenIn(chat, ch) : s = r
    BY DEF IInv, OpenUnique
  <2>2. CASE OpenIn(chat, ch) = {}
    BY <2>2, FS_EmptySet
  <2>3. ASSUME NEW s \in OpenIn(chat, ch)  PROVE Cardinality(OpenIn(chat, ch)) = 1
    <3>1. OpenIn(chat, ch) = {s}
      BY <2>1, <2>3
    <3>. QED
      BY <3>1, FS_Singleton
  <2>. QED
    BY <2>2, <2>3
<1>. QED
  BY <1>1, Invariance, PTL

\* The four together: chats and transcripts survive the tabs that switch, create,
\* archive and delete them while a run or a compression is going.
THEOREM ChatsStaySound == Spec => []ChatsAreSound
<1>1. RunChatStaysOpen /\ ReplyInItsChat /\ OneOpenChat /\ CompressLosesNothing => ChatsAreSound
  BY DEF ChatsAreSound
<1>. QED
  BY <1>1, RunKeepsItsChat, ReplyKeepsItsChat, OpenChatIsUnique, CompressionIsSafe, PTL

\* The gate refuses a user only while a workflow of the user is active: every handler
\* that takes it frees it on each of its ways out, except the one that is sent a session
\* id <= 0 (orchestrator.py, compress event; chat_busy shows what that one does).
THEOREM GateIsHonest ==
    ASSUME BadTargets = {}
    PROVE  Spec => []BusyOnlyWhileRunning
<1>1. Init => BusyOnlyWhileRunning
  BY DEF Init, BusyOnlyWhileRunning
<1>2. IInv /\ BusyOnlyWhileRunning /\ [Next]_vars => BusyOnlyWhileRunning'
  BY BusyStep DEF IInv
<1>. QED
  BY <1>1, <1>2, Invariance, PTL DEF Spec
=============================================================================

--------------------------- MODULE ChannelsProofs ---------------------------
(* Proofs about the parts of the channels, for every set of users, tabs,   *)
(* requests and messages and every limit.                                  *)
EXTENDS MCChannels, SeqLemmas, FiniteSetTheorems, TLAPS

-----------------------------------------------------------------------------
(* The web channel from start() to stop() *)

\* The stages of stop() from the cancelling of the requests on, and those in
\* which every request that came before it is over.
Cancelled == {"requests", "broadcasts", "cleanup", "mcp_down", "boxes_down", "clients_down", "stopped"}
Emptied == Cancelled \ {"requests"}

\* What is left of each run, of the sockets and of the services at each stage.
ProcessInv ==
  /\ ProcessTypeOK
  /\ stage \in Cancelled \cup {"sockets"} =>
       background = {} /\ \A t \in Scheduled : work[t] # "going"
  /\ \A r \in Requests : work[r] = "ending" => stage \in Cancelled \cup {"forced"} /\ r \in awaited
  /\ stage \in Cancelled => \A r \in Requests \ late : work[r] \in {None, "ending", "over"}
  /\ stage \in Emptied => \A r \in Requests : work[r] # "ending"
  /\ stage \in {"mcp_down", "boxes_down", "clients_down", "stopped"} => ~listening /\ connected = {}
  /\ stage \in {"boxes_down", "clients_down", "stopped"} => ~servers
  /\ stage \in {"clients_down", "stopped"} => (boxes => late # {})

LEMMA ProcessInvInit == ProcessInit => ProcessInv
BY WebProcessAssumption DEF ProcessInit, ProcessInv, ProcessTypeOK, Cancelled, Emptied, Works, Starting, Stopping

LEMMA ProcessInvStep ==
  ASSUME ProcessInv, [ProcessNext]_processVars
  PROVE  ProcessInv'
<1> USE WebProcessAssumption DEF ProcessInv, ProcessTypeOK, Cancelled, Emptied, Works, Starting, Stopping
<1>1. CASE StartServices
  BY <1>1 DEF StartServices
<1>2. CASE ConnectServers
  BY <1>2 DEF ConnectServers
<1>3. CASE StartWatchers
  BY <1>3 DEF StartWatchers
<1>4. CASE Listen
  BY <1>4 DEF Listen
<1>5. CASE Shut
  BY <1>5 DEF Shut
<1>6. CASE Reap
  BY <1>6 DEF Reap
<1>7. CASE StopBackground
  BY <1>7 DEF StopBackground
<1>8. CASE CancelRequests
  BY <1>8 DEF CancelRequests
<1>9. CASE AwaitRequests
  BY <1>9 DEF AwaitRequests, AllEnded
<1>10. CASE EndBroadcasts
  BY <1>10 DEF EndBroadcasts
<1>11. CASE CleanUpRunner
  BY <1>11 DEF CleanUpRunner
<1>12. CASE DisconnectServers
  BY <1>12 DEF DisconnectServers
<1>13. CASE StopBoxes
  BY <1>13 DEF StopBoxes
<1>14. CASE CloseClients
  BY <1>14 DEF CloseClients
<1>15. CASE ForceExit
  BY <1>15 DEF ForceExit
<1>16. ASSUME NEW x \in Browsers, OpenSocket(x)
       PROVE  ProcessInv'
  BY <1>16 DEF OpenSocket
<1>17. ASSUME NEW x \in Browsers, LeaveSocket(x)
       PROVE  ProcessInv'
  BY <1>17 DEF LeaveSocket
<1>18. ASSUME NEW x \in Browsers, CloseSocket(x)
       PROVE  ProcessInv'
  BY <1>18 DEF CloseSocket
<1>19. ASSUME NEW x \in Browsers, NEW r \in Requests, SendRequest(x, r)
       PROVE  ProcessInv'
  BY <1>19 DEF SendRequest
<1>20. ASSUME NEW t \in Scheduled, RunDue(t)
       PROVE  ProcessInv'
  BY <1>20 DEF RunDue
<1>21. ASSUME NEW w \in Works, StartBox(w)
       PROVE  ProcessInv'
  BY <1>21 DEF StartBox
<1>22. ASSUME NEW w \in Works, Broadcast(w)
       PROVE  ProcessInv'
  BY <1>22 DEF Broadcast
<1>23. ASSUME NEW w \in Works, BroadcastEnds(w)
       PROVE  ProcessInv'
  BY <1>23 DEF BroadcastEnds
<1>24. ASSUME NEW w \in Works, EndWork(w)
       PROVE  ProcessInv'
  BY <1>24 DEF EndWork
<1>25. CASE UNCHANGED processVars
  BY <1>25 DEF processVars
<1>. QED BY <1>1, <1>2, <1>3, <1>4, <1>5, <1>6, <1>7, <1>8, <1>9, <1>10, <1>11, <1>12,
            <1>13, <1>14, <1>15, <1>16, <1>17, <1>18, <1>19, <1>20, <1>21, <1>22, <1>23,
            <1>24, <1>25 DEF ProcessNext

LEMMA ProcessInvClean == ProcessInv => StopIsClean
BY WebProcessAssumption DEF ProcessInv, StopIsClean, Cancelled, Emptied, ProcessTypeOK, Works

-----------------------------------------------------------------------------
(* The Telegram bot from start() to stop() *)

\* The stages of stop() after the channel was closed.
Closed == {"mcp_down", "boxes_down", "clients_down", "stopped"}

\* Where the library's application is at each stage of the process; it takes
\* messages only while it runs, and what polls or reconnects is an application
\* that was started.
ApplicationInv ==
  /\ botStage \in {"mcp", "watchers"} => application = "absent"
  /\ botStage = "initialize" => application = "built"
  /\ botStage = "commands" => application = "ready"
  /\ botStage \in {"polling", "tasks", "up"} => application = "running"
  /\ botStage = "updater_down" => application # "absent"
  /\ botStage = "app_down" => application \in {"running", "halted"}
  /\ application \in {"halted", "down"} => botStage \in {"app_down", "forced"} \cup Closed
  /\ polling \/ reconnect # None => application \in {"running", "halted", "down"}

\* What is left of the messages and the services at each stage.
BotCleanInv ==
  /\ incoming \in [Incoming -> {None, "going", "over"}]
  /\ application \in {"absent", "built", "ready", "running", "halted", "down"}
  /\ application \in {"absent", "built", "ready"} => \A m \in Incoming : incoming[m] # "going"
  /\ botStage \in Closed /\ ~skipped =>
       application # "running" /\ \A m \in Incoming : incoming[m] # "going"
  /\ botStage \in Closed \cup {"updater_down", "app_down"} => botTasks = {}
  /\ botStage \in {"boxes_down", "clients_down", "stopped"} => ~botServers
  /\ botStage \in {"clients_down", "stopped"} => (botBoxes => skipped)

\* A network handler that waits or resumes has attempts left.
ReconnectInv ==
  /\ reconnect = None \/ reconnect \in [kind : {"network", "conflict"}, step : {"begin", "wait", "resume"}]
  /\ netErrors \in Int
  /\ reconnect # None /\ reconnect.kind = "network" /\ reconnect.step # "begin" =>
       netErrors <= NetworkMaxRetries
  /\ botStage \in {"tasks", "up"} /\ ~polling =>
       lost \/ (reconnect # None /\ reconnect.kind = "network")

BotInv == ApplicationInv /\ BotCleanInv /\ ReconnectInv

LEMMA BotInvInit == BotInit => BotInv
BY BotProcessAssumption DEF BotInit, BotInv, ApplicationInv, BotCleanInv, ReconnectInv, Closed

LEMMA BotInvStep ==
  ASSUME BotInv, [BotNext]_botVars
  PROVE  BotInv'
<1> USE BotProcessAssumption DEF BotInv, ApplicationInv, BotCleanInv, ReconnectInv, Closed, coreVars
<1>1. CASE ConnectBotServers
  BY <1>1 DEF ConnectBotServers
<1>2. CASE StartBotWatchers
  BY <1>2 DEF StartBotWatchers
<1>3. CASE Initialize
  BY <1>3 DEF Initialize
<1>4. CASE InitializeFails
  BY <1>4 DEF InitializeFails
<1>5. CASE StartApplication
  BY <1>5 DEF StartApplication
<1>6. CASE BeginPolling
  BY <1>6 DEF BeginPolling
<1>7. CASE StartBotTasks
  BY <1>7 DEF StartBotTasks
<1>8. CASE ShutBot
  BY <1>8 DEF ShutBot, BotStarting
<1>9. CASE CountNetworkError
  BY <1>9 DEF CountNetworkError
<1>10. CASE CountConflict
  <2>1. /\ reconnect = [kind |-> "conflict", step |-> "begin"]
        /\ reconnect' \in {None, [kind |-> "conflict", step |-> "wait"]}
        /\ UNCHANGED <<botStage, botTasks, application, polling, netErrors, incoming,
                       botServers, botBoxes, lost, skipped>>
    BY <1>10 DEF CountConflict
  <2>. QED BY <2>1
<1>11. CASE StopPolling
  BY <1>11 DEF StopPolling
<1>12. CASE Resume
  BY <1>12 DEF Resume, Resuming, Resumable
<1>13. CASE ResumeFails
  BY <1>13 DEF ResumeFails, Resuming, NetworkRetry
<1>14. CASE PruneBoxes
  BY <1>14 DEF PruneBoxes
<1>15. CASE StopBotTasks
  BY <1>15 DEF StopBotTasks
<1>16. CASE StopUpdater
  BY <1>16 DEF StopUpdater
<1>17. CASE HaltApplication
  BY <1>17 DEF HaltApplication
<1>18. CASE CloseApplication
  BY <1>18 DEF CloseApplication, AllAnswered
<1>19. CASE DisconnectBotServers
  BY <1>19 DEF DisconnectBotServers
<1>20. CASE StopBotBoxes
  BY <1>20 DEF StopBotBoxes
<1>21. CASE CloseBotClients
  BY <1>21 DEF CloseBotClients
<1>22. CASE ForceBotExit
  BY <1>22 DEF ForceBotExit
<1>23. ASSUME NEW kind \in {"network", "conflict"}, PollingError(kind)
       PROVE  BotInv'
  BY <1>23 DEF PollingError
<1>24. ASSUME NEW m \in Incoming, Receive(m)
       PROVE  BotInv'
  BY <1>24 DEF Receive
<1>25. ASSUME NEW m \in Incoming, Dispatch(m)
       PROVE  BotInv'
  BY <1>25 DEF Dispatch
<1>26. ASSUME NEW m \in Incoming, MessageDone(m)
       PROVE  BotInv'
  BY <1>26 DEF MessageDone
<1>27. CASE UNCHANGED botVars
  BY <1>27 DEF botVars
<1>. QED BY <1>1, <1>2, <1>3, <1>4, <1>5, <1>6, <1>7, <1>8, <1>9, <1>10, <1>11, <1>12, <1>13, <1>14, <1>15, <1>16, <1>17, <1>18, <1>19, <1>20, <1>21, <1>22, <1>23, <1>24, <1>25, <1>26, <1>27 DEF BotNext

LEMMA BotInvClean == BotInv => BotStopIsClean /\ KeepsListening
BY DEF BotInv, ApplicationInv, BotCleanInv, ReconnectInv, Closed, BotStopIsClean, KeepsListening
-----------------------------------------------------------------------------
(* The merge of two accounts and the import of the whitelist *)

\* Where the items and chats are: no two items at one place, one open chat per
\* account, and what the merge has emptied at each step stays empty.
MergeInv ==
  /\ item \in [Items -> [at : Ids, name : {NameOf[i] : i \in Items}, n : Nat]]
  /\ chat \in [Chats -> [of : Ids, open : BOOLEAN]]
  /\ merge = [pc |-> merge.pc, name |-> merge.name, pw |-> merge.pw]
  /\ \A i, j \in Items : item[i] = item[j] => i = j
  /\ \A x, y \in Chats : chat[x].open /\ chat[y].open /\ chat[x].of = chat[y].of => x = y
  /\ merge.pc \in {"memory", "disable"} \/ merged => \A i \in Items : item[i].at = Target
  /\ merge.pc = "disable" \/ merged => \A x \in Chats : chat[x].of = Target

\* Whoever was removed was removed by a process that had seen the import done.
ImportInv ==
  /\ removed \cap whitelist = {}
  /\ removed # {} => marker
  /\ \A s \in Starters : starter[s] = "on" => marker

AccountsInv == MergeInv /\ ImportInv

LEMMA AccountsInvInit == AccountsInit => AccountsInv
<1> SUFFICES ASSUME AccountsInit PROVE AccountsInv
  OBVIOUS
<1>1. MergeInv
  BY AccountsAssumption DEF AccountsInit, MergeInv, NoMerge, Ids
<1>2. ImportInv
  BY DEF AccountsInit, ImportInv
<1>. QED BY <1>1, <1>2 DEF AccountsInv

\* _conflict_path finds a suffix nobody has: more are tried than there are items.
LEMMA MovedIsFree ==
  ASSUME MergeInv, NEW i \in Items
  PROVE  /\ Moved(i) \in [at : {Target}, name : {NameOf[j] : j \in Items}, n : Nat]
         /\ \A j \in Items : item[j] # Moved(i)
<1> DEFINE N == Cardinality(Items)
           name == item[i].name
           place(n) == [at |-> Target, name |-> name, n |-> n]
           taken(n) == \E j \in Items : item[j] = place(n)
           free == {n \in 0..N : ~taken(n)}
<1>1. N \in Nat /\ IsFiniteSet(Items)
  BY AccountsAssumption, FS_CardinalityType
<1>2. free # {}
  <2> SUFFICES ASSUME \A n \in 0..N : taken(n) PROVE FALSE
    OBVIOUS
  <2> DEFINE at == [n \in 0..N |-> CHOOSE j \in Items : item[j] = place(n)]
  <2>1. \A n \in 0..N : at[n] \in Items /\ item[at[n]] = place(n)
    OBVIOUS
  <2>2. at \in [0..N -> Items]
    BY <2>1
  <2> HIDE DEF at
  <2>3. IsFiniteSet(0..N) /\ Cardinality(0..N) = N + 1
    BY <1>1, FS_Interval
  <2>4. PICK n, m \in 0..N : n # m /\ at[n] = at[m]
    BY <1>1, <2>2, <2>3, FS_PigeonHole
  <2>5. place(n) = place(m)
    BY <2>1, <2>4
  <2>6. place(n).n = n /\ place(m).n = m
    OBVIOUS
  <2>. QED BY <2>4, <2>5, <2>6
<1>3. PICK n \in free : \A m \in free : n <= m
  <2>1. free \in SUBSET Nat
    BY <1>1
  <2> HIDE DEF free
  <2>. QED BY <1>2, <2>1, LeastExists
<1>4. n \in 0..N /\ ~taken(n) /\ \A m \in 0..(n - 1) : taken(m)
  BY <1>1, <1>3
<1>5. PICK k \in 0..N : Moved(i) = place(k) /\ ~taken(k)
  <2> DEFINE P(k) == ~taken(k) /\ \A m \in 0..(k - 1) : taken(m)
  <2>1. P(CHOOSE k \in 0..N : P(k)) /\ (CHOOSE k \in 0..N : P(k)) \in 0..N
    BY <1>4
  <2>2. Moved(i) = place(CHOOSE k \in 0..N : P(k))
    BY Zenon DEF Moved
  <2>. QED BY <2>1, <2>2
<1>6. name \in {NameOf[j] : j \in Items}
  BY DEF MergeInv
<1>. QED BY <1>1, <1>5, <1>6

LEMMA AccountsInvStep ==
  ASSUME AccountsInv, [AccountsNext]_accountVars
  PROVE  AccountsInv'
<1>1. ASSUME UNCHANGED <<merge, merged, item, chat>> PROVE MergeInv'
  BY <1>1 DEF AccountsInv, MergeInv
<1>2. ASSUME UNCHANGED listVars PROVE ImportInv'
  BY <1>2 DEF AccountsInv, ImportInv, listVars
<1>3. ASSUME NEW x \in Ids, SignIn(x) \/ BeginRotate(x)
      PROVE  AccountsInv'
  BY <1>1, <1>2, <1>3 DEF SignIn, BeginRotate, AccountsInv
<1>4. ASSUME NEW t \in Tokens, OpenSession(t) \/ CloseSession(t)
      PROVE  AccountsInv'
  BY <1>1, <1>2, <1>4 DEF OpenSession, CloseSession, AccountsInv
<1>5. CASE Rotate \/ LinkLogin
  BY <1>1, <1>2, <1>5 DEF Rotate, LinkLogin, AccountsInv
<1>6. ASSUME NEW x \in Chats, Work(x)
      PROVE  AccountsInv'
  <2> DEFINE S == [of : Ids, open : BOOLEAN]
             f == [y \in Chats |-> IF chat[y].of = chat[x].of
                                  THEN [chat[y] EXCEPT !.open = (y = x)] ELSE chat[y]]
  <2>0. chat' = f
    BY <1>6 DEF Work
  <2>1. \A y \in Chats : /\ chat'[y].of = chat[y].of
                          /\ chat'[y].open <=> IF chat[y].of = chat[x].of THEN y = x
                                              ELSE chat[y].open
    BY <2>0 DEF AccountsInv, MergeInv
  <2>2. chat' \in [Chats -> [of : Ids, open : BOOLEAN]]
    <3>1. \A y \in Chats : f[y] \in S
      BY DEF AccountsInv, MergeInv
    <3>2. f \in [Chats -> S]
      <4> HIDE DEF S
      <4>. QED BY <3>1
    <3>. QED BY <2>0, <3>2
  <2>3. MergeInv'
    BY <1>6, <2>1, <2>2 DEF Work, AccountsInv, MergeInv
  <2>. QED BY <1>2, <1>6, <2>3 DEF Work, AccountsInv
<1>7. CASE MergeRead
  BY <1>2, <1>7 DEF MergeRead, AccountsInv, MergeInv
<1>8. CASE MergeWrite
  BY <1>2, <1>8 DEF MergeWrite, AccountsInv, MergeInv, NoMerge
<1>9. CASE MergeItem
  <2>1. CASE \E i \in Items : item[i].at = Source
    <3>1. PICK i \in Items : /\ item[i].at = Source
                             /\ item' = [item EXCEPT ![i] = Moved(i)]
      BY <1>9, <2>1 DEF MergeItem
    <3>2. merge' = merge /\ merge.pc = "items" /\ UNCHANGED <<merged, chat>>
      BY <1>9, <2>1 DEF MergeItem
    <3>3. ~merged
      BY <3>1, AccountsAssumption DEF AccountsInv, MergeInv
    <3> DEFINE place == Moved(i)
    <3>4. /\ place \in [at : {Target}, name : {NameOf[j] : j \in Items}, n : Nat]
          /\ \A j \in Items : item[j] # place
      BY MovedIsFree DEF AccountsInv
    <3>5. item' = [item EXCEPT ![i] = place]
      BY <3>1
    <3> HIDE DEF place
    <3>6. MergeInv'
      BY <3>2, <3>3, <3>4, <3>5 DEF AccountsInv, MergeInv, Ids
    <3>. QED BY <1>2, <1>9, <3>6 DEF MergeItem, AccountsInv
  <2>2. CASE ~ \E i \in Items : item[i].at = Source
    BY <1>2, <1>9, <2>2 DEF MergeItem, AccountsInv, MergeInv, Ids
  <2>. QED BY <2>1, <2>2
<1>10. CASE MergeMemory
  <2> DEFINE busy == \E x \in Chats : chat[x] = [of |-> Target, open |-> TRUE]
  <2>1. /\ merge.pc = "memory" /\ UNCHANGED <<merged, item>>
        /\ chat' = [x \in Chats |-> ChatMoved(x, busy)]
        /\ merge' = [merge EXCEPT !.pc = "disable"]
    BY <1>10 DEF MergeMemory
  <2>2. \A x \in Chats : /\ chat'[x] \in [of : {Target}, open : BOOLEAN]
                         /\ chat'[x].open => chat[x].open
                         /\ chat'[x].open /\ chat[x].of = Source => ~busy
    BY <2>1 DEF ChatMoved, AccountsInv, MergeInv, Ids
  <2>3. \A x \in Chats : chat[x].open /\ chat[x].of = Target => busy
    BY DEF AccountsInv, MergeInv
  <2>4. chat' \in [Chats -> [of : {Target}, open : BOOLEAN]]
    BY <2>1, <2>2
  <2>5. \A x, y \in Chats : chat'[x].open /\ chat'[y].open => x = y
    <3> HIDE DEF busy
    <3>. QED BY <2>2, <2>3 DEF AccountsInv, MergeInv, Ids
  <2>6. MergeInv'
    BY <2>1, <2>2, <2>4, <2>5 DEF AccountsInv, MergeInv, Ids
  <2>. QED BY <1>2, <1>10, <2>6 DEF MergeMemory, AccountsInv
<1>11. CASE MergeDisable
  BY <1>2, <1>11 DEF MergeDisable, AccountsInv, MergeInv, NoMerge
<1>12. CASE MergeFails
  BY <1>2, <1>12 DEF MergeFails, AccountsInv, MergeInv, NoMerge
<1>13. ASSUME NEW s \in Starters, Start(s)
       PROVE  AccountsInv'
  BY <1>1, <1>13 DEF Start, peopleVars, AccountsInv, ImportInv
<1>14. ASSUME NEW s \in Starters, Import(s)
       PROVE  AccountsInv'
  BY <1>1, <1>14 DEF Import, peopleVars, AccountsInv, ImportInv
<1>15. ASSUME NEW x \in Telegrams, AddToWhitelist(x) \/ RemoveFromWhitelist(x)
       PROVE  AccountsInv'
  BY <1>1, <1>15 DEF AddToWhitelist, RemoveFromWhitelist, peopleVars, AccountsInv, ImportInv
<1>16. CASE UNCHANGED accountVars
  BY <1>1, <1>2, <1>16 DEF accountVars, listVars, AccountsInv
<1>. QED BY <1>3, <1>4, <1>5, <1>6, <1>7, <1>8, <1>9, <1>10, <1>11, <1>12, <1>13, <1>14,
            <1>15, <1>16 DEF AccountsNext

LEMMA AccountsInvSound == AccountsInv => MergeKeepsAll /\ ImportRevivesNobody
BY DEF AccountsInv, MergeInv, ImportInv, MergeKeepsAll, ImportRevivesNobody

-----------------------------------------------------------------------------
(* Failed logins, tickets and grants *)

\* What is counted for a key is the end of its history, in the order of time;
\* what was dropped is outside the window.  A history that ends with too many
\* failures has its lockout before it or behind it.
AttemptInv(k) ==
  LET w == wrong[k]
      f == attempts[k].failures
      until == attempts[k].lockedUntil
      gone == Len(w) - Len(f)
  IN /\ w \in Seq(Nat) /\ f \in Seq(Nat) /\ until \in Nat /\ gone \in Nat
     /\ attempts[k] = [failures |-> f, lockedUntil |-> until]
     /\ \A i \in 1..Len(f) : f[i] = w[i + gone]
     /\ \A i \in 1..Len(w) : w[i] <= now /\ (i <= gone => Outdated(w[i]))
     /\ \A i, j \in 1..Len(w) : i <= j => w[i] <= w[j]
     /\ \A i \in 1..Len(w) :
          i + Limit(k) - 1 = Len(w) /\ w[Len(w)] <= w[i] + Window
          => w[Len(w)] + Lockout <= until \/ w[Len(w)] + Lockout <= now
     /\ \A i \in 1..Len(w) :
          i + Limit(k) \in 1..Len(w) /\ w[i + Limit(k) - 1] <= w[i] + Window
          => w[i + Limit(k)] >= w[i + Limit(k) - 1] + Lockout

\* A token that is still there was never accepted.
PassInv ==
  /\ pass = [p \in Passes |-> pass[p]]
  /\ uses \in [Passes -> 0..1]
  /\ \A p \in Passes : pass[p] # None => uses[p] = 0

LoginInv ==
  /\ now \in Nat
  /\ attempts = [k \in AttemptKeys |-> attempts[k]]
  /\ wrong = [k \in AttemptKeys |-> wrong[k]]
  /\ \A k \in AttemptKeys : AttemptInv(k)
  /\ PassInv

LEMMA LimitType == ASSUME NEW k PROVE Limit(k) \in Nat \ {0}
BY WebLoginAssumption DEF Limit

LEMMA LoginInvInit == LoginInit => LoginInv
<1> SUFFICES ASSUME LoginInit PROVE LoginInv
  OBVIOUS
<1>1. ASSUME NEW k \in AttemptKeys PROVE AttemptInv(k)
  <2>1. wrong[k] = <<>> /\ attempts[k] = [failures |-> <<>>, lockedUntil |-> 0]
    BY DEF LoginInit, NoAttempts
  <2>. QED BY <2>1 DEF AttemptInv
<1>. QED BY <1>1 DEF LoginInit, LoginInv, PassInv

\* The recent failures are an end of those counted.
LEMMA RecentIsEnd ==
  ASSUME NEW k \in AttemptKeys, AttemptInv(k), now \in Nat
  PROVE  LET f == attempts[k].failures
             r == Recent(k)
         IN /\ r \in Seq(Nat) /\ Len(r) <= Len(f)
            /\ \A i \in 1..Len(r) : r[i] = f[i + Len(f) - Len(r)] /\ ~Outdated(r[i])
            /\ \A i \in 1..(Len(f) - Len(r)) : Outdated(f[i])
<1> DEFINE f == attempts[k].failures
           P(n) == \A i \in 1..Len(f) : i <= n <=> Outdated(f[i])
           S == {n \in 0..Len(f) : \A i \in 1..Len(f) : Outdated(f[i]) => i <= n}
<1>1. /\ f \in Seq(Nat) /\ Len(f) \in Nat
      /\ \A i, j \in 1..Len(f) : i <= j => f[i] <= f[j]
  <2> DEFINE w == wrong[k]
  <2>1. /\ f \in Seq(Nat) /\ w \in Seq(Nat) /\ Len(w) - Len(f) \in Nat
        /\ \A i \in 1..Len(f) : f[i] = w[i + (Len(w) - Len(f))]
        /\ \A i, j \in 1..Len(w) : i <= j => w[i] <= w[j]
    BY DEF AttemptInv
  <2> HIDE DEF f, w
  <2>2. Len(w) \in Nat /\ Len(f) \in Nat
    BY <2>1
  <2>3. \A i \in 1..Len(f) : i + (Len(w) - Len(f)) \in 1..Len(w)
    BY <2>1, <2>2
  <2>4. ASSUME NEW i \in 1..Len(f), NEW j \in 1..Len(f), i <= j PROVE f[i] <= f[j]
    <3> DEFINE x == i + (Len(w) - Len(f))
               y == j + (Len(w) - Len(f))
    <3>1. x <= y /\ x \in 1..Len(w) /\ y \in 1..Len(w)
      BY <2>2, <2>3, <2>4
    <3>2. f[i] = w[x] /\ f[j] = w[y]
      BY <2>1
    <3> HIDE DEF x, y
    <3>. QED BY <2>1, <3>1, <3>2
  <2>. QED BY <2>1, <2>2, <2>4
<1> HIDE DEF f
<1>2. PICK n \in S : \A m \in S : n <= m
  <2>1. S \in SUBSET Nat /\ Len(f) \in S
    BY <1>1
  <2> HIDE DEF S
  <2>. QED BY <2>1, LeastExists
<1>3. P(n)
  <2>1. CASE n = 0
    BY <1>1, <1>2, <2>1
  <2>2. CASE n # 0
    <3>0. n \in 1..Len(f) /\ n - 1 \in 0..Len(f) /\ ~(n <= n - 1)
      BY <1>1, <1>2, <2>2
    <3>1. n \in 1..Len(f) /\ n - 1 \notin S
      <4> HIDE DEF S
      <4>. QED BY <1>2, <3>0
    <3>2. PICK i \in 1..Len(f) : Outdated(f[i]) /\ ~(i <= n - 1)
      BY <1>1, <3>0, <3>1
    <3>3. i = n
      BY <1>2, <3>1, <3>2
    <3>4. \A j \in 1..Len(f) : j <= n => Outdated(f[j])
      <4> SUFFICES ASSUME NEW j \in 1..Len(f), j <= n PROVE Outdated(f[j])
        OBVIOUS
      <4>1. f[j] \in Nat /\ f[n] \in Nat /\ f[j] <= f[n]
        BY <1>1, <3>1
      <4>. QED BY <3>2, <3>3, <4>1, WebLoginAssumption DEF Outdated
    <3>. QED BY <1>2, <3>4
  <2>. QED BY <2>1, <2>2
<1>4. PICK m \in 0..Len(f) : P(m) /\ Recent(k) = SubSeq(f, m + 1, Len(f))
  <2> DEFINE m == CHOOSE m \in 0..Len(f) : P(m)
  <2>1. m \in 0..Len(f) /\ P(m)
    BY <1>2, <1>3
  <2>2. Recent(k) = SubSeq(f, m + 1, Len(f))
    BY Zenon DEF Recent, f
  <2>. QED BY <2>1, <2>2
<1> DEFINE r == SubSeq(f, m + 1, Len(f))
<1>5. r \in Seq(Nat) /\ Len(r) = Len(f) - m /\ \A i \in 1..(Len(f) - m) : r[i] = f[m + i]
  <2>1. \A i \in (m + 1)..Len(f) : f[i] \in Nat
    BY <1>1, <1>4
  <2>2. /\ r \in Seq(Nat)
        /\ Len(r) = IF m + 1 <= Len(f) THEN Len(f) - (m + 1) + 1 ELSE 0
        /\ \A i \in 1..(Len(f) - (m + 1) + 1) : r[i] = f[m + 1 + i - 1]
    BY <1>1, <1>4, <2>1, SubSeqProperties
  <2> HIDE DEF r
  <2>. QED BY <1>1, <1>4, <2>2
<1> HIDE DEF r
<1>6. /\ r = Recent(k) /\ Len(r) \in Nat /\ Len(r) <= Len(f)
      /\ \A i \in 1..Len(r) : r[i] = f[i + Len(f) - Len(r)] /\ ~Outdated(r[i])
      /\ \A i \in 1..(Len(f) - Len(r)) : Outdated(f[i])
  <2>1. r = Recent(k)
    BY <1>4 DEF r
  <2>2. Len(r) \in Nat /\ Len(r) <= Len(f) /\ m = Len(f) - Len(r)
    BY <1>1, <1>5
  <2>3. ASSUME NEW i \in 1..Len(r) PROVE r[i] = f[i + Len(f) - Len(r)] /\ ~Outdated(r[i])
    <3>1. i + Len(f) - Len(r) = m + i /\ m + i \in 1..Len(f) /\ ~(m + i <= m) /\ i \in 1..(Len(f) - m)
      BY <1>1, <2>2
    <3>. QED BY <1>4, <1>5, <3>1
  <2>4. ASSUME NEW i \in 1..(Len(f) - Len(r)) PROVE Outdated(f[i])
    <3>1. i \in 1..Len(f) /\ i <= m
      BY <1>1, <2>2
    <3>. QED BY <1>4, <3>1
  <2>. QED BY <2>1, <2>2, <2>3, <2>4
<1>. QED BY <1>5, <1>6 DEF f

LEMMA RecentKeeps ==
  ASSUME NEW k \in AttemptKeys, AttemptInv(k), now \in Nat, now' = now,
         wrong'[k] = wrong[k],
         attempts'[k] = [failures |-> Recent(k), lockedUntil |-> attempts'[k].lockedUntil],
         attempts'[k].lockedUntil \in Nat,
         attempts'[k].lockedUntil >= attempts[k].lockedUntil \/ attempts[k].lockedUntil <= now
  PROVE  AttemptInv(k)'
<1> DEFINE w == wrong[k]
           f == attempts[k].failures
           r == Recent(k)
<1>1. /\ r \in Seq(Nat) /\ Len(r) <= Len(f)
      /\ \A i \in 1..Len(r) : r[i] = f[i + Len(f) - Len(r)]
      /\ \A i \in 1..(Len(f) - Len(r)) : Outdated(f[i])
  BY RecentIsEnd
<1>2. /\ f \in Seq(Nat) /\ w \in Seq(Nat) /\ Len(w) - Len(f) \in Nat
      /\ \A i \in 1..Len(f) : f[i] = w[i + (Len(w) - Len(f))]
      /\ \A i \in 1..Len(w) : i <= Len(w) - Len(f) => Outdated(w[i])
  BY DEF AttemptInv
<1>3. /\ Len(w) - Len(r) \in Nat
      /\ \A i \in 1..Len(r) : r[i] = w[i + (Len(w) - Len(r))]
      /\ \A i \in 1..Len(w) : i <= Len(w) - Len(r) => Outdated(w[i])
  <2> HIDE DEF w, f, r
  <2>1. Len(w) \in Nat /\ Len(f) \in Nat /\ Len(r) \in Nat
    BY <1>1, <1>2
  <2>2. \A i \in 1..Len(r) : i + Len(f) - Len(r) \in 1..Len(f)
    BY <1>1, <2>1
  <2>3. \A i \in 1..Len(w) : i > Len(w) - Len(f) /\ i <= Len(w) - Len(r) => Outdated(w[i])
    <3> SUFFICES ASSUME NEW i \in 1..Len(w), i > Len(w) - Len(f), i <= Len(w) - Len(r)
                 PROVE  Outdated(w[i])
      OBVIOUS
    <3> DEFINE j == i - (Len(w) - Len(f))
    <3>1. j \in 1..(Len(f) - Len(r)) /\ j \in 1..Len(f) /\ j + (Len(w) - Len(f)) = i
      BY <1>1, <2>1
    <3>2. f[j] = w[i]
      BY <1>2, <3>1
    <3>. QED BY <1>1, <3>1, <3>2
  <2>. QED BY <1>1, <1>2, <2>1, <2>2, <2>3
<1> HIDE DEF r
<1>4. \A t : Outdated(t)' <=> Outdated(t)
  BY DEF Outdated
<1>5. Limit(k)' = Limit(k) /\ Limit(k) \in Nat
  BY LimitType DEF Limit
<1>6. w \in Seq(Nat) /\ w' = w /\ f' = r /\ r \in Seq(Nat)
  BY <1>1, <1>2 DEF r
<1>7. \A i \in 1..Len(w) :
        i + Limit(k) - 1 = Len(w) /\ w[Len(w)] <= w[i] + Window
        => w[Len(w)] + Lockout <= attempts'[k].lockedUntil \/ w[Len(w)] + Lockout <= now
  <2> SUFFICES ASSUME NEW i \in 1..Len(w), i + Limit(k) - 1 = Len(w), w[Len(w)] <= w[i] + Window
               PROVE  w[Len(w)] + Lockout <= attempts'[k].lockedUntil \/ w[Len(w)] + Lockout <= now
    OBVIOUS
  <2>1. /\ attempts[k].lockedUntil \in Nat
        /\ w[Len(w)] + Lockout <= attempts[k].lockedUntil \/ w[Len(w)] + Lockout <= now
    BY DEF AttemptInv
  <2>2. w[Len(w)] \in Nat
    BY <1>6
  <2> HIDE DEF w
  <2>. QED BY <2>1, <2>2, WebLoginAssumption
<1>. QED BY <1>3, <1>4, <1>5, <1>6, <1>7 DEF AttemptInv

\* A failure that is recorded while the key is not locked.
LEMMA FailureCounts ==
  ASSUME NEW k \in AttemptKeys, AttemptInv(k), now \in Nat, now' = now, ~IsLocked(k),
         wrong'[k] = Append(wrong[k], now), attempts'[k] = Failing(k)
  PROVE  AttemptInv(k)'
<1> DEFINE w == wrong[k]
           f == attempts[k].failures
           r == Recent(k)
           n == Limit(k)
           last == Len(w)
           until == attempts[k].lockedUntil
           v == Append(w, now)
           g == Append(r, now)
           then == attempts'[k].lockedUntil
<1>1. /\ r \in Seq(Nat) /\ Len(r) <= Len(f)
      /\ \A i \in 1..Len(r) : r[i] = f[i + Len(f) - Len(r)]
      /\ \A i \in 1..(Len(f) - Len(r)) : Outdated(f[i])
  BY RecentIsEnd
<1>2. /\ f \in Seq(Nat) /\ w \in Seq(Nat) /\ last - Len(f) \in Nat /\ until \in Nat
      /\ \A i \in 1..Len(f) : f[i] = w[i + (last - Len(f))]
      /\ \A i \in 1..last : w[i] <= now /\ (i <= last - Len(f) => Outdated(w[i]))
      /\ \A i, j \in 1..last : i <= j => w[i] <= w[j]
  BY DEF AttemptInv
<1>3. /\ \A i \in 1..last : i + n - 1 = last /\ w[last] <= w[i] + Window
                           => w[last] + Lockout <= until \/ w[last] + Lockout <= now
      /\ \A i \in 1..last : i + n \in 1..last /\ w[i + n - 1] <= w[i] + Window
                           => w[i + n] >= w[i + n - 1] + Lockout
  BY DEF AttemptInv
<1>4. until <= now
  BY <1>2 DEF IsLocked
<1>5. attempts'[k].failures = g /\ then = IF Len(g) >= n THEN now + Lockout ELSE until
  BY DEF Failing
<1>6. n \in Nat \ {0} /\ n' = n /\ {Window, Lockout} \subseteq Nat \ {0}
  BY LimitType, WebLoginAssumption DEF Limit
<1>7. \A t : Outdated(t)' <=> Outdated(t)
  BY DEF Outdated
<1> HIDE DEF w, f, r, n, until, then
<1>8. /\ g \in Seq(Nat) /\ Len(g) = Len(r) + 1 /\ g[Len(g)] = now
      /\ \A i \in 1..Len(r) : g[i] = r[i]
      /\ v \in Seq(Nat) /\ Len(v) = last + 1 /\ v[Len(v)] = now
      /\ \A i \in 1..last : v[i] = w[i]
      /\ last \in Nat /\ Len(r) \in Nat /\ Len(f) \in Nat /\ \A i \in 1..last : w[i] \in Nat
  BY <1>1, <1>2
<1> HIDE DEF v, g, last
<1>0. last \in Nat /\ Len(r) \in Nat /\ Len(f) \in Nat /\ Len(g) = Len(r) + 1 /\ Len(v) = last + 1
  BY <1>8
<1>a. \A i \in 1..last : v[i] = w[i] /\ v[i] \in Nat /\ w[i] \in Nat
  BY <1>8
<1>c. until \in Nat
  BY <1>2
<1>b. v[Len(v)] = now
  BY <1>8
<1>9. last - Len(r) \in Nat /\ Len(v) - Len(g) = last - Len(r)
  BY <1>1, <1>2, <1>8
<1>10. \A i \in 1..Len(r) : r[i] = w[i + (last - Len(r))]
  <2> SUFFICES ASSUME NEW i \in 1..Len(r) PROVE r[i] = w[i + (last - Len(r))]
    OBVIOUS
  <2> DEFINE j == i + Len(f) - Len(r)
  <2>1. j \in 1..Len(f) /\ j + (last - Len(f)) = i + (last - Len(r))
    BY <1>1, <1>8
  <2>. QED BY <1>1, <1>2, <2>1
<1>11. \A i \in 1..last : i <= last - Len(r) => Outdated(w[i])
  <2> SUFFICES ASSUME NEW i \in 1..last, i <= last - Len(r) PROVE Outdated(w[i])
    OBVIOUS
  <2>1. CASE i <= last - Len(f)
    BY <1>2, <2>1
  <2>2. CASE ~(i <= last - Len(f))
    <3> DEFINE j == i - (last - Len(f))
    <3>1. j \in 1..(Len(f) - Len(r)) /\ j \in 1..Len(f) /\ j + (last - Len(f)) = i
      <4>1. last \in Nat /\ Len(f) \in Nat /\ Len(r) \in Nat /\ last - Len(f) \in Nat
        BY <1>2, <1>8
      <4>. QED BY <2>2, <4>1
    <3> HIDE DEF j
    <3>2. f[j] = w[j + (last - Len(f))] /\ Outdated(f[j])
      BY <1>1, <1>2, <3>1
    <3>. QED BY <3>1, <3>2
  <2>. QED BY <2>1, <2>2
<1>12. \A i \in 1..Len(g) : g[i] = v[i + (Len(v) - Len(g))]
  <2> SUFFICES ASSUME NEW i \in 1..Len(g) PROVE g[i] = v[i + (Len(v) - Len(g))]
    OBVIOUS
  <2>1. CASE i = Len(g)
    BY <1>8, <2>1
  <2>2. CASE i # Len(g)
    <3>1. i \in 1..Len(r) /\ i + (last - Len(r)) \in 1..last
      BY <1>1, <1>8, <1>9, <2>2
    <3>. QED BY <1>8, <1>9, <1>10, <3>1
  <2>. QED BY <2>1, <2>2
<1>13. \A i \in 1..Len(v) : v[i] <= now /\ (i <= Len(v) - Len(g) => Outdated(v[i]))
  <2> SUFFICES ASSUME NEW i \in 1..Len(v) PROVE v[i] <= now /\ (i <= Len(v) - Len(g) => Outdated(v[i]))
    OBVIOUS
  <2>1. i \in 1..last \/ (i = Len(v) /\ ~(i <= Len(v) - Len(g)))
    BY <1>0, <1>9
  <2>2. CASE i \in 1..last
    <3>1. v[i] = w[i] /\ w[i] <= now /\ (i <= last - Len(r) => Outdated(w[i]))
      BY <1>2, <1>11, <1>a, <2>2
    <3>. QED BY <1>9, <3>1
  <2>. QED BY <1>b, <2>1, <2>2
<1>14. \A i, j \in 1..Len(v) : i <= j => v[i] <= v[j]
  <2> SUFFICES ASSUME NEW i \in 1..Len(v), NEW j \in 1..Len(v), i <= j PROVE v[i] <= v[j]
    OBVIOUS
  <2>1. j = Len(v) \/ (i \in 1..last /\ j \in 1..last)
    BY <1>8
  <2>. QED BY <1>2, <1>8, <1>13, <2>1
<1>15. \A i \in 1..Len(v) : i + n - 1 = Len(v) /\ v[Len(v)] <= v[i] + Window
                           => v[Len(v)] + Lockout <= then
  <2> SUFFICES ASSUME NEW i \in 1..Len(v), i + n - 1 = Len(v), now <= v[i] + Window
               PROVE  now + Lockout <= then
    BY <1>8
  <2>1. ~Outdated(v[i])
    BY <1>2, <1>6, <1>8 DEF Outdated
  <2>2. ~(i <= Len(v) - Len(g))
    BY <1>13, <2>1
  <2>3. Len(g) >= n
    BY <1>6, <1>8, <2>2
  <2>. QED BY <1>5, <1>6, <2>3
<1>16. \A i \in 1..Len(v) : i + n \in 1..Len(v) /\ v[i + n - 1] <= v[i] + Window
                           => v[i + n] >= v[i + n - 1] + Lockout
  <2> SUFFICES ASSUME NEW i \in 1..Len(v), i + n \in 1..Len(v), v[i + n - 1] <= v[i] + Window
               PROVE  v[i + n] >= v[i + n - 1] + Lockout
    OBVIOUS
  <2>1. i \in 1..last /\ i + n - 1 \in 1..last
    BY <1>0, <1>6
  <2>2. v[i] = w[i] /\ v[i + n - 1] = w[i + n - 1]
    BY <1>a, <2>1
  <2>3. CASE i + n = Len(v)
    <3>1. i + n - 1 = last
      BY <1>0, <1>6, <2>3
    <3>2. w[last] + Lockout <= until \/ w[last] + Lockout <= now
      BY <1>3, <2>1, <2>2, <3>1
    <3>3. w[last] \in Nat /\ v[i + n - 1] = w[last] /\ v[i + n] = now
      BY <1>a, <1>b, <2>1, <2>2, <2>3, <3>1
    <3>. QED BY <1>4, <1>6, <1>c, <3>2, <3>3
  <2>4. CASE i + n # Len(v)
    <3>1. i + n \in 1..last
      BY <1>0, <1>6, <2>4
    <3>2. v[i + n] = w[i + n]
      BY <1>a, <3>1
    <3>3. w[i + n] >= w[i + n - 1] + Lockout
      <4>1. w[i + n - 1] <= w[i] + Window
        BY <2>2
      <4>. QED BY <1>3, <2>1, <3>1, <4>1
    <3>. QED BY <2>2, <3>2, <3>3
  <2>. QED BY <2>3, <2>4
<1>17. then \in Nat
  BY <1>2, <1>5, <1>6
<1>18. wrong'[k] = v /\ attempts'[k].failures = g /\ attempts'[k].lockedUntil = then
  BY <1>5 DEF v, w, g, then
<1>19. attempts'[k] = [failures |-> g, lockedUntil |-> then]
  BY <1>18 DEF Failing
<1>20. v \in Seq(Nat) /\ g \in Seq(Nat) /\ Len(v) - Len(g) \in Nat /\ now' = now
  BY <1>8, <1>9
<1>21. Limit(k)' = n
  BY <1>6 DEF n
<1>. QED BY <1>12, <1>13, <1>14, <1>15, <1>16, <1>17, <1>18, <1>19, <1>20, <1>21
         DEF AttemptInv, Outdated

LEMMA LoginInvStep ==
  ASSUME LoginInv, [LoginNext]_loginVars
  PROVE  LoginInv'
<1>0. /\ now \in Nat /\ PassInv /\ \A k \in AttemptKeys : AttemptInv(k)
      /\ attempts = [k \in AttemptKeys |-> attempts[k]]
      /\ wrong = [k \in AttemptKeys |-> wrong[k]]
  BY DEF LoginInv
<1> DEFINE Counts == /\ attempts' = [k \in AttemptKeys |-> attempts'[k]]
                     /\ wrong' = [k \in AttemptKeys |-> wrong'[k]]
                     /\ \A k \in AttemptKeys : AttemptInv(k)'
<1>1. ASSUME NEW k \in AttemptKeys, now' = now, attempts'[k] = attempts[k], wrong'[k] = wrong[k]
      PROVE  AttemptInv(k)'
  BY <1>0, <1>1 DEF AttemptInv, Outdated, Limit
<1>2. ASSUME now' = now, UNCHANGED <<attempts, wrong>>
      PROVE  Counts
  BY <1>0, <1>1, <1>2
<1>3. ASSUME UNCHANGED <<pass, uses>> PROVE PassInv'
  BY <1>0, <1>3 DEF PassInv
<1>4. \A p \in Passes : LivePasses[p] \in {pass[p], None}
  BY DEF LivePasses
<1>5. ASSUME NEW k \in AttemptKeys, now' = now, ~IsLocked(k), attempts'[k] = NoAttempts,
             wrong'[k] = <<>>
      PROVE  AttemptInv(k)'
  BY <1>5 DEF AttemptInv, NoAttempts
<1>6. ASSUME NEW a0 \in Addresses, NEW u \in Logins
      PROVE  /\ u \in AttemptKeys /\ <<a0, u>> \in AttemptKeys /\ u # <<a0, u>>
  BY WebLoginAssumption DEF AttemptKeys
<1>7. ASSUME NEW a0 \in Addresses, NEW u \in Logins, FailLogin(a0, u)
      PROVE  LoginInv'
  <2> DEFINE key == <<a0, u>>
  <2>1. u \in AttemptKeys /\ key \in AttemptKeys /\ u # key
    BY <1>6
  <2>2. /\ ~IsLocked(u) /\ ~IsLocked(key) /\ UNCHANGED <<pass, uses, now>>
        /\ attempts' = [attempts EXCEPT ![key] = Failing(key), ![u] = Failing(u)]
        /\ wrong' = [wrong EXCEPT ![key] = Append(@, now), ![u] = Append(@, now)]
    BY <1>7 DEF FailLogin, MayTry
  <2> HIDE DEF key
  <2>3. /\ attempts' = [k \in AttemptKeys |-> attempts'[k]]
        /\ wrong' = [k \in AttemptKeys |-> wrong'[k]]
        /\ attempts'[key] = Failing(key) /\ attempts'[u] = Failing(u)
        /\ wrong'[key] = Append(wrong[key], now) /\ wrong'[u] = Append(wrong[u], now)
        /\ \A k \in AttemptKeys \ {key, u} : attempts'[k] = attempts[k] /\ wrong'[k] = wrong[k]
    BY <1>0, <2>1, <2>2
  <2>4. AttemptInv(key)' /\ AttemptInv(u)'
    BY <1>0, <2>1, <2>2, <2>3, FailureCounts
  <2>. QED BY <1>0, <1>1, <1>3, <2>2, <2>3, <2>4 DEF LoginInv
<1>8. ASSUME NEW a0 \in Addresses, NEW u \in Logins, Login(a0, u)
      PROVE  LoginInv'
  <2> DEFINE key == <<a0, u>>
  <2>1. u \in AttemptKeys /\ key \in AttemptKeys /\ u # key
    BY <1>6
  <2>2. /\ ~IsLocked(u) /\ ~IsLocked(key) /\ UNCHANGED <<pass, uses, now>>
        /\ attempts' = [attempts EXCEPT ![key] = NoAttempts, ![u] = NoAttempts]
        /\ wrong' = [wrong EXCEPT ![key] = <<>>, ![u] = <<>>]
    BY <1>8 DEF Login, MayTry
  <2> HIDE DEF key
  <2>3. /\ attempts' = [k \in AttemptKeys |-> attempts'[k]]
        /\ wrong' = [k \in AttemptKeys |-> wrong'[k]]
        /\ \A k \in {key, u} : attempts'[k] = NoAttempts /\ wrong'[k] = <<>>
        /\ \A k \in AttemptKeys \ {key, u} : attempts'[k] = attempts[k] /\ wrong'[k] = wrong[k]
    BY <1>0, <2>1, <2>2
  <2>4. \A k \in {key, u} : AttemptInv(k)'
    BY <1>5, <2>1, <2>2, <2>3
  <2>. QED BY <1>0, <1>1, <1>3, <2>2, <2>3, <2>4 DEF LoginInv
<1>9. ASSUME NEW a0 \in Addresses, NEW u \in Logins, Refuse(a0, u)
      PROVE  LoginInv'
  <2> DEFINE key == <<a0, u>>
             locked == [failures |-> Recent(key), lockedUntil |-> now + Lockout]
  <2>1. key \in AttemptKeys
    BY <1>6
  <2>2. /\ ~IsLocked(key) /\ UNCHANGED <<wrong, pass, uses, now>>
        /\ attempts' = [attempts EXCEPT ![key] = locked]
    BY <1>9 DEF Refuse, Relocked
  <2> HIDE DEF key, locked
  <2>3. /\ attempts' = [k \in AttemptKeys |-> attempts'[k]]
        /\ wrong' = [k \in AttemptKeys |-> wrong'[k]]
        /\ attempts'[key] = locked
        /\ \A k \in AttemptKeys \ {key} : attempts'[k] = attempts[k] /\ wrong'[k] = wrong[k]
    BY <1>0, <2>1, <2>2
  <2>4. /\ locked = [failures |-> Recent(key), lockedUntil |-> locked.lockedUntil]
        /\ locked.lockedUntil \in Nat
        /\ attempts[key].lockedUntil <= now
    BY <1>0, <2>1, <2>2, WebLoginAssumption DEF IsLocked, AttemptInv, locked
  <2>5. AttemptInv(key)'
    BY <1>0, <2>1, <2>2, <2>3, <2>4, RecentKeeps
  <2>. QED BY <1>0, <1>1, <1>3, <2>2, <2>3, <2>5 DEF LoginInv
<1>10. ASSUME NEW p \in Passes, NEW u \in Users,
              MakePass(p, u) \/ UseTicket(p, u) \/ OpenGrant(p, u) \/ RefuseGrant(p, u)
       PROVE  LoginInv'
  <2>1. now' = now /\ UNCHANGED <<attempts, wrong>>
    BY <1>10 DEF MakePass, UseTicket, OpenGrant, RefuseGrant
  <2>2. ASSUME NEW new, pass' = [LivePasses EXCEPT ![p] = new] \/ pass' = [pass EXCEPT ![p] = new]
        PROVE  /\ pass' = [q \in Passes |-> pass'[q]] /\ pass'[p] = new
               /\ \A q \in Passes \ {p} : pass'[q] \in {pass[q], None}
    BY <1>0, <1>4, <2>2 DEF PassInv, LivePasses
  <2>3. ASSUME MakePass(p, u) PROVE PassInv'
    <3>1. /\ pass' = [LivePasses EXCEPT ![p] = [owner |-> u, until |-> now + PassTTL]]
          /\ uses[p] = 0 /\ uses' = uses
      BY <2>3 DEF MakePass
    <3>2. /\ pass' = [q \in Passes |-> pass'[q]]
          /\ \A q \in Passes \ {p} : pass'[q] \in {pass[q], None}
      BY <2>2, <3>1
    <3>3. \A q \in Passes : pass'[q] # None => uses'[q] = 0
      BY <1>0, <3>1, <3>2 DEF PassInv
    <3>. QED BY <1>0, <3>1, <3>2, <3>3 DEF PassInv
  <2>4. ASSUME UseTicket(p, u) \/ OpenGrant(p, u) PROVE PassInv'
    <3>1. /\ pass[p] # None
          /\ pass' = [pass EXCEPT ![p] = None] \/ pass' = [LivePasses EXCEPT ![p] = None]
          /\ uses' = [uses EXCEPT ![p] = IF Valid(p, u) THEN @ + 1 ELSE @]
      BY <2>4 DEF UseTicket, OpenGrant
    <3>2. /\ pass' = [q \in Passes |-> pass'[q]] /\ pass'[p] = None
          /\ \A q \in Passes \ {p} : pass'[q] \in {pass[q], None}
      BY <2>2, <3>1
    <3>3. uses' \in [Passes -> 0..1] /\ \A q \in Passes \ {p} : uses'[q] = uses[q]
      BY <1>0, <3>1 DEF PassInv
    <3>4. \A q \in Passes : pass'[q] # None => uses'[q] = 0
      BY <1>0, <3>2, <3>3 DEF PassInv
    <3>. QED BY <3>2, <3>3, <3>4 DEF PassInv
  <2>5. ASSUME RefuseGrant(p, u) PROVE PassInv'
    <3>1. uses' = uses /\ (pass' = LivePasses \/ pass' = [LivePasses EXCEPT ![p] = None])
      BY <2>5 DEF RefuseGrant
    <3>2. /\ pass' = [q \in Passes |-> pass'[q]]
          /\ \A q \in Passes : pass'[q] \in {pass[q], None}
      <4>1. CASE pass' = LivePasses
        BY <1>4, <4>1 DEF LivePasses
      <4>2. CASE pass' = [LivePasses EXCEPT ![p] = None]
        BY <2>2, <4>2
      <4>. QED BY <3>1, <4>1, <4>2
    <3>3. \A q \in Passes : pass'[q] # None => uses'[q] = 0
      BY <1>0, <3>1, <3>2 DEF PassInv
    <3>. QED BY <1>0, <3>1, <3>2, <3>3 DEF PassInv
  <2>6. PassInv'
    BY <1>10, <2>3, <2>4, <2>5
  <2>. QED BY <1>0, <1>2, <2>1, <2>6 DEF LoginInv
<1>11. CASE CleanUpLogins
  <2> DEFINE kept(k) == IF Stale(k) THEN NoAttempts ELSE [attempts[k] EXCEPT !.failures = Recent(k)]
  <2>1. /\ attempts' = [k \in AttemptKeys |-> kept(k)]
        /\ pass' = LivePasses /\ UNCHANGED <<wrong, uses, now>>
    BY <1>11 DEF CleanUpLogins
  <2>2. ASSUME NEW k \in AttemptKeys
        PROVE  AttemptInv(k)'
    <3>1. CASE Stale(k)
      <4>1. attempts[k].lockedUntil <= now
        BY <1>0, <3>1 DEF Stale, IsLocked, AttemptInv
      <4>2. attempts'[k] = [failures |-> Recent(k), lockedUntil |-> 0]
        BY <2>1, <3>1 DEF Stale, NoAttempts
      <4>. QED BY <1>0, <2>1, <4>1, <4>2, RecentKeeps
    <3>2. CASE ~Stale(k)
      <4>1. attempts[k] = [failures |-> attempts[k].failures, lockedUntil |-> attempts[k].lockedUntil]
        BY <1>0 DEF AttemptInv
      <4>2. /\ attempts'[k] = [failures |-> Recent(k), lockedUntil |-> attempts[k].lockedUntil]
            /\ attempts[k].lockedUntil \in Nat
        BY <1>0, <2>1, <3>2, <4>1 DEF AttemptInv
      <4>. QED BY <1>0, <2>1, <4>2, RecentKeeps
    <3>. QED BY <3>1, <3>2
  <2>3. PassInv'
    BY <1>0, <1>4, <2>1 DEF PassInv, LivePasses
  <2> HIDE DEF kept
  <2>. QED BY <1>0, <2>1, <2>2, <2>3 DEF LoginInv
<1>12. CASE PassTime
  <2>1. now' = now + 1 /\ UNCHANGED <<attempts, wrong, pass, uses>>
    BY <1>12 DEF PassTime
  <2>2. ASSUME NEW k \in AttemptKeys PROVE AttemptInv(k)'
    <3> DEFINE w == wrong[k]
    <3>1. AttemptInv(k) /\ w \in Seq(Nat) /\ \A i \in 1..Len(w) : w[i] \in Nat
      BY <1>0 DEF AttemptInv
    <3>2. Limit(k)' = Limit(k)
      BY DEF Limit
    <3>3. ASSUME NEW t \in Nat PROVE /\ t <= now => t <= now + 1
                                     /\ Outdated(t) => t + Window < now + 1
      BY <1>0, WebLoginAssumption DEF Outdated
    <3>4. \A i \in 1..Len(w) : w[i] + Lockout <= now => w[i] + Lockout <= now + 1
      BY <1>0, <3>1, WebLoginAssumption
    <3>5. w # <<>> => Len(w) \in 1..Len(w)
      BY <3>1
    <3> DEFINE f == attempts[k].failures
               n == Limit(k)
               last == Len(w)
               until == attempts[k].lockedUntil
    <3>6. /\ f \in Seq(Nat) /\ until \in Nat /\ Len(w) - Len(f) \in Nat
          /\ attempts[k] = [failures |-> f, lockedUntil |-> until]
          /\ \A i \in 1..Len(f) : f[i] = w[i + (Len(w) - Len(f))]
          /\ \A i, j \in 1..Len(w) : i <= j => w[i] <= w[j]
          /\ \A i \in 1..last : i + n \in 1..last /\ w[i + n - 1] <= w[i] + Window
                             => w[i + n] >= w[i + n - 1] + Lockout
      BY <3>1 DEF AttemptInv
    <3>7. \A i \in 1..last : w[i] <= now + 1 /\ (i <= Len(w) - Len(f) => w[i] + Window < now + 1)
      <4>1. \A i \in 1..Len(w) : w[i] <= now /\ (i <= Len(w) - Len(f) => Outdated(w[i]))
        BY <3>1 DEF AttemptInv
      <4>2. ASSUME NEW i \in 1..last
            PROVE  w[i] <= now + 1 /\ (i <= Len(w) - Len(f) => w[i] + Window < now + 1)
        <5>1. w[i] \in Nat /\ w[i] <= now /\ (i <= Len(w) - Len(f) => Outdated(w[i]))
          BY <3>1, <4>1
        <5> HIDE DEF w
        <5>. QED BY <3>3, <5>1
      <4>. QED BY <4>2
    <3>8. \A i \in 1..last : i + n - 1 = last /\ w[last] <= w[i] + Window
                          => w[last] + Lockout <= until \/ w[last] + Lockout <= now + 1
      <4> SUFFICES ASSUME NEW i \in 1..last, i + n - 1 = last, w[last] <= w[i] + Window
                   PROVE  w[last] + Lockout <= until \/ w[last] + Lockout <= now + 1
        OBVIOUS
      <4>1. w[last] + Lockout <= until \/ w[last] + Lockout <= now
        BY <3>1 DEF AttemptInv
      <4>2. last \in 1..last
        BY <3>1, <3>5
      <4>. QED BY <3>4, <4>1, <4>2
    <3>9. wrong'[k] = w /\ attempts'[k] = attempts[k] /\ now' = now + 1
      BY <2>1
    <3> HIDE DEF w, f, until, last, n
    <3>. QED BY <2>1, <3>1, <3>2, <3>6, <3>7, <3>8, <3>9
             DEF AttemptInv, Outdated, w, f, until, last, n
  <2>. QED BY <1>0, <1>3, <2>1, <2>2 DEF LoginInv
<1>13. CASE UNCHANGED loginVars
  BY <1>0, <1>2, <1>3, <1>13 DEF loginVars, LoginInv
<1>. QED BY <1>7, <1>8, <1>9, <1>10, <1>11, <1>12, <1>13 DEF LoginNext

LEMMA LoginInvSound == LoginInv => LoginIsSound
<1> SUFFICES ASSUME LoginInv PROVE LoginIsSound
  OBVIOUS
<1>1. LockoutsHold
  <2> SUFFICES ASSUME NEW k \in AttemptKeys, NEW i \in DOMAIN wrong[k],
                      i + Limit(k) \in DOMAIN wrong[k],
                      wrong[k][i + Limit(k) - 1] <= wrong[k][i] + Window
               PROVE  wrong[k][i + Limit(k)] >= wrong[k][i + Limit(k) - 1] + Lockout
    BY DEF LockoutsHold
  <2>1. AttemptInv(k) /\ DOMAIN wrong[k] = 1..Len(wrong[k])
    BY DEF LoginInv, AttemptInv
  <2>. QED BY <2>1 DEF AttemptInv
<1>2. \A p \in Passes : uses[p] <= 1
  BY DEF LoginInv, PassInv
<1>. QED BY <1>1, <1>2 DEF LoginIsSound

-----------------------------------------------------------------------------
(* Tool calls and their approval *)

Called == [pc : {"run", "judge", "wait", "sent", "asked"}, loop : Loops, web : BOOLEAN,
           verdict : {"allow", "judge", "ask"}]
Opened == [pc : {"joining", "telling", "settled", "broken"}, user : Users, shows : SUBSET Calls,
           at : Nat, size : Nat]

\* Each prompt has the lock of its loop, and what waits for the lock is in line.
CallsInv ==
  /\ call \in [Calls -> {NoCall, Gone} \cup Called]
  /\ line \in [Loops -> Seq(Calls)]
  /\ future \in [Calls -> {"none", "open", "yes", "no", "expired"}]
  /\ \A x \in Calls :
       /\ future[x] = "open" => call[x].pc = "asked"
       /\ call[x].pc = "run" => call[x].verdict \in {"allow", "judge"} \/ future[x] = "yes"
       /\ call[x].pc = "judge" => call[x].verdict = "judge"
       /\ call[x].pc \in {"wait", "sent", "asked"} => x \in Elements(line[call[x].loop])
       /\ call[x].pc \in {"sent", "asked"} => Head(line[call[x].loop]) = x

\* The tab shows the prompt at place i, or the prompt is on its way to it.
Aware(t, i) == prompts[i] \in tab[t].shows \/ t \in untold[prompts[i]]

\* A prompt once closed stays closed, so a tab that is being told has only to
\* look behind the place it has come to.
TabsInv ==
  /\ prompts \in Seq(Calls)
  /\ untold \in [Calls -> SUBSET Tabs]
  /\ tab \in [Tabs -> {NoTab} \cup Opened]
  /\ \A i \in 1..Len(prompts) : call[prompts[i]].pc \in {"asked", "run", "gone"}
  /\ \A x \in Calls, t \in Tabs : t \in untold[x] => tab[t] # NoTab
  /\ \A t \in Tabs, i \in 1..Len(prompts) : tab[t] # NoTab /\ Pending(tab[t].user, i) =>
       \/ tab[t].pc = "broken"
       \/ tab[t].pc \in {"joining", "telling"} /\ i > tab[t].at
       \/ Aware(t, i)

ApprovalsInv == CallsInv /\ TabsInv

LEMMA ApprovalsInvInit == ApprovalsInit => ApprovalsInv
<1> SUFFICES ASSUME ApprovalsInit PROVE ApprovalsInv
  OBVIOUS
<1>1. CallsInv
  BY DEF ApprovalsInit, CallsInv, NoCall
<1>2. TabsInv
  BY DEF ApprovalsInit, TabsInv, Pending, Live
<1>. QED BY <1>1, <1>2 DEF ApprovalsInv

\* SetToSeqs(S) lists every element of S.
LEMMA SequencesOfSet ==
  ASSUME NEW S, IsFiniteSet(S), NEW s \in SetToSeqs(S)
  PROVE  s \in Seq(S) /\ Elements(s) = S
<1> DEFINE n == Cardinality(S)
           D == 1..n
<1>1. n \in Nat /\ IsFiniteSet(D) /\ Cardinality(D) = n
  BY FS_CardinalityType, FS_Interval
<1>2. s \in [D -> S] /\ \A i, j \in D : i # j => s[i] # s[j]
  BY DEF SetToSeqs
<1>3. s \in Injection(D, S)
  BY <1>2 DEF Injection, IsInjective
<1>4. s \in Surjection(D, S)
  BY <1>1, <1>3, FS_Injection
<1>5. s \in Seq(S) /\ Len(s) = n
  BY <1>1, <1>2
<1>6. \A x \in S : \E i \in D : s[i] = x
  BY <1>4 DEF Surjection
<1>. QED BY <1>2, <1>5, <1>6 DEF Elements

\* A queue that grows keeps its head and its elements.
LEMMA ConcatElements ==
  ASSUME NEW S, NEW s \in Seq(S), NEW t \in Seq(S)
  PROVE  /\ s \o t \in Seq(S) /\ Elements(s \o t) = Elements(s) \cup Elements(t)
         /\ s # <<>> => Head(s \o t) = Head(s)
<1> DEFINE r == s \o t
<1>1. r \in Seq(S) /\ Len(r) = Len(s) + Len(t) /\ Len(s) \in Nat /\ Len(t) \in Nat
  OBVIOUS
<1>2. \A i \in 1..Len(s) : i \in 1..Len(r) /\ r[i] = s[i]
  BY <1>1
<1>3. \A i \in 1..Len(t) : Len(s) + i \in 1..Len(r) /\ r[Len(s) + i] = t[i]
  BY <1>1
<1>4. \A i \in 1..Len(r) : i \in 1..Len(s) \/ (i - Len(s) \in 1..Len(t) /\ r[i] = t[i - Len(s)])
  BY <1>1
<1> HIDE DEF r
<1>5. Elements(r) = Elements(s) \cup Elements(t)
  <2>1. ASSUME NEW x \in Elements(r) PROVE x \in Elements(s) \cup Elements(t)
    <3>1. PICK i \in 1..Len(r) : x = r[i]
      BY DEF Elements
    <3>. QED BY <1>2, <1>4, <3>1 DEF Elements
  <2>2. ASSUME NEW x \in Elements(s) PROVE x \in Elements(r)
    <3>1. PICK i \in 1..Len(s) : x = s[i]
      BY DEF Elements
    <3>. QED BY <1>2, <3>1 DEF Elements
  <2>3. ASSUME NEW x \in Elements(t) PROVE x \in Elements(r)
    <3>1. PICK i \in 1..Len(t) : x = t[i]
      BY DEF Elements
    <3>. QED BY <1>3, <3>1 DEF Elements
  <2>. QED BY <2>1, <2>2, <2>3
<1>6. s # <<>> => Head(r) = Head(s)
  <2> SUFFICES ASSUME s # <<>> PROVE Head(r) = Head(s)
    OBVIOUS
  <2>1. 1 \in 1..Len(s) /\ r # <<>>
    BY <1>1
  <2>. QED BY <1>1, <1>2, <2>1
<1>. QED BY <1>1, <1>5, <1>6 DEF r

\* Without its head it keeps the others.
LEMMA TailElements ==
  ASSUME NEW S, NEW s \in Seq(S), s # <<>>
  PROVE  Tail(s) \in Seq(S) /\ Elements(s) \ {Head(s)} \subseteq Elements(Tail(s))
<1>1. Tail(s) \in Seq(S) /\ Len(Tail(s)) = Len(s) - 1 /\ Len(s) \in Nat
  OBVIOUS
<1>2. ASSUME NEW x \in Elements(s), x # Head(s) PROVE x \in Elements(Tail(s))
  <2>1. PICK i \in 1..Len(s) : x = s[i]
    BY DEF Elements
  <2>2. i # 1 /\ i - 1 \in 1..Len(Tail(s)) /\ Tail(s)[i - 1] = s[i]
    BY <1>1, <1>2, <2>1
  <2>. QED BY <2>1, <2>2 DEF Elements
<1>. QED BY <1>1, <1>2

\* What a call is after the guard.
LEMMA VerdictsNamed ==
  ASSUME NEW v \in Verdicts, NEW l \in Loops, NEW web \in BOOLEAN
  PROVE  /\ v \in {"block", "allow", "judge", "ask"}
         /\ Judged(l, web, v) \in {Gone} \cup Called
         /\ v # "block" => Judged(l, web, v).loop = l
         /\ Judged(l, web, v).pc = "run" => Judged(l, web, v).verdict = "allow"
         /\ Judged(l, web, v).pc = "judge" => Judged(l, web, v).verdict = "judge"
         /\ Judged(l, web, v).pc = "wait" => v = "ask"
         /\ Judged(l, web, v).pc \notin {"sent", "asked"}
<1>1. v \in {"block", "allow", "judge", "ask"}
  <2>1. PICK loaded \in BOOLEAN, risk \in {"low", "high", "critical"}, matched \in SUBSET Rules,
            smart \in BOOLEAN : v = GuardVerdict(loaded, risk, matched, smart)
    BY DEF Verdicts
  <2>. QED BY <2>1 DEF GuardVerdict
<1>. QED BY <1>1 DEF Judged, Gone, Called

\* One call moves; the line of its loop keeps the others and the one at its head.
LEMMA OneCallMoves ==
  ASSUME CallsInv, NEW x \in Calls, call[x] \in Called,
         NEW new \in {Gone} \cup Called, call' = [call EXCEPT ![x] = new],
         new # Gone => new.loop = call[x].loop,
         NEW answer \in {"none", "open", "yes", "no", "expired"},
         future' = [future EXCEPT ![x] = answer],
         answer = "open" => new.pc = "asked",
         new.pc = "run" => new.verdict \in {"allow", "judge"} \/ answer = "yes",
         new.pc # "judge",
         NEW queue \in Seq(Calls), line' = [line EXCEPT ![call[x].loop] = queue],
         Elements(line[call[x].loop]) \ {x} \subseteq Elements(queue),
         new.pc \in {"wait", "sent", "asked"} => x \in Elements(queue),
         new.pc \in {"sent", "asked"} => Head(queue) = x,
         \A y \in Calls \ {x} : y \in Elements(line[call[x].loop]) /\ Head(line[call[x].loop]) = y
                                => Head(queue) = y \/ call[y].pc \notin {"sent", "asked"}
  PROVE  CallsInv'
<1> DEFINE l == call[x].loop
<1>1. l \in Loops /\ new # Gone => new.loop = l
  BY DEF Called
<1>2. /\ call' \in [Calls -> {NoCall, Gone} \cup Called] /\ call'[x] = new
      /\ \A y \in Calls \ {x} : call'[y] = call[y]
  BY DEF CallsInv
<1>3. /\ line' \in [Loops -> Seq(Calls)] /\ line'[l] = queue
      /\ \A k \in Loops \ {l} : line'[k] = line[k]
  BY DEF CallsInv, Called
<1>4. /\ future' \in [Calls -> {"none", "open", "yes", "no", "expired"}] /\ future'[x] = answer
      /\ \A y \in Calls \ {x} : future'[y] = future[y]
  BY DEF CallsInv
<1>5. \A y \in Calls : call[y].pc \in {"run", "judge", "wait", "sent", "asked"} => call[y].loop \in Loops
  BY DEF CallsInv, Called, NoCall, Gone
<1>6. new.pc \in {"run", "judge", "wait", "sent", "asked"} => new # Gone
  BY DEF Gone
<1> HIDE DEF l
<1>7. ASSUME NEW y \in Calls
      PROVE  /\ future'[y] = "open" => call'[y].pc = "asked"
             /\ call'[y].pc = "run" => call'[y].verdict \in {"allow", "judge"} \/ future'[y] = "yes"
             /\ call'[y].pc = "judge" => call'[y].verdict = "judge"
             /\ call'[y].pc \in {"wait", "sent", "asked"} => y \in Elements(line'[call'[y].loop])
             /\ call'[y].pc \in {"sent", "asked"} => Head(line'[call'[y].loop]) = y
  <2>1. CASE y = x
    BY <1>1, <1>2, <1>3, <1>4, <1>6, <2>1 DEF l
  <2>2. CASE y # x
    <3>1. call'[y] = call[y] /\ future'[y] = future[y]
      BY <1>2, <1>4, <2>2
    <3>2. CASE call[y].loop = l
      BY <1>3, <2>2, <3>1, <3>2 DEF CallsInv, l
    <3>3. CASE call[y].loop # l
      BY <1>3, <1>5, <3>1, <3>3 DEF CallsInv
    <3>. QED BY <3>2, <3>3
  <2>. QED BY <2>1, <2>2
<1>. QED BY <1>2, <1>3, <1>4, <1>7 DEF CallsInv

\* A prompt that is closed stays closed: a tab misses nothing by the step of a call.
LEMMA TabsKept ==
  ASSUME TabsInv, UNCHANGED <<prompts, untold, tab>>,
         \A y \in Calls : call[y].pc \in {"asked", "run", "gone"} =>
           /\ call'[y].pc \in {"asked", "run", "gone"}
           /\ call'[y].pc = "asked" /\ future'[y] = "open" =>
                call[y].pc = "asked" /\ future[y] = "open" /\ call'[y].loop = call[y].loop
  PROVE  TabsInv'
<1>1. \A i \in 1..Len(prompts) : prompts[i] \in Calls
  BY DEF TabsInv
<1>2. ASSUME NEW u, NEW i \in 1..Len(prompts), Pending(u, i)'
      PROVE  Pending(u, i)
  <2>1. prompts'[i] = prompts[i] /\ prompts[i] \in Calls /\ call[prompts[i]].pc \in {"asked", "run", "gone"}
    BY <1>1 DEF TabsInv
  <2>2. call'[prompts[i]].pc = "asked" /\ future'[prompts[i]] = "open"
    BY <1>2, <2>1 DEF Pending, Live
  <2>. QED BY <1>2, <2>1, <2>2 DEF Pending, Live, Owner
<1>3. \A t, i : Aware(t, i)' <=> Aware(t, i)
  BY DEF Aware
<1>4. \A t \in Tabs, i \in 1..Len(prompts) : tab'[t] # NoTab /\ Pending(tab[t].user, i)' =>
       \/ tab[t].pc = "broken"
       \/ tab[t].pc \in {"joining", "telling"} /\ i > tab[t].at
       \/ Aware(t, i)
  BY <1>2 DEF TabsInv
<1>. QED BY <1>1, <1>3, <1>4 DEF TabsInv

\* What a record of a call is after a step of it.
LEMMA CallSteps ==
  ASSUME CallsInv, NEW x \in Calls, call[x].pc \in {"run", "judge", "wait", "sent", "asked"},
         NEW p \in {"run", "judge", "wait", "sent", "asked"}
  PROVE  LET new == [call[x] EXCEPT !.pc = p]
         IN /\ call[x] \in Called /\ call[x].loop \in Loops /\ call[x].verdict \in {"allow", "judge", "ask"}
            /\ new \in Called /\ new # Gone
            /\ new.loop = call[x].loop /\ new.verdict = call[x].verdict /\ new.pc = p
<1>1. call[x] \in Called
  BY DEF CallsInv, NoCall, Gone
<1>. QED BY <1>1 DEF Called, Gone

LEMMA StartKeeps ==
  ASSUME ApprovalsInv, NEW l \in Loops, NEW some \in SUBSET Calls, NEW web \in BOOLEAN,
         StartCalls(l, some, web)
  PROVE  ApprovalsInv'
<1>0. PICK v \in [some -> Verdicts] :
        /\ call' = [x \in Calls |-> IF x \in some THEN Judged(l, web, v[x]) ELSE call[x]]
        /\ \E asked \in SetToSeqs({x \in some : v[x] = "ask"}) : line' = [line EXCEPT ![l] = @ \o asked]
  BY DEF StartCalls
<1>1. PICK asked \in SetToSeqs({x \in some : v[x] = "ask"}) :
        /\ call' = [x \in Calls |-> IF x \in some THEN Judged(l, web, v[x]) ELSE call[x]]
        /\ line' = [line EXCEPT ![l] = @ \o asked]
  BY <1>0
<1>2. /\ \A x \in some : call[x] = NoCall
      /\ UNCHANGED <<prompts, future, untold, tab>>
  BY DEF StartCalls
<1> DEFINE asks == {x \in some : v[x] = "ask"}
           queue == line[l] \o asked
<1>3. asked \in Seq(Calls) /\ Elements(asked) = asks
  <2>1. asks \subseteq Calls /\ IsFiniteSet(asks)
    BY ApprovalsAssumption, FS_Subset
  <2> HIDE DEF asks
  <2>2. asked \in Seq(asks) /\ Elements(asked) = asks
    BY <1>1, <2>1, SequencesOfSet DEF asks
  <2>. QED BY <2>1, <2>2, SeqMonotonic
<1>4. /\ queue \in Seq(Calls) /\ Elements(queue) = Elements(line[l]) \cup asks
      /\ line[l] # <<>> => Head(queue) = Head(line[l])
      /\ line[l] \in Seq(Calls)
  <2>1. line[l] \in Seq(Calls)
    BY DEF ApprovalsInv, CallsInv
  <2> HIDE DEF asks
  <2>. QED BY <1>3, <2>1, ConcatElements
<1>5. /\ line' \in [Loops -> Seq(Calls)] /\ line'[l] = queue
      /\ \A k \in Loops \ {l} : line'[k] = line[k]
  BY <1>1, <1>4 DEF ApprovalsInv, CallsInv
<1>6. /\ \A x \in some : call'[x] = Judged(l, web, v[x]) /\ v[x] \in Verdicts /\ x \in Calls
      /\ \A x \in Calls \ some : call'[x] = call[x]
  BY <1>1
<1>7. call' \in [Calls -> {NoCall, Gone} \cup Called]
  <2>1. \A x \in Calls : call'[x] \in {NoCall, Gone} \cup Called
    BY <1>6, VerdictsNamed DEF ApprovalsInv, CallsInv
  <2>. QED BY <1>1, <2>1
<1> HIDE DEF queue
<1>8. ASSUME NEW y \in Calls
      PROVE  /\ future'[y] = "open" => call'[y].pc = "asked"
             /\ call'[y].pc = "run" => call'[y].verdict \in {"allow", "judge"} \/ future'[y] = "yes"
             /\ call'[y].pc = "judge" => call'[y].verdict = "judge"
             /\ call'[y].pc \in {"wait", "sent", "asked"} => y \in Elements(line'[call'[y].loop])
             /\ call'[y].pc \in {"sent", "asked"} => Head(line'[call'[y].loop]) = y
  <2>1. CASE y \in some
    <3>1. future[y] # "open"
      BY <1>2, <2>1 DEF ApprovalsInv, CallsInv, NoCall
    <3>2. /\ call'[y].pc = "run" => call'[y].verdict = "allow"
          /\ call'[y].pc = "judge" => call'[y].verdict = "judge"
          /\ call'[y].pc = "wait" => v[y] = "ask" /\ call'[y].loop = l
          /\ call'[y].pc \notin {"sent", "asked"}
      BY <1>6, <2>1, VerdictsNamed
    <3>. QED BY <1>2, <1>4, <1>5, <2>1, <3>1, <3>2
  <2>2. CASE y \notin some
    <3>1. call'[y] = call[y] /\ future'[y] = future[y]
      BY <1>2, <1>6, <2>2
    <3>2. CASE call[y].loop = l
      <4>1. Elements(line[l]) \subseteq Elements(line'[l])
        BY <1>4, <1>5
      <4>2. y \in Elements(line[l]) => line[l] # <<>>
        BY <1>4 DEF Elements
      <4>. QED BY <1>4, <1>5, <3>1, <3>2, <4>1, <4>2 DEF ApprovalsInv, CallsInv
    <3>3. CASE call[y].loop # l
      <4>1. call[y].pc \in {"wait", "sent", "asked"} => call[y].loop \in Loops
        BY DEF ApprovalsInv, CallsInv, Called, NoCall, Gone
      <4>. QED BY <1>5, <3>1, <3>3, <4>1 DEF ApprovalsInv, CallsInv
    <3>. QED BY <3>2, <3>3
  <2>. QED BY <2>1, <2>2
<1>9. CallsInv'
  BY <1>2, <1>5, <1>7, <1>8 DEF ApprovalsInv, CallsInv
<1>10. TabsInv'
  <2>1. \A y \in Calls : call[y].pc \in {"asked", "run", "gone"} => call'[y] = call[y]
    BY <1>2, <1>6 DEF NoCall
  <2>. QED BY <1>2, <2>1, TabsKept DEF ApprovalsInv
<1>. QED BY <1>9, <1>10 DEF ApprovalsInv

\* A call that goes on in its own line, with the answer it has.
LEMMA StepKeeps ==
  ASSUME CallsInv, NEW x \in Calls, call[x].pc \in {"run", "judge", "wait", "sent", "asked"},
         NEW p \in {"run", "wait", "sent", "asked"}, CallStep(x, p),
         NEW answer \in {"none", "open", "yes", "no", "expired"},
         future' = [future EXCEPT ![x] = answer],
         answer = "open" => p = "asked",
         p = "run" => call[x].verdict \in {"allow", "judge"} \/ answer = "yes",
         UNCHANGED line,
         p \in {"wait", "sent", "asked"} => x \in Elements(line[call[x].loop]),
         p \in {"sent", "asked"} => Head(line[call[x].loop]) = x
  PROVE  CallsInv'
<1> DEFINE new == [call[x] EXCEPT !.pc = p]
           queue == line[call[x].loop]
<1>1. /\ call[x] \in Called /\ call[x].loop \in Loops
      /\ new \in Called /\ new # Gone
      /\ new.loop = call[x].loop /\ new.verdict = call[x].verdict /\ new.pc = p
  <2>1. p \in {"run", "judge", "wait", "sent", "asked"}
    OBVIOUS
  <2>. QED BY <2>1, CallSteps
<1>2. call' = [call EXCEPT ![x] = new]
  BY Zenon DEF CallStep
<1>3. queue \in Seq(Calls) /\ line' = [line EXCEPT ![call[x].loop] = queue]
  BY <1>1 DEF CallsInv
<1>4. \A y \in Calls \ {x} : y \in Elements(queue) /\ Head(queue) = y
                             => Head(queue) = y \/ call[y].pc \notin {"sent", "asked"}
  OBVIOUS
<1> HIDE DEF new
<1>. QED BY <1>1, <1>2, <1>3, <1>4, OneCallMoves

\* A call that ends outside its line.
LEMMA EndKeeps ==
  ASSUME CallsInv, NEW x \in Calls, call[x].pc \in {"run", "judge"}, EndCall(x),
         NEW answer \in {"none", "yes", "no", "expired"},
         future' = [future EXCEPT ![x] = answer], UNCHANGED line
  PROVE  CallsInv'
<1> DEFINE queue == line[call[x].loop]
<1>1. call[x] \in Called /\ call[x].loop \in Loops
  BY CallSteps
<1>2. call' = [call EXCEPT ![x] = Gone] /\ Gone.pc = "gone"
  BY DEF EndCall, Gone
<1>3. queue \in Seq(Calls) /\ line' = [line EXCEPT ![call[x].loop] = queue]
  BY <1>1 DEF CallsInv
<1>4. \A y \in Calls \ {x} : y \in Elements(queue) /\ Head(queue) = y
                             => Head(queue) = y \/ call[y].pc \notin {"sent", "asked"}
  OBVIOUS
<1>. QED BY <1>1, <1>2, <1>3, <1>4, OneCallMoves

\* The call that has the lock gives it back.
LEMMA ReleaseKeeps ==
  ASSUME CallsInv, NEW x \in Calls, call[x].pc \in {"sent", "asked"},
         NEW answer \in {"none", "yes", "no", "expired"},
         future' = [future EXCEPT ![x] = answer],
         EndCall(x) \/ (CallStep(x, "run") /\ answer = "yes"),
         line' = [line EXCEPT ![call[x].loop] = Tail(@)]
  PROVE  CallsInv'
<1> DEFINE queue == line[call[x].loop]
           rest == Tail(queue)
           new == IF EndCall(x) THEN Gone ELSE [call[x] EXCEPT !.pc = "run"]
<1>1. call[x] \in Called /\ call[x].loop \in Loops
  BY CallSteps
<1>2. queue \in Seq(Calls) /\ x \in Elements(queue) /\ Head(queue) = x /\ queue # <<>>
  BY <1>1 DEF CallsInv, Elements
<1>3. rest \in Seq(Calls) /\ Elements(queue) \ {x} \subseteq Elements(rest)
  BY <1>2, TailElements
<1>4. /\ new \in {Gone} \cup Called /\ new.pc \in {"run", "gone"}
      /\ new # Gone => new.loop = call[x].loop /\ answer = "yes"
      /\ new.pc = "run" => answer = "yes"
      /\ call' = [call EXCEPT ![x] = new]
  <2>1. CASE EndCall(x)
    BY <2>1 DEF EndCall, Gone
  <2>2. CASE ~EndCall(x)
    BY <2>2, CallSteps DEF CallStep
  <2>. QED BY <2>1, <2>2
<1>5. line' = [line EXCEPT ![call[x].loop] = rest]
  BY <1>1 DEF CallsInv
<1>6. \A y \in Calls \ {x} : y \in Elements(queue) /\ Head(queue) = y
                             => Head(rest) = y \/ call[y].pc \notin {"sent", "asked"}
  BY <1>2
<1> HIDE DEF new, rest
<1>. QED BY <1>1, <1>3, <1>4, <1>5, <1>6, OneCallMoves

LEMMA CallsStep ==
  ASSUME ApprovalsInv, NEW x \in Calls,
         \/ TelegramPrompt(x) \/ RegisterTap(x) \/ PromptFails(x)
         \/ Expire(x) \/ PromptEnds(x) \/ Finished(x)
         \/ \E v \in {"approve", "deny", "escalate"} : SmartAnswer(x, v)
         \/ \E says \in {"yes", "no"} : Tapped(x, says)
  PROVE  ApprovalsInv'
<1>1. CallsInv /\ TabsInv
  BY DEF ApprovalsInv
<1>2. /\ future = [future EXCEPT ![x] = future[x]]
      /\ future[x] \in {"none", "open", "yes", "no", "expired"}
      /\ call \in [Calls -> {NoCall, Gone} \cup Called]
      /\ Gone.pc = "gone" /\ NoCall.pc = "idle"
      /\ future[x] = "open" => call[x].pc = "asked"
      /\ call[x].pc \in {"wait", "sent", "asked"} => x \in Elements(line[call[x].loop])
      /\ call[x].pc \in {"sent", "asked"} => Head(line[call[x].loop]) = x
      /\ call[x].pc = "judge" => call[x].verdict = "judge"
  BY <1>1 DEF CallsInv, Gone, NoCall
<1>3. ASSUME UNCHANGED <<call, line>>, NEW answer \in {"none", "yes", "no", "expired"},
             call[x].pc = "asked", future' = [future EXCEPT ![x] = answer]
      PROVE  CallsInv'
  BY <1>1, <1>3 DEF CallsInv, Called, NoCall, Gone
<1>4. ASSUME NEW p \in {"run", "wait", "sent", "asked"}, CallStep(x, p)
      PROVE  /\ call'[x].pc = p /\ call'[x].loop = call[x].loop
             /\ \A y \in Calls \ {x} : call'[y] = call[y]
  <2>1. call[x].pc # "gone" /\ call[x].pc # "idle" => call[x] \in Called
    BY <1>2
  <2>. QED BY <1>2, <1>4, <2>1 DEF CallStep, Called, NoCall, Gone
<1>5. ASSUME EndCall(x)
      PROVE  call'[x].pc = "gone" /\ \A y \in Calls \ {x} : call'[y] = call[y]
  BY <1>2, <1>5 DEF EndCall
<1>6. ASSUME UNCHANGED <<prompts, untold, tab>>, NEW answer, future' = [future EXCEPT ![x] = answer],
             answer = "open" => call[x].pc \notin {"asked", "run", "gone"},
             call[x].pc \in {"asked", "run", "gone"} => call'[x].pc \in {"asked", "run", "gone"},
             \A y \in Calls \ {x} : call'[y] = call[y]
      PROVE  TabsInv'
  <2>1. \A y \in Calls \ {x} : call'[y] = call[y] /\ future'[y] = future[y]
    BY <1>1, <1>6 DEF CallsInv
  <2>2. future'[x] = answer
    BY <1>1, <1>6 DEF CallsInv
  <2>. QED BY <1>1, <1>6, <2>1, <2>2, TabsKept
<1>7. CASE TelegramPrompt(x)
  <2>1. /\ call[x].pc = "wait" /\ HasTurn(x) /\ CallStep(x, "sent")
        /\ UNCHANGED <<line, prompts, future, untold, tab>>
    BY <1>7 DEF TelegramPrompt
  <2>2. CallsInv'
    BY <1>1, <1>2, <2>1, StepKeeps DEF HasTurn
  <2>3. TabsInv'
    BY <1>2, <1>4, <1>6, <2>1
  <2>. QED BY <2>2, <2>3 DEF ApprovalsInv
<1>8. CASE RegisterTap(x)
  <2>1. /\ call[x].pc = "sent" /\ CallStep(x, "asked") /\ future' = [future EXCEPT ![x] = "open"]
        /\ UNCHANGED <<line, prompts, untold, tab>>
    BY <1>8 DEF RegisterTap
  <2>2. CallsInv'
    BY <1>1, <1>2, <2>1, StepKeeps
  <2>3. TabsInv'
    BY <1>2, <1>4, <1>6, <2>1
  <2>. QED BY <2>2, <2>3 DEF ApprovalsInv
<1>9. CASE PromptFails(x)
  <2>1. /\ call[x].pc = "sent" /\ EndCall(x) /\ future' = future
        /\ line' = [line EXCEPT ![call[x].loop] = Tail(@)]
        /\ UNCHANGED <<prompts, untold, tab>>
    BY <1>9 DEF PromptFails
  <2>2. future[x] \in {"none", "yes", "no", "expired"}
    BY <1>2, <2>1
  <2>3. CallsInv'
    BY <1>1, <1>2, <2>1, <2>2, ReleaseKeeps
  <2>4. TabsInv'
    BY <1>2, <1>5, <1>6, <2>1
  <2>. QED BY <2>3, <2>4 DEF ApprovalsInv
<1>10. CASE Expire(x)
  <2>1. /\ call[x].pc = "asked" /\ future' = [future EXCEPT ![x] = "expired"]
        /\ UNCHANGED <<call, line, prompts, untold, tab>>
    BY <1>10 DEF Expire
  <2>2. CallsInv'
    BY <1>3, <2>1
  <2>3. TabsInv'
    BY <1>6, <2>1
  <2>. QED BY <2>2, <2>3 DEF ApprovalsInv
<1>11. CASE PromptEnds(x)
  <2>1. /\ call[x].pc = "asked" /\ future[x] # "open"
        /\ IF future[x] = "yes" THEN CallStep(x, "run") /\ UNCHANGED future
           ELSE EndCall(x) /\ future' = [future EXCEPT ![x] = "none"]
        /\ line' = [line EXCEPT ![call[x].loop] = Tail(@)]
        /\ UNCHANGED <<prompts, untold, tab>>
    BY <1>11 DEF PromptEnds
  <2>2. CASE future[x] = "yes"
    <3>1. CallsInv'
      BY <1>1, <1>2, <2>1, <2>2, ReleaseKeeps
    <3>2. TabsInv'
      BY <1>2, <1>4, <1>6, <2>1, <2>2
    <3>. QED BY <3>1, <3>2 DEF ApprovalsInv
  <2>3. CASE future[x] # "yes"
    <3>1. CallsInv'
      BY <1>1, <1>2, <2>1, <2>3, ReleaseKeeps
    <3>2. TabsInv'
      BY <1>2, <1>5, <1>6, <2>1, <2>3
    <3>. QED BY <3>1, <3>2 DEF ApprovalsInv
  <2>. QED BY <2>2, <2>3
<1>12. CASE Finished(x)
  <2>1. /\ call[x].pc = "run" /\ EndCall(x) /\ future' = [future EXCEPT ![x] = "none"]
        /\ UNCHANGED <<line, prompts, untold, tab>>
    BY <1>12 DEF Finished
  <2>2. CallsInv'
    BY <1>1, <2>1, EndKeeps
  <2>3. TabsInv'
    BY <1>5, <1>6, <2>1
  <2>. QED BY <2>2, <2>3 DEF ApprovalsInv
<1>13. ASSUME SmartAnswer(x, "approve")
       PROVE  ApprovalsInv'
  <2>1. /\ call[x].pc = "judge" /\ CallStep(x, "run")
        /\ UNCHANGED <<line, prompts, future, untold, tab>>
    BY <1>13 DEF SmartAnswer
  <2>2. CallsInv'
    BY <1>1, <1>2, <2>1, StepKeeps
  <2>3. TabsInv'
    BY <1>2, <1>4, <1>6, <2>1
  <2>. QED BY <2>2, <2>3 DEF ApprovalsInv
<1>14. ASSUME SmartAnswer(x, "deny")
       PROVE  ApprovalsInv'
  <2>1. /\ call[x].pc = "judge" /\ EndCall(x)
        /\ UNCHANGED <<line, prompts, future, untold, tab>>
    BY <1>14 DEF SmartAnswer
  <2>2. CallsInv'
    BY <1>1, <1>2, <2>1, EndKeeps
  <2>3. TabsInv'
    BY <1>2, <1>5, <1>6, <2>1
  <2>. QED BY <2>2, <2>3 DEF ApprovalsInv
<1>15. ASSUME SmartAnswer(x, "escalate")
       PROVE  ApprovalsInv'
  <2> DEFINE new == [call[x] EXCEPT !.pc = "wait"]
             old == line[call[x].loop]
             queue == Append(old, x)
  <2>1. /\ call[x].pc = "judge" /\ CallStep(x, "wait")
        /\ line' = [line EXCEPT ![call[x].loop] = Append(@, x)]
        /\ UNCHANGED <<prompts, future, untold, tab>>
    BY <1>15 DEF SmartAnswer
  <2>2. /\ call[x] \in Called /\ call[x].loop \in Loops /\ new \in Called /\ new # Gone
        /\ new.loop = call[x].loop /\ new.pc = "wait"
    BY <1>1, <2>1, CallSteps
  <2>3. call' = [call EXCEPT ![x] = new]
    BY <2>1, Zenon DEF CallStep
  <2>4. /\ old \in Seq(Calls) /\ queue \in Seq(Calls) /\ Elements(queue) = Elements(old) \cup {x}
        /\ old # <<>> => Head(queue) = Head(old)
    <3>1. old \in Seq(Calls)
      BY <1>1, <2>2 DEF CallsInv
    <3> HIDE DEF old
    <3>. QED BY <3>1, AppendElements
  <2>5. line' = [line EXCEPT ![call[x].loop] = queue]
    BY <1>1, <2>1, <2>2 DEF CallsInv
  <2>6. \A y \in Calls : y \in Elements(old) => old # <<>>
    BY <2>4 DEF Elements
  <2> HIDE DEF new, queue
  <2>7. CallsInv'
    BY <1>1, <1>2, <2>1, <2>2, <2>3, <2>4, <2>5, <2>6, OneCallMoves
  <2>8. TabsInv'
    BY <1>2, <1>4, <1>6, <2>1
  <2>. QED BY <2>7, <2>8 DEF ApprovalsInv
<1>16. ASSUME NEW says \in {"yes", "no"}, Tapped(x, says)
       PROVE  ApprovalsInv'
  <2>1. /\ future' = IF future[x] = "open" THEN [future EXCEPT ![x] = says] ELSE future
        /\ UNCHANGED <<call, line, prompts, untold, tab>>
    BY <1>16 DEF Tapped
  <2>2. CASE future[x] = "open"
    <3>1. CallsInv'
      BY <1>2, <1>3, <2>1, <2>2
    <3>2. TabsInv'
      BY <1>6, <2>1, <2>2
    <3>. QED BY <3>1, <3>2 DEF ApprovalsInv
  <2>3. CASE future[x] # "open"
    BY <1>1, <2>1, <2>3, TabsKept DEF CallsInv, ApprovalsInv
  <2>. QED BY <2>2, <2>3
<1>. QED BY <1>7, <1>8, <1>9, <1>10, <1>11, <1>12, <1>13, <1>14, <1>15, <1>16

LEMMA WebPromptKeeps ==
  ASSUME ApprovalsInv, NEW x \in Calls, WebPrompt(x)
  PROVE  ApprovalsInv'
<1>1. CallsInv /\ TabsInv
  BY DEF ApprovalsInv
<1>2. /\ call[x].pc = "wait" /\ HasTurn(x) /\ CallStep(x, "asked") /\ UNCHANGED <<line, tab>>
      /\ prompts' = Append(prompts, x) /\ future' = [future EXCEPT ![x] = "open"]
      /\ untold' = [untold EXCEPT ![x] = Clients(Owner(x))]
  BY DEF WebPrompt
<1>3. CallsInv'
  <2>1. x \in Elements(line[call[x].loop]) /\ Head(line[call[x].loop]) = x
    BY <1>1, <1>2 DEF CallsInv, HasTurn
  <2>. QED BY <1>1, <1>2, <2>1, StepKeeps
<1>4. /\ call'[x].pc = "asked" /\ call'[x].loop = call[x].loop
      /\ \A y \in Calls \ {x} : call'[y] = call[y] /\ future'[y] = future[y]
  BY <1>1, <1>2 DEF CallStep, CallsInv, Called, NoCall, Gone
<1> DEFINE n == Len(prompts)
<1>5. /\ prompts \in Seq(Calls) /\ prompts' \in Seq(Calls) /\ n \in Nat /\ Len(prompts') = n + 1
      /\ prompts'[n + 1] = x /\ \A i \in 1..n : prompts'[i] = prompts[i] /\ prompts[i] \in Calls
  BY <1>1, <1>2 DEF TabsInv
<1>6. \A i \in 1..n : prompts[i] # x
  BY <1>1, <1>2, <1>5 DEF TabsInv
<1>7. Clients(Owner(x)) \in SUBSET Tabs /\ \A t \in Clients(Owner(x)) : tab[t] # NoTab
  BY DEF Clients
<1>8. /\ untold' \in [Calls -> SUBSET Tabs] /\ untold'[x] = Clients(Owner(x))
      /\ \A y \in Calls \ {x} : untold'[y] = untold[y]
  BY <1>1, <1>2, <1>7 DEF TabsInv
<1> HIDE DEF n
<1>9. ASSUME NEW t \in Tabs, NEW i \in 1..Len(prompts'), tab[t] # NoTab, Pending(tab[t].user, i)'
      PROVE  \/ tab[t].pc = "broken"
             \/ tab[t].pc \in {"joining", "telling"} /\ i > tab[t].at
             \/ Aware(t, i)'
  <2>0. tab' = tab
    BY <1>2
  <2>1. CASE i = n + 1
    <3>1. prompts'[i] = x /\ UserOf[call'[x].loop] = tab[t].user
      BY <1>5, <1>9, <2>0, <2>1 DEF Pending, Owner
    <3>2. t \in Clients(Owner(x))
      BY <1>4, <1>9, <3>1 DEF Clients, Owner
    <3>. QED BY <1>8, <3>1, <3>2 DEF Aware
  <2>2. CASE i # n + 1
    <3>1. i \in 1..n /\ prompts'[i] = prompts[i] /\ prompts[i] \in Calls /\ prompts[i] # x
      BY <1>5, <1>6, <2>2
    <3>2. call'[prompts[i]] = call[prompts[i]] /\ future'[prompts[i]] = future[prompts[i]]
          /\ untold'[prompts[i]] = untold[prompts[i]]
      BY <1>4, <1>8, <3>1
    <3>3. call'[prompts[i]].pc = "asked" /\ future'[prompts[i]] = "open"
          /\ UserOf[call'[prompts[i]].loop] = tab[t].user
      BY <1>9, <2>0, <3>1 DEF Pending, Live, Owner
    <3>4. Pending(tab[t].user, i)
      BY <3>1, <3>2, <3>3 DEF Pending, Live, Owner, n
    <3>5. tab[t].pc = "broken" \/ (tab[t].pc \in {"joining", "telling"} /\ i > tab[t].at) \/ Aware(t, i)
      BY <1>1, <1>9, <3>1, <3>4 DEF TabsInv, n
    <3>. QED BY <2>0, <3>1, <3>2, <3>5 DEF Aware
  <2>. QED BY <2>1, <2>2
<1>10. \A i \in 1..Len(prompts') : call'[prompts'[i]].pc \in {"asked", "run", "gone"}
  <2> SUFFICES ASSUME NEW i \in 1..Len(prompts') PROVE call'[prompts'[i]].pc \in {"asked", "run", "gone"}
    OBVIOUS
  <2>1. CASE i = n + 1
    BY <1>4, <1>5, <2>1
  <2>2. CASE i # n + 1
    <3>1. i \in 1..n /\ prompts'[i] = prompts[i] /\ prompts[i] \in Calls /\ prompts[i] # x
      BY <1>5, <1>6, <2>2
    <3>. QED BY <1>1, <1>4, <3>1 DEF TabsInv, n
  <2>. QED BY <2>1, <2>2
<1>11. \A y \in Calls, t \in Tabs : t \in untold'[y] => tab[t] # NoTab
  BY <1>1, <1>7, <1>8 DEF TabsInv
<1>12. tab' = tab /\ tab \in [Tabs -> {NoTab} \cup Opened]
  BY <1>1, <1>2 DEF TabsInv
<1>13. TabsInv'
  BY <1>5, <1>8, <1>9, <1>10, <1>11, <1>12 DEF TabsInv
<1>. QED BY <1>3, <1>13 DEF ApprovalsInv

\* A step of one tab: what it misses is behind the place it has come to.
LEMMA TabMoves ==
  ASSUME TabsInv, UNCHANGED <<call, prompts, future>>, NEW t \in Tabs,
         NEW new \in {NoTab} \cup Opened, tab' = [tab EXCEPT ![t] = new],
         untold' \in [Calls -> SUBSET Tabs],
         \A y \in Calls, s \in Tabs \ {t} : s \in untold'[y] <=> s \in untold[y],
         \A y \in Calls : t \in untold'[y] => new # NoTab,
         \A i \in 1..Len(prompts) : new # NoTab /\ Pending(new.user, i) =>
           \/ new.pc = "broken"
           \/ new.pc \in {"joining", "telling"} /\ i > new.at
           \/ prompts[i] \in new.shows
           \/ t \in untold'[prompts[i]]
  PROVE  TabsInv'
<1>1. /\ tab' \in [Tabs -> {NoTab} \cup Opened] /\ tab'[t] = new
      /\ \A s \in Tabs \ {t} : tab'[s] = tab[s]
  BY DEF TabsInv
<1>2. \A u, i : Pending(u, i)' <=> Pending(u, i)
  BY DEF Pending, Live, Owner
<1>3. \A i \in 1..Len(prompts) : prompts[i] \in Calls
  BY DEF TabsInv
<1>4. ASSUME NEW s \in Tabs, NEW i \in 1..Len(prompts), tab'[s] # NoTab, Pending(tab'[s].user, i)
      PROVE  \/ tab'[s].pc = "broken"
             \/ tab'[s].pc \in {"joining", "telling"} /\ i > tab'[s].at
             \/ prompts[i] \in tab'[s].shows \/ s \in untold'[prompts[i]]
  <2>1. CASE s = t
    BY <1>1, <1>4, <2>1
  <2>2. CASE s # t
    BY <1>1, <1>3, <1>4, <2>2 DEF TabsInv, Aware
  <2>. QED BY <2>1, <2>2
<1>5. \A s \in Tabs, i \in 1..Len(prompts') : tab'[s] # NoTab /\ Pending(tab[s].user, i)' =>
       \/ tab'[s].pc = "broken"
       \/ tab'[s].pc \in {"joining", "telling"} /\ i > tab'[s].at
       \/ Aware(s, i)'
  <2> SUFFICES ASSUME NEW s \in Tabs, NEW i \in 1..Len(prompts), tab'[s] # NoTab,
                      Pending(tab[s].user, i)'
               PROVE  \/ tab'[s].pc = "broken"
                      \/ tab'[s].pc \in {"joining", "telling"} /\ i > tab'[s].at
                      \/ Aware(s, i)'
    OBVIOUS
  <2>1. Pending(tab'[s].user, i)
    BY DEF Pending, Live, Owner
  <2>. QED BY <1>4, <2>1 DEF Aware
<1>6. \A y \in Calls, s \in Tabs : s \in untold'[y] => tab'[s] # NoTab
  BY <1>1 DEF TabsInv
<1>. QED BY <1>1, <1>5, <1>6 DEF TabsInv

LEMMA TabsStep ==
  ASSUME ApprovalsInv, NEW t \in Tabs,
         \/ \E x \in Calls, b0 \in BOOLEAN : TellTab(x, t, b0)
         \/ \E u \in Users : Connect(t, u)
         \/ TellPending(t) \/ Disconnect(t)
  PROVE  ApprovalsInv'
<1>1. /\ TabsInv /\ prompts \in Seq(Calls) /\ untold \in [Calls -> SUBSET Tabs]
      /\ tab \in [Tabs -> {NoTab} \cup Opened]
      /\ \A y \in Calls : t \in untold[y] => tab[t] # NoTab
      /\ \A i \in 1..Len(prompts) : tab[t] # NoTab /\ Pending(tab[t].user, i) =>
           \/ tab[t].pc = "broken"
           \/ tab[t].pc \in {"joining", "telling"} /\ i > tab[t].at
           \/ prompts[i] \in tab[t].shows \/ t \in untold[prompts[i]]
  BY DEF ApprovalsInv, TabsInv, Aware
<1>2. UNCHANGED <<call, line, prompts, future>>
  BY DEF TellTab, Connect, TellPending, Disconnect
<1>3. CallsInv'
  BY <1>2 DEF ApprovalsInv, CallsInv
<1>4. ASSUME Leave(t) PROVE TabsInv'
  <2>1. /\ tab' = [tab EXCEPT ![t] = NoTab]
        /\ untold' = [y \in Calls |-> untold[y] \ {t}]
    BY <1>4 DEF Leave
  <2>2. /\ untold' \in [Calls -> SUBSET Tabs]
        /\ \A y \in Calls : t \notin untold'[y] /\ \A s \in Tabs \ {t} : s \in untold'[y] <=> s \in untold[y]
    BY <1>1, <2>1
  <2>. QED BY <1>1, <1>2, <2>1, <2>2, TabMoves
<1>5. ASSUME NEW x \in Calls, NEW b0 \in BOOLEAN, TellTab(x, t, b0)
      PROVE  TabsInv'
  <2>1. t \in untold[x] /\ tab[t] # NoTab /\ tab[t] \in Opened
    BY <1>1, <1>5 DEF TellTab
  <2>2. CASE b0 /\ tab[t].pc # "broken"
    <3> DEFINE new == [tab[t] EXCEPT !.shows = @ \cup {x}]
    <3>1. tab' = [tab EXCEPT ![t] = new] /\ untold' = [untold EXCEPT ![x] = @ \ {t}]
      BY <1>5, <2>2 DEF TellTab
    <3>2. /\ new \in Opened /\ new # NoTab /\ new.pc = tab[t].pc /\ new.user = tab[t].user
          /\ new.at = tab[t].at /\ new.shows = tab[t].shows \cup {x}
      BY <2>1 DEF Opened, NoTab
    <3> HIDE DEF new
    <3>3. /\ untold' \in [Calls -> SUBSET Tabs]
          /\ \A y \in Calls, s \in Tabs \ {t} : s \in untold'[y] <=> s \in untold[y]
          /\ \A y \in Calls \ {x} : untold'[y] = untold[y]
      BY <1>1, <3>1
    <3>4. \A i \in 1..Len(prompts) : prompts[i] \in Calls
      BY <1>1
    <3>5. \A i \in 1..Len(prompts) : new # NoTab /\ Pending(new.user, i) =>
            \/ new.pc = "broken"
            \/ new.pc \in {"joining", "telling"} /\ i > new.at
            \/ prompts[i] \in new.shows \/ t \in untold'[prompts[i]]
      BY <1>1, <2>1, <3>2, <3>3, <3>4
    <3>. QED BY <1>1, <1>2, <3>1, <3>2, <3>3, <3>5, TabMoves
  <2>3. CASE ~(b0 /\ tab[t].pc # "broken")
    BY <1>4, <1>5, <2>3 DEF TellTab
  <2>. QED BY <2>2, <2>3
<1>6. ASSUME NEW u \in Users, Connect(t, u)
      PROVE  TabsInv'
  <2>1. tab' = [tab EXCEPT ![t] = OpenTab(t, u)] /\ untold' = untold
    BY <1>6 DEF Connect
  <2>2. /\ OpenTab(t, u) \in Opened /\ OpenTab(t, u) # NoTab
        /\ OpenTab(t, u).pc = "joining" /\ OpenTab(t, u).at = 0
    BY DEF OpenTab, Opened, NoTab
  <2>3. \A i \in 1..Len(prompts) : i > 0
    OBVIOUS
  <2>. QED BY <1>1, <1>2, <2>1, <2>2, <2>3, TabMoves
<1>7. ASSUME TellPending(t)
      PROVE  TabsInv'
  <2> DEFINE size == Cardinality(Live)
             settled == [tab[t] EXCEPT !.pc = "settled", !.at = 0, !.size = 0]
             told(i) == [tab[t] EXCEPT !.pc = "telling", !.at = i, !.size = size,
                                       !.shows = @ \cup {prompts[i]}]
  <2>0. tab' = [tab EXCEPT ![t] =
                 IF tab[t].pc = "telling" /\ tab[t].size # size THEN [tab[t] EXCEPT !.pc = "broken"]
                 ELSE IF NextPending(t) = {} THEN settled ELSE told(Min(NextPending(t)))]
    BY <1>1, <1>7 DEF TellPending
  <2>1. /\ tab[t] \in Opened /\ tab[t].pc \in {"joining", "telling"} /\ untold' = untold
    BY <1>1, <1>7 DEF TellPending
  <2>2. ASSUME NEW new \in Opened, tab' = [tab EXCEPT ![t] = new],
               \A i \in 1..Len(prompts) : Pending(new.user, i) =>
                 \/ new.pc = "broken"
                 \/ new.pc \in {"joining", "telling"} /\ i > new.at
                 \/ prompts[i] \in new.shows \/ t \in untold[prompts[i]]
        PROVE  TabsInv'
    <3>1. new # NoTab
      BY <2>2 DEF Opened, NoTab
    <3>. QED BY <1>1, <1>2, <2>1, <2>2, <3>1, TabMoves
  <2>3. CASE tab[t].pc = "telling" /\ tab[t].size # size
    <3> DEFINE new == [tab[t] EXCEPT !.pc = "broken"]
    <3>1. tab' = [tab EXCEPT ![t] = new]
      BY <1>7, <2>3 DEF TellPending
    <3>2. new \in Opened /\ new.pc = "broken"
      BY <2>1 DEF Opened
    <3> HIDE DEF new
    <3>. QED BY <2>2, <3>1, <3>2
  <2>4. CASE ~(tab[t].pc = "telling" /\ tab[t].size # size) /\ NextPending(t) = {}
    <3> DEFINE new == settled
    <3>1. tab' = [tab EXCEPT ![t] = new]
      <4> HIDE DEF settled, told
      <4>. QED BY <2>0, <2>4
    <3>2. new \in Opened /\ new.shows = tab[t].shows /\ new.user = tab[t].user
      BY <2>1 DEF Opened
    <3> HIDE DEF new
    <3>3. ASSUME NEW i \in 1..Len(prompts), Pending(new.user, i)
          PROVE  prompts[i] \in new.shows \/ t \in untold[prompts[i]]
      <4>1. ~(i > tab[t].at)
        BY <2>4, <3>2, <3>3 DEF NextPending
      <4>. QED BY <1>1, <2>1, <3>2, <3>3, <4>1 DEF Opened, NoTab
    <3>. QED BY <2>2, <3>1, <3>2, <3>3
  <2>5. CASE ~(tab[t].pc = "telling" /\ tab[t].size # size) /\ NextPending(t) # {}
    <3> DEFINE i0 == Min(NextPending(t))
               new == told(i0)
    <3>1. tab' = [tab EXCEPT ![t] = new]
      <4>1. tab' = [tab EXCEPT ![t] = told(Min(NextPending(t)))]
        <5> HIDE DEF settled, told
        <5>. QED BY <2>0, <2>5
      <4>. QED BY <4>1, Zenon
    <3>2. i0 \in NextPending(t) /\ \A i \in NextPending(t) : i0 <= i
      <4>1. NextPending(t) \in SUBSET Nat
        BY DEF NextPending
      <4>2. PICK k \in NextPending(t) : \A i \in NextPending(t) : k <= i
        BY <2>5, <4>1, LeastExists
      <4>. QED BY <4>2 DEF Min
    <3> HIDE DEF i0
    <3>3. i0 \in 1..Len(prompts) /\ i0 \in Nat /\ prompts[i0] \in Calls
      BY <1>1, <3>2 DEF NextPending
    <3>4. size \in Nat
      <4>1. IsFiniteSet(1..Len(prompts)) /\ Live \subseteq 1..Len(prompts)
        BY <1>1, FS_Interval DEF Live
      <4>. QED BY <4>1, FS_Subset, FS_CardinalityType
    <3> HIDE DEF size
    <3>5. /\ new \in Opened /\ new.shows = tab[t].shows \cup {prompts[i0]} /\ new.user = tab[t].user
          /\ new.pc = "telling" /\ new.at = i0
      BY <2>1, <3>3, <3>4 DEF Opened
    <3> HIDE DEF new
    <3>6. ASSUME NEW i \in 1..Len(prompts), Pending(new.user, i)
          PROVE  i > new.at \/ prompts[i] \in new.shows \/ t \in untold[prompts[i]]
      <4>1. CASE i > tab[t].at
        <5>1. i \in NextPending(t)
          BY <3>5, <3>6, <4>1 DEF NextPending
        <5>2. i0 <= i /\ i \in Nat
          BY <3>2, <5>1
        <5>. QED BY <3>3, <3>5, <5>2
      <4>2. CASE ~(i > tab[t].at)
        BY <1>1, <2>1, <3>5, <3>6, <4>2 DEF Opened, NoTab
      <4>. QED BY <4>1, <4>2
    <3>. QED BY <2>2, <3>1, <3>5, <3>6
  <2>. QED BY <2>3, <2>4, <2>5
<1>8. ASSUME Disconnect(t)
      PROVE  TabsInv'
  BY <1>4, <1>8 DEF Disconnect
<1>9. TabsInv'
  BY <1>5, <1>6, <1>7, <1>8
<1>. QED BY <1>3, <1>9 DEF ApprovalsInv

\* An answer closes the prompt, and closed it is missed by no tab.
LEMMA AnswerKeeps ==
  ASSUME ApprovalsInv, NEW t \in Tabs, NEW x \in Calls, NEW says \in {"yes", "no"},
         TabAnswers(t, x, says)
  PROVE  ApprovalsInv'
<1>1. CallsInv /\ TabsInv
  BY DEF ApprovalsInv
<1>2. /\ call[x].pc = "asked" /\ future' = [future EXCEPT ![x] = says]
      /\ tab' = [s \in Tabs |-> IF s \in Clients(Owner(x)) THEN [tab[s] EXCEPT !.shows = @ \ {x}]
                                ELSE tab[s]]
      /\ UNCHANGED <<call, line, prompts, untold>>
  BY DEF TabAnswers
<1>3. CallsInv'
  BY <1>1, <1>2 DEF CallsInv, Called, NoCall, Gone
<1>4. /\ future'[x] = says /\ \A y \in Calls \ {x} : future'[y] = future[y]
  BY <1>1, <1>2 DEF CallsInv
<1>5. ASSUME NEW s \in Tabs
      PROVE  /\ tab[s] = NoTab => tab'[s] = NoTab
             /\ tab[s] # NoTab => /\ tab'[s] \in Opened /\ tab'[s] # NoTab
                                  /\ tab'[s].pc = tab[s].pc /\ tab'[s].user = tab[s].user
                                  /\ tab'[s].at = tab[s].at
                                  /\ tab[s].shows \ {x} \subseteq tab'[s].shows
  <2>1. CASE s \in Clients(Owner(x))
    <3> DEFINE new == [tab[s] EXCEPT !.shows = @ \ {x}]
    <3>1. tab[s] # NoTab /\ tab[s] \in Opened /\ tab'[s] = new
      BY <1>1, <1>2, <2>1 DEF Clients, TabsInv
    <3>2. /\ new \in Opened /\ new # NoTab /\ new.pc = tab[s].pc /\ new.user = tab[s].user
          /\ new.at = tab[s].at /\ new.shows = tab[s].shows \ {x}
      BY <3>1 DEF Opened, NoTab
    <3>. QED BY <3>1, <3>2
  <2>2. CASE s \notin Clients(Owner(x))
    <3>1. tab'[s] = tab[s]
      BY <1>2, <2>2
    <3>. QED BY <1>1, <3>1 DEF TabsInv
  <2>. QED BY <2>1, <2>2
<1>6. tab' \in [Tabs -> {NoTab} \cup Opened]
  <2>1. \A s \in Tabs : tab'[s] \in {NoTab} \cup Opened
    BY <1>5
  <2>. QED BY <1>2, <2>1
<1>7. ASSUME NEW u, NEW i \in 1..Len(prompts), Pending(u, i)'
      PROVE  Pending(u, i) /\ prompts[i] # x
  <2>1. prompts[i] \in Calls /\ future'[prompts[i]] = "open"
    BY <1>1, <1>2, <1>7 DEF TabsInv, Pending
  <2>. QED BY <1>2, <1>4, <1>7, <2>1 DEF Pending, Live, Owner
<1>8. ASSUME NEW s \in Tabs, NEW i \in 1..Len(prompts), tab'[s] # NoTab, Pending(tab[s].user, i)'
      PROVE  \/ tab'[s].pc = "broken"
             \/ tab'[s].pc \in {"joining", "telling"} /\ i > tab'[s].at
             \/ prompts[i] \in tab'[s].shows \/ s \in untold[prompts[i]]
  <2>1. tab[s] # NoTab /\ tab'[s].user = tab[s].user
    BY <1>5, <1>8
  <2>2. Pending(tab[s].user, i) /\ prompts[i] # x
    <3>1. call[prompts[i]].pc = "asked" /\ UserOf[call[prompts[i]].loop] = tab[s].user
          /\ future'[prompts[i]] = "open" /\ prompts[i] \in Calls
      BY <1>1, <1>2, <1>8, <2>1 DEF Pending, Live, Owner, TabsInv
    <3>. QED BY <1>4, <3>1 DEF Pending, Live, Owner
  <2>. QED BY <1>1, <1>5, <2>1, <2>2 DEF TabsInv, Aware
<1>9. TabsInv'
  <2>1. \A s \in Tabs, i \in 1..Len(prompts') : tab'[s] # NoTab /\ Pending(tab[s].user, i)' =>
       \/ tab'[s].pc = "broken"
       \/ tab'[s].pc \in {"joining", "telling"} /\ i > tab'[s].at
       \/ Aware(s, i)'
    BY <1>2, <1>8 DEF Aware
  <2>2. \A y \in Calls, s \in Tabs : s \in untold'[y] => tab'[s] # NoTab
    BY <1>1, <1>2, <1>5 DEF TabsInv
  <2>. QED BY <1>1, <1>2, <1>6, <2>1, <2>2 DEF TabsInv
<1>. QED BY <1>3, <1>9 DEF ApprovalsInv

LEMMA ApprovalsInvStep ==
  ASSUME ApprovalsInv, [ApprovalsNext]_approvalVars
  PROVE  ApprovalsInv'
<1>1. CASE \E l \in Loops, some \in SUBSET Calls, web \in BOOLEAN : StartCalls(l, some, web)
  BY <1>1, StartKeeps
<1>2. CASE \E x \in Calls : WebPrompt(x)
  BY <1>2, WebPromptKeeps
<1>3. CASE \E x \in Calls : TelegramPrompt(x) \/ RegisterTap(x) \/ PromptFails(x)
                            \/ Expire(x) \/ PromptEnds(x) \/ Finished(x)
  BY <1>3, CallsStep
<1>4. CASE \E x \in Calls, v \in {"approve", "deny", "escalate"} : SmartAnswer(x, v)
  BY <1>4, CallsStep
<1>5. CASE \E x \in Calls, says \in {"yes", "no"} : Tapped(x, says)
  BY <1>5, CallsStep
<1>6. CASE \E x \in Calls, t \in Tabs, b0 \in BOOLEAN : TellTab(x, t, b0)
  BY <1>6, TabsStep
<1>7. CASE \E x \in Calls, t \in Tabs, says \in {"yes", "no"} : TabAnswers(t, x, says)
  BY <1>7, AnswerKeeps
<1>8. CASE \E t \in Tabs, u \in Users : Connect(t, u)
  BY <1>8, TabsStep
<1>9. CASE \E t \in Tabs : TellPending(t) \/ Disconnect(t)
  BY <1>9, TabsStep
<1>10. CASE UNCHANGED approvalVars
  <2>1. CallsInv'
    BY <1>10 DEF approvalVars, ApprovalsInv, CallsInv
  <2>2. TabsInv'
    BY <1>10, TabsKept DEF approvalVars, ApprovalsInv
  <2>. QED BY <2>1, <2>2 DEF ApprovalsInv
<1>. QED BY <1>1, <1>2, <1>3, <1>4, <1>5, <1>6, <1>7, <1>8, <1>9, <1>10 DEF ApprovalsNext

LEMMA ApprovalsInvSound == ApprovalsInv => ApprovalsAreSound
<1> SUFFICES ASSUME ApprovalsInv PROVE ApprovalsAreSound
  OBVIOUS
<1>1. ASSUME NEW l \in Loops
      PROVE  Cardinality({x \in Of(l) : future[x] = "open"}) <= 1
  <2> DEFINE open == {x \in Of(l) : future[x] = "open"}
  <2>1. \A x, y \in open : x = y
    <3>1. \A x \in open : Head(line[l]) = x
      BY DEF ApprovalsInv, CallsInv, Of
    <3>. QED BY <3>1
  <2>2. open = {} \/ \E x : open = {x}
    BY <2>1
  <2> HIDE DEF open
  <2>3. Cardinality(open) <= 1
    BY <2>2, FS_EmptySet, FS_Singleton
  <2>. QED BY <2>3 DEF open
<1>2. AskedFirst
  BY <1>1 DEF AskedFirst, ApprovalsInv, CallsInv
<1>3. TabsShowPrompts
  BY DEF TabsShowPrompts, ApprovalsInv, TabsInv, Aware
<1>. QED BY <1>2, <1>3 DEF ApprovalsAreSound

-----------------------------------------------------------------------------
(* Notices of the system *)

In(n, rows) == \E i \in 1..Len(rows) : rows[i] = n
Once(rows) == \A n \in Announcements : \A i, j \in 1..Len(rows) : rows[i] = n /\ rows[j] = n => i = j

NoteType == [pc : {"ensure", "append", "again", "push", "ok", "failed"}, session : 0..MaxSystem,
             left : SUBSET Viewers, names : 0..MaxSystem]
ViewerType == [view : 0..MaxSystem, shown : Seq(Notes),
               page : [of : 0..MaxSystem, rows : Seq(Notes)], stale : BOOLEAN]

\* Rows are only in the open session; a headless run that holds the gate keeps
\* that session open until it has named it.
RowsAreOf == \A s \in Inboxes, n \in Notes :
               In(n, log[s]) => note[n].pc \in {"again", "push", "ok"} /\ note[n].session = s
StepsInv ==
  /\ \A n \in Notes : note[n].pc # "ensure" => note[n].session \in 1..opened
  /\ \A n \in Announcements : note[n].pc # "again"
  /\ \A n \in Notes : note[n].pc \in {"push", "ok"} => note[n].names = note[n].session
  /\ \A n \in Notes : note[n].pc = "ok" => note[n].left = {}
  /\ \A n \in Headless : /\ note[n].pc \in {"append", "again", "push"} => runner = n
                         /\ note[n].pc \in {"append", "again"} => inbox = note[n].session
LogInv ==
  /\ opened \in 0..MaxSystem /\ inbox \in 0..opened
  /\ log \in [Inboxes -> Seq(Notes)] /\ note \in [Notes -> NoteType]
  /\ \A s \in Inboxes : Once(log[s]) /\ (s # inbox => log[s] = <<>>)
  /\ RowsAreOf
  /\ StepsInv

\* A tab that views the open session and waits for no page shows a notice of it
\* or has still to be reached.
ViewersInv ==
  /\ viewer \in [Viewers -> ViewerType]
  /\ \A t \in Viewers :
       /\ Once(viewer[t].shown) /\ Once(viewer[t].page.rows)
       /\ viewer[t].view \in {0, inbox}
       /\ viewer[t].page # NoPage => viewer[t].view \in {0, viewer[t].page.of}
       /\ \A n \in Announcements :
            /\ note[n].pc \in {"push", "ok"} /\ viewer[t].view = note[n].session
            /\ viewer[t].page = NoPage /\ ~viewer[t].stale
            /\ inbox # 0 /\ In(n, log[inbox])
            => t \in note[n].left \/ In(n, viewer[t].shown)

NoticesInv == LogInv /\ ViewersInv

\* What Occurs counts in rows that hold no announcement twice.
LEMMA OccursCounts ==
  ASSUME NEW rows \in Seq(Notes), Once(rows), NEW n \in Announcements
  PROVE  /\ Occurs(n, rows) \in {0, 1}
         /\ Occurs(n, rows) > 0 <=> In(n, rows)
         /\ Occurs(n, rows) = 1 <=> In(n, rows)
<1> DEFINE I == {i \in DOMAIN rows : rows[i] = n}
<1>1. DOMAIN rows = 1..Len(rows)
  OBVIOUS
<1>2. I = {} <=> ~In(n, rows)
  BY <1>1 DEF In
<1>3. I = {} \/ \E i : I = {i}
  BY <1>1 DEF Once
<1>4. Occurs(n, rows) = Cardinality(I)
  BY DEF Occurs
<1> HIDE DEF I
<1>5. IF I = {} THEN Cardinality(I) = 0 ELSE Cardinality(I) = 1
  BY <1>3, FS_EmptySet, FS_Singleton
<1>. QED BY <1>2, <1>4, <1>5

\* Old rows may be pruned, nothing else changes.
LEMMA KeptIsEnd ==
  ASSUME NEW S, NEW rows \in Seq(S)
  PROVE  /\ Kept(rows) \in Seq(S)
         /\ \A x : In(x, Kept(rows)) => In(x, rows)
         /\ Once(rows) => Once(Kept(rows))
<1> DEFINE m == IF Len(rows) > KeptRows THEN Len(rows) - KeptRows + 1 ELSE 1
           r == SubSeq(rows, m, Len(rows))
<1>1. m \in Int /\ m >= 1 /\ m <= Len(rows) + 1 /\ Len(rows) \in Nat
  BY NoticesAssumption
<1>2. /\ r \in Seq(S) /\ Len(r) = IF m <= Len(rows) THEN Len(rows) - m + 1 ELSE 0
      /\ \A i \in 1..(Len(rows) - m + 1) : r[i] = rows[m + i - 1]
  <2>1. \A i \in m..Len(rows) : rows[i] \in S
    BY <1>1
  <2> HIDE DEF m
  <2>. QED BY <1>1, <2>1, SubSeqProperties
<1>3. Kept(rows) = r
  BY DEF Kept
<1> HIDE DEF m, r
<1>4. \A i \in 1..Len(r) : m + i - 1 \in 1..Len(rows) /\ r[i] = rows[m + i - 1]
  BY <1>1, <1>2
<1>5. ASSUME NEW x, In(x, r) PROVE In(x, rows)
  <2>1. PICK i \in 1..Len(r) : r[i] = x
    BY <1>5 DEF In
  <2>. QED BY <1>4, <2>1 DEF In
<1>6. ASSUME Once(rows) PROVE Once(r)
  <2> SUFFICES ASSUME NEW n \in Announcements, NEW i \in 1..Len(r), NEW j \in 1..Len(r),
                      r[i] = n, r[j] = n
               PROVE  i = j
    BY DEF Once
  <2>1. m + i - 1 = m + j - 1
    BY <1>4, <1>6 DEF Once
  <2>. QED BY <1>1, <2>1
<1>. QED BY <1>2, <1>3, <1>5, <1>6

\* A row more, of one who was not there.
LEMMA AppendOnce ==
  ASSUME NEW S, NEW rows \in Seq(S), NEW n \in S
  PROVE  /\ Append(rows, n) \in Seq(S)
         /\ \A x : In(x, Append(rows, n)) <=> x = n \/ In(x, rows)
         /\ Once(rows) /\ (n \in Announcements => ~In(n, rows)) => Once(Append(rows, n))
<1> DEFINE r == Append(rows, n)
           k == Len(rows)
<1>1. /\ r \in Seq(S) /\ k \in Nat /\ Len(r) = k + 1 /\ r[k + 1] = n
      /\ \A i \in 1..k : r[i] = rows[i]
  OBVIOUS
<1> HIDE DEF r
<1>2. \A i \in 1..Len(r) : i \in 1..k \/ i = k + 1
  BY <1>1
<1>3. \A i \in 1..k : i \in 1..Len(r)
  BY <1>1
<1>4. k + 1 \in 1..Len(r)
  BY <1>1
<1>5. ASSUME NEW x PROVE In(x, r) <=> x = n \/ In(x, rows)
  <2>1. ASSUME In(x, r) PROVE x = n \/ In(x, rows)
    BY <1>1, <1>2, <2>1 DEF In, k
  <2>2. ASSUME In(x, rows) PROVE In(x, r)
    BY <1>1, <1>3, <2>2 DEF In, k
  <2>3. In(n, r)
    BY <1>1, <1>4 DEF In
  <2>. QED BY <2>1, <2>2, <2>3
<1>6. ASSUME Once(rows), n \in Announcements => ~In(n, rows) PROVE Once(r)
  <2> SUFFICES ASSUME NEW x \in Announcements, NEW i \in 1..Len(r), NEW j \in 1..Len(r),
                      r[i] = x, r[j] = x
               PROVE  i = j
    BY DEF Once
  <2>1. CASE i \in 1..k /\ j \in 1..k
    BY <1>1, <1>6, <2>1 DEF Once, k
  <2>2. CASE i \notin 1..k /\ j \notin 1..k
    BY <1>2, <2>2
  <2>3. CASE i \in 1..k /\ j \notin 1..k
    BY <1>1, <1>2, <1>6, <2>3 DEF In, k
  <2>4. CASE i \notin 1..k /\ j \in 1..k
    BY <1>1, <1>2, <1>6, <2>4 DEF In, k
  <2>. QED BY <2>1, <2>2, <2>3, <2>4
<1>. QED BY <1>1, <1>5, <1>6 DEF r

LEMMA NoticesInvInit == NoticesInit => NoticesInv
<1> SUFFICES ASSUME NoticesInit PROVE NoticesInv
  OBVIOUS
<1>1. /\ \A s \in Inboxes : log[s] = <<>>
      /\ Len(<<>>) = 0 /\ <<>> \in Seq(Notes)
  BY DEF NoticesInit
<1>2. LogInv
  <2>1. log \in [Inboxes -> Seq(Notes)] /\ note \in [Notes -> NoteType]
    BY <1>1, NoticesAssumption DEF NoticesInit, NoteType
  <2>. QED BY <1>1, <2>1, NoticesAssumption DEF NoticesInit, LogInv, RowsAreOf, StepsInv, Once, In, Notes
<1>3. ViewersInv
  <2>1. viewer \in [Viewers -> ViewerType]
    BY <1>1, NoticesAssumption DEF NoticesInit, ViewerType, NoPage
  <2>. QED BY <1>1, <2>1 DEF NoticesInit, ViewersInv, Once, NoPage, Notes
<1>. QED BY <1>2, <1>3 DEF NoticesInv

\* What a notice does to the tabs it does not reach.
LEMMA ViewersKept ==
  ASSUME NoticesInv, viewer' = viewer, inbox' = inbox \/ inbox = 0,
         \A n \in Announcements : note'[n].pc \in {"push", "ok"} /\ inbox' # 0 /\ In(n, log'[inbox']) =>
           \/ note'[n].left = Viewers
           \/ /\ note[n].pc \in {"push", "ok"} /\ note'[n].session = note[n].session
              /\ note'[n].left = note[n].left
              /\ inbox' = inbox /\ In(n, log[inbox])
  PROVE  ViewersInv'
<1>1. ASSUME NEW t \in Viewers
      PROVE  /\ Once(viewer'[t].shown) /\ Once(viewer'[t].page.rows)
             /\ viewer'[t].view \in {0, inbox'}
             /\ viewer'[t].page # NoPage => viewer'[t].view \in {0, viewer'[t].page.of}
             /\ \A n \in Announcements :
                  /\ note'[n].pc \in {"push", "ok"} /\ viewer'[t].view = note'[n].session
                  /\ viewer'[t].page = NoPage /\ ~viewer'[t].stale
                  /\ inbox' # 0 /\ In(n, log'[inbox'])
                  => t \in note'[n].left \/ In(n, viewer'[t].shown)
  <2>1. viewer'[t] = viewer[t]
    OBVIOUS
  <2>2. /\ Once(viewer[t].shown) /\ Once(viewer[t].page.rows)
        /\ viewer[t].view \in {0, inbox'}
        /\ viewer[t].page # NoPage => viewer[t].view \in {0, viewer[t].page.of}
    BY DEF NoticesInv, ViewersInv
  <2>3. ASSUME NEW n \in Announcements,
               note'[n].pc \in {"push", "ok"}, viewer[t].view = note'[n].session,
               viewer[t].page = NoPage, ~viewer[t].stale,
               inbox' # 0, In(n, log'[inbox'])
        PROVE  t \in note'[n].left \/ In(n, viewer[t].shown)
    BY <2>3 DEF NoticesInv, ViewersInv
  <2>. QED BY <2>1, <2>2, <2>3
<1>2. viewer' \in [Viewers -> ViewerType]
  BY DEF NoticesInv, ViewersInv
<1>. QED BY <1>1, <1>2 DEF ViewersInv

\* ensure_system_session finds the open session or opens the next.
LEMMA EnsuredSession ==
  ASSUME LogInv, NEW s \in Inboxes, Ensured(s)
  PROVE  /\ s = inbox' /\ inbox' # 0 /\ s \in 0..MaxSystem
         /\ opened' \in 0..MaxSystem /\ inbox' \in 1..opened' /\ opened <= opened'
         /\ inbox' = inbox \/ inbox = 0
         /\ \A k \in Inboxes : k # inbox' => log[k] = <<>>
         /\ inbox = 0 => \A k \in Inboxes : log[k] = <<>>
<1>1. opened \in Nat /\ inbox \in Nat /\ inbox <= opened /\ MaxSystem \in Nat
  BY NoticesAssumption DEF LogInv, RowsAreOf, StepsInv
<1>2. CASE inbox # 0
  BY <1>1, <1>2 DEF Ensured, LogInv, Inboxes
<1>3. CASE inbox = 0
  <2>1. opened < MaxSystem /\ s = opened + 1 /\ inbox' = s /\ opened' = s
    BY <1>3 DEF Ensured
  <2>2. \A k \in Inboxes : k # inbox
    BY <1>3 DEF Inboxes
  <2>. QED BY <1>1, <1>3, <2>1, <2>2 DEF LogInv, RowsAreOf, StepsInv, Inboxes
<1>. QED BY <1>2, <1>3

LEMMA EnsureKeeps ==
  ASSUME NoticesInv, NEW n \in Notes, EnsureInbox(n)
  PROVE  NoticesInv'
<1>0. LogInv /\ note \in [Notes -> NoteType] /\ opened \in Nat
  BY NoticesAssumption DEF NoticesInv, LogInv
<1>1. PICK s \in Inboxes : Ensured(s) /\ note' = [note EXCEPT ![n].pc = "append", ![n].session = s]
  BY DEF EnsureInbox
<1>2. /\ note[n].pc = "ensure" /\ (n \in Headless => runner = None)
      /\ runner' = IF n \in Headless THEN n ELSE runner
      /\ UNCHANGED <<log, viewer>>
  BY DEF EnsureInbox
<1>3. /\ s = inbox' /\ inbox' # 0 /\ s \in 0..MaxSystem
      /\ opened' \in 0..MaxSystem /\ inbox' \in 1..opened' /\ opened <= opened'
      /\ inbox' = inbox \/ inbox = 0
      /\ \A k \in Inboxes : k # inbox' => log[k] = <<>>
      /\ inbox = 0 => \A k \in Inboxes : log[k] = <<>>
  BY <1>0, <1>1, EnsuredSession
<1>4. /\ note' \in [Notes -> NoteType]
      /\ note'[n].pc = "append" /\ note'[n].session = inbox'
      /\ \A m \in Notes \ {n} : note'[m] = note[m]
  BY <1>0, <1>1, <1>3 DEF NoteType
<1>5. \A m \in Notes : note[m].pc # "ensure" => note[m].session \in 1..opened'
  <2>1. \A m \in Notes : note[m].pc # "ensure" => note[m].session \in 1..opened
    BY <1>0 DEF LogInv, RowsAreOf, StepsInv
  <2>. QED BY <1>0, <1>3, <2>1
<1>6. \A k \in Inboxes : ~In(n, log[k])
  BY <1>0, <1>2 DEF LogInv, RowsAreOf, StepsInv
<1>7. \A m \in Headless \ {n} : /\ note'[m].pc \in {"append", "again", "push"} => runner' = m
                                /\ note'[m].pc \in {"append", "again"} => inbox' = note'[m].session
  <2> SUFFICES ASSUME NEW m \in Headless \ {n}
               PROVE  /\ note'[m].pc \in {"append", "again", "push"} => runner' = m
                      /\ note'[m].pc \in {"append", "again"} => inbox' = note'[m].session
    OBVIOUS
  <2>1. note'[m] = note[m] /\ m \in Notes
    BY <1>4 DEF Notes
  <2>2. note[m].pc \in {"append", "again", "push"} => runner = m /\ runner' = runner
    BY <1>0, <1>2, NoticesAssumption DEF LogInv, RowsAreOf, StepsInv
  <2>3. note[m].pc \in {"append", "again"} => inbox = note[m].session /\ inbox # 0
    BY <1>0, <2>1 DEF LogInv, RowsAreOf, StepsInv
  <2>. QED BY <1>3, <2>1, <2>2, <2>3
<1>8. /\ n \notin {m \in Notes : note'[m].pc \in {"again", "push", "ok"}}
      /\ \A m \in Notes : note'[m].pc \in {"again", "push", "ok"} => note'[m] = note[m]
  BY <1>4
<1>9. LogInv'
  <2>1. /\ opened' \in 0..MaxSystem /\ inbox' \in 0..opened'
    BY <1>3
  <2>2. \A k \in Inboxes : Once(log'[k]) /\ (k # inbox' => log'[k] = <<>>)
    BY <1>0, <1>2, <1>3 DEF LogInv, RowsAreOf, StepsInv
  <2>3. \A k \in Inboxes, m \in Notes :
          In(m, log'[k]) => note'[m].pc \in {"again", "push", "ok"} /\ note'[m].session = k
    BY <1>0, <1>2, <1>4, <1>6 DEF LogInv, RowsAreOf, StepsInv
  <2>4. \A m \in Notes : note'[m].pc # "ensure" => note'[m].session \in 1..opened'
    BY <1>3, <1>4, <1>5
  <2>5. \A m \in Announcements : note'[m].pc # "again"
    BY <1>0, <1>4 DEF LogInv, RowsAreOf, StepsInv, Notes
  <2>6. /\ \A m \in Notes : note'[m].pc \in {"push", "ok"} => note'[m].names = note'[m].session
        /\ \A m \in Notes : note'[m].pc = "ok" => note'[m].left = {}
    BY <1>0, <1>8 DEF LogInv, RowsAreOf, StepsInv
  <2>7. \A m \in Headless : /\ note'[m].pc \in {"append", "again", "push"} => runner' = m
                            /\ note'[m].pc \in {"append", "again"} => inbox' = note'[m].session
    BY <1>2, <1>4, <1>7
  <2>8. log' \in [Inboxes -> Seq(Notes)]
    BY <1>0, <1>2 DEF LogInv, RowsAreOf, StepsInv
  <2>. QED BY <1>4, <2>1, <2>2, <2>3, <2>4, <2>5, <2>6, <2>7, <2>8 DEF LogInv, RowsAreOf, StepsInv
<1>10. ViewersInv'
  <2>1. ASSUME NEW m \in Announcements, note'[m].pc \in {"push", "ok"}, inbox' # 0, In(m, log'[inbox'])
        PROVE  /\ note[m].pc \in {"push", "ok"} /\ note'[m] = note[m]
               /\ inbox' = inbox /\ In(m, log[inbox])
    <3>1. m \in Notes /\ note'[m] = note[m]
      BY <1>8, <2>1 DEF Notes
    <3>2. inbox' \in Inboxes /\ log' = log
      BY <1>1, <1>2, <1>3
    <3>3. log[inbox'] # <<>>
      BY <2>1, <3>2 DEF In
    <3>. QED BY <1>3, <2>1, <3>1, <3>2, <3>3
  <2>. QED BY <1>2, <1>3, <2>1, ViewersKept
<1>. QED BY <1>9, <1>10 DEF NoticesInv

LEMMA AppendKeeps ==
  ASSUME NoticesInv, NEW n \in Notes, AppendRow(n)
  PROVE  NoticesInv'
<1> DEFINE s == note[n].session
           rows == Kept(Append(log[s], n))
           p == IF n \in Headless THEN "again" ELSE "push"
           rest == IF n \in Headless THEN {} ELSE Viewers
<1>0. LogInv /\ note \in [Notes -> NoteType] /\ opened \in Nat /\ inbox \in 0..opened
  BY NoticesAssumption DEF NoticesInv, LogInv
<1>1. /\ note[n].pc = "append" /\ s = inbox
      /\ log' = [log EXCEPT ![s] = rows]
      /\ note' = [note EXCEPT ![n].pc = p, ![n].names = s, ![n].left = rest]
      /\ UNCHANGED <<inbox, opened, runner, viewer, sent>>
  BY DEF AppendRow, MayAppend
<1>2. s \in 1..opened /\ s \in Inboxes /\ s \in 0..MaxSystem
  BY <1>0, <1>1, NoticesAssumption DEF LogInv, RowsAreOf, StepsInv, Inboxes
<1>3. log[s] \in Seq(Notes) /\ Once(log[s]) /\ ~In(n, log[s])
  BY <1>0, <1>1, <1>2 DEF LogInv, RowsAreOf, StepsInv
<1>4. rows \in Seq(Notes) /\ Once(rows) /\ \A m : In(m, rows) => m = n \/ In(m, log[s])
  <2> DEFINE more == Append(log[s], n)
  <2>1. more \in Seq(Notes) /\ Once(more) /\ \A m : In(m, more) <=> m = n \/ In(m, log[s])
    <3> HIDE DEF s
    <3>. QED BY <1>3, AppendOnce
  <2> HIDE DEF more
  <2>2. /\ Kept(more) \in Seq(Notes) /\ Once(Kept(more))
        /\ \A m : In(m, Kept(more)) => In(m, more)
    BY <2>1, KeptIsEnd
  <2>3. rows = Kept(more)
    BY DEF more
  <2>. QED BY <2>1, <2>2, <2>3
<1>5. /\ note' \in [Notes -> NoteType]
      /\ note'[n].pc = p /\ note'[n].session = s /\ note'[n].names = s /\ note'[n].left = rest
      /\ \A m \in Notes \ {n} : note'[m] = note[m]
  BY <1>0, <1>1, <1>2 DEF NoteType
<1>6. log' \in [Inboxes -> Seq(Notes)] /\ log'[s] = rows /\ \A k \in Inboxes \ {s} : log'[k] = log[k]
  BY <1>0, <1>1, <1>2, <1>4 DEF LogInv, RowsAreOf, StepsInv
<1> HIDE DEF rows
<1>7. LogInv'
  <2>1. \A k \in Inboxes : Once(log'[k]) /\ (k # inbox' => log'[k] = <<>>)
    BY <1>0, <1>1, <1>4, <1>6 DEF LogInv, RowsAreOf, StepsInv
  <2>2. ASSUME NEW k \in Inboxes, NEW m \in Notes, In(m, log'[k])
        PROVE  note'[m].pc \in {"again", "push", "ok"} /\ note'[m].session = k
    <3>1. (m = n /\ k = s) \/ In(m, log[k])
      BY <1>4, <1>6, <2>2
    <3>2. In(m, log[k]) => m # n
      BY <1>0, <1>1 DEF LogInv, RowsAreOf, StepsInv
    <3>3. CASE m = n /\ k = s
      BY <1>5, <3>3
    <3>4. CASE In(m, log[k])
      BY <1>0, <1>5, <3>2, <3>4 DEF LogInv, RowsAreOf, StepsInv
    <3>. QED BY <3>1, <3>3, <3>4
  <2>3. \A m \in Notes : note'[m].pc # "ensure" => note'[m].session \in 1..opened
    BY <1>0, <1>2, <1>5 DEF LogInv, RowsAreOf, StepsInv
  <2>4. \A m \in Announcements : note'[m].pc # "again"
    BY <1>0, <1>5, NoticesAssumption DEF LogInv, RowsAreOf, StepsInv, Notes
  <2>5. /\ \A m \in Notes : note'[m].pc \in {"push", "ok"} => note'[m].names = note'[m].session
        /\ \A m \in Notes : note'[m].pc = "ok" => note'[m].left = {}
    BY <1>0, <1>5 DEF LogInv, RowsAreOf, StepsInv
  <2>6. \A m \in Headless : /\ note'[m].pc \in {"append", "again", "push"} => runner = m
                            /\ note'[m].pc \in {"append", "again"} => inbox = note'[m].session
    BY <1>0, <1>1, <1>5 DEF LogInv, RowsAreOf, StepsInv, Notes
  <2>. QED BY <1>0, <1>1, <1>5, <1>6, <2>1, <2>2, <2>3, <2>4, <2>5, <2>6 DEF LogInv, RowsAreOf, StepsInv
<1>8. ViewersInv'
  <2>1. ASSUME NEW m \in Announcements, note'[m].pc \in {"push", "ok"}, inbox' # 0, In(m, log'[inbox'])
        PROVE  \/ note'[m].left = Viewers
               \/ /\ note[m].pc \in {"push", "ok"} /\ note'[m].session = note[m].session
                  /\ note'[m].left = note[m].left
                  /\ inbox' = inbox /\ In(m, log[inbox])
    <3>1. CASE m = n
      BY <1>5, <3>1, NoticesAssumption
    <3>2. CASE m # n
      BY <1>1, <1>4, <1>5, <1>6, <2>1, <3>2 DEF Notes
    <3>. QED BY <3>1, <3>2
  <2>. QED BY <1>1, <2>1, ViewersKept
<1>. QED BY <1>7, <1>8 DEF NoticesInv

LEMMA FailKeeps ==
  ASSUME NoticesInv, NEW n \in Notes, NoticeFails(n)
  PROVE  NoticesInv'
<1>0. LogInv /\ note \in [Notes -> NoteType]
  BY DEF NoticesInv, LogInv
<1>1. /\ note[n].pc = "append" /\ note' = [note EXCEPT ![n].pc = "failed"]
      /\ runner' = IF n \in Headless THEN None ELSE runner
      /\ UNCHANGED <<inbox, opened, log, viewer, sent>>
  BY DEF NoticeFails
<1>2. /\ note' \in [Notes -> NoteType]
      /\ note'[n].pc = "failed" /\ note'[n].session = note[n].session
      /\ \A m \in Notes \ {n} : note'[m] = note[m]
  BY <1>0, <1>1 DEF NoteType
<1>3. \A k \in Inboxes : ~In(n, log[k])
  BY <1>0, <1>1 DEF LogInv, RowsAreOf, StepsInv
<1>4. LogInv'
  <2>1. \A k \in Inboxes, m \in Notes :
          In(m, log[k]) => note'[m].pc \in {"again", "push", "ok"} /\ note'[m].session = k
    BY <1>0, <1>2, <1>3 DEF LogInv, RowsAreOf
  <2>2. \A m \in Notes : note'[m].pc # "ensure" => note'[m].session \in 1..opened
    BY <1>0, <1>1, <1>2 DEF LogInv, RowsAreOf, StepsInv
  <2>3. \A m \in Announcements : note'[m].pc # "again"
    BY <1>0, <1>2 DEF LogInv, RowsAreOf, StepsInv, Notes
  <2>4. /\ \A m \in Notes : note'[m].pc \in {"push", "ok"} => note'[m].names = note'[m].session
        /\ \A m \in Notes : note'[m].pc = "ok" => note'[m].left = {}
    BY <1>0, <1>2 DEF LogInv, StepsInv
  <2>5. ASSUME NEW m \in Headless
        PROVE  /\ note'[m].pc \in {"append", "again", "push"} => runner' = m
               /\ note'[m].pc \in {"append", "again"} => inbox = note'[m].session
    <3>1. n \in Headless => runner = n
      BY <1>0, <1>1 DEF LogInv, RowsAreOf, StepsInv
    <3>. QED BY <1>0, <1>1, <1>2, <3>1 DEF LogInv, RowsAreOf, StepsInv, Notes
  <2>. QED BY <1>0, <1>1, <1>2, <2>1, <2>2, <2>3, <2>4, <2>5 DEF LogInv, RowsAreOf, StepsInv
<1>5. ViewersInv'
  <2>1. ASSUME NEW m \in Announcements, note'[m].pc \in {"push", "ok"}, inbox' # 0, In(m, log'[inbox'])
        PROVE  /\ note[m].pc \in {"push", "ok"} /\ note'[m] = note[m]
               /\ inbox' = inbox /\ In(m, log[inbox])
    BY <1>1, <1>2, <2>1 DEF Notes
  <2>. QED BY <1>1, <2>1, ViewersKept
<1>. QED BY <1>4, <1>5 DEF NoticesInv

LEMMA AgainKeeps ==
  ASSUME NoticesInv, NEW n \in Notes, EnsureAgain(n)
  PROVE  NoticesInv'
<1>0. LogInv /\ note \in [Notes -> NoteType] /\ opened \in Nat /\ inbox \in 0..opened
  BY NoticesAssumption DEF NoticesInv, LogInv
<1>1. PICK s \in Inboxes :
        Ensured(s) /\ note' = [note EXCEPT ![n].pc = "push", ![n].names = s, ![n].left = Viewers]
  BY DEF EnsureAgain
<1>2. note[n].pc = "again" /\ UNCHANGED <<log, runner, viewer, sent>>
  BY DEF EnsureAgain
<1>3. n \in Headless /\ runner = n /\ inbox = note[n].session /\ inbox # 0
  BY <1>0, <1>2 DEF LogInv, RowsAreOf, StepsInv, Notes
<1>4. s = inbox /\ inbox' = inbox /\ opened' = opened /\ s \in 0..MaxSystem
  BY <1>1, <1>3 DEF Ensured, Inboxes
<1>5. /\ note' \in [Notes -> NoteType]
      /\ note'[n].pc = "push" /\ note'[n].session = inbox /\ note'[n].names = inbox
      /\ \A m \in Notes \ {n} : note'[m] = note[m]
  BY <1>0, <1>1, <1>3, <1>4 DEF NoteType
<1>6. LogInv'
  <2>1. \A k \in Inboxes, m \in Notes :
          In(m, log[k]) => note'[m].pc \in {"again", "push", "ok"} /\ note'[m].session = k
    BY <1>0, <1>3, <1>5 DEF LogInv, RowsAreOf
  <2>2. \A m \in Notes : note'[m].pc # "ensure" => note'[m].session \in 1..opened
    BY <1>0, <1>3, <1>5 DEF LogInv, RowsAreOf, StepsInv
  <2>3. \A m \in Announcements : note'[m].pc # "again"
    BY <1>0, <1>5 DEF LogInv, RowsAreOf, StepsInv, Notes
  <2>4. /\ \A m \in Notes : note'[m].pc \in {"push", "ok"} => note'[m].names = note'[m].session
        /\ \A m \in Notes : note'[m].pc = "ok" => note'[m].left = {}
    BY <1>0, <1>5 DEF LogInv, RowsAreOf, StepsInv
  <2>5. \A m \in Headless : /\ note'[m].pc \in {"append", "again", "push"} => runner = m
                            /\ note'[m].pc \in {"append", "again"} => inbox = note'[m].session
    BY <1>0, <1>3, <1>5 DEF LogInv, RowsAreOf, StepsInv, Notes
  <2>. QED BY <1>0, <1>2, <1>4, <1>5, <2>1, <2>2, <2>3, <2>4, <2>5 DEF LogInv, RowsAreOf, StepsInv
<1>7. ViewersInv'
  <2>1. ASSUME NEW m \in Announcements, note'[m].pc \in {"push", "ok"}, inbox' # 0, In(m, log'[inbox'])
        PROVE  /\ note[m].pc \in {"push", "ok"} /\ note'[m] = note[m]
               /\ inbox' = inbox /\ In(m, log[inbox])
    BY <1>2, <1>3, <1>4, <1>5, <2>1, NoticesAssumption DEF Notes
  <2>. QED BY <1>2, <1>4, <2>1, ViewersKept
<1>. QED BY <1>6, <1>7 DEF NoticesInv

LEMMA PushKeeps ==
  ASSUME NoticesInv, NEW n \in Notes, NEW t \in Viewers, PushTab(n, t)
  PROVE  NoticesInv'
<1> DEFINE rows == IF viewer[t].view = note[n].names THEN WithNote(n, viewer[t].shown) ELSE viewer[t].shown
<1>0. LogInv /\ note \in [Notes -> NoteType] /\ ViewersInv /\ viewer \in [Viewers -> ViewerType]
  BY DEF NoticesInv, LogInv, RowsAreOf, StepsInv, ViewersInv
<1>1. /\ note[n].pc = "push" /\ t \in note[n].left
      /\ note' = [note EXCEPT ![n].left = note[n].left \ {t}]
      /\ viewer' = [viewer EXCEPT ![t].shown = rows]
      /\ UNCHANGED <<inbox, opened, log, runner, sent>>
  BY DEF PushTab
<1>2. viewer[t].shown \in Seq(Notes) /\ Once(viewer[t].shown)
  BY <1>0 DEF ViewersInv, ViewerType
<1>3. /\ rows \in Seq(Notes) /\ Once(rows)
      /\ \A m : In(m, viewer[t].shown) => In(m, rows)
      /\ viewer[t].view = note[n].names /\ n \in Announcements => In(n, rows)
  <2> DEFINE more == Append(viewer[t].shown, n)
             old == viewer[t].shown
  <2>1. n \in Announcements => (Occurs(n, old) > 0 <=> In(n, old))
    BY <1>2, OccursCounts
  <2>2. rows \in {old, more} /\ (rows = more /\ rows # old => (n \in Announcements => ~In(n, old)))
    BY <2>1 DEF WithNote
  <2>3. /\ more \in Seq(Notes) /\ \A m : In(m, more) <=> m = n \/ In(m, old)
        /\ (n \in Announcements => ~In(n, old)) => Once(more)
    <3> HIDE DEF old
    <3>. QED BY <1>2, AppendOnce DEF old
  <2>4. viewer[t].view = note[n].names /\ n \in Announcements => In(n, rows)
    BY <2>1, <2>3 DEF WithNote
  <2> HIDE DEF rows, more
  <2>. QED BY <1>2, <2>2, <2>3, <2>4
<1> HIDE DEF rows
<1>4. /\ note' \in [Notes -> NoteType]
      /\ note'[n].pc = "push" /\ note'[n].session = note[n].session /\ note'[n].names = note[n].names
      /\ note'[n].left = note[n].left \ {t}
      /\ \A m \in Notes \ {n} : note'[m] = note[m]
  BY <1>0, <1>1 DEF NoteType
<1>5. /\ viewer' \in [Viewers -> ViewerType]
      /\ viewer'[t].view = viewer[t].view /\ viewer'[t].page = viewer[t].page
      /\ viewer'[t].stale = viewer[t].stale /\ viewer'[t].shown = rows
      /\ \A v \in Viewers \ {t} : viewer'[v] = viewer[v]
  BY <1>0, <1>1, <1>3 DEF ViewerType
<1>6. LogInv'
  <2>1. \A k \in Inboxes, m \in Notes :
          In(m, log[k]) => note'[m].pc \in {"again", "push", "ok"} /\ note'[m].session = k
    BY <1>0, <1>4 DEF LogInv, RowsAreOf, StepsInv
  <2>2. \A m \in Notes : note'[m].pc # "ensure" => note'[m].session \in 1..opened
    BY <1>0, <1>1, <1>4 DEF LogInv, RowsAreOf, StepsInv
  <2>3. \A m \in Announcements : note'[m].pc # "again"
    BY <1>0, <1>4 DEF LogInv, RowsAreOf, StepsInv, Notes
  <2>4. /\ \A m \in Notes : note'[m].pc \in {"push", "ok"} => note'[m].names = note'[m].session
        /\ \A m \in Notes : note'[m].pc = "ok" => note'[m].left = {}
    BY <1>0, <1>1, <1>4 DEF LogInv, RowsAreOf, StepsInv
  <2>5. \A m \in Headless : /\ note'[m].pc \in {"append", "again", "push"} => runner = m
                            /\ note'[m].pc \in {"append", "again"} => inbox = note'[m].session
    BY <1>0, <1>1, <1>4 DEF LogInv, RowsAreOf, StepsInv, Notes
  <2>. QED BY <1>0, <1>1, <1>4, <2>1, <2>2, <2>3, <2>4, <2>5 DEF LogInv, RowsAreOf, StepsInv
<1>7. ViewersInv'
  <2>1. ASSUME NEW v \in Viewers
        PROVE  /\ Once(viewer'[v].shown) /\ Once(viewer'[v].page.rows)
               /\ viewer'[v].view \in {0, inbox'}
               /\ viewer'[v].page # NoPage => viewer'[v].view \in {0, viewer'[v].page.of}
    BY <1>0, <1>1, <1>3, <1>5 DEF ViewersInv
  <2>2. ASSUME NEW v \in Viewers, NEW m \in Announcements,
               note'[m].pc \in {"push", "ok"}, viewer'[v].view = note'[m].session,
               viewer'[v].page = NoPage, ~viewer'[v].stale,
               inbox' # 0, In(m, log'[inbox'])
        PROVE  v \in note'[m].left \/ In(m, viewer'[v].shown)
    <3>1. m \in Notes /\ note'[m].pc = note[m].pc /\ note'[m].session = note[m].session
      BY <1>1, <1>4 DEF Notes
    <3>2. v \in note[m].left \/ In(m, viewer[v].shown)
      BY <1>0, <1>1, <1>5, <2>2, <3>1 DEF ViewersInv
    <3>3. In(m, viewer[v].shown) => In(m, viewer'[v].shown)
      BY <1>3, <1>5
    <3>4. CASE v = t /\ m = n
      <4>1. note[n].names = note[n].session
        BY <1>0, <1>1 DEF LogInv, RowsAreOf, StepsInv
      <4>2. viewer[t].view = note[n].names
        BY <1>5, <2>2, <3>1, <3>4, <4>1
      <4>. QED BY <1>3, <1>5, <3>4, <4>2
    <3>5. CASE ~(v = t /\ m = n)
      BY <1>4, <3>1, <3>2, <3>3, <3>5
    <3>. QED BY <3>4, <3>5
  <2>. QED BY <1>5, <2>1, <2>2 DEF ViewersInv
<1>. QED BY <1>6, <1>7 DEF NoticesInv

LEMMA EndNoticeKeeps ==
  ASSUME NoticesInv, NEW n \in Notes, EndNotice(n)
  PROVE  NoticesInv'
<1>0. LogInv /\ note \in [Notes -> NoteType]
  BY DEF NoticesInv, LogInv
<1>1. /\ note[n].pc = "push" /\ note[n].left = {} /\ note' = [note EXCEPT ![n].pc = "ok"]
      /\ runner' = IF n \in Headless THEN None ELSE runner
      /\ UNCHANGED <<inbox, opened, log, viewer, sent>>
  BY DEF EndNotice
<1>2. /\ note' \in [Notes -> NoteType]
      /\ note'[n].pc = "ok" /\ note'[n].session = note[n].session /\ note'[n].names = note[n].names
      /\ note'[n].left = note[n].left
      /\ \A m \in Notes \ {n} : note'[m] = note[m]
  BY <1>0, <1>1 DEF NoteType
<1>3. LogInv'
  <2>1. \A k \in Inboxes, m \in Notes :
          In(m, log[k]) => note'[m].pc \in {"again", "push", "ok"} /\ note'[m].session = k
    BY <1>0, <1>2 DEF LogInv, RowsAreOf, StepsInv
  <2>2. \A m \in Notes : note'[m].pc # "ensure" => note'[m].session \in 1..opened
    BY <1>0, <1>1, <1>2 DEF LogInv, RowsAreOf, StepsInv
  <2>3. \A m \in Announcements : note'[m].pc # "again"
    BY <1>0, <1>2 DEF LogInv, RowsAreOf, StepsInv, Notes
  <2>4. /\ \A m \in Notes : note'[m].pc \in {"push", "ok"} => note'[m].names = note'[m].session
        /\ \A m \in Notes : note'[m].pc = "ok" => note'[m].left = {}
    BY <1>0, <1>1, <1>2 DEF LogInv, RowsAreOf, StepsInv
  <2>5. ASSUME NEW m \in Headless
        PROVE  /\ note'[m].pc \in {"append", "again", "push"} => runner' = m
               /\ note'[m].pc \in {"append", "again"} => inbox = note'[m].session
    <3>1. n \in Headless => runner = n
      BY <1>0, <1>1 DEF LogInv, RowsAreOf, StepsInv
    <3>. QED BY <1>0, <1>1, <1>2, <3>1 DEF LogInv, RowsAreOf, StepsInv, Notes
  <2>. QED BY <1>0, <1>1, <1>2, <2>1, <2>2, <2>3, <2>4, <2>5 DEF LogInv, RowsAreOf, StepsInv
<1>4. ViewersInv'
  <2>1. ASSUME NEW m \in Announcements, note'[m].pc \in {"push", "ok"}, inbox' # 0, In(m, log'[inbox'])
        PROVE  /\ note[m].pc \in {"push", "ok"} /\ note'[m].session = note[m].session
               /\ note'[m].left = note[m].left /\ inbox' = inbox /\ In(m, log[inbox])
    BY <1>1, <1>2, <2>1 DEF Notes
  <2>. QED BY <1>1, <2>1, ViewersKept
<1>. QED BY <1>3, <1>4 DEF NoticesInv

LEMMA LoadKeeps ==
  ASSUME NoticesInv, NEW t \in Viewers, LoadInbox(t)
  PROVE  NoticesInv'
<1> DEFINE page == [of |-> inbox, rows |-> log[inbox]]
<1>0. LogInv /\ ViewersInv /\ viewer \in [Viewers -> ViewerType]
  BY DEF NoticesInv, ViewersInv
<1>1. /\ inbox # 0
      /\ viewer' = [viewer EXCEPT ![t] = [view |-> inbox, shown |-> <<>>, page |-> page, stale |-> FALSE]]
      /\ UNCHANGED <<inbox, opened, log, note, runner, sent>>
  BY DEF LoadInbox
<1>2. inbox \in Inboxes /\ inbox \in 0..MaxSystem
  BY <1>0, <1>1, NoticesAssumption DEF LogInv, RowsAreOf, StepsInv, Inboxes
<1>3. log[inbox] \in Seq(Notes) /\ Once(log[inbox]) /\ page # NoPage
  BY <1>0, <1>1, <1>2 DEF LogInv, RowsAreOf, StepsInv, NoPage
<1>4. <<>> \in Seq(Notes) /\ Once(<<>>)
  BY DEF Once
<1>5. /\ viewer' \in [Viewers -> ViewerType]
      /\ viewer'[t].view = inbox /\ viewer'[t].shown = <<>> /\ viewer'[t].page = page
      /\ \A v \in Viewers \ {t} : viewer'[v] = viewer[v]
  BY <1>0, <1>1, <1>2, <1>3, <1>4 DEF ViewerType
<1>6. LogInv'
  BY <1>0, <1>1 DEF LogInv, RowsAreOf, StepsInv
<1>7. ViewersInv'
  <2>1. ASSUME NEW v \in Viewers
        PROVE  /\ Once(viewer'[v].shown) /\ Once(viewer'[v].page.rows)
               /\ viewer'[v].view \in {0, inbox'}
               /\ viewer'[v].page # NoPage => viewer'[v].view \in {0, viewer'[v].page.of}
    BY <1>0, <1>1, <1>3, <1>4, <1>5 DEF ViewersInv
  <2>2. ASSUME NEW v \in Viewers, NEW m \in Announcements,
               note'[m].pc \in {"push", "ok"}, viewer'[v].view = note'[m].session,
               viewer'[v].page = NoPage, ~viewer'[v].stale,
               inbox' # 0, In(m, log'[inbox'])
        PROVE  v \in note'[m].left \/ In(m, viewer'[v].shown)
    <3>1. v # t
      BY <1>3, <1>5, <2>2
    <3>. QED BY <1>0, <1>1, <1>5, <2>2, <3>1 DEF ViewersInv
  <2>. QED BY <1>5, <2>1, <2>2 DEF ViewersInv
<1>. QED BY <1>6, <1>7 DEF NoticesInv

LEMMA ShowKeeps ==
  ASSUME NoticesInv, NEW t \in Viewers, ShowPage(t)
  PROVE  NoticesInv'
<1> DEFINE page == viewer[t].page
<1>0. LogInv /\ ViewersInv /\ viewer \in [Viewers -> ViewerType]
  BY DEF NoticesInv, ViewersInv
<1>1. /\ page # NoPage
      /\ viewer' = [viewer EXCEPT ![t].shown = page.rows, ![t].page = NoPage,
                                  ![t].stale = page.rows # log[page.of]]
      /\ UNCHANGED <<inbox, opened, log, note, runner, sent>>
  BY DEF ShowPage
<1>2. page.rows \in Seq(Notes) /\ Once(page.rows) /\ viewer[t].view \in {0, page.of}
  BY <1>0, <1>1 DEF ViewersInv, ViewerType
<1>3. NoPage \in [of : 0..MaxSystem, rows : Seq(Notes)] /\ NoPage.rows = <<>> /\ Once(<<>>)
  BY NoticesAssumption DEF NoPage, Once
<1>4. /\ viewer' \in [Viewers -> ViewerType]
      /\ viewer'[t].view = viewer[t].view /\ viewer'[t].shown = page.rows /\ viewer'[t].page = NoPage
      /\ viewer'[t].stale = (page.rows # log[page.of])
      /\ \A v \in Viewers \ {t} : viewer'[v] = viewer[v]
  BY <1>0, <1>1, <1>2, <1>3 DEF ViewerType
<1>5. LogInv'
  BY <1>0, <1>1 DEF LogInv, RowsAreOf, StepsInv
<1>6. ViewersInv'
  <2>1. ASSUME NEW v \in Viewers
        PROVE  /\ Once(viewer'[v].shown) /\ Once(viewer'[v].page.rows)
               /\ viewer'[v].view \in {0, inbox'}
               /\ viewer'[v].page # NoPage => viewer'[v].view \in {0, viewer'[v].page.of}
    BY <1>0, <1>1, <1>2, <1>3, <1>4 DEF ViewersInv
  <2>2. ASSUME NEW v \in Viewers, NEW m \in Announcements,
               note'[m].pc \in {"push", "ok"}, viewer'[v].view = note'[m].session,
               viewer'[v].page = NoPage, ~viewer'[v].stale,
               inbox' # 0, In(m, log'[inbox'])
        PROVE  v \in note'[m].left \/ In(m, viewer'[v].shown)
    <3>1. CASE v # t
      BY <1>0, <1>1, <1>4, <2>2, <3>1 DEF ViewersInv
    <3>2. CASE v = t
      <4>1. m \in Notes /\ note[m].session \in 1..opened
        BY <1>0, <1>1, <2>2 DEF LogInv, RowsAreOf, StepsInv, Notes
      <4>2. viewer[t].view # 0 /\ viewer[t].view = note[m].session
        BY <1>0, <1>1, <1>4, <2>2, <3>2, <4>1, NoticesAssumption DEF LogInv, RowsAreOf, StepsInv
      <4>3. viewer[t].view = inbox /\ page.of = inbox
        BY <1>0, <1>2, <4>2 DEF ViewersInv
      <4>. QED BY <1>1, <1>4, <2>2, <3>2, <4>3
    <3>. QED BY <3>1, <3>2
  <2>. QED BY <1>4, <2>1, <2>2 DEF ViewersInv
<1>. QED BY <1>5, <1>6 DEF NoticesInv

LEMMA DeleteKeeps ==
  ASSUME NoticesInv, DeleteInbox
  PROVE  NoticesInv'
<1>0. LogInv /\ ViewersInv /\ viewer \in [Viewers -> ViewerType]
  BY DEF NoticesInv, ViewersInv
<1>1. /\ inbox # 0 /\ runner = None /\ inbox' = 0 /\ log' = [log EXCEPT ![inbox] = <<>>]
      /\ viewer' = [t \in Viewers |-> [viewer[t] EXCEPT !.view = 0, !.shown = <<>>]]
      /\ UNCHANGED <<opened, note, runner, sent>>
  BY DEF DeleteInbox
<1>2. <<>> \in Seq(Notes) /\ Once(<<>>) /\ \A m : ~In(m, <<>>)
  BY DEF Once, In
<1>3. inbox \in Inboxes /\ opened \in Nat /\ 0 \in 0..MaxSystem
  <2>1. opened \in 0..MaxSystem /\ inbox \in 0..opened /\ inbox # 0 /\ MaxSystem \in Nat
    BY <1>0, <1>1, NoticesAssumption DEF LogInv, RowsAreOf, StepsInv
  <2>. QED BY <2>1 DEF Inboxes
<1>4. log' \in [Inboxes -> Seq(Notes)] /\ \A k \in Inboxes : log'[k] = <<>>
  BY <1>0, <1>1, <1>2, <1>3 DEF LogInv, RowsAreOf, StepsInv
<1>5. /\ viewer' \in [Viewers -> ViewerType]
      /\ \A v \in Viewers : /\ viewer'[v].view = 0 /\ viewer'[v].shown = <<>>
                            /\ viewer'[v].page = viewer[v].page
  BY <1>0, <1>1, <1>2, <1>3 DEF ViewerType
<1>6. LogInv'
  <2>1. \A m \in Headless : note[m].pc \notin {"append", "again", "push"}
    <3>1. \A m \in Headless : note[m].pc \in {"append", "again", "push"} => runner = m
      BY <1>0 DEF LogInv, RowsAreOf, StepsInv
    <3>. QED BY <1>1, <3>1, NoticesAssumption
  <2>2. opened \in 0..MaxSystem /\ note \in [Notes -> NoteType] /\ StepsInv
    BY <1>0 DEF LogInv
  <2>3. opened' \in 0..MaxSystem /\ inbox' \in 0..opened'
    <3>1. opened' = opened /\ inbox' = 0
      BY <1>1
    <3>2. 0 \in 0..opened
      BY <1>3
    <3>. QED BY <2>2, <3>1, <3>2
  <2>4. StepsInv'
    BY <1>1, <2>1, <2>2 DEF StepsInv
  <2>5. RowsAreOf'
    BY <1>2, <1>4 DEF RowsAreOf
  <2>. QED BY <1>1, <1>2, <1>4, <2>2, <2>3, <2>4, <2>5 DEF LogInv
<1>7. ViewersInv'
  <2>1. ASSUME NEW v \in Viewers
        PROVE  /\ Once(viewer'[v].shown) /\ Once(viewer'[v].page.rows)
               /\ viewer'[v].view \in {0, inbox'}
               /\ viewer'[v].page # NoPage => viewer'[v].view \in {0, viewer'[v].page.of}
    BY <1>0, <1>1, <1>2, <1>5 DEF ViewersInv
  <2>. QED BY <1>1, <1>5, <2>1 DEF ViewersInv
<1>. QED BY <1>6, <1>7 DEF NoticesInv

LEMMA NoticesInvStep ==
  ASSUME NoticesInv, NoticesNext \/ UNCHANGED noticeVars
  PROVE  NoticesInv'
<1>1. ASSUME NEW n \in Notes, PushTelegram(n) PROVE NoticesInv'
  BY <1>1 DEF NoticesInv, LogInv, RowsAreOf, StepsInv, ViewersInv, PushTelegram
<1>2. ASSUME NEW n \in Notes, NEW t \in Viewers, PushTab(n, t) PROVE NoticesInv'
  BY <1>2, PushKeeps
<1>3. ASSUME NEW n \in Notes, EnsureInbox(n) \/ AppendRow(n) \/ NoticeFails(n) \/ EnsureAgain(n) \/ EndNotice(n)
      PROVE  NoticesInv'
  BY <1>3, EnsureKeeps, AppendKeeps, FailKeeps, AgainKeeps, EndNoticeKeeps
<1>4. ASSUME NEW t \in Viewers, LoadInbox(t) \/ ShowPage(t) PROVE NoticesInv'
  BY <1>4, LoadKeeps, ShowKeeps
<1>5. ASSUME DeleteInbox PROVE NoticesInv'
  BY <1>5, DeleteKeeps
<1>6. ASSUME UNCHANGED noticeVars PROVE NoticesInv'
  BY <1>6 DEF NoticesInv, LogInv, RowsAreOf, StepsInv, ViewersInv, noticeVars
<1>. QED BY <1>1, <1>2, <1>3, <1>4, <1>5, <1>6 DEF NoticesNext

LEMMA NoticesInvSound == NoticesInv => NoticesAreSound
<1> SUFFICES ASSUME NoticesInv PROVE NoticesAreSound
  OBVIOUS
<1>0. LogInv /\ ViewersInv /\ viewer \in [Viewers -> ViewerType]
  BY DEF NoticesInv, ViewersInv
<1>1. \A s \in Inboxes \ {inbox} : log[s] = <<>>
  BY <1>0 DEF LogInv, RowsAreOf, StepsInv
<1>2. \A n \in Headless : note[n].pc \in {"push", "ok"} => note[n].names = note[n].session
  BY <1>0 DEF LogInv, RowsAreOf, StepsInv, Notes
<1>3. ASSUME NEW t \in Viewers, NEW n \in Announcements
      PROVE  /\ Occurs(n, viewer[t].shown) <= 1
             /\ /\ note[n].pc = "ok" /\ viewer[t].view = note[n].session
                /\ viewer[t].page = NoPage /\ ~viewer[t].stale /\ Occurs(n, log[inbox]) > 0
                => Occurs(n, viewer[t].shown) = 1
  <2>1. viewer[t].shown \in Seq(Notes) /\ Once(viewer[t].shown)
    BY <1>0 DEF ViewersInv, ViewerType
  <2>2. /\ Occurs(n, viewer[t].shown) \in {0, 1}
        /\ Occurs(n, viewer[t].shown) = 1 <=> In(n, viewer[t].shown)
    BY <2>1, OccursCounts
  <2>3. ASSUME note[n].pc = "ok", viewer[t].view = note[n].session,
               viewer[t].page = NoPage, ~viewer[t].stale, Occurs(n, log[inbox]) > 0
        PROVE  In(n, viewer[t].shown)
    <3>1. n \in Notes /\ note[n].session \in 1..opened /\ opened \in Nat
      BY <1>0, <2>3, NoticesAssumption DEF LogInv, RowsAreOf, StepsInv, Notes
    <3>2. viewer[t].view = inbox /\ inbox # 0
      BY <1>0, <2>3, <3>1 DEF ViewersInv
    <3>3. inbox \in Inboxes
      BY <1>0, <3>2, NoticesAssumption DEF LogInv, RowsAreOf, StepsInv, Inboxes
    <3>4. log[inbox] \in Seq(Notes) /\ Once(log[inbox])
      BY <1>0, <3>3 DEF LogInv, RowsAreOf, StepsInv
    <3>5. In(n, log[inbox])
      <4> DEFINE rows == log[inbox]
      <4>1. Occurs(n, rows) > 0
        BY <2>3
      <4> HIDE DEF rows
      <4>2. rows \in Seq(Notes) /\ Once(rows)
        BY <3>4 DEF rows
      <4>3. In(n, rows)
        BY <4>1, <4>2, OccursCounts
      <4>. QED BY <4>3 DEF rows
    <3>6. note[n].left = {}
      BY <1>0, <2>3, <3>1 DEF LogInv, RowsAreOf, StepsInv
    <3>7. t \in note[n].left \/ In(n, viewer[t].shown)
      BY <1>0, <2>3, <3>2, <3>5 DEF ViewersInv
    <3>. QED BY <3>6, <3>7
  <2>. QED BY <2>2, <2>3
<1>. QED BY <1>1, <1>2, <1>3 DEF NoticesAreSound

-----------------------------------------------------------------------------
(* The handlers of one Telegram user *)

Stages == Inside \cup {"idle", "dedup", "access", "user", "create", "rate", "needs", "gate", "formGate"}
Forms == [step : Nat, done : BOOLEAN] \cup {None}

TaskInv ==
  /\ task \in [Handlers -> [pc : Stages, update : Updates \cup {None}, read : Forms]]
  /\ \A h \in Handlers : /\ task[h].pc # "idle" => task[h].update \in Updates
                         /\ task[h].pc = "dedup" => Kind(h) # "setup"

\* Who is at work holds the gate, also after an exit that left it taken.
GateInv ==
  /\ slips \in Nat
  /\ \A h \in Handlers : task[h].pc \in Inside => gateOf = h
  /\ slips = 0 => \A h \in Handlers : gateOf = h => task[h].pc \in Inside

FormInv ==
  /\ form \in Forms /\ given \in Nat
  /\ IF form = None THEN given = 0 ELSE form.step = given
  /\ \A h \in Handlers : /\ task[h].pc = "readForm" => form # None
                         /\ task[h].pc = "saveForm" => form # None /\ task[h].read = form
                         /\ task[h].pc = "restart" => form = None

\* What is remembered is the end of what was engaged, and no update is in a
\* window of one more than that twice.
SeenInv ==
  /\ engaged \in Seq(Updates) /\ seen \in Seq(Updates)
  /\ Len(seen) = IF Len(engaged) > Remembered THEN Remembered ELSE Len(engaged)
  /\ \A i \in 1..Len(seen) : seen[i] = engaged[Len(engaged) - Len(seen) + i]
  /\ \A i, j \in 1..Len(engaged) : i < j /\ j - i <= Remembered => engaged[i] # engaged[j]

TelegramInv == TaskInv /\ GateInv /\ FormInv /\ SeenInv

\* A handler moves to another stage, or ends.
LEMMA Goes ==
  ASSUME TaskInv, NEW h \in Handlers, NEW p \in Stages, To(h, p), task[h].pc # "idle",
         p = "dedup" => Kind(h) # "setup"
  PROVE  /\ TaskInv' /\ task'[h].pc = p /\ task'[h].read = task[h].read
         /\ \A k \in Handlers \ {h} : task'[k] = task[k]
<1>1. /\ task' \in [Handlers -> [pc : Stages, update : Updates \cup {None}, read : Forms]]
      /\ task'[h].pc = p /\ task'[h].read = task[h].read /\ task'[h].update = task[h].update
      /\ \A k \in Handlers \ {h} : task'[k] = task[k]
  BY DEF TaskInv, To
<1>2. ASSUME NEW k \in Handlers
      PROVE  /\ task'[k].pc # "idle" => task'[k].update \in Updates
             /\ task'[k].pc = "dedup" => KindOf[task'[k].update] # "setup"
  BY <1>1 DEF TaskInv, Kind
<1>. QED BY <1>1, <1>2 DEF TaskInv, Kind

LEMMA Rests ==
  ASSUME TaskInv, NEW h \in Handlers, task' = [task EXCEPT ![h] = Waiting]
  PROVE  /\ TaskInv' /\ task'[h].pc = "idle"
         /\ \A k \in Handlers \ {h} : task'[k] = task[k]
<1>1. Waiting \in [pc : Stages, update : Updates \cup {None}, read : Forms] /\ Waiting.pc = "idle"
  BY DEF Waiting, Stages, Forms
<1>2. /\ task' \in [Handlers -> [pc : Stages, update : Updates \cup {None}, read : Forms]]
      /\ task'[h].pc = "idle"
      /\ \A k \in Handlers \ {h} : task'[k] = task[k]
  BY <1>1 DEF TaskInv
<1>3. ASSUME NEW k \in Handlers
      PROVE  /\ task'[k].pc # "idle" => task'[k].update \in Updates
             /\ task'[k].pc = "dedup" => KindOf[task'[k].update] # "setup"
  BY <1>2 DEF TaskInv, Kind
<1>. QED BY <1>2, <1>3 DEF TaskInv, Kind

\* The gate is entered when it is free, kept, or given back.
LEMMA GateMoves ==
  ASSUME GateInv, NEW h \in Handlers, \A k \in Handlers \ {h} : task'[k] = task[k], slips' = slips,
         \/ task'[h].pc \in Inside /\ gateOf' = h /\ gateOf \in {h, None}
         \/ task[h].pc \notin Inside /\ task'[h].pc \notin Inside /\ gateOf' = gateOf
         \/ task[h].pc \in Inside /\ task'[h].pc \notin Inside /\ gateOf' = None
  PROVE  GateInv'
<1>1. CASE task'[h].pc \in Inside /\ gateOf' = h /\ gateOf \in {h, None}
  BY <1>1, TelegramAssumption DEF GateInv
<1>2. CASE task[h].pc \notin Inside /\ task'[h].pc \notin Inside /\ gateOf' = gateOf
  BY <1>2 DEF GateInv
<1>3. CASE task[h].pc \in Inside /\ task'[h].pc \notin Inside /\ gateOf' = None
  BY <1>3, TelegramAssumption DEF GateInv
<1>. QED BY <1>1, <1>2, <1>3

LEMMA FormKept ==
  ASSUME FormInv, form' = form, given' = given, NEW h \in Handlers,
         \A k \in Handlers \ {h} : task'[k] = task[k],
         task'[h].pc \notin {"readForm", "saveForm", "restart"}
  PROVE  FormInv'
BY DEF FormInv

LEMMA SeenKept ==
  ASSUME SeenInv, UNCHANGED <<seen, engaged>>
  PROVE  SeenInv'
BY DEF SeenInv

LEMMA TelegramInvInit == TelegramInit => TelegramInv
<1> SUFFICES ASSUME TelegramInit PROVE TelegramInv
  OBVIOUS
<1>1. Waiting \in [pc : Stages, update : Updates \cup {None}, read : Forms] /\ Waiting.pc = "idle"
  BY DEF Waiting, Stages, Forms
<1>2. TaskInv
  BY <1>1 DEF TelegramInit, TaskInv
<1>3. GateInv
  BY <1>1, TelegramAssumption DEF TelegramInit, GateInv, Inside
<1>4. FormInv
  <2> DEFINE full == [step |-> Questions, done |-> TRUE]
  <2>1. Questions \in Nat /\ full \in Forms /\ full # None /\ full.step = Questions /\ None \in Forms
    <3>1. Questions \in Nat /\ None \notin [step : Nat, done : BOOLEAN]
      BY TelegramAssumption
    <3>2. full \in [step : Nat, done : BOOLEAN] /\ full.step = Questions
      BY <3>1
    <3>. QED BY <3>1, <3>2 DEF Forms
  <2>2. (form = None /\ given = 0) \/ (form = full /\ given = Questions)
    BY DEF TelegramInit
  <2>3. \A h \in Handlers : task[h].pc = "idle"
    BY <1>1 DEF TelegramInit
  <2> HIDE DEF full
  <2>. QED BY <2>1, <2>2, <2>3 DEF FormInv
<1>5. SeenInv
  BY TelegramAssumption DEF TelegramInit, SeenInv
<1>. QED BY <1>2, <1>3, <1>4, <1>5 DEF TelegramInv

\* Steps before the gate.
LEMMA OutsideKeeps ==
  ASSUME TelegramInv, NEW h \in Handlers,
         Access(h) \/ FindUser(h) \/ CreateUser(h) \/ Rate(h) \/ Needs(h)
  PROVE  TelegramInv'
<1>1. /\ task[h].pc \in {"access", "user", "create", "rate", "needs"} /\ TaskInv /\ GateInv /\ FormInv /\ SeenInv
      /\ UNCHANGED <<seen, form, gateOf, given, engaged, slips>>
  BY DEF Access, FindUser, CreateUser, Rate, Needs, Is, TelegramInv
<1>2. \/ task' = [task EXCEPT ![h] = Waiting]
      \/ \E p \in {"user", "rate", "create", "needs", "dedup", "gate", "formGate"} :
           To(h, p) /\ (p = "dedup" => Kind(h) # "setup")
  <2>1. CASE Access(h)
    BY <2>1 DEF Access
  <2>2. CASE FindUser(h)
    BY <2>2 DEF FindUser
  <2>3. CASE CreateUser(h)
    BY <2>3 DEF CreateUser
  <2>4. CASE Rate(h)
    <3>1. Kind(h) \in {"text", "document", "photo", "setup"}
      BY <1>1, TelegramAssumption DEF TaskInv, Kind
    <3>2. AfterRate[Kind(h)] \in {"needs", "dedup", "gate"} /\ (AfterRate[Kind(h)] = "dedup" => Kind(h) # "setup")
      BY <3>1 DEF AfterRate
    <3>. QED BY <2>4, <3>2 DEF Rate
  <2>5. CASE Needs(h)
    BY <2>5 DEF Needs
  <2>. QED BY <2>1, <2>2, <2>3, <2>4, <2>5
<1>3. /\ TaskInv' /\ task'[h].pc \in {"idle", "user", "rate", "create", "needs", "dedup", "gate", "formGate"}
      /\ \A k \in Handlers \ {h} : task'[k] = task[k]
  <2>1. CASE task' = [task EXCEPT ![h] = Waiting]
    BY <1>1, <2>1, Rests
  <2>2. CASE \E p \in {"user", "rate", "create", "needs", "dedup", "gate", "formGate"} :
               To(h, p) /\ (p = "dedup" => Kind(h) # "setup")
    <3>1. PICK p \in {"user", "rate", "create", "needs", "dedup", "gate", "formGate"} :
               To(h, p) /\ (p = "dedup" => Kind(h) # "setup")
      BY <2>2
    <3>2. p \in Stages
      BY DEF Stages
    <3>. QED BY <1>1, <3>1, <3>2, Goes
  <2>. QED BY <1>2, <2>1, <2>2
<1>4. GateInv'
  <2>1. task[h].pc \notin Inside /\ task'[h].pc \notin Inside
    BY <1>1, <1>3 DEF Inside
  <2>. QED BY <1>1, <1>3, <2>1, GateMoves
<1>5. FormInv'
  BY <1>1, <1>3, FormKept
<1>6. SeenInv'
  BY <1>1, SeenKept
<1>. QED BY <1>3, <1>4, <1>5, <1>6 DEF TelegramInv

LEMMA DeliverKeeps ==
  ASSUME TelegramInv, NEW h \in Handlers, NEW u \in Updates, Deliver(h, u)
  PROVE  TelegramInv'
<1> DEFINE p == IF KindOf[u] = "text" THEN "dedup" ELSE "access"
           r == [Waiting EXCEPT !.update = u, !.pc = p]
<1>1. /\ task[h].pc = "idle" /\ TaskInv /\ GateInv /\ FormInv /\ SeenInv
      /\ UNCHANGED <<seen, form, gateOf, given, engaged, slips>>
      /\ task' = [task EXCEPT ![h] = r]
  BY DEF Deliver, Is, TelegramInv
<1>2. r \in [pc : Stages, update : Updates \cup {None}, read : Forms] /\ r.pc = p /\ r.update = u
  <2>1. p \in Stages /\ None \in Forms
    BY DEF Stages, Forms
  <2> HIDE DEF p
  <2>. QED BY <2>1 DEF Waiting
<1> HIDE DEF r
<1>3. /\ task' \in [Handlers -> [pc : Stages, update : Updates \cup {None}, read : Forms]]
      /\ task'[h].pc = p /\ task'[h].update = u /\ p \in {"dedup", "access"}
      /\ p = "dedup" => KindOf[u] # "setup"
      /\ \A k \in Handlers \ {h} : task'[k] = task[k]
  BY <1>1, <1>2 DEF TaskInv
<1>4. TaskInv'
  <2>1. ASSUME NEW k \in Handlers
        PROVE  /\ task'[k].pc # "idle" => task'[k].update \in Updates
               /\ task'[k].pc = "dedup" => KindOf[task'[k].update] # "setup"
    BY <1>1, <1>3 DEF TaskInv, Kind
  <2>. QED BY <1>3, <2>1 DEF TaskInv, Kind
<1>5. GateInv'
  <2>1. task[h].pc \notin Inside /\ task'[h].pc \notin Inside
    BY <1>1, <1>3 DEF Inside
  <2>. QED BY <1>1, <1>3, <2>1, GateMoves
<1>6. FormInv'
  <2>1. task'[h].pc \notin {"readForm", "saveForm", "restart"}
    BY <1>3
  <2>. QED BY <1>1, <1>3, <2>1, FormKept
<1>7. SeenInv'
  BY <1>1, SeenKept
<1>. QED BY <1>4, <1>5, <1>6, <1>7 DEF TelegramInv

\* An update let past the repetitions was not among those remembered.
LEMMA SeenMoves ==
  ASSUME SeenInv, NEW u \in Updates, \A i \in DOMAIN seen : seen[i] # u,
         seen' = Forget(Append(seen, u)), engaged' = Append(engaged, u)
  PROVE  SeenInv'
<1> DEFINE m == Len(engaged)
           n == Len(seen)
           more == Append(seen, u)
<1>1. /\ m \in Nat /\ n \in Nat /\ Remembered \in Nat /\ Remembered > 0
      /\ n = IF m > Remembered THEN Remembered ELSE m
      /\ engaged \in Seq(Updates) /\ seen \in Seq(Updates) /\ DOMAIN seen = 1..n
  BY TelegramAssumption DEF SeenInv
<1>2. /\ engaged' \in Seq(Updates) /\ Len(engaged') = m + 1 /\ engaged'[m + 1] = u
      /\ \A i \in 1..m : engaged'[i] = engaged[i]
  BY <1>1
<1>3. /\ more \in Seq(Updates) /\ Len(more) = n + 1 /\ more[n + 1] = u /\ more # <<>>
      /\ \A i \in 1..n : more[i] = seen[i]
  BY <1>1
<1>a. /\ \A i \in 1..n : seen[i] = engaged[m - n + i]
      /\ \A i, j \in 1..m : i < j /\ j - i <= Remembered => engaged[i] # engaged[j]
  BY DEF SeenInv
<1>b. seen' = IF n + 1 > Remembered THEN Tail(more) ELSE more
  BY <1>3 DEF Forget
<1> HIDE DEF m, n, more
<1>4. \A i \in 1..n : m - n + i \in 1..m
  BY <1>1
<1>5. \A i \in 1..(n + 1) : more[i] = engaged'[m - n + i]
  <2>1. ASSUME NEW i \in 1..n PROVE more[i] = engaged'[m - n + i]
    BY <1>2, <1>3, <1>4, <1>a
  <2>2. m - n + (n + 1) = m + 1
    BY <1>1
  <2>3. more[n + 1] = engaged'[m - n + (n + 1)]
    BY <1>2, <1>3, <2>2
  <2>4. \A i \in 1..(n + 1) : i \in 1..n \/ i = n + 1
    BY <1>1
  <2>. QED BY <2>1, <2>3, <2>4
<1>6. /\ seen' \in Seq(Updates)
      /\ Len(seen') = IF m + 1 > Remembered THEN Remembered ELSE m + 1
      /\ \A i \in 1..Len(seen') : seen'[i] = engaged'[m + 1 - Len(seen') + i]
  <2>1. CASE n + 1 > Remembered
    <3>1. seen' = Tail(more)
      BY <1>b, <2>1
    <3>2. n = Remembered /\ m >= n
      BY <1>1, <2>1
    <3>3. /\ seen' \in Seq(Updates) /\ Len(seen') = n
          /\ \A i \in 1..n : seen'[i] = more[i + 1]
      BY <1>1, <1>3, <3>1, HeadTailProperties
    <3>4. ASSUME NEW i \in 1..n PROVE seen'[i] = engaged'[m + 1 - n + i]
      <4>1. i + 1 \in 1..(n + 1) /\ m - n + (i + 1) = m + 1 - n + i
        BY <1>1
      <4>2. more[i + 1] = engaged'[m - n + (i + 1)]
        BY <1>5, <4>1
      <4>. QED BY <3>3, <4>1, <4>2
    <3>5. m + 1 > Remembered
      BY <1>1, <3>2
    <3>. QED BY <3>2, <3>3, <3>4, <3>5
  <2>2. CASE ~(n + 1 > Remembered)
    <3>1. seen' = more
      BY <1>b, <2>2
    <3>2. n = m /\ ~(m + 1 > Remembered)
      BY <1>1, <2>2
    <3>3. ASSUME NEW i \in 1..(n + 1) PROVE seen'[i] = engaged'[m + 1 - (n + 1) + i]
      <4>1. i \in Int /\ n \in Int
        BY <1>1
      <4>2. m - n + i = i /\ m + 1 - (n + 1) + i = i
        BY <3>2, <4>1
      <4>. QED BY <1>5, <3>1, <4>2
    <3>4. Len(seen') = n + 1 /\ n + 1 = m + 1
      BY <1>3, <3>1, <3>2
    <3>5. ASSUME NEW i \in 1..Len(seen') PROVE seen'[i] = engaged'[m + 1 - Len(seen') + i]
      BY <3>3, <3>4
    <3>. QED BY <1>3, <3>1, <3>2, <3>4, <3>5
  <2>. QED BY <2>1, <2>2
<1>7. ASSUME NEW i \in 1..(m + 1), NEW j \in 1..(m + 1), i < j, j - i <= Remembered
      PROVE  engaged'[i] # engaged'[j]
  <2>1. CASE j <= m
    <3>1. i \in 1..m /\ j \in 1..m
      BY <1>1, <1>7, <2>1
    <3>. QED BY <1>2, <1>7, <1>a, <3>1
  <2>2. CASE j = m + 1
    <3> DEFINE k == i - (m - n)
    <3>1. i \in 1..m
      BY <1>1, <1>7, <2>2
    <3>2. i > m - Remembered
      BY <1>1, <1>7, <2>2
    <3>3. k \in 1..n /\ m - n + k = i
      BY <1>1, <3>1, <3>2
    <3> HIDE DEF k
    <3>4. engaged[i] = seen[k] /\ seen[k] # u
      BY <1>1, <1>a, <3>3
    <3>5. engaged'[i] = engaged[i] /\ engaged'[j] = u
      BY <1>2, <2>2, <3>1
    <3>. QED BY <3>4, <3>5
  <2>3. j <= m \/ j = m + 1
    BY <1>1
  <2>. QED BY <2>1, <2>2, <2>3
<1>8. Len(engaged') = m + 1 /\ engaged' \in Seq(Updates)
  BY <1>2
<1>9. /\ Len(seen') = IF Len(engaged') > Remembered THEN Remembered ELSE Len(engaged')
      /\ \A i \in 1..Len(seen') : seen'[i] = engaged'[Len(engaged') - Len(seen') + i]
  <2>1. ASSUME NEW i \in 1..Len(seen') PROVE seen'[i] = engaged'[Len(engaged') - Len(seen') + i]
    <3>1. seen'[i] = engaged'[m + 1 - Len(seen') + i]
      BY <1>6
    <3>2. m + 1 = Len(engaged')
      BY <1>8
    <3>3. m \in Int /\ Len(seen') \in Int /\ Len(engaged') \in Int /\ i \in Int
      BY <1>1, <1>6, <1>8
    <3>4. m + 1 - Len(seen') + i = Len(engaged') - Len(seen') + i
      BY <3>2, <3>3
    <3>. QED BY <3>1, <3>4, Zenon
  <2>2. Len(seen') = IF Len(engaged') > Remembered THEN Remembered ELSE Len(engaged')
    <3>1. Len(seen') = IF m + 1 > Remembered THEN Remembered ELSE m + 1
      BY <1>6
    <3>2. m + 1 = Len(engaged')
      BY <1>8
    <3>. QED BY <3>1, <3>2
  <2>. QED BY <2>1, <2>2
<1>10. \A i, j \in 1..Len(engaged') : i < j /\ j - i <= Remembered => engaged'[i] # engaged'[j]
  BY <1>7, <1>8
<1>. QED BY <1>6, <1>8, <1>9, <1>10 DEF SeenInv

LEMMA DedupKeeps ==
  ASSUME TelegramInv, NEW h \in Handlers, Dedup(h)
  PROVE  TelegramInv'
<1> DEFINE u == task[h].update
<1>1. /\ task[h].pc = "dedup" /\ TaskInv /\ GateInv /\ FormInv /\ SeenInv
      /\ UNCHANGED <<form, gateOf, given, slips>>
  BY DEF Dedup, Is, TelegramInv
<1>2. u \in Updates /\ Kind(h) \in {"text", "document", "photo"}
  BY <1>1, TelegramAssumption DEF TaskInv, Kind
<1>3. \/ task' = [task EXCEPT ![h] = Waiting] /\ UNCHANGED <<seen, engaged>>
      \/ /\ seen' = Forget(Append(seen, u)) /\ engaged' = Append(engaged, u)
         /\ \A i \in DOMAIN seen : seen[i] # u
         /\ To(h, AfterDedup[Kind(h)])
  BY DEF Dedup
<1>4. AfterDedup[Kind(h)] \in {"access", "needs", "gate"} /\ {"access", "needs", "gate"} \subseteq Stages
  BY <1>2 DEF AfterDedup, Stages
<1>5. /\ TaskInv' /\ task'[h].pc \in {"idle", "access", "needs", "gate"}
      /\ \A k \in Handlers \ {h} : task'[k] = task[k]
  <2>1. CASE task' = [task EXCEPT ![h] = Waiting]
    BY <1>1, <2>1, Rests
  <2>2. CASE To(h, AfterDedup[Kind(h)])
    BY <1>1, <1>4, <2>2, Goes
  <2>. QED BY <1>3, <2>1, <2>2
<1>6. GateInv'
  <2>1. task[h].pc \notin Inside /\ task'[h].pc \notin Inside
    BY <1>1, <1>5 DEF Inside
  <2>. QED BY <1>1, <1>5, <2>1, GateMoves
<1>7. FormInv'
  BY <1>1, <1>5, FormKept
<1>8. SeenInv'
  BY <1>1, <1>2, <1>3, SeenKept, SeenMoves
<1>. QED BY <1>5, <1>6, <1>7, <1>8 DEF TelegramInv

\* Steps inside the gate that leave the form alone.
LEMMA InnerKeeps ==
  ASSUME TelegramInv, NEW h \in Handlers,
         Progress(h) \/ ReadForm(h) \/ Container(h) \/ RunAgent(h) \/ Finalize(h) \/ Answer(h)
  PROVE  TelegramInv'
<1>1. /\ task[h].pc \in {"progress", "readForm", "container", "work", "finalize", "answer"}
      /\ TaskInv /\ GateInv /\ FormInv /\ SeenInv
      /\ UNCHANGED <<seen, form, given, engaged, slips>>
  BY DEF Progress, ReadForm, Container, RunAgent, Finalize, Answer, Is, TelegramInv
<1>2. gateOf = h /\ task[h].pc \in Inside
  BY <1>1 DEF GateInv, Inside
<1>3. /\ TaskInv'
      /\ \A k \in Handlers \ {h} : task'[k] = task[k]
      /\ \/ task'[h].pc = "idle" /\ gateOf' = None
         \/ task'[h].pc \in {"readForm", "startForm", "saveForm", "work", "answer"} /\ gateOf' = gateOf
      /\ task'[h].pc = "readForm" => form # None
      /\ task'[h].pc = "saveForm" => form # None /\ task'[h].read = form
  <2>1. CASE Progress(h)
    <3> DEFINE p == IF form # None /\ ~form.done THEN "readForm" ELSE "startForm"
    <3>1. To(h, p) /\ gateOf' = gateOf /\ p \in Stages
      BY <2>1 DEF Progress, Stages, Inside
    <3>2. p \in {"readForm", "startForm"} /\ (p = "readForm" => form # None)
      OBVIOUS
    <3> HIDE DEF p
    <3>. QED BY <1>1, <3>1, <3>2, Goes
  <2>2. CASE ReadForm(h)
    <3>1. task' = [task EXCEPT ![h].pc = "saveForm", ![h].read = form] /\ gateOf' = gateOf
          /\ task[h].pc = "readForm"
      BY <2>2 DEF ReadForm, Is
    <3>2. "saveForm" \in Stages /\ form \in Forms /\ form # None
      BY <1>1, <3>1 DEF Stages, Inside, FormInv
    <3>3. /\ task' \in [Handlers -> [pc : Stages, update : Updates \cup {None}, read : Forms]]
          /\ task'[h].pc = "saveForm" /\ task'[h].read = form /\ task'[h].update = task[h].update
          /\ \A k \in Handlers \ {h} : task'[k] = task[k]
      BY <1>1, <3>1, <3>2 DEF TaskInv
    <3>4. TaskInv'
      <4>1. ASSUME NEW k \in Handlers
            PROVE  /\ task'[k].pc # "idle" => task'[k].update \in Updates
                   /\ task'[k].pc = "dedup" => KindOf[task'[k].update] # "setup"
        BY <1>1, <3>3 DEF TaskInv, Kind
      <4>. QED BY <3>3, <4>1 DEF TaskInv, Kind
    <3>. QED BY <3>1, <3>2, <3>3, <3>4
  <2>3. CASE Container(h) \/ RunAgent(h) \/ Finalize(h) \/ Answer(h)
    <3>1. \/ task' = [task EXCEPT ![h] = Waiting] /\ gateOf' = None
          \/ \E p \in {"work", "answer"} : To(h, p) /\ gateOf' = gateOf
      BY <2>3 DEF Container, RunAgent, Finalize, Answer, Finish
    <3>2. CASE task' = [task EXCEPT ![h] = Waiting] /\ gateOf' = None
      BY <1>1, <3>2, Rests
    <3>3. CASE \E p \in {"work", "answer"} : To(h, p) /\ gateOf' = gateOf
      <4>1. PICK p \in {"work", "answer"} : To(h, p) /\ gateOf' = gateOf
        BY <3>3
      <4>2. p \in Stages
        BY DEF Stages, Inside
      <4>. QED BY <1>1, <4>1, <4>2, Goes
    <3>. QED BY <3>1, <3>2, <3>3
  <2>. QED BY <2>1, <2>2, <2>3
<1>4. GateInv'
  <2>1. task'[h].pc = "idle" => task'[h].pc \notin Inside
    BY DEF Inside
  <2>2. task'[h].pc \in {"readForm", "startForm", "saveForm", "work", "answer"} => task'[h].pc \in Inside
    BY DEF Inside
  <2>. QED BY <1>1, <1>2, <1>3, <2>1, <2>2, GateMoves
<1>5. FormInv'
  <2>1. task'[h].pc # "restart"
    BY <1>3
  <2>. QED BY <1>1, <1>3, <2>1 DEF FormInv
<1>6. SeenInv'
  BY <1>1, SeenKept
<1>. QED BY <1>3, <1>4, <1>5, <1>6 DEF TelegramInv

\* Only the handler that holds the gate changes the form.
LEMMA FormSteps ==
  ASSUME TelegramInv, NEW h \in Handlers,
         StartForm(h) \/ SaveForm(h) \/ Reset(h) \/ Restart(h)
  PROVE  TelegramInv'
<1>1. /\ task[h].pc \in {"startForm", "saveForm", "reset", "restart"}
      /\ TaskInv /\ GateInv /\ FormInv /\ SeenInv
      /\ UNCHANGED <<seen, engaged, slips>>
  BY DEF StartForm, SaveForm, Reset, Restart, Is, TelegramInv
<1>2. gateOf = h /\ task[h].pc \in Inside
  BY <1>1 DEF GateInv, Inside
<1>3. \A k \in Handlers \ {h} : task[k].pc \notin Inside
  BY <1>1, <1>2 DEF GateInv
<1>4. /\ {"gate", "finalize", "restart"} \subseteq Stages /\ Questions \in Nat
      /\ \A n \in Nat, d \in BOOLEAN : /\ [step |-> n, done |-> d] \in Forms
                                       /\ [step |-> n, done |-> d] # None
                                       /\ [step |-> n, done |-> d].step = n
      /\ None \in Forms
  <2>1. None \notin [step : Nat, done : BOOLEAN] /\ Questions \in Nat
    BY TelegramAssumption
  <2>2. ASSUME NEW n \in Nat, NEW d \in BOOLEAN
        PROVE  /\ [step |-> n, done |-> d] \in [step : Nat, done : BOOLEAN]
               /\ [step |-> n, done |-> d].step = n
    OBVIOUS
  <2>3. {"gate", "finalize", "restart"} \subseteq Stages
    BY DEF Stages, Inside
  <2>4. \A n \in Nat, d \in BOOLEAN : /\ [step |-> n, done |-> d] \in Forms
                                      /\ [step |-> n, done |-> d] # None
    BY <2>1, <2>2 DEF Forms
  <2>. QED BY <2>1, <2>2, <2>3, <2>4 DEF Forms
\* what each of them does
<1>5. /\ TaskInv'
      /\ \A k \in Handlers \ {h} : task'[k] = task[k]
      /\ \/ task'[h].pc \in {"idle", "gate"} /\ gateOf' = None
         \/ task'[h].pc \in {"finalize", "restart"} /\ gateOf' = gateOf
      /\ task'[h].pc = "restart" => form' = None
      /\ form' \in Forms /\ given' \in Nat
      /\ IF form' = None THEN given' = 0 ELSE form'.step = given'
  <2>1. CASE StartForm(h)
    <3>1. CASE form = None
      <4>1. /\ form' = [step |-> 0, done |-> FALSE] /\ gateOf' = None /\ given' = given
            /\ task' = [task EXCEPT ![h] = Waiting]
        BY <2>1, <3>1 DEF StartForm, Finish
      <4>2. given = 0
        BY <1>1, <3>1 DEF FormInv
      <4>3. form' \in Forms /\ form' # None /\ form'.step = 0
        BY <1>4, <4>1
      <4>4. TaskInv' /\ task'[h].pc = "idle" /\ \A k \in Handlers \ {h} : task'[k] = task[k]
        BY <1>1, <4>1, Rests
      <4>. QED BY <4>1, <4>2, <4>3, <4>4
    <3>2. CASE form # None
      <4>1. form' = form /\ gateOf' = None /\ given' = given /\ To(h, "gate")
        BY <2>1, <3>2 DEF StartForm
      <4>2. TaskInv' /\ task'[h].pc = "gate" /\ \A k \in Handlers \ {h} : task'[k] = task[k]
        BY <1>1, <1>4, <4>1, Goes
      <4>. QED BY <1>1, <4>1, <4>2 DEF FormInv
    <3>. QED BY <3>1, <3>2
  <2>2. CASE SaveForm(h)
    <3> DEFINE n == task[h].read.step + 1
    <3>1. /\ form' = [step |-> n, done |-> n >= Questions] /\ given' = given + 1
          /\ task[h].pc = "saveForm"
          /\ IF n >= Questions THEN To(h, "finalize") /\ gateOf' = gateOf ELSE Finish(h)
      BY <2>2 DEF SaveForm, Is
    <3>2. given \in Nat /\ n = given + 1
      BY <1>1, <3>1 DEF FormInv
    <3> HIDE DEF n
    <3>3. n \in Nat /\ (n >= Questions) \in BOOLEAN
      BY <3>2
    <3>4. form' \in Forms /\ form' # None /\ form'.step = n
      BY <1>4, <3>1, <3>3
    <3>5. /\ TaskInv' /\ \A k \in Handlers \ {h} : task'[k] = task[k]
          /\ \/ task'[h].pc = "idle" /\ gateOf' = None
             \/ task'[h].pc = "finalize" /\ gateOf' = gateOf
      <4>1. CASE To(h, "finalize") /\ gateOf' = gateOf
        BY <1>1, <1>4, <4>1, Goes
      <4>2. CASE Finish(h)
        BY <1>1, <4>2, Rests DEF Finish
      <4>. QED BY <3>1, <4>1, <4>2
    <3>. QED BY <3>1, <3>2, <3>3, <3>4, <3>5
  <2>3. CASE Reset(h)
    <3>1. form' = None /\ given' = 0 /\ To(h, "restart") /\ gateOf' = gateOf
      BY <2>3 DEF Reset
    <3>2. TaskInv' /\ task'[h].pc = "restart" /\ \A k \in Handlers \ {h} : task'[k] = task[k]
      BY <1>1, <1>4, <3>1, Goes
    <3>. QED BY <1>4, <3>1, <3>2
  <2>4. CASE Restart(h)
    <3>1. /\ form' = [step |-> 0, done |-> FALSE] /\ gateOf' = None /\ given' = given
          /\ task' = [task EXCEPT ![h] = Waiting] /\ task[h].pc = "restart"
      BY <2>4 DEF Restart, Finish, Is
    <3>2. given = 0
      BY <1>1, <3>1 DEF FormInv
    <3>3. form' \in Forms /\ form' # None /\ form'.step = 0
      BY <1>4, <3>1
    <3>4. TaskInv' /\ task'[h].pc = "idle" /\ \A k \in Handlers \ {h} : task'[k] = task[k]
      BY <1>1, <3>1, Rests
    <3>. QED BY <3>1, <3>2, <3>3, <3>4
  <2>. QED BY <2>1, <2>2, <2>3, <2>4
<1>6. GateInv'
  <2>1. task'[h].pc \in {"idle", "gate"} => task'[h].pc \notin Inside
    BY DEF Inside
  <2>2. task'[h].pc \in {"finalize", "restart"} => task'[h].pc \in Inside
    BY DEF Inside
  <2>. QED BY <1>1, <1>2, <1>5, <2>1, <2>2, GateMoves
<1>7. FormInv'
  <2>1. \A k \in Handlers \ {h} : task'[k].pc \notin {"readForm", "saveForm", "restart"}
    BY <1>3, <1>5 DEF Inside
  <2>2. task'[h].pc \notin {"readForm", "saveForm"}
    BY <1>5
  <2>. QED BY <1>5, <2>1, <2>2 DEF FormInv
<1>8. SeenInv'
  BY <1>1, SeenKept
<1>. QED BY <1>5, <1>6, <1>7, <1>8 DEF TelegramInv

LEMMA EnterKeeps ==
  ASSUME TelegramInv, NEW h \in Handlers, Enter(h)
  PROVE  TelegramInv'
<1>1. /\ task[h].pc \in {"gate", "formGate"}
      /\ TaskInv /\ GateInv /\ FormInv /\ SeenInv
      /\ UNCHANGED <<seen, form, given, engaged, slips>>
  BY DEF Enter, Is, TelegramInv
<1>2. \/ task' = [task EXCEPT ![h] = Waiting] /\ gateOf' = gateOf
      \/ /\ gateOf = None /\ gateOf' = h
         /\ \E p \in {"progress", "reset", "work", "container"} : To(h, p)
  BY DEF Enter
<1>3. /\ TaskInv' /\ \A k \in Handlers \ {h} : task'[k] = task[k]
      /\ \/ task'[h].pc = "idle" /\ gateOf' = gateOf
         \/ task'[h].pc \in {"progress", "reset", "work", "container"} /\ gateOf = None /\ gateOf' = h
  <2>1. CASE task' = [task EXCEPT ![h] = Waiting] /\ gateOf' = gateOf
    BY <1>1, <2>1, Rests
  <2>2. CASE /\ gateOf = None /\ gateOf' = h
             /\ \E p \in {"progress", "reset", "work", "container"} : To(h, p)
    <3>1. PICK p \in {"progress", "reset", "work", "container"} : To(h, p)
      BY <2>2
    <3>2. p \in Stages
      BY DEF Stages, Inside
    <3>. QED BY <1>1, <2>2, <3>1, <3>2, Goes
  <2>. QED BY <1>2, <2>1, <2>2
<1>4. GateInv'
  <2>1. task[h].pc \notin Inside /\ (task'[h].pc = "idle" => task'[h].pc \notin Inside)
    BY <1>1 DEF Inside
  <2>2. task'[h].pc \in {"progress", "reset", "work", "container"} => task'[h].pc \in Inside
    BY DEF Inside
  <2>. QED BY <1>1, <1>3, <2>1, <2>2, GateMoves
<1>5. FormInv'
  <2>1. task'[h].pc \notin {"readForm", "saveForm", "restart"}
    BY <1>3
  <2>. QED BY <1>1, <1>3, <2>1, FormKept
<1>6. SeenInv'
  BY <1>1, SeenKept
<1>. QED BY <1>3, <1>4, <1>5, <1>6 DEF TelegramInv

\* An exit that leaves the gate taken.
LEMMA SlipKeeps ==
  ASSUME TelegramInv, NEW h \in Handlers, Slip(h)
  PROVE  TelegramInv'
<1>1. /\ TaskInv /\ GateInv /\ FormInv /\ SeenInv
      /\ UNCHANGED <<seen, form, gateOf, given, engaged>>
      /\ slips' = slips + 1 /\ task' = [task EXCEPT ![h] = Waiting]
  BY DEF Slip, TelegramInv
<1>2. TaskInv' /\ task'[h].pc = "idle" /\ \A k \in Handlers \ {h} : task'[k] = task[k]
  BY <1>1, Rests
<1>3. GateInv'
  <2>1. task'[h].pc \notin Inside
    BY <1>2 DEF Inside
  <2>2. slips' \in Nat /\ slips' # 0
    BY <1>1 DEF GateInv
  <2>. QED BY <1>1, <1>2, <2>1, <2>2 DEF GateInv
<1>4. FormInv'
  <2>1. task'[h].pc \notin {"readForm", "saveForm", "restart"}
    BY <1>2
  <2>. QED BY <1>1, <1>2, <2>1, FormKept
<1>5. SeenInv'
  BY <1>1, SeenKept
<1>. QED BY <1>2, <1>3, <1>4, <1>5 DEF TelegramInv

LEMMA TelegramInvStep ==
  ASSUME TelegramInv, TelegramNext \/ UNCHANGED telegramVars
  PROVE  TelegramInv'
<1>1. ASSUME NEW h \in Handlers, NEW u \in Updates, Deliver(h, u) PROVE TelegramInv'
  BY <1>1, DeliverKeeps
<1>2. ASSUME NEW h \in Handlers, HandlerStep(h) PROVE TelegramInv'
  BY <1>2, DedupKeeps, OutsideKeeps, EnterKeeps, InnerKeeps, FormSteps DEF HandlerStep
<1>3. ASSUME NEW h \in Handlers, Slip(h) PROVE TelegramInv'
  BY <1>3, SlipKeeps
<1>4. ASSUME Minute \/ Revoke \/ UNCHANGED telegramVars PROVE TelegramInv'
  <2>1. UNCHANGED <<seen, form, gateOf, task, given, engaged, slips>>
    BY <1>4 DEF Minute, Revoke, telegramVars
  <2>. QED BY <2>1 DEF TelegramInv, TaskInv, Kind, GateInv, FormInv, SeenInv
<1>. QED BY <1>1, <1>2, <1>3, <1>4 DEF TelegramNext

\* Of n places in a row with different values, a longer stretch has n values.
LEMMA WindowValues ==
  ASSUME NEW f, NEW lo \in Int, NEW hi \in Int, NEW n \in Nat, lo + n <= hi,
         \A i, j \in (lo + 1)..(lo + n) : i < j => f[i] # f[j]
  PROVE  Cardinality({f[k] : k \in (lo + 1)..hi}) >= n
<1> DEFINE I == (lo + 1)..hi
           W == (lo + 1)..(lo + n)
           V == {f[k] : k \in I}
           g == [k \in I |-> f[k]]
           w == [k \in W |-> f[k]]
<1>1. IsFiniteSet(I) /\ IsFiniteSet(W) /\ Cardinality(W) = n
  BY FS_Interval
<1>2. W \subseteq I
  OBVIOUS
<1>3. IsFiniteSet(V)
  <2>1. g \in Surjection(I, V)
    BY DEF Surjection
  <2> HIDE DEF g, I, V
  <2>. QED BY <1>1, <2>1, FS_Surjection
<1>4. w \in Injection(W, V)
  <2>1. w \in [W -> V]
    BY <1>2
  <2>2. ASSUME NEW i \in W, NEW j \in W, w[i] = w[j] PROVE i = j
    <3>1. i < j \/ j < i \/ i = j
      OBVIOUS
    <3>2. f[i] = f[j]
      BY <2>2
    <3>. QED BY <3>1, <3>2
  <2> HIDE DEF I, W, V, w
  <2>. QED BY <2>1, <2>2 DEF Injection, IsInjective
<1> HIDE DEF I, W, V, g, w
<1>5. Cardinality(W) <= Cardinality(V) /\ Cardinality(V) \in Nat
  BY <1>3, <1>4, FS_Injection, FS_CardinalityType
<1>. QED BY <1>1, <1>5 DEF V, I

LEMMA TelegramInvSound == TelegramInv => TelegramSound
<1> SUFFICES ASSUME TelegramInv PROVE TelegramSound
  OBVIOUS
<1>1. GateFollowsHandler
  BY DEF TelegramInv, GateInv, GateFollowsHandler
<1>2. StepsCountAnswers
  BY DEF TelegramInv, FormInv, StepsCountAnswers
<1>3. EngagedOnce
  <2>1. /\ DOMAIN engaged = 1..Len(engaged) /\ Len(engaged) \in Nat /\ Remembered \in Nat
        /\ \A i, j \in 1..Len(engaged) : i < j /\ j - i <= Remembered => engaged[i] # engaged[j]
    BY TelegramAssumption DEF TelegramInv, SeenInv
  <2> SUFFICES ASSUME NEW i \in 1..Len(engaged), NEW j \in 1..Len(engaged), i < j, engaged[i] = engaged[j]
               PROVE  Cardinality({engaged[k] : k \in (i + 1)..(j - 1)}) >= Remembered
    BY <2>1 DEF EngagedOnce
  <2>2. i \in Int /\ j - 1 \in Int /\ ~(j - i <= Remembered) /\ i + Remembered <= j - 1
    BY <2>1
  <2>3. \A k, l \in (i + 1)..(i + Remembered) : k < l => engaged[k] # engaged[l]
    <3> SUFFICES ASSUME NEW k \in (i + 1)..(i + Remembered), NEW l \in (i + 1)..(i + Remembered), k < l
                 PROVE  engaged[k] # engaged[l]
      OBVIOUS
    <3>1. k \in 1..Len(engaged) /\ l \in 1..Len(engaged) /\ l - k <= Remembered
      BY <2>1, <2>2
    <3>. QED BY <2>1, <3>1
  <2>. QED BY <2>1, <2>2, <2>3, WindowValues
<1>. QED BY <1>1, <1>2, <1>3 DEF TelegramSound

-----------------------------------------------------------------------------
(* The /delete keyboard and the uploads beside it *)

OnBoard(t) == tap[t].pc \notin {"idle", "download"}
Browsed(bs) == bs # None =>
  \E at, number, held, chosen :
     bs = [path |-> at, page |-> number, entries |-> held, target |-> chosen]
Selected(bs, p) == bs = None \/ bs.target = p

\* What a callback goes by is what its message shows: the button it handles, the
\* target it deletes, the confirmation it is about to draw.
TapInv(t) ==
  /\ tap[t].pc = "handle" =>
       /\ tap[t].button \in ButtonsOf(screen[tap[t].on])
       /\ screen[tap[t].on].kind = "confirm" => tap[t].shown = screen[tap[t].on].target
  /\ tap[t].pc \in {"empty", "confirm"} => screen[tap[t].on].kind = "browse"
  /\ tap[t].pc = "confirm" => Selected(browse, tap[t].path)
  /\ tap[t].pc = "store" => tap[t].view.kind = "browse"
  /\ tap[t].pc = "edit" /\ tap[t].view.kind = "confirm" => Selected(browse, tap[t].view.target)
  /\ tap[t].pc = "delete" => tap[t].path = tap[t].shown
  /\ tap[t].pc = "download" => tap[t].path \notin disk
\* In calm use one tap is under way, on the one message that shows anything, and
\* what is selected is what a confirmation shows.
CalmInv ==
  /\ ~strayed /\ ~covered
  /\ \A t, r \in Taps : tap[t].pc # "idle" /\ tap[r].pc # "idle" => t = r
  /\ \A m, n \in Boards : screen[m].kind # "none" /\ screen[n].kind # "none" => m = n
  /\ \A m \in Boards, t \in Taps : screen[m].kind # "none" /\ OnBoard(t) => tap[t].on = m
  /\ \A m \in Boards : screen[m].kind = "confirm" =>
        Selected(browse, None) \/ Selected(browse, screen[m].target)
  /\ \A t \in Taps : TapInv(t)
BrowserInv ==
  /\ disk \subseteq Paths /\ Browsed(browse)
  /\ DOMAIN tap = Taps /\ DOMAIN screen = Boards
  /\ \A t \in Taps : OnBoard(t) => tap[t].on \in Boards
  /\ \A t \in Taps : tap[t].pc = "download" => tap[t].path \in Paths
  /\ calm => CalmInv

LEMMA BrowserInvInit == BrowserInit => BrowserInv
BY DEF BrowserInit, BrowserInv, CalmInv, TapInv, Browsed, OnBoard, Selected, NoTap, Blank

LEMMA BrowserInvSound == BrowserInv => CalmUseIsSafe
BY DEF BrowserInv, CalmInv, CalmUseIsSafe

\* A confirmation can only be answered, a listing only browsed.
LEMMA ButtonsShown ==
  ASSUME NEW v, NEW button \in ButtonsOf(v)
  PROVE  /\ button.do = "exec" => v.kind = "confirm"
         /\ button.do \in {"file", "folder", "open"} => v.kind = "browse"
<1>1. CASE v.kind = "browse"
  <2>1. /\ \A i \in OnPage(v) :
             [do |-> IF v.entries[i] \in Folders THEN "open" ELSE "file", at |-> i].do # "exec"
        /\ \A p \in {v.page - 1, v.page + 1} : [do |-> "page", at |-> p].do # "exec"
        /\ \A do \in {"refresh", "cancel", "up", "folder"} : [do |-> do, at |-> 0].do # "exec"
    OBVIOUS
  <2>. QED BY <1>1, <2>1 DEF ButtonsOf
<1>2. CASE v.kind = "confirm"
  BY <1>2 DEF ButtonsOf
<1>3. CASE v.kind \notin {"browse", "confirm"}
  BY <1>3 DEF ButtonsOf
<1>. QED BY <1>1, <1>2, <1>3

\* A tap that goes on alone leaves the others at rest.
LEMMA TapGoesOn ==
  ASSUME BrowserInv, NEW t \in Taps, NEW r, tap[t].pc # "idle",
         tap' = [tap EXCEPT ![t] = r], UNCHANGED <<screen, calm>>,
         disk' \subseteq Paths, Browsed(browse'),
         r.pc # "idle" => r.pc # "download" /\ OnBoard(t) /\ r.on = tap[t].on,
         calm => /\ ~strayed' /\ ~covered' /\ TapInv(t)'
                 /\ \A m \in Boards : screen[m].kind = "confirm" =>
                       Selected(browse', None) \/ Selected(browse', screen[m].target)
  PROVE  BrowserInv'
<1>1. /\ DOMAIN tap' = Taps /\ DOMAIN screen' = Boards /\ tap'[t] = r
      /\ \A s \in Taps \ {t} : tap'[s] = tap[s]
  BY DEF BrowserInv
<1>2. \A s \in Taps : OnBoard(s)' => OnBoard(s) /\ tap'[s].on = tap[s].on
  BY <1>1 DEF OnBoard
<1>3. (\A s \in Taps : OnBoard(s)' => tap'[s].on \in Boards)
      /\ (\A s \in Taps : tap'[s].pc = "download" => tap'[s].path \in Paths)
  BY <1>1, <1>2 DEF BrowserInv
<1>4. ASSUME calm PROVE CalmInv'
  <2>1. \A s \in Taps : s # t => tap[s].pc = "idle"
    BY <1>4 DEF BrowserInv, CalmInv
  <2>2. \A s \in Taps \ {t} : TapInv(s)'
    BY <2>1, <1>1 DEF TapInv
  <2>. QED BY <1>1, <1>2, <1>4, <2>1, <2>2 DEF BrowserInv, CalmInv
<1>. QED BY <1>1, <1>3, <1>4 DEF BrowserInv

\* A new tap: calm only if it is the only one.
LEMMA TapBegins ==
  ASSUME BrowserInv, NEW t \in Taps, NEW r, tap[t].pc = "idle",
         tap' = [tap EXCEPT ![t] = r], UNCHANGED <<disk, browse, screen, strayed, covered>>,
         IF r.pc = "download" THEN r.path \in Paths ELSE r.on \in Boards,
         calm' => /\ calm /\ Busy = {} /\ TapInv(t)'
                  /\ \A m \in Boards : screen[m].kind # "none" /\ r.pc # "download" => r.on = m
  PROVE  BrowserInv'
<1>1. /\ DOMAIN tap' = Taps /\ DOMAIN screen' = Boards /\ tap'[t] = r
      /\ \A s \in Taps \ {t} : tap'[s] = tap[s]
  BY DEF BrowserInv
<1>2. (\A s \in Taps : OnBoard(s)' => tap'[s].on \in Boards)
      /\ (\A s \in Taps : tap'[s].pc = "download" => tap'[s].path \in Paths)
  BY <1>1 DEF OnBoard, BrowserInv
<1>3. ASSUME calm' PROVE CalmInv'
  <2>1. \A s \in Taps : tap[s].pc = "idle"
    BY <1>3 DEF Busy
  <2>2. \A s \in Taps \ {t} : TapInv(s)' /\ tap'[s].pc = "idle"
    BY <2>1, <1>1 DEF TapInv
  <2>3. CalmInv
    BY <1>3 DEF BrowserInv
  <2>. QED BY <1>1, <1>3, <2>2, <2>3 DEF CalmInv, OnBoard
<1>. QED BY <1>1, <1>2, <1>3 DEF BrowserInv

\* Steps to a listing or to a text leave what is selected or forget it.
LEMMA TapListsOrSays ==
  ASSUME BrowserInv, NEW t \in Taps, OnBoard(t), UNCHANGED <<disk, screen, calm, strayed, covered>>,
         \/ \E path, page : ToList(t, path, page)
         \/ ToEdit(t, Text)
         \/ \E path, page : tap' = [tap EXCEPT ![t] = [pc |-> "store", on |-> tap[t].on,
                                                       path |-> path, view |-> View(path, page)]],
         browse' = browse \/ browse' = None
  PROVE  BrowserInv'
<1> DEFINE Onward(r) == /\ tap' = [tap EXCEPT ![t] = r] /\ r.on = tap[t].on
                        /\ \/ r.pc = "list"
                           \/ r.pc = "store" /\ r.view.kind = "browse"
                           \/ r.pc = "edit" /\ r.view.kind = "text"
<1>1. \E r : Onward(r)
  <2>1. ASSUME NEW path, NEW page, ToList(t, path, page) PROVE \E r : Onward(r)
    <3> DEFINE r == [pc |-> "list", on |-> tap[t].on, path |-> path, page |-> page]
    <3>. WITNESS r
    <3>. QED BY <2>1 DEF ToList
  <2>2. ASSUME ToEdit(t, Text) PROVE \E r : Onward(r)
    <3> DEFINE r == [pc |-> "edit", on |-> tap[t].on, view |-> Text]
    <3>. WITNESS r
    <3>. QED BY <2>2 DEF ToEdit, Text
  <2>3. ASSUME NEW path, NEW page,
               tap' = [tap EXCEPT ![t] = [pc |-> "store", on |-> tap[t].on,
                                          path |-> path, view |-> View(path, page)]]
        PROVE  \E r : Onward(r)
    <3> DEFINE r == [pc |-> "store", on |-> tap[t].on, path |-> path, view |-> View(path, page)]
    <3>. WITNESS r
    <3>. QED BY <2>3 DEF View
  <2>. QED BY <2>1, <2>2, <2>3
<1>2. PICK r : Onward(r)
  BY <1>1
<1>3. tap'[t] = r
  BY <1>2 DEF BrowserInv
<1>4. TapInv(t)'
  BY <1>2, <1>3 DEF TapInv
<1>5. Browsed(browse') /\ disk' \subseteq Paths
  BY DEF BrowserInv, Browsed
<1>6. ASSUME calm, NEW m \in Boards, screen[m].kind = "confirm"
      PROVE  Selected(browse', None) \/ Selected(browse', screen[m].target)
  BY <1>6 DEF BrowserInv, CalmInv, Selected
<1>7. calm => ~strayed' /\ ~covered'
  BY DEF BrowserInv, CalmInv
<1>8. tap[t].pc # "idle"
  BY DEF OnBoard
<1>. QED BY <1>2, <1>4, <1>5, <1>6, <1>7, <1>8, TapGoesOn

\* A selection is made from a listing, so no confirmation is shown elsewhere.
LEMMA SelectKeeps ==
  ASSUME BrowserInv, NEW t \in Taps, OnBoard(t), NEW p, Select(t, p), p \in disk,
         calm => screen[tap[t].on].kind = "browse",
         UNCHANGED <<disk, screen, calm, strayed, covered>>
  PROVE  BrowserInv'
<1> DEFINE r == [pc |-> "confirm", on |-> tap[t].on, path |-> p]
<1>1. /\ tap' = [tap EXCEPT ![t] = r]
      /\ browse' = IF browse = None THEN None ELSE [browse EXCEPT !.target = p]
  BY DEF Select
<1>2. Browsed(browse') /\ Selected(browse', p)
  BY <1>1 DEF BrowserInv, Browsed, Selected
<1>3. tap'[t] = r
  BY <1>1 DEF BrowserInv
<1>4. calm => TapInv(t)'
  BY <1>2, <1>3 DEF TapInv
<1>5. ASSUME calm, NEW m \in Boards PROVE screen[m].kind # "confirm"
  <2>1. tap[t].on \in Boards
    BY DEF BrowserInv
  <2>2. screen[m].kind # "none" => m = tap[t].on
    BY <1>5 DEF BrowserInv, CalmInv
  <2>. QED BY <1>5, <2>2
<1>6. calm => ~strayed' /\ ~covered'
  BY DEF BrowserInv, CalmInv
<1>7. disk' \subseteq Paths /\ tap[t].pc # "idle"
  BY DEF BrowserInv, OnBoard
<1>. QED BY <1>1, <1>2, <1>4, <1>5, <1>6, <1>7, TapGoesOn

\* What a tap with a button goes by.
LEMMA HandlesShown ==
  ASSUME BrowserInv, NEW t \in Taps, tap[t].pc = "handle", calm
  PROVE  /\ tap[t].button.do \in {"file", "folder", "open"} => screen[tap[t].on].kind = "browse"
         /\ tap[t].button.do = "exec" =>
               /\ screen[tap[t].on].kind = "confirm" /\ tap[t].shown = screen[tap[t].on].target
               /\ Selected(browse, None) \/ Selected(browse, tap[t].shown)
<1>1. tap[t].button \in ButtonsOf(screen[tap[t].on]) /\ OnBoard(t)
  BY DEF BrowserInv, CalmInv, TapInv, OnBoard
<1>2. tap[t].on \in Boards
  BY <1>1 DEF BrowserInv
<1>. QED BY <1>1, <1>2, ButtonsShown DEF BrowserInv, CalmInv, TapInv

LEMMA HandleKeeps ==
  ASSUME BrowserInv, NEW t \in Taps, TapStep(t), tap[t].pc = "handle"
  PROVE  BrowserInv'
<1>1. OnBoard(t) /\ UNCHANGED <<disk, screen, calm, strayed, covered>>
  BY DEF OnBoard, TapStep, NoState, CancelTap, Move, OpenFolder, ChooseFile, ChooseFolder, IfEmpty,
         Exec, Delete, List, Store, BuildConfirm, Edit, PickName, Download
<1>2. CASE NoState(t) \/ CancelTap(t) \/ Move(t) \/ OpenFolder(t)
  <2>1. browse' = browse \/ browse' = None
    BY <1>2 DEF NoState, CancelTap, Move, OpenFolder, Drop
  <2>2. ToEdit(t, Text) \/ \E path, page : ToList(t, path, page)
    BY <1>2 DEF NoState, CancelTap, Move, OpenFolder, Drop
  <2>. QED BY <1>1, <2>1, <2>2, TapListsOrSays
<1>3. CASE ChooseFile(t)
  <2>1. calm => screen[tap[t].on].kind = "browse"
    BY <1>3, HandlesShown DEF ChooseFile, Handling
  <2>2. Select(t, Entry(t)) \/ Drop(t)
    BY <1>3 DEF ChooseFile
  <2>3. CASE Select(t, Entry(t)) /\ Entry(t) \in disk
    BY <1>1, <2>1, <2>3, SelectKeeps
  <2>4. CASE Drop(t)
    BY <1>1, <2>4, TapListsOrSays DEF Drop
  <2>. QED BY <2>2, <2>3, <2>4 DEF Select
<1>4. CASE ChooseFolder(t)
  <2>1. calm => screen[tap[t].on].kind = "browse"
    BY <1>4, HandlesShown DEF ChooseFolder, Handling
  <2>2. CASE ToEdit(t, Text)
    BY <1>1, <1>4, <2>2, TapListsOrSays DEF ChooseFolder
  <2>3. CASE tap' = [tap EXCEPT ![t] = [pc |-> "empty", on |-> tap[t].on, path |-> browse.path]]
    <3> DEFINE r == [pc |-> "empty", on |-> tap[t].on, path |-> browse.path]
    <3>1. tap'[t] = r /\ UNCHANGED browse
      BY <1>4, <2>3 DEF BrowserInv, ChooseFolder
    <3>2. calm => TapInv(t)'
      BY <1>1, <2>1, <3>1 DEF TapInv
    <3>3. /\ disk' \subseteq Paths /\ Browsed(browse')
          /\ calm => ~strayed' /\ ~covered'
          /\ calm => \A m \in Boards : screen[m].kind = "confirm" =>
                Selected(browse', None) \/ Selected(browse', screen[m].target)
      BY <1>1, <3>1 DEF BrowserInv, CalmInv
    <3>. QED BY <1>1, <2>3, <3>2, <3>3, TapGoesOn
  <2>. QED BY <1>4, <2>2, <2>3 DEF ChooseFolder
<1>5. CASE Exec(t)
  <2>1. CASE Drop(t)
    BY <1>1, <2>1, TapListsOrSays DEF Drop
  <2>2. CASE /\ browse.target \in disk /\ UNCHANGED browse
             /\ tap' = [tap EXCEPT ![t] = [pc |-> "delete", on |-> tap[t].on,
                          path |-> browse.target, shown |-> tap[t].shown, state |-> browse]]
    <3> DEFINE r == [pc |-> "delete", on |-> tap[t].on, path |-> browse.target,
                     shown |-> tap[t].shown, state |-> browse]
    <3>1. tap'[t] = r
      BY <2>2 DEF BrowserInv
    <3>2. browse.target # None /\ browse # None
      BY <1>5, <2>2, DeleteBrowserAssumption DEF BrowserInv, Exec, Handling
    <3>3. calm => browse.target = tap[t].shown
      BY <1>5, <3>2, HandlesShown DEF Exec, Handling, Selected
    <3>4. calm => TapInv(t)'
      BY <3>1, <3>3 DEF TapInv
    <3>5. /\ disk' \subseteq Paths /\ Browsed(browse')
          /\ calm => ~strayed' /\ ~covered'
          /\ calm => \A m \in Boards : screen[m].kind = "confirm" =>
                Selected(browse', None) \/ Selected(browse', screen[m].target)
      BY <1>1, <2>2 DEF BrowserInv, CalmInv
    <3>. QED BY <1>1, <2>2, <3>4, <3>5, TapGoesOn
  <2>. QED BY <1>5, <2>1, <2>2 DEF Exec
<1>. QED BY <1>2, <1>3, <1>4, <1>5 DEF TapStep, IfEmpty, Delete, List, Store, BuildConfirm, Edit,
            PickName, Download

\* The steps after the button: threads, the new state and the edit.
LEMMA ThreadKeeps ==
  ASSUME BrowserInv, NEW t \in Taps,
         IfEmpty(t) \/ Delete(t) \/ List(t) \/ Store(t) \/ BuildConfirm(t) \/ Edit(t)
  PROVE  BrowserInv'
<1>0. OnBoard(t) /\ tap[t].pc # "idle" /\ UNCHANGED calm
  BY DEF OnBoard, IfEmpty, Delete, List, Store, BuildConfirm, Edit
<1>a. calm => TapInv(t) /\ ~strayed /\ ~covered
  BY DEF BrowserInv, CalmInv
<1>b. ASSUME UNCHANGED <<screen, browse>>
      PROVE  /\ Browsed(browse')
             /\ calm => \A m \in Boards : screen[m].kind = "confirm" =>
                  Selected(browse', None) \/ Selected(browse', screen[m].target)
  BY <1>b DEF BrowserInv, CalmInv
<1>1. CASE IfEmpty(t)
  <2>1. calm => screen[tap[t].on].kind = "browse"
    BY <1>1, <1>a DEF IfEmpty, TapInv
  <2>2. UNCHANGED <<disk, screen, calm, strayed, covered>>
    BY <1>1 DEF IfEmpty
  <2>3. CASE Select(t, tap[t].path) /\ tap[t].path \in disk
    BY <1>0, <2>1, <2>2, <2>3, SelectKeeps
  <2>4. CASE ToEdit(t, Text) /\ UNCHANGED browse
    BY <1>0, <2>2, <2>4, TapListsOrSays
  <2>. QED BY <1>1, <2>3, <2>4 DEF IfEmpty
<1>2. CASE Delete(t)
  <2>1. UNCHANGED <<screen, calm, covered>>
    BY <1>2 DEF Delete
  <2>2. CASE UNCHANGED <<disk, strayed>> /\ Drop(t)
    BY <1>0, <2>1, <2>2, TapListsOrSays DEF Drop
  <2>3. CASE /\ disk' = disk \ {tap[t].path} /\ UNCHANGED browse
             /\ strayed' = (strayed \/ tap[t].path # tap[t].shown)
             /\ \E path, page : ToList(t, path, page)
    <3>0. PICK path, page : ToList(t, path, page)
      BY <2>3
    <3> DEFINE r == [pc |-> "list", on |-> tap[t].on, path |-> path, page |-> page]
    <3>1. tap' = [tap EXCEPT ![t] = r] /\ r.on = tap[t].on /\ r.pc = "list"
      BY <3>0 DEF ToList
    <3> HIDE DEF r
    <3>2. tap'[t] = r
      BY <3>1 DEF BrowserInv
    <3>3. TapInv(t)'
      BY <3>1, <3>2 DEF TapInv
    <3>4. calm => ~strayed' /\ ~covered'
      <4>1. tap[t].pc = "delete"
        BY <1>2 DEF Delete
      <4>2. calm => tap[t].path = tap[t].shown
        BY <4>1, <1>a DEF TapInv
      <4>. QED BY <4>2, <1>a, <2>1, <2>3
    <3>5. disk' \subseteq Paths
      BY <2>3 DEF BrowserInv
    <3>. QED BY <1>0, <1>b, <2>1, <2>3, <3>1, <3>3, <3>4, <3>5, TapGoesOn
  <2>4. CASE tap' = [tap EXCEPT ![t] = NoTap] /\ UNCHANGED <<disk, browse, strayed>>
    <3>1. tap'[t] = NoTap /\ NoTap.pc = "idle"
      BY <2>4 DEF BrowserInv, NoTap
    <3>2. TapInv(t)'
      BY <3>1 DEF TapInv
    <3>3. disk' \subseteq Paths /\ (calm => ~strayed' /\ ~covered')
      BY <1>a, <2>1, <2>4 DEF BrowserInv
    <3>. QED BY <1>0, <1>b, <2>1, <2>4, <3>1, <3>2, <3>3, TapGoesOn
  <2>5. \/ UNCHANGED <<disk, strayed>> /\ Drop(t)
        \/ /\ disk' = disk \ {tap[t].path} /\ UNCHANGED browse
           /\ strayed' = (strayed \/ tap[t].path # tap[t].shown)
           /\ \E path, page : ToList(t, path, page)
        \/ tap' = [tap EXCEPT ![t] = NoTap] /\ UNCHANGED <<disk, browse, strayed>>
    BY <1>2, Zenon DEF Delete
  <2>. QED BY <2>2, <2>3, <2>4, <2>5
<1>3. CASE List(t)
  BY <1>0, <1>3, TapListsOrSays DEF List
<1>4. CASE Store(t)
  <2> DEFINE r == [pc |-> "edit", on |-> tap[t].on, view |-> tap[t].view]
  <2>1. /\ tap' = [tap EXCEPT ![t] = r]
        /\ browse' = [path |-> tap[t].path, page |-> tap[t].view.page,
                      entries |-> tap[t].view.entries, target |-> None]
        /\ UNCHANGED <<disk, screen, strayed, covered>>
    BY <1>4 DEF Store, ToEdit
  <2>2. tap'[t] = r
    BY <2>1 DEF BrowserInv
  <2>3. Browsed(browse') /\ Selected(browse', None)
    BY <2>1 DEF Browsed, Selected
  <2>4. calm => tap[t].view.kind # "confirm"
    BY <1>4, <1>a DEF Store, TapInv
  <2>5. calm => TapInv(t)'
    BY <2>2, <2>4 DEF TapInv
  <2>6. disk' \subseteq Paths /\ (calm => ~strayed' /\ ~covered')
    BY <1>a, <2>1 DEF BrowserInv
  <2>. QED BY <1>0, <2>1, <2>3, <2>5, <2>6, TapGoesOn
<1>5. CASE BuildConfirm(t)
  <2>1. UNCHANGED <<disk, browse, screen, strayed, covered>>
    BY <1>5 DEF BuildConfirm
  <2>2. calm => Selected(browse, tap[t].path)
    BY <1>5, <1>a DEF BuildConfirm, TapInv
  <2> DEFINE view == [kind |-> "confirm", target |-> tap[t].path]
             r == IF tap[t].path \in disk THEN [pc |-> "edit", on |-> tap[t].on, view |-> view]
                  ELSE NoTap
  <2>3. /\ tap' = [tap EXCEPT ![t] = r]
        /\ \/ r.pc = "idle"
           \/ /\ r.pc = "edit" /\ r.on = tap[t].on
              /\ r.view.kind = "confirm" /\ r.view.target = tap[t].path
    BY <1>5 DEF BuildConfirm, ToEdit, NoTap
  <2> HIDE DEF r
  <2>4. tap'[t] = r
    BY <2>3 DEF BrowserInv
  <2>5. calm => TapInv(t)'
    BY <2>1, <2>2, <2>3, <2>4 DEF TapInv
  <2>6. disk' \subseteq Paths /\ (calm => ~strayed' /\ ~covered')
    BY <1>a, <2>1 DEF BrowserInv
  <2>. QED BY <1>0, <1>b, <2>1, <2>3, <2>5, <2>6, TapGoesOn
<1>6. CASE Edit(t)
  <2> DEFINE m == tap[t].on
  <2>1. /\ tap' = [tap EXCEPT ![t] = NoTap] /\ UNCHANGED <<disk, browse, strayed, covered>>
        /\ screen' = [screen EXCEPT ![m] = tap[t].view] \/ UNCHANGED screen
    BY <1>6 DEF Edit
  <2>2. tap'[t].pc = "idle" /\ \A s \in Taps \ {t} : tap'[s] = tap[s]
    BY <2>1 DEF BrowserInv, NoTap
  <2>3. /\ DOMAIN tap' = Taps /\ DOMAIN screen' = Boards /\ Browsed(browse') /\ disk' \subseteq Paths
        /\ \A n \in Boards \ {m} : screen'[n] = screen[n]
    BY <2>1 DEF BrowserInv
  <2>4. (\A s \in Taps : OnBoard(s)' => tap'[s].on \in Boards)
      /\ (\A s \in Taps : tap'[s].pc = "download" => tap'[s].path \in Paths)
    BY <2>2 DEF OnBoard, BrowserInv
  <2>5. m \in Boards
    BY <1>0 DEF BrowserInv
  <2>6. ASSUME calm PROVE CalmInv'
    <3>1. \A s \in Taps : tap'[s].pc = "idle" /\ TapInv(s)'
      BY <2>2, <2>6, <1>0 DEF BrowserInv, CalmInv, TapInv
    <3>2. \A n \in Boards : screen'[n].kind # "none" => n = m
      BY <1>0, <2>3, <2>6 DEF BrowserInv, CalmInv
    <3>3. screen'[m].kind = "confirm" =>
             Selected(browse', None) \/ Selected(browse', screen'[m].target)
      <4>1. CASE UNCHANGED screen
        BY <2>1, <2>5, <2>6, <4>1 DEF BrowserInv, CalmInv
      <4>2. CASE screen' = [screen EXCEPT ![m] = tap[t].view]
        <5>1. screen'[m] = tap[t].view
          BY <2>5, <4>2 DEF BrowserInv
        <5>. QED BY <1>6, <1>a, <2>1, <2>6, <5>1 DEF Edit, TapInv
      <4>. QED BY <2>1, <4>1, <4>2
    <3>. QED BY <1>a, <2>1, <2>6, <3>1, <3>2, <3>3 DEF CalmInv, OnBoard
  <2>. QED BY <1>0, <2>3, <2>4, <2>6 DEF BrowserInv
<1>. QED BY <1>1, <1>2, <1>3, <1>4, <1>5, <1>6

LEMMA BrowserInvStep ==
  ASSUME BrowserInv, [BrowserNext]_browserVars
  PROVE  BrowserInv'
<1>1. CASE UNCHANGED browserVars
  BY <1>1 DEF browserVars, BrowserInv, CalmInv, TapInv, OnBoard, Selected, Browsed
<1>2. ASSUME NEW t \in Taps, NEW m \in Boards, Command(t, m)
      PROVE  BrowserInv'
  <2> DEFINE r == [pc |-> "list", on |-> m, path |-> Root, page |-> 0]
  <2>1. tap' = [tap EXCEPT ![t] = r] /\ tap'[t] = r
    BY <1>2 DEF Command, BrowserInv
  <2>2. TapInv(t)'
    BY <2>1 DEF TapInv
  <2>. QED BY <1>2, <2>1, <2>2, TapBegins DEF Command
<1>3. ASSUME NEW t \in Taps, NEW m \in Boards, NEW button \in ButtonsOf(screen[m]), Press(t, m, button)
      PROVE  BrowserInv'
  <2> DEFINE r == [pc |-> "handle", on |-> m, button |-> button,
                   shown |-> IF screen[m].kind = "confirm" THEN screen[m].target ELSE None]
  <2>1. tap' = [tap EXCEPT ![t] = r] /\ tap'[t] = r /\ UNCHANGED screen
    BY <1>3 DEF Press, BrowserInv
  <2>2. TapInv(t)'
    BY <2>1 DEF TapInv, ButtonsOf, Pages, OnPage
  <2>3. screen[m].kind # "none"
    BY DEF ButtonsOf
  <2>4. calm' => \A n \in Boards : screen[n].kind # "none" => n = m
    BY <1>3, <2>3 DEF Press, BrowserInv, CalmInv
  <2>5. r.pc # "download" /\ r.on = m /\ r.pc = "handle"
    OBVIOUS
  <2> HIDE DEF r
  <2>6. IF r.pc = "download" THEN r.path \in Paths ELSE r.on \in Boards
    BY <2>5
  <2>7. /\ tap[t].pc = "idle" /\ UNCHANGED <<disk, browse, screen, strayed, covered>>
        /\ calm' => calm /\ Busy = {}
    BY <1>3 DEF Press
  <2>. QED BY <2>1, <2>2, <2>4, <2>5, <2>6, <2>7, TapBegins
<1>4. ASSUME NEW t \in Taps, PickName(t)
      PROVE  BrowserInv'
  <2>1. PICK i \in DOMAIN FirstFree :
           /\ FirstFree[i] \notin disk
           /\ tap' = [tap EXCEPT ![t] = [pc |-> "download", path |-> FirstFree[i]]]
    BY <1>4 DEF PickName
  <2>2. tap'[t] = [pc |-> "download", path |-> FirstFree[i]] /\ UNCHANGED disk
    BY <1>4, <2>1 DEF PickName, BrowserInv
  <2>3. TapInv(t)'
    BY <2>1, <2>2 DEF TapInv
  <2>4. FirstFree[i] \in Paths
    BY DeleteBrowserAssumption
  <2>. QED BY <1>4, <2>1, <2>3, <2>4, TapBegins DEF PickName
<1>5. ASSUME NEW t \in Taps, Download(t)
      PROVE  BrowserInv'
  <2>1. tap' = [tap EXCEPT ![t] = NoTap] /\ tap'[t].pc = "idle" /\ NoTap.pc = "idle"
    BY <1>5 DEF Download, BrowserInv, NoTap
  <2>2. TapInv(t)'
    BY <2>1 DEF TapInv
  <2>3. calm => ~strayed' /\ ~covered'
    BY <1>5 DEF Download, BrowserInv, CalmInv, TapInv
  <2>4. UNCHANGED <<browse, screen, calm>> /\ tap[t].pc = "download"
    BY <1>5 DEF Download
  <2>5. disk' \subseteq Paths
    <3>1. tap[t].path \in Paths
      BY <2>4 DEF BrowserInv
    <3>. QED BY <1>5, <3>1 DEF Download, BrowserInv
  <2>6. calm => \A m \in Boards : screen[m].kind = "confirm" =>
                   Selected(browse', None) \/ Selected(browse', screen[m].target)
    BY <2>4 DEF BrowserInv, CalmInv
  <2>7. Browsed(browse')
    BY <2>4 DEF BrowserInv
  <2>. QED BY <2>1, <2>2, <2>3, <2>4, <2>5, <2>6, <2>7, TapGoesOn
<1>6. ASSUME NEW p \in Paths, Vanish(p)
      PROVE  BrowserInv'
  BY <1>6 DEF Vanish, BrowserInv, CalmInv, TapInv, OnBoard, Selected, Browsed
<1>7. ASSUME NEW t \in Taps, TapStep(t) PROVE BrowserInv'
  <2>1. CASE tap[t].pc = "handle"
    BY <1>7, <2>1, HandleKeeps
  <2>2. CASE tap[t].pc # "handle"
    BY <1>4, <1>5, <1>7, <2>2, ThreadKeeps DEF TapStep, NoState, CancelTap, Move, OpenFolder,
       ChooseFile, ChooseFolder, Exec, Handling
  <2>. QED BY <2>1, <2>2
<1>. QED BY <1>1, <1>2, <1>3, <1>6, <1>7 DEF BrowserNext

-----------------------------------------------------------------------------
(* Paths: prefixes, and what a move makes of a path *)

\* A name is what was typed and the numbers added to it.
Names == Seq(STRING \cup Nat)
AllPaths == Seq(Names)

LEMMA PathFacts ==
  ASSUME NEW p \in AllPaths
  PROVE  /\ Len(p) \in Nat /\ \A i \in 1..Len(p) : p[i] \in Names
         /\ p # <<>> => Len(p) # 0
<1>1. Len(p) \in Nat /\ \A i \in 1..Len(p) : p[i] \in Names
  BY ElementOfSeq, LenProperties DEF AllPaths
<1>2. p # <<>> => Len(p) # 0
  BY EmptySeq DEF AllPaths
<1>. QED BY <1>1, <1>2

LEMMA EmptyPath == <<>> \in AllPaths /\ Len(<<>>) = 0
BY EmptySeq DEF AllPaths

LEMMA PathEqual ==
  ASSUME NEW p \in AllPaths, NEW q \in AllPaths, Len(p) = Len(q), \A i \in 1..Len(p) : p[i] = q[i]
  PROVE  p = q
BY SeqEqual DEF AllPaths

LEMMA PrefixIs ==
  ASSUME NEW p \in AllPaths, NEW q \in AllPaths
  PROVE  IsPrefix(p, q) <=> Len(p) <= Len(q) /\ \A i \in 1..Len(p) : p[i] = q[i]
<1>1. /\ Len(p) \in Nat /\ Len(q) \in Nat
      /\ \A i \in 1..Len(p) : p[i] \in Names
      /\ \A i \in 1..Len(q) : q[i] \in Names
  BY PathFacts
<1>2. SubSeq(p, 1, Len(p)) = p
  BY SubSeqFull DEF AllPaths
<1>3. ASSUME Len(p) <= Len(q)
      PROVE  /\ SubSeq(q, 1, Len(p)) \in AllPaths /\ Len(SubSeq(q, 1, Len(p))) = Len(p)
             /\ \A i \in 1..Len(p) : SubSeq(q, 1, Len(p))[i] = q[i]
  BY <1>1, <1>3, SubSeqProperties DEF AllPaths
<1>4. ASSUME Len(p) <= Len(q), \A i \in 1..Len(p) : p[i] = q[i]
      PROVE  p = SubSeq(q, 1, Len(p))
  BY <1>3, <1>4, PathEqual
<1>. QED BY <1>1, <1>2, <1>3, <1>4 DEF IsPrefix

\* A proper prefix is one of the folders that lead to the path.
LEMMA PrefixOrder ==
  ASSUME NEW p \in AllPaths, NEW q \in AllPaths, NEW x \in AllPaths
  PROVE  /\ IsPrefix(p, p) /\ IsPrefix(<<>>, p)
         /\ IsPrefix(p, <<>>) => p = <<>>
         /\ IsPrefix(p, q) /\ IsPrefix(q, x) => IsPrefix(p, x)
         /\ IsPrefix(p, x) /\ IsPrefix(q, x) /\ Len(p) <= Len(q) => IsPrefix(p, q)
         /\ IsPrefix(p, q) => Len(p) <= Len(q)
         /\ IsPrefix(p, q) /\ Len(p) = Len(q) => p = q
<1>1. /\ Len(p) \in Nat /\ Len(q) \in Nat /\ Len(x) \in Nat
      /\ <<>> \in AllPaths /\ Len(<<>>) = 0
  BY PathFacts, EmptyPath
<1>2. IsPrefix(p, p) /\ IsPrefix(<<>>, p)
  <2>1. IsPrefix(p, p)
    BY PrefixIs
  <2>2. \A e \in AllPaths : Len(e) = 0 => IsPrefix(e, p)
    <3> SUFFICES ASSUME NEW e \in AllPaths, Len(e) = 0 PROVE IsPrefix(e, p)
      OBVIOUS
    <3>1. Len(e) <= Len(p) /\ \A i \in 1..Len(e) : e[i] = p[i]
      BY <1>1
    <3>. QED BY <3>1, PrefixIs
  <2>. QED BY <1>1, <2>1, <2>2
<1>3. ASSUME IsPrefix(p, <<>>) PROVE p = <<>>
  <2> DEFINE e == <<>>
  <2>1. e \in AllPaths /\ Len(e) = 0 /\ IsPrefix(p, e)
    BY <1>1, <1>3
  <2> HIDE DEF e
  <2>2. Len(p) <= Len(e)
    BY <2>1, PrefixIs
  <2>3. Len(p) = 0
    BY <1>1, <2>1, <2>2
  <2>. QED BY <2>3, PathFacts
<1>4. ASSUME IsPrefix(p, q), IsPrefix(q, x) PROVE IsPrefix(p, x)
  <2>1. /\ Len(p) <= Len(q) /\ \A i \in 1..Len(p) : p[i] = q[i]
        /\ Len(q) <= Len(x) /\ \A i \in 1..Len(q) : q[i] = x[i]
    BY <1>4, PrefixIs
  <2>2. \A i \in 1..Len(p) : p[i] = x[i]
    BY <1>1, <2>1
  <2>3. Len(p) <= Len(x)
    BY <1>1, <2>1
  <2>. QED BY <2>2, <2>3, PrefixIs
<1>5. ASSUME IsPrefix(p, x), IsPrefix(q, x), Len(p) <= Len(q) PROVE IsPrefix(p, q)
  <2>1. /\ \A i \in 1..Len(p) : p[i] = x[i]
        /\ \A i \in 1..Len(q) : q[i] = x[i]
    BY <1>5, PrefixIs
  <2>2. \A i \in 1..Len(p) : p[i] = q[i]
    BY <1>1, <1>5, <2>1
  <2>. QED BY <1>5, <2>2, PrefixIs
<1>6. ASSUME IsPrefix(p, q), Len(p) = Len(q) PROVE p = q
  <2>1. \A i \in 1..Len(p) : p[i] = q[i]
    BY <1>6, PrefixIs
  <2>. QED BY <1>6, <2>1, PathEqual
<1>7. IsPrefix(p, q) => Len(p) <= Len(q)
  BY PrefixIs
<1>. QED BY <1>2, <1>3, <1>4, <1>5, <1>6, <1>7

\* A part of a sequence, by where it begins and how long it is.
LEMMA PartIs ==
  ASSUME NEW p \in AllPaths, NEW m \in Nat, NEW n \in Nat, NEW hi, hi = m + n, hi <= Len(p)
  PROVE  /\ SubSeq(p, m + 1, hi) \in AllPaths /\ Len(SubSeq(p, m + 1, hi)) = n
         /\ \A i \in 1..n : SubSeq(p, m + 1, hi)[i] = p[m + i]
<1>1. Len(p) \in Nat /\ \A i \in 1..Len(p) : p[i] \in Names
  BY PathFacts
<1>2. /\ m + 1 \in Int /\ hi \in Int
      /\ \A i \in (m + 1)..hi : p[i] \in Names
  BY <1>1
<1> DEFINE w == SubSeq(p, m + 1, hi)
<1>3. /\ w \in AllPaths
      /\ Len(w) = IF m + 1 <= hi THEN hi - (m + 1) + 1 ELSE 0
      /\ \A i \in 1..hi - (m + 1) + 1 : w[i] = p[(m + 1) + i - 1]
  BY <1>2, SubSeqProperties DEF AllPaths
<1> HIDE DEF w
<1>4. Len(w) = n /\ hi - (m + 1) + 1 = n
  BY <1>3
<1>5. \A i \in 1..n : w[i] = p[m + i]
  <2> SUFFICES ASSUME NEW i \in 1..n PROVE w[i] = p[m + i]
    OBVIOUS
  <2>1. w[i] = p[(m + 1) + i - 1]
    BY <1>3, <1>4
  <2>2. (m + 1) + i - 1 = m + i
    OBVIOUS
  <2>. QED BY <2>1, <2>2
<1>. QED BY <1>3, <1>4, <1>5 DEF w

LEMMA FrontOf ==
  ASSUME NEW p \in AllPaths, p # <<>>
  PROVE  /\ Front(p) \in AllPaths /\ Len(Front(p)) = Len(p) - 1
         /\ IsPrefix(Front(p), p) /\ Last(p) \in Names
         /\ \A q \in AllPaths : IsPrefix(q, p) /\ q # p => IsPrefix(q, Front(p))
<1>1. Len(p) \in Nat \ {0} /\ \A i \in 1..Len(p) : p[i] \in Names
  BY PathFacts
<1> DEFINE f == SubSeq(p, 1, Len(p) - 1)
<1>2. /\ f \in AllPaths /\ Len(f) = Len(p) - 1
      /\ \A i \in 1..Len(p) - 1 : f[i] = p[i]
  <2> DEFINE n == Len(p) - 1
  <2>1. n \in Nat /\ 0 \in Nat /\ n = 0 + n /\ n <= Len(p) /\ 0 + 1 = 1
    BY <1>1
  <2>2. /\ SubSeq(p, 0 + 1, n) \in AllPaths /\ Len(SubSeq(p, 0 + 1, n)) = n
        /\ \A i \in 1..n : SubSeq(p, 0 + 1, n)[i] = p[0 + i]
    <3> HIDE DEF n
    <3>. QED BY <2>1, PartIs
  <2>3. /\ SubSeq(p, 1, n) \in AllPaths /\ Len(SubSeq(p, 1, n)) = n
        /\ \A i \in 1..n : SubSeq(p, 1, n)[i] = p[i]
    <3> HIDE DEF n
    <3>1. \A i \in 1..n : 0 + i = i
      BY <2>1
    <3>. QED BY <2>1, <2>2, <3>1
  <2>. QED BY <2>3
<1>3. Front(p) = f
  BY DEF Front
<1> HIDE DEF f
<1>4. IsPrefix(f, p)
  BY <1>1, <1>2, PrefixIs
<1>5. ASSUME NEW q \in AllPaths, IsPrefix(q, p), q # p
      PROVE  IsPrefix(q, f)
  <2>1. Len(q) \in Nat /\ Len(q) <= Len(p) /\ Len(q) # Len(p)
    BY <1>5, PrefixOrder, PathFacts
  <2>. QED BY <1>1, <1>2, <1>4, <1>5, <2>1, PrefixOrder
<1>. QED BY <1>1, <1>2, <1>3, <1>4, <1>5 DEF Last

LEMMA AppendIs ==
  ASSUME NEW p \in AllPaths, NEW e \in Names
  PROVE  /\ Append(p, e) \in AllPaths /\ Append(p, e) # <<>>
         /\ Front(Append(p, e)) = p /\ Last(Append(p, e)) = e
         /\ IsPrefix(p, Append(p, e)) /\ Len(Append(p, e)) = Len(p) + 1
<1> DEFINE x == Append(p, e)
<1>1. /\ x \in AllPaths /\ Len(x) = Len(p) + 1 /\ x[Len(p) + 1] = e
      /\ \A i \in 1..Len(p) : x[i] = p[i]
  BY AppendProperties DEF AllPaths
<1>2. Len(p) \in Nat /\ x # <<>>
  BY <1>1, PathFacts, EmptyPath
<1> HIDE DEF x
<1>3. IsPrefix(p, x)
  BY <1>1, <1>2, PrefixIs
<1>4. p # x
  BY <1>1, <1>2
<1>5. IsPrefix(p, Front(x)) /\ Front(x) \in AllPaths /\ Len(Front(x)) = Len(p)
  BY <1>1, <1>2, <1>3, <1>4, FrontOf
<1>6. Front(x) = p
  BY <1>5, PrefixOrder
<1>. QED BY <1>1, <1>2, <1>3, <1>6 DEF x, Last

\* What follows a prefix.
LEMMA SuffixIs ==
  ASSUME NEW p \in AllPaths, NEW x \in AllPaths, Len(p) <= Len(x)
  PROVE  /\ Suffix(x, p) \in AllPaths /\ Len(Suffix(x, p)) = Len(x) - Len(p)
         /\ \A i \in 1..Len(x) - Len(p) : Suffix(x, p)[i] = x[Len(p) + i]
<1> DEFINE m == Len(p)
           n == Len(x) - Len(p)
           hi == Len(x)
<1>1. m \in Nat /\ n \in Nat /\ hi = m + n /\ hi <= Len(x)
  BY PathFacts
<1>2. /\ SubSeq(x, m + 1, hi) \in AllPaths /\ Len(SubSeq(x, m + 1, hi)) = n
      /\ \A i \in 1..n : SubSeq(x, m + 1, hi)[i] = x[m + i]
  <2> HIDE DEF m, n, hi
  <2>1. SubSeq(x, m + 1, hi) \in AllPaths
    BY <1>1, PartIs
  <2>2. Len(SubSeq(x, m + 1, hi)) = n
    BY <1>1, PartIs
  <2>3. \A i \in 1..n : SubSeq(x, m + 1, hi)[i] = x[m + i]
    BY <1>1, PartIs
  <2>. QED BY <2>1, <2>2, <2>3
<1>. QED BY <1>2 DEF Suffix

LEMMA ConcatIs ==
  ASSUME NEW p \in AllPaths, NEW x \in AllPaths
  PROVE  /\ p \o x \in AllPaths /\ Len(p \o x) = Len(p) + Len(x) /\ IsPrefix(p, p \o x)
         /\ \A i \in 1..Len(p) : (p \o x)[i] = p[i]
         /\ \A i \in 1..Len(x) : (p \o x)[Len(p) + i] = x[i]
         /\ Suffix(p \o x, p) = x
<1> DEFINE y == p \o x
           w == Suffix(y, p)
<1>1. /\ y \in AllPaths /\ Len(y) = Len(p) + Len(x)
      /\ \A i \in 1..Len(p) + Len(x) : y[i] = IF i <= Len(p) THEN p[i] ELSE x[i - Len(p)]
  BY ConcatProperties DEF AllPaths
<1> HIDE DEF y
<1>2. Len(p) \in Nat /\ Len(x) \in Nat
  BY PathFacts
<1>3. \A i \in 1..Len(p) : y[i] = p[i]
  BY <1>1, <1>2
<1>4. \A i \in 1..Len(x) : y[Len(p) + i] = x[i]
  <2> SUFFICES ASSUME NEW i \in 1..Len(x) PROVE y[Len(p) + i] = x[i]
    OBVIOUS
  <2>1. /\ Len(p) + i \in 1..Len(p) + Len(x) /\ ~(Len(p) + i <= Len(p))
        /\ Len(p) + i - Len(p) = i
    BY <1>2
  <2>. QED BY <1>1, <2>1
<1>5. Len(p) <= Len(y) /\ Len(y) - Len(p) = Len(x)
  BY <1>1, <1>2
<1>6. IsPrefix(p, y)
  BY <1>1, <1>3, <1>5, PrefixIs
<1>7. /\ w \in AllPaths /\ Len(w) = Len(x)
      /\ \A i \in 1..Len(x) : w[i] = y[Len(p) + i]
  <2>1. /\ w \in AllPaths /\ Len(w) = Len(y) - Len(p)
        /\ \A i \in 1..Len(y) - Len(p) : w[i] = y[Len(p) + i]
    BY <1>1, <1>5, SuffixIs, Zenon
  <2> HIDE DEF w
  <2>. QED BY <1>5, <2>1
<1> HIDE DEF w
<1>8. w = x
  BY <1>4, <1>7, PathEqual
<1>. QED BY <1>1, <1>3, <1>4, <1>6, <1>8 DEF y, w

\* y comes to be below dst as x is below src.
MovesTo(x, src, y, dst) ==
  IsPrefix(src, x) /\ IsPrefix(dst, y) /\ Suffix(x, src) = Suffix(y, dst)

SameAfter(x, src, y, dst) ==
  \A i \in 1..Len(x) - Len(src) : y[Len(dst) + i] = x[Len(src) + i]

LEMMA MovedSizes ==
  ASSUME NEW src \in AllPaths, NEW dst \in AllPaths, NEW x \in AllPaths, NEW y \in AllPaths,
         MovesTo(x, src, y, dst)
  PROVE  /\ Len(y) + Len(src) <= Len(x) + Len(dst)
         /\ Len(x) + Len(dst) <= Len(y) + Len(src)
         /\ SameAfter(x, src, y, dst)
<1>1. /\ Len(src) \in Nat /\ Len(x) \in Nat /\ Len(dst) \in Nat /\ Len(y) \in Nat
      /\ Len(src) <= Len(x) /\ Len(dst) <= Len(y)
      /\ \A i \in 1..Len(dst) : dst[i] = y[i]
  BY PrefixIs, PathFacts DEF MovesTo
<1> DEFINE z == Suffix(x, src)
<1>2. /\ z \in AllPaths /\ Len(z) = Len(x) - Len(src)
      /\ \A i \in 1..Len(x) - Len(src) : z[i] = x[Len(src) + i]
  BY <1>1, SuffixIs
<1>3. /\ Len(z) = Len(y) - Len(dst)
      /\ \A i \in 1..Len(y) - Len(dst) : z[i] = y[Len(dst) + i]
  <2>1. z = Suffix(y, dst)
    BY DEF MovesTo
  <2> HIDE DEF z
  <2>. QED BY <1>1, <2>1, SuffixIs
<1> HIDE DEF z
<1>4. Len(y) + Len(src) <= Len(x) + Len(dst) /\ Len(x) + Len(dst) <= Len(y) + Len(src)
  <2>1. Len(z) = Len(x) - Len(src)
    BY <1>2
  <2>2. Len(z) = Len(y) - Len(dst)
    BY <1>3
  <2>3. /\ Len(src) \in Nat /\ Len(x) \in Nat /\ Len(dst) \in Nat /\ Len(y) \in Nat
        /\ Len(src) <= Len(x) /\ Len(dst) <= Len(y)
    BY <1>1
  <2> DEFINE lz == Len(z)
             ls == Len(src)
             lx == Len(x)
             ld == Len(dst)
             ly == Len(y)
  <2>4. /\ lz = lx - ls /\ lz = ly - ld /\ ls \in Nat /\ lx \in Nat /\ ld \in Nat /\ ly \in Nat
    BY <2>1, <2>2, <2>3
  <2> HIDE DEF lz, ls, lx, ld, ly
  <2>5. ly + ls <= lx + ld /\ lx + ld <= ly + ls
    BY <2>4
  <2>. QED BY <2>5 DEF ls, lx, ld, ly
<1>5. \A i \in 1..Len(x) - Len(src) : y[Len(dst) + i] = x[Len(src) + i]
  BY <1>2, <1>3
<1>. QED BY <1>4, <1>5 DEF SameAfter

LEMMA MovedIs ==
  ASSUME NEW src \in AllPaths, NEW dst \in AllPaths, NEW x \in AllPaths, NEW y \in AllPaths,
         MovesTo(x, src, y, dst)
  PROVE  y = dst \o Suffix(x, src)
<1> DEFINE z == Suffix(y, dst)
           v == dst \o z
<1>1. /\ Len(dst) \in Nat /\ Len(y) \in Nat /\ Len(dst) <= Len(y)
      /\ \A i \in 1..Len(dst) : dst[i] = y[i]
  BY PrefixIs, PathFacts DEF MovesTo
<1>2. z = Suffix(x, src)
  BY DEF MovesTo
<1>3. /\ z \in AllPaths /\ Len(z) = Len(y) - Len(dst)
      /\ \A i \in 1..Len(y) - Len(dst) : z[i] = y[Len(dst) + i]
  BY <1>1, SuffixIs
<1> HIDE DEF z
<1>6. /\ v \in AllPaths /\ Len(v) = Len(dst) + Len(z)
      /\ \A i \in 1..Len(dst) : v[i] = dst[i]
      /\ \A i \in 1..Len(z) : v[Len(dst) + i] = z[i]
  <2>1. z \in AllPaths
    BY <1>3
  <2>. QED BY <2>1, ConcatIs
<1> HIDE DEF v
<1>7. Len(v) = Len(y)
  BY <1>1, <1>3, <1>6
<1>8. \A i \in 1..Len(v) : v[i] = y[i]
  <2> SUFFICES ASSUME NEW i \in 1..Len(v) PROVE v[i] = y[i]
    OBVIOUS
  <2>1. CASE i <= Len(dst)
    BY <1>1, <1>6, <2>1
  <2>2. CASE i > Len(dst)
    <3>1. PICK h \in 1..Len(z) : i = Len(dst) + h
      <4>1. i - Len(dst) \in 1..Len(z) /\ i = Len(dst) + (i - Len(dst))
        BY <1>1, <1>3, <1>7, <2>2
      <4>. QED BY <4>1
    <3>. QED BY <1>3, <1>6, <3>1
  <2>. QED BY <1>1, <1>7, <2>1, <2>2
<1>9. v = y
  BY <1>6, <1>7, <1>8, PathEqual
<1>. QED BY <1>2, <1>9 DEF v

\* What is below src has a place below dst, and only one.
LEMMA MovedTo ==
  ASSUME NEW src \in AllPaths, NEW dst \in AllPaths, NEW x \in AllPaths, IsPrefix(src, x)
  PROVE  /\ dst \o Suffix(x, src) \in AllPaths
         /\ MovesTo(x, src, dst \o Suffix(x, src), dst)
<1> DEFINE z == Suffix(x, src)
<1>1. z \in AllPaths
  <2>1. Len(src) <= Len(x)
    BY PrefixIs
  <2>. QED BY <2>1, SuffixIs
<1> HIDE DEF z
<1>2. dst \o z \in AllPaths
  BY <1>1, ConcatIs
<1>3. IsPrefix(dst, dst \o z)
  BY <1>1, ConcatIs
<1>4. Suffix(dst \o z, dst) = z
  BY <1>1, ConcatIs
<1>. QED BY <1>2, <1>3, <1>4 DEF MovesTo, z

\* The folders that lead to a place below dst lead to dst, or come from below src.
LEMMA MovedPrefix ==
  ASSUME NEW src \in AllPaths, NEW dst \in AllPaths, NEW x \in AllPaths, NEW y \in AllPaths,
         MovesTo(x, src, y, dst), NEW q \in AllPaths, IsPrefix(q, y), q # y
  PROVE  \/ IsPrefix(q, dst) /\ q # dst
         \/ \E z \in AllPaths : MovesTo(z, src, q, dst) /\ IsPrefix(z, x) /\ z # x
<1>1. /\ Len(q) \in Nat /\ Len(dst) \in Nat /\ Len(src) \in Nat /\ Len(x) \in Nat /\ Len(y) \in Nat
      /\ IsPrefix(src, x) /\ IsPrefix(dst, y)
  BY PathFacts DEF MovesTo
<1>2. CASE Len(q) < Len(dst)
  <2>1. IsPrefix(q, dst)
    BY <1>1, <1>2, PrefixOrder
  <2>. QED BY <1>2, <2>1
<1>3. CASE Len(dst) <= Len(q)
  <2>1. IsPrefix(dst, q)
    BY <1>1, <1>3, PrefixOrder
  <2> DEFINE z == src \o Suffix(q, dst)
  <2>2. z \in AllPaths /\ MovesTo(q, dst, z, src)
    BY <2>1, MovedTo
  <2>3. MovesTo(z, src, q, dst)
    BY <2>2 DEF MovesTo
  <2> HIDE DEF z
  <2>4. /\ Len(z) + Len(dst) <= Len(q) + Len(src)
        /\ SameAfter(q, dst, z, src)
    BY <2>2, MovedSizes
  <2>5. /\ Len(y) + Len(src) <= Len(x) + Len(dst)
        /\ SameAfter(x, src, y, dst)
    BY MovedSizes
  <2>6. Len(q) < Len(y) /\ \A i \in 1..Len(q) : q[i] = y[i]
    <3>1. Len(q) <= Len(y) /\ Len(q) # Len(y)
      BY PrefixOrder
    <3>. QED BY <1>1, <3>1, PrefixIs
  <2>7. \A i \in 1..Len(src) : src[i] = z[i] /\ src[i] = x[i]
    <3>1. IsPrefix(src, z)
      BY <2>3 DEF MovesTo
    <3>2. \A i \in 1..Len(src) : src[i] = z[i]
      BY <2>2, <3>1, PrefixIs
    <3>3. \A i \in 1..Len(src) : src[i] = x[i]
      BY <1>1, PrefixIs
    <3>. QED BY <3>2, <3>3
  <2>8. Len(z) < Len(x) /\ Len(z) <= Len(x)
    <3>1. Len(z) \in Nat
      BY <2>2, PathFacts
    <3>. QED BY <1>1, <2>4, <2>5, <2>6, <3>1
  <2>9. \A i \in 1..Len(z) : z[i] = x[i]
    <3> SUFFICES ASSUME NEW i \in 1..Len(z) PROVE z[i] = x[i]
      OBVIOUS
    <3>1. CASE i <= Len(src)
      BY <1>1, <2>4, <2>7, <3>1
    <3>2. CASE i > Len(src)
      <4>1. PICK h \in 1..Len(q) - Len(dst) : i = Len(src) + h
        <5>1. i - Len(src) \in 1..Len(q) - Len(dst) /\ i = Len(src) + (i - Len(src))
          BY <1>1, <1>3, <2>4, <3>2
        <5>. QED BY <5>1
      <4>2. h \in 1..Len(x) - Len(src) /\ Len(dst) + h \in 1..Len(q)
        BY <1>1, <1>3, <2>5, <2>6
      <4>3. z[Len(src) + h] = q[Len(dst) + h]
        BY <2>4, <4>1 DEF SameAfter
      <4>4. y[Len(dst) + h] = x[Len(src) + h]
        BY <2>5, <4>2 DEF SameAfter
      <4>. QED BY <2>6, <4>1, <4>2, <4>3, <4>4
    <3>. QED BY <1>1, <2>4, <3>1, <3>2
  <2>10. IsPrefix(z, x)
    BY <2>2, <2>8, <2>9, PrefixIs
  <2>11. z # x
    BY <1>1, <2>8
  <2>. QED BY <2>2, <2>3, <2>10, <2>11
<1>4. Len(q) < Len(dst) \/ Len(dst) <= Len(q)
  BY <1>1
<1>. QED BY <1>2, <1>3, <1>4

LEMMA PrefixAnti ==
  ASSUME NEW p \in AllPaths, NEW q \in AllPaths, IsPrefix(p, q), IsPrefix(q, p)
  PROVE  p = q
<1>1. Len(p) \in Nat /\ Len(q) \in Nat /\ Len(p) <= Len(q) /\ Len(q) <= Len(p)
  BY PrefixOrder, PathFacts
<1>. QED BY <1>1, PrefixOrder

\* A path that is its own source: one file is copied to one place.
LEMMA MovedAlone ==
  ASSUME NEW src \in AllPaths, NEW dst \in AllPaths
  PROVE  /\ MovesTo(src, src, dst, dst)
         /\ \A y \in AllPaths : MovesTo(src, src, y, dst) => y = dst
<1>1. \A p \in AllPaths : Suffix(p, p) = <<>>
  <2> SUFFICES ASSUME NEW p \in AllPaths PROVE Suffix(p, p) = <<>>
    OBVIOUS
  <2>1. Len(p) + 1 \in Int /\ Len(p) \in Int /\ Len(p) < Len(p) + 1
    BY PathFacts
  <2>. QED BY <2>1, SubSeqEmpty DEF Suffix
<1>2. MovesTo(src, src, dst, dst)
  BY <1>1, PrefixOrder DEF MovesTo
<1>3. ASSUME NEW y \in AllPaths, MovesTo(src, src, y, dst) PROVE y = dst
  <2>1. Len(y) + Len(src) <= Len(src) + Len(dst)
    BY <1>3, MovedSizes
  <2>2. Len(y) \in Nat /\ Len(src) \in Nat /\ Len(dst) \in Nat
    BY PathFacts
  <2>3. IsPrefix(dst, y)
    BY <1>3 DEF MovesTo
  <2>4. Len(y) <= Len(dst)
    BY <2>1, <2>2
  <2>5. IsPrefix(y, y)
    BY PrefixOrder
  <2>6. IsPrefix(y, dst)
    BY <2>3, <2>4, <2>5, PrefixOrder
  <2>. QED BY <2>3, <2>6, PrefixAnti
<1>. QED BY <1>2, <1>3

\* Every entry has the folders that lead to it.
Rooted(t) ==
  \A p \in DOMAIN t : \A q \in AllPaths :
     q # <<>> /\ q # p /\ IsPrefix(q, p) => q \in DOMAIN t /\ t[q] = Folder
TreeOK(t) ==
  /\ IsFiniteSet(DOMAIN t) /\ DOMAIN t \subseteq AllPaths \ {<<>>}
  /\ Rooted(t)

\* _unique_destination: some number is free, as the workspace is finite.
LEMMA FreeNameIs ==
  ASSUME IsFiniteSet(DOMAIN tree), NEW dir \in AllPaths, NEW name \in Names
  PROVE  /\ FreeName(dir, name) \in AllPaths /\ FreeName(dir, name) # <<>>
         /\ Front(FreeName(dir, name)) = dir /\ ~HasPath(FreeName(dir, name))
<1> DEFINE N == Cardinality(DOMAIN tree)
           path(k) == Append(dir, Append(name, k))
           free == {i \in 1..(N + 1) : ~HasPath(path(i))}
           k == CHOOSE i \in 1..(N + 1) : ~HasPath(path(i)) /\ \A h \in 1..(i - 1) : HasPath(path(h))
<1>1. \A i \in Nat : /\ Append(name, i) \in Names /\ Append(name, i)[Len(name) + 1] = i
                     /\ path(i) \in AllPaths /\ path(i) # <<>>
                     /\ Front(path(i)) = dir /\ Last(path(i)) = Append(name, i)
  <2> SUFFICES ASSUME NEW i \in Nat
               PROVE  /\ Append(name, i) \in Names /\ Append(name, i)[Len(name) + 1] = i
                      /\ path(i) \in AllPaths /\ path(i) # <<>>
                      /\ Front(path(i)) = dir /\ Last(path(i)) = Append(name, i)
    OBVIOUS
  <2>1. Append(name, i) \in Names /\ Append(name, i)[Len(name) + 1] = i
    BY AppendProperties DEF Names
  <2>2. \A e \in Names : /\ Append(dir, e) \in AllPaths /\ Append(dir, e) # <<>>
                         /\ Front(Append(dir, e)) = dir /\ Last(Append(dir, e)) = e
    BY AppendIs
  <2>. QED BY <2>1, <2>2
<1>2. N \in Nat
  BY FS_CardinalityType
<1>3. \E i \in 1..(N + 1) : ~HasPath(path(i))
  <2> SUFFICES ASSUME \A i \in 1..(N + 1) : HasPath(path(i)) PROVE FALSE
    OBVIOUS
  <2> DEFINE f == [i \in 1..(N + 1) |-> path(i)]
  <2>1. f \in [1..(N + 1) -> DOMAIN tree]
    <3>1. ASSUME NEW i \in 1..(N + 1) PROVE path(i) \in DOMAIN tree
      <4>1. HasPath(path(i))
        OBVIOUS
      <4>2. i \in Nat
        BY <1>2
      <4>3. path(i) # <<>>
        BY <1>1, <4>2, Zenon
      <4>. QED BY <4>1, <4>3 DEF HasPath
    <3> HIDE DEF path
    <3>. QED BY <3>1
  <2>2. IsFiniteSet(1..(N + 1)) /\ Cardinality(1..(N + 1)) = N + 1
    BY <1>2, FS_Interval
  <2>3. \E i, h \in 1..(N + 1) : i # h /\ f[i] = f[h]
    <3> HIDE DEF f
    <3> DEFINE I == 1..(N + 1)
               D == DOMAIN tree
    <3>1. IsFiniteSet(I) /\ IsFiniteSet(D) /\ Cardinality(D) < Cardinality(I) /\ f \in [I -> D]
      BY <1>2, <2>1, <2>2
    <3> HIDE DEF I, D
    <3>2. \E i, h \in I : i # h /\ f[i] = f[h]
      BY <3>1, FS_PigeonHole
    <3>. QED BY <3>2 DEF I
  <2>4. PICK i \in Nat, h \in Nat : i # h /\ path(i) = path(h)
    BY <1>2, <2>3
  <2>5. Append(name, i) = Append(name, h)
    <3>1. Last(path(i)) = Append(name, i) /\ Last(path(h)) = Append(name, h)
      BY <1>1
    <3> HIDE DEF path
    <3>. QED BY <2>4, <3>1
  <2>6. Append(name, i)[Len(name) + 1] = i /\ Append(name, h)[Len(name) + 1] = h
    BY <1>1
  <2>. QED BY <2>4, <2>5, <2>6
<1>4. \E i \in 1..(N + 1) : ~HasPath(path(i)) /\ \A h \in 1..(i - 1) : HasPath(path(h))
  <2>1. free \in SUBSET Nat
    BY <1>2
  <2>2. PICK i \in free : \A h \in free : i <= h
    <3>1. free # {}
      BY <1>3
    <3> HIDE DEF free
    <3>. QED BY <3>1, <2>1, LeastExists
  <2>3. i \in 1..(N + 1) /\ ~HasPath(path(i))
    OBVIOUS
  <2>4. \A h \in 1..(i - 1) : h \in 1..(N + 1) /\ h < i
    BY <1>2, <2>3
  <2>5. \A h \in 1..(i - 1) : HasPath(path(h))
    <3> SUFFICES ASSUME NEW h \in 1..(i - 1), ~HasPath(path(h)) PROVE FALSE
      OBVIOUS
    <3>1. h \in free
      BY <2>4
    <3>2. i <= h
      BY <2>2, <3>1
    <3>. QED BY <1>2, <2>3, <2>4, <3>2
  <2>. QED BY <2>3, <2>5
<1>5. k \in Nat /\ ~HasPath(path(k))
  <2> HIDE DEF N, path
  <2>1. k \in 1..(N + 1) /\ ~HasPath(path(k))
    BY <1>4
  <2>. QED BY <1>2, <2>1
<1>6. CASE ~HasPath(Append(dir, name))
  <2>1. FreeName(dir, name) = Append(dir, name)
    BY <1>6 DEF FreeName
  <2>. QED BY <1>6, <2>1, AppendIs
<1>7. CASE HasPath(Append(dir, name))
  <2>1. FreeName(dir, name) = path(k)
    BY <1>7 DEF FreeName
  <2> HIDE DEF k
  <2>. QED BY <1>1, <1>5, <2>1
<1>. QED BY <1>6, <1>7

\* What is at a place below dst came from below src.
LEMMA RebasedIs ==
  ASSUME TreeOK(tree), NEW src \in AllPaths, NEW dst \in AllPaths
  PROVE  /\ IsFiniteSet(DOMAIN Rebased(src, dst))
         /\ \A y \in DOMAIN Rebased(src, dst) :
              y \in AllPaths /\ \E x \in Below(src) : MovesTo(x, src, y, dst)
         /\ \A x \in Below(src) :
              /\ dst \o Suffix(x, src) \in DOMAIN Rebased(src, dst)
              /\ MovesTo(x, src, dst \o Suffix(x, src), dst)
         /\ \A y \in AllPaths, x \in Below(src) : MovesTo(x, src, y, dst) =>
              y \in DOMAIN Rebased(src, dst) /\ Rebased(src, dst)[y] = tree[x]
<1>1. \A x \in Below(src) : x \in AllPaths /\ IsPrefix(src, x) /\ x \in DOMAIN tree
  BY DEF Below, TreeOK
<1>2. \A x \in Below(src) : /\ dst \o Suffix(x, src) \in AllPaths
                            /\ MovesTo(x, src, dst \o Suffix(x, src), dst)
  BY <1>1, MovedTo
<1>3. DOMAIN Rebased(src, dst) = {dst \o Suffix(x, src) : x \in Below(src)}
  BY DEF Rebased
<1>4. ASSUME NEW y \in AllPaths, NEW x \in Below(src), MovesTo(x, src, y, dst)
      PROVE  y \in DOMAIN Rebased(src, dst) /\ Rebased(src, dst)[y] = tree[x]
  <2>1. x \in AllPaths
    BY <1>1
  <2>2. y = dst \o Suffix(x, src)
    BY <2>1, <1>4, MovedIs
  <2>3. MovesTo(y, dst, x, src)
    BY <1>4 DEF MovesTo
  <2>4. x = src \o Suffix(y, dst)
    BY <2>1, <2>3, MovedIs
  <2>5. y \in DOMAIN Rebased(src, dst)
    BY <1>3, <2>2
  <2>6. Rebased(src, dst)[y] = tree[src \o Suffix(y, dst)]
    BY <1>3, <2>5 DEF Rebased
  <2>. QED BY <2>4, <2>5, <2>6
<1>5. ASSUME NEW y \in DOMAIN Rebased(src, dst)
      PROVE  y \in AllPaths /\ \E x \in Below(src) : MovesTo(x, src, y, dst)
  BY <1>2, <1>3
<1>6. \A x \in Below(src) : /\ dst \o Suffix(x, src) \in DOMAIN Rebased(src, dst)
                            /\ MovesTo(x, src, dst \o Suffix(x, src), dst)
  BY <1>2, <1>3
<1>7. IsFiniteSet(DOMAIN Rebased(src, dst))
  <2> DEFINE S == Below(src)
             T == {dst \o Suffix(x, src) : x \in S}
             f == [x \in S |-> dst \o Suffix(x, src)]
  <2>1. IsFiniteSet(S)
    BY FS_Subset DEF Below, TreeOK
  <2>2. f \in Surjection(S, T)
    BY DEF Surjection
  <2>3. IsFiniteSet(T)
    <3> HIDE DEF S, T, f
    <3>. QED BY <2>1, <2>2, FS_Surjection
  <2>. QED BY <1>3, <2>3
<1>. QED BY <1>4, <1>5, <1>6, <1>7

\* Files and new folders: a place in a folder that is no folder itself.
LEMMA PutKeeps ==
  ASSUME TreeOK(tree), NEW dst \in AllPaths, ~IsFolder(dst), IsFolder(Front(dst)), NEW e
  PROVE  /\ TreeOK(With(dst, e)) /\ dst \in DOMAIN With(dst, e) /\ With(dst, e)[dst] = e
         /\ \A p \in DOMAIN tree \ {dst} : p \in DOMAIN With(dst, e) /\ With(dst, e)[p] = tree[p]
<1> DEFINE t == With(dst, e)
<1>1. DOMAIN t = {dst} \cup DOMAIN tree
  BY DEF With
<1>2. t[dst] = e /\ \A p \in DOMAIN tree \ {dst} : t[p] = tree[p]
  BY <1>1 DEF With
<1> HIDE DEF t
<1>3. dst # <<>>
  BY DEF IsFolder
<1>4. IsFiniteSet(DOMAIN t) /\ DOMAIN t \subseteq AllPaths \ {<<>>}
  BY <1>1, <1>3, FS_AddElement DEF TreeOK
<1>5. ASSUME NEW p \in DOMAIN t, NEW q \in AllPaths, q # <<>>, q # p, IsPrefix(q, p)
      PROVE  q \in DOMAIN t /\ t[q] = Folder
  <2>1. q \in DOMAIN tree /\ tree[q] = Folder
    <3>1. CASE p \in DOMAIN tree
      BY <1>5, <3>1 DEF TreeOK, Rooted
    <3>2. CASE p = dst
      <4>1. IsPrefix(q, Front(dst)) /\ Front(dst) \in AllPaths
        BY <1>3, <1>5, <3>2, FrontOf
      <4>2. Front(dst) # <<>>
        BY <1>5, <4>1, PrefixOrder
      <4>3. Front(dst) \in DOMAIN tree /\ tree[Front(dst)] = Folder
        BY <4>2 DEF IsFolder
      <4>. QED BY <1>5, <4>1, <4>3 DEF TreeOK, Rooted
    <3>. QED BY <1>1, <3>1, <3>2
  <2>2. q # dst
    BY <2>1 DEF IsFolder
  <2>. QED BY <1>1, <1>2, <2>1, <2>2
<1>6. TreeOK(t)
  BY <1>1, <1>4, <1>5 DEF TreeOK, Rooted
<1>. QED BY <1>1, <1>2, <1>6 DEF t

\* Deletions: with a folder goes what it holds.
LEMMA TakeKeeps ==
  ASSUME TreeOK(tree), NEW G, \A x \in G : \A y \in DOMAIN tree : IsPrefix(x, y) => y \in G
  PROVE  TreeOK(Without(G))
<1>1. /\ DOMAIN Without(G) = DOMAIN tree \ G
      /\ \A p \in DOMAIN tree \ G : Without(G)[p] = tree[p]
  BY DEF Without
<1>2. IsFiniteSet(DOMAIN Without(G))
  BY <1>1, FS_Subset DEF TreeOK
<1>3. ASSUME NEW p \in DOMAIN tree \ G, NEW q \in AllPaths, q # <<>>, q # p, IsPrefix(q, p)
      PROVE  q \in DOMAIN tree \ G /\ tree[q] = Folder
  BY <1>3 DEF TreeOK, Rooted
<1>. QED BY <1>1, <1>2, <1>3 DEF TreeOK, Rooted

LEMMA BelowTaken ==
  ASSUME TreeOK(tree), NEW p \in AllPaths
  PROVE  TreeOK(Without(Below(p)))
<1>1. ASSUME NEW x \in Below(p), NEW y \in DOMAIN tree, IsPrefix(x, y) PROVE y \in Below(p)
  <2>1. x \in AllPaths /\ y \in AllPaths /\ IsPrefix(p, x)
    BY DEF Below, TreeOK
  <2>. QED BY <1>1, <2>1, PrefixOrder DEF Below
<1>. QED BY <1>1, TakeKeeps

\* A rename or a move: where dst may be, what it replaces, and what it leaves.
LEMMA MoveKeeps ==
  ASSUME TreeOK(tree), NEW src \in AllPaths, NEW dst \in AllPaths, dst # <<>>, CanRename(src, dst),
         NEW t, t = Onto(Rebased(src, dst), Without(Below(src)))
  PROVE  /\ TreeOK(t)
         /\ \A g \in DOMAIN tree : ~IsPrefix(src, g) /\ ~IsPrefix(dst, g) =>
              g \in DOMAIN t /\ t[g] = tree[g]
         /\ dst \notin DOMAIN tree => \A g \in DOMAIN tree : \E p \in DOMAIN t : t[p] = tree[g]
<1> DEFINE R == Rebased(src, dst)
<1>1. /\ IsFiniteSet(DOMAIN R)
      /\ \A y \in DOMAIN R : y \in AllPaths /\ \E x \in Below(src) : MovesTo(x, src, y, dst)
      /\ \A x \in Below(src) : /\ dst \o Suffix(x, src) \in DOMAIN R
                               /\ MovesTo(x, src, dst \o Suffix(x, src), dst)
      /\ \A y \in AllPaths, x \in Below(src) : MovesTo(x, src, y, dst) =>
           y \in DOMAIN R /\ R[y] = tree[x]
  BY RebasedIs
<1>2. \A y \in DOMAIN R : y \in AllPaths /\ IsPrefix(dst, y)
  BY <1>1 DEF MovesTo
<1>3. /\ DOMAIN t = DOMAIN R \cup (DOMAIN tree \ Below(src))
      /\ \A p \in DOMAIN R : t[p] = R[p]
      /\ \A p \in DOMAIN tree \ Below(src) : p \notin DOMAIN R => t[p] = tree[p]
  BY DEF Onto, Without
<1> HIDE DEF R
<1>4. src \in DOMAIN tree /\ src # <<>> /\ IsFolder(Front(dst)) /\ ~IsPrefix(src, dst)
  BY DEF CanRename, TreeOK
<1>5. IsFiniteSet(DOMAIN t)
  <2>1. IsFiniteSet(DOMAIN tree \ Below(src))
    BY FS_Subset DEF TreeOK
  <2>. QED BY <1>1, <1>3, <2>1, FS_Union
<1>6. DOMAIN t \subseteq AllPaths \ {<<>>}
  <2>1. ASSUME NEW y \in DOMAIN R PROVE y \in AllPaths /\ y # <<>>
    BY <1>2, PrefixOrder
  <2>. QED BY <1>3, <2>1 DEF TreeOK
<1>7. ASSUME NEW p \in DOMAIN R, NEW q \in AllPaths, q # <<>>, q # p, IsPrefix(q, p)
      PROVE  q \in DOMAIN t /\ t[q] = Folder
  <2>1. p \in AllPaths
    BY <1>2
  <2>2. PICK x \in Below(src) : MovesTo(x, src, p, dst)
    BY <1>1
  <2>3. x \in AllPaths /\ x \in DOMAIN tree
    BY DEF Below, TreeOK
  <2>4. CASE IsPrefix(q, dst) /\ q # dst
    <3>1. IsPrefix(q, Front(dst)) /\ Front(dst) \in AllPaths
      BY <2>4, FrontOf
    <3>2. Front(dst) # <<>>
      BY <1>7, <3>1, PrefixOrder
    <3>3. Front(dst) \in DOMAIN tree /\ tree[Front(dst)] = Folder
      BY <1>4, <3>2 DEF IsFolder
    <3>4. q \in DOMAIN tree /\ tree[q] = Folder
      BY <1>7, <3>1, <3>3 DEF TreeOK, Rooted
    <3>5. q \notin Below(src)
      BY <1>4, <2>4, PrefixOrder DEF Below
    <3>6. q \notin DOMAIN R
      BY <1>2, <2>4, PrefixAnti
    <3>. QED BY <1>3, <3>4, <3>5, <3>6
  <2>5. ASSUME NEW z \in AllPaths, MovesTo(z, src, q, dst), IsPrefix(z, x), z # x
        PROVE  q \in DOMAIN t /\ t[q] = Folder
    <3>1. IsPrefix(src, z)
      BY <2>5 DEF MovesTo
    <3>2. z # <<>>
      BY <1>4, <3>1, PrefixOrder
    <3>3. z \in DOMAIN tree /\ tree[z] = Folder
      BY <2>3, <2>5, <3>2 DEF TreeOK, Rooted
    <3>4. z \in Below(src)
      BY <3>1, <3>3 DEF Below
    <3>. QED BY <1>1, <1>3, <2>5, <3>3, <3>4
  <2>6. \/ IsPrefix(q, dst) /\ q # dst
        \/ \E z \in AllPaths : MovesTo(z, src, q, dst) /\ IsPrefix(z, x) /\ z # x
    BY <1>7, <2>1, <2>2, <2>3, MovedPrefix
  <2>. QED BY <2>4, <2>5, <2>6
<1>8. ASSUME NEW p \in DOMAIN tree \ Below(src), p \notin DOMAIN R,
             NEW q \in AllPaths, q # <<>>, q # p, IsPrefix(q, p)
      PROVE  q \in DOMAIN t /\ t[q] = Folder
  <2>1. p \in AllPaths /\ q \in DOMAIN tree /\ tree[q] = Folder
    BY <1>8 DEF TreeOK, Rooted
  <2>2. q \notin Below(src)
    BY <1>8, <2>1, PrefixOrder DEF Below
  <2>3. ASSUME q \in DOMAIN R PROVE FALSE
    <3>1. IsPrefix(dst, q)
      BY <1>2, <2>3
    <3>2. IsPrefix(dst, p) /\ dst # p
      BY <1>8, <2>1, <3>1, PrefixOrder, PrefixAnti
    <3>3. dst \in DOMAIN tree /\ tree[dst] = Folder
      BY <2>1, <3>2 DEF TreeOK, Rooted
    <3>4. IsFolder(dst) /\ p \in Below(dst)
      BY <3>2, <3>3 DEF IsFolder, Below
    <3>. QED BY <3>2, <3>3, <3>4 DEF CanRename
  <2>. QED BY <1>3, <2>1, <2>2, <2>3
<1>9. TreeOK(t)
  BY <1>3, <1>5, <1>6, <1>7, <1>8 DEF TreeOK, Rooted
<1>10. ASSUME NEW g \in DOMAIN tree, ~IsPrefix(src, g), ~IsPrefix(dst, g)
       PROVE  g \in DOMAIN t /\ t[g] = tree[g]
  BY <1>2, <1>3, <1>10 DEF Below
<1>11. ASSUME dst \notin DOMAIN tree, NEW g \in DOMAIN tree
       PROVE  \E p \in DOMAIN t : t[p] = tree[g]
  <2>1. CASE g \in Below(src)
    <3> DEFINE y == dst \o Suffix(g, src)
    <3>1. y \in DOMAIN R /\ MovesTo(g, src, y, dst)
      BY <1>1, <2>1
    <3> HIDE DEF y
    <3>2. y \in AllPaths
      BY <1>2, <3>1
    <3>3. y \in DOMAIN t /\ t[y] = tree[g]
      BY <1>1, <1>3, <2>1, <3>1, <3>2
    <3>. QED BY <3>3
  <2>2. CASE g \notin Below(src)
    <3>1. g \in AllPaths
      BY DEF TreeOK
    <3>2. ~IsPrefix(dst, g)
      <4>1. ASSUME IsPrefix(dst, g) PROVE FALSE
        BY <1>11, <3>1, <4>1 DEF TreeOK, Rooted
      <4>. QED BY <4>1
    <3>3. g \in DOMAIN t /\ t[g] = tree[g]
      BY <1>2, <1>3, <2>2, <3>2
    <3>. QED BY <3>3
  <2>. QED BY <2>1, <2>2
<1>. QED BY <1>9, <1>10, <1>11

\* The folders that lead to a path.
LEMMA ParentsAre ==
  ASSUME NEW p \in AllPaths
  PROVE  /\ IsFiniteSet(DOMAIN Parents(p))
         /\ \A q \in DOMAIN Parents(p) :
              /\ q \in AllPaths /\ q # <<>> /\ q # p /\ IsPrefix(q, p)
              /\ Parents(p)[q] = Folder
         /\ \A q \in AllPaths : q # <<>> /\ q # p /\ IsPrefix(q, p) => q \in DOMAIN Parents(p)
<1> DEFINE N == Len(p) - 1
           I == 1..N
           T == {SubSeq(p, 1, n) : n \in I}
<1>1. Len(p) \in Nat /\ N \in Int
  BY PathFacts
<1>2. DOMAIN Parents(p) = T /\ \A q \in T : Parents(p)[q] = Folder
  BY DEF Parents
<1>3. \A n \in I : /\ SubSeq(p, 1, n) \in AllPaths /\ Len(SubSeq(p, 1, n)) = n
                   /\ \A i \in 1..n : SubSeq(p, 1, n)[i] = p[i]
  <2> SUFFICES ASSUME NEW n \in I
               PROVE  /\ SubSeq(p, 1, n) \in AllPaths /\ Len(SubSeq(p, 1, n)) = n
                      /\ \A i \in 1..n : SubSeq(p, 1, n)[i] = p[i]
    OBVIOUS
  <2>1. n \in Nat /\ 0 \in Nat /\ n = 0 + n /\ n <= Len(p) /\ 0 + 1 = 1
    BY <1>1
  <2>2. /\ SubSeq(p, 0 + 1, n) \in AllPaths /\ Len(SubSeq(p, 0 + 1, n)) = n
        /\ \A i \in 1..n : SubSeq(p, 0 + 1, n)[i] = p[0 + i]
    BY <2>1, PartIs
  <2>3. \A i \in 1..n : 0 + i = i
    BY <2>1
  <2>. QED BY <2>1, <2>2, <2>3
<1>4. IsFiniteSet(T)
  <2> DEFINE f == [n \in I |-> SubSeq(p, 1, n)]
  <2>1. IsFiniteSet(I)
    BY <1>1, FS_Interval
  <2>2. f \in Surjection(I, T)
    BY DEF Surjection
  <2> HIDE DEF I, T, f
  <2>. QED BY <2>1, <2>2, FS_Surjection
<1>5. ASSUME NEW n \in I
      PROVE  /\ SubSeq(p, 1, n) \in AllPaths /\ SubSeq(p, 1, n) # <<>>
             /\ SubSeq(p, 1, n) # p /\ IsPrefix(SubSeq(p, 1, n), p)
  <2> DEFINE w == SubSeq(p, 1, n)
  <2>1. w \in AllPaths /\ Len(w) = n /\ \A i \in 1..n : w[i] = p[i]
    BY <1>3
  <2>2. n \in Nat /\ n # 0 /\ n < Len(p) /\ n <= Len(p) /\ n # Len(p)
    BY <1>1
  <2> HIDE DEF w
  <2>3. IsPrefix(w, p)
    BY <2>1, <2>2, PrefixIs
  <2>4. w # <<>>
    BY <2>1, <2>2, EmptyPath
  <2>5. w # p
    BY <2>1, <2>2
  <2>. QED BY <2>1, <2>3, <2>4, <2>5 DEF w
<1>6. ASSUME NEW q \in AllPaths, q # <<>>, q # p, IsPrefix(q, p) PROVE q \in T
  <2>1. Len(q) \in Nat /\ Len(q) # 0 /\ Len(q) <= Len(p) /\ Len(q) # Len(p)
    BY <1>6, PathFacts, PrefixOrder
  <2>2. Len(q) \in I
    BY <1>1, <2>1
  <2>3. \A i \in 1..Len(q) : q[i] = p[i]
    BY <1>6, PrefixIs
  <2> DEFINE w == SubSeq(p, 1, Len(q))
  <2>4. w \in AllPaths /\ Len(w) = Len(q) /\ \A i \in 1..Len(q) : w[i] = p[i]
    BY <1>3, <2>2
  <2>5. w \in T
    BY <2>2
  <2> HIDE DEF w, T, I
  <2>6. q = w
    BY <2>3, <2>4, PathEqual
  <2>. QED BY <2>5, <2>6
<1>. QED BY <1>2, <1>4, <1>5, <1>6

\* A copy of a folder to a place where nothing is adds, and changes nothing.
LEMMA CopyTreeKeeps ==
  ASSUME TreeOK(tree), NEW src \in AllPaths, src # <<>>, NEW dst \in AllPaths, ~HasPath(dst),
         ~(\E q \in DOMAIN Parents(dst) : HasPath(q) /\ ~IsFolder(q)),
         NEW t, t = Onto(Onto(Rebased(src, dst), Parents(dst)), tree)
  PROVE  TreeOK(t) /\ \A g \in DOMAIN tree : g \in DOMAIN t /\ t[g] = tree[g]
<1> DEFINE R == Rebased(src, dst)
           P == Parents(dst)
<1>1. /\ IsFiniteSet(DOMAIN R)
      /\ \A y \in DOMAIN R : y \in AllPaths /\ \E x \in Below(src) : MovesTo(x, src, y, dst)
      /\ \A y \in AllPaths, x \in Below(src) : MovesTo(x, src, y, dst) =>
           y \in DOMAIN R /\ R[y] = tree[x]
  BY RebasedIs
<1>2. /\ IsFiniteSet(DOMAIN P)
      /\ \A q \in DOMAIN P : /\ q \in AllPaths /\ q # <<>> /\ q # dst /\ IsPrefix(q, dst)
                             /\ P[q] = Folder
      /\ \A q \in AllPaths : q # <<>> /\ q # dst /\ IsPrefix(q, dst) => q \in DOMAIN P
  BY ParentsAre
<1>3. \A q \in DOMAIN P : HasPath(q) => IsFolder(q)
  OBVIOUS
<1>4. /\ DOMAIN t = DOMAIN R \cup DOMAIN P \cup DOMAIN tree
      /\ \A p \in DOMAIN R : t[p] = R[p]
      /\ \A p \in DOMAIN P : p \notin DOMAIN R => t[p] = P[p]
      /\ \A p \in DOMAIN tree : p \notin DOMAIN R /\ p \notin DOMAIN P => t[p] = tree[p]
  BY DEF Onto
<1> HIDE DEF R, P
<1>5. \A y \in DOMAIN R : y \in AllPaths /\ IsPrefix(dst, y)
  BY <1>1 DEF MovesTo
<1>6. dst # <<>> /\ dst \notin DOMAIN tree
  BY DEF HasPath
<1>7. DOMAIN tree \subseteq AllPaths \ {<<>>} /\ IsFiniteSet(DOMAIN tree) /\ Rooted(tree)
  BY DEF TreeOK
<1>8. \A g \in DOMAIN tree : g \notin DOMAIN R
  BY <1>5, <1>6, <1>7 DEF Rooted
<1>9. \A q \in DOMAIN P : q \notin DOMAIN R
  BY <1>2, <1>5, PrefixAnti
<1>10. \A q \in DOMAIN P : q \in DOMAIN t /\ t[q] = Folder
  BY <1>2, <1>4, <1>9
<1>11. ASSUME NEW g \in DOMAIN tree PROVE g \in DOMAIN t /\ t[g] = tree[g]
  <2>1. CASE g \in DOMAIN P
    <3>1. tree[g] = Folder
      BY <1>2, <1>3, <2>1 DEF HasPath, IsFolder
    <3>. QED BY <1>10, <2>1, <3>1
  <2>2. CASE g \notin DOMAIN P
    BY <1>4, <1>8, <2>2
  <2>. QED BY <2>1, <2>2
<1>12. IsFiniteSet(DOMAIN t)
  <2>1. IsFiniteSet(DOMAIN R \cup DOMAIN P)
    BY <1>1, <1>2, FS_Union
  <2>. QED BY <1>4, <1>7, <2>1, FS_Union
<1>13. DOMAIN t \subseteq AllPaths \ {<<>>}
  <2>1. ASSUME NEW y \in DOMAIN R PROVE y \in AllPaths /\ y # <<>>
    BY <1>5, <1>6, PrefixOrder
  <2>. QED BY <1>2, <1>4, <1>7, <2>1
<1>14. ASSUME NEW p \in DOMAIN t, NEW q \in AllPaths, q # <<>>, q # p, IsPrefix(q, p)
       PROVE  q \in DOMAIN t /\ t[q] = Folder
  <2>1. CASE p \in DOMAIN tree
    <3>1. q \in DOMAIN tree /\ tree[q] = Folder
      BY <1>7, <1>14, <2>1 DEF Rooted
    <3>. QED BY <1>11, <3>1
  <2>2. CASE p \in DOMAIN P
    <3>1. p \in AllPaths /\ IsPrefix(p, dst) /\ p # dst
      BY <1>2, <2>2
    <3>2. IsPrefix(q, dst)
      BY <1>14, <3>1, PrefixOrder
    <3>3. q # dst
      BY <1>14, <3>1, PrefixAnti
    <3>. QED BY <1>2, <1>10, <1>14, <3>2, <3>3
  <2>3. CASE p \in DOMAIN R
    <3>1. p \in AllPaths
      BY <1>5, <2>3
    <3>2. PICK x \in Below(src) : MovesTo(x, src, p, dst)
      BY <1>1, <2>3
    <3>3. x \in AllPaths /\ x \in DOMAIN tree
      BY <1>7 DEF Below
    <3>4. \/ IsPrefix(q, dst) /\ q # dst
          \/ \E z \in AllPaths : MovesTo(z, src, q, dst) /\ IsPrefix(z, x) /\ z # x
      BY <1>14, <3>1, <3>2, <3>3, MovedPrefix
    <3>5. CASE IsPrefix(q, dst) /\ q # dst
      BY <1>2, <1>10, <1>14, <3>5
    <3>6. ASSUME NEW z \in AllPaths, MovesTo(z, src, q, dst), IsPrefix(z, x), z # x
          PROVE  q \in DOMAIN t /\ t[q] = Folder
      <4>1. IsPrefix(src, z)
        BY <3>6 DEF MovesTo
      <4>2. z # <<>>
        BY <4>1, PrefixOrder
      <4>3. z \in DOMAIN tree /\ tree[z] = Folder
        BY <1>7, <3>3, <3>6, <4>2 DEF Rooted
      <4>4. z \in Below(src)
        BY <4>1, <4>3 DEF Below
      <4>. QED BY <1>1, <1>4, <3>6, <4>3, <4>4
    <3>. QED BY <3>4, <3>5, <3>6
  <2>. QED BY <1>4, <2>1, <2>2, <2>3
<1>. QED BY <1>11, <1>12, <1>13, <1>14 DEF TreeOK, Rooted

\* A copy of one file: what is at its place is replaced, the rest stays.
LEMMA CopyFileIs ==
  ASSUME TreeOK(tree), NEW src \in DOMAIN tree, ~IsFolder(src), NEW dst \in AllPaths
  PROVE  Onto(Rebased(src, dst), tree) = With(dst, tree[src])
<1> DEFINE R == Rebased(src, dst)
           t == Onto(R, tree)
<1>1. src \in AllPaths
  BY DEF TreeOK
<1>2. /\ \A y \in DOMAIN R : y \in AllPaths /\ \E x \in Below(src) : MovesTo(x, src, y, dst)
      /\ \A y \in AllPaths, x \in Below(src) : MovesTo(x, src, y, dst) =>
           y \in DOMAIN R /\ R[y] = tree[x]
  BY <1>1, RebasedIs
<1>3. \A x \in Below(src) : x = src
  <2>1. src # <<>> /\ tree[src] # Folder
    BY DEF TreeOK, IsFolder
  <2>. QED BY <1>1, <2>1 DEF Below, TreeOK, Rooted
<1>4. src \in Below(src)
  BY <1>1, PrefixOrder DEF Below
<1> HIDE DEF R
<1>5. dst \in DOMAIN R /\ R[dst] = tree[src]
  BY <1>1, <1>2, <1>4, MovedAlone
<1>6. DOMAIN R = {dst}
  BY <1>1, <1>2, <1>3, <1>5, MovedAlone
<1>7. t = [q \in DOMAIN tree \cup {dst} |-> IF q = dst THEN tree[src] ELSE tree[q]]
  BY <1>5, <1>6 DEF Onto
<1>. QED BY <1>7 DEF With, R

\* A request between two steps.
BatchJobs ==
  [pc : {"next", "act"}, op : {"rename", "move", "copy", "delete"}, into : AllPaths,
   recursive : BOOLEAN, src : AllPaths, dst : AllPaths, rest : Seq(AllPaths)]
UploadJobs == [pc : {"open", "fill"}, dst : AllPaths, of : Nat]
JobRecords == {NoJob} \cup BatchJobs \cup UploadJobs
Uploading(r) == r.pc \in {"open", "fill"}

\* What was looked at is not protected, and what is to be written is none of
\* the protected entries of the start.
JobOK(r) ==
  /\ r.pc = "next" => r.rest # <<>>
  /\ r.pc = "act" => ~Guarded(r.src)
  /\ r.pc \in {"act", "open", "fill"} =>
       r.dst # <<>> /\ (Guarded(r.dst) => r.dst \notin DOMAIN FirstTree)

\* The destination is free, or holds what this upload put there.
FreeToAct(t, r) ==
  /\ r.pc = "open" \/ (r.pc = "act" /\ r.op # "delete") => r.dst \notin DOMAIN t
  /\ r.pc = "fill" => r.dst \in DOMAIN t /\ t[r.dst] = Content(r.of, FALSE)

Numbered ==
  /\ \A i \in FileRequests : Uploading(job[i]) => job[i].of < jobs
  /\ \A i, h \in FileRequests :
       i # h /\ Uploading(job[i]) /\ Uploading(job[h]) => job[i].of # job[h].of

FilesInv ==
  /\ job \in [FileRequests -> JobRecords] /\ jobs \in Nat /\ crossed \in BOOLEAN
  /\ TreeOK(tree)
  /\ \A i \in FileRequests : JobOK(job[i])
  /\ Numbered
  /\ GuardedStay
  /\ ~crossed => \A i \in FileRequests : FreeToAct(tree, job[i])
  /\ NothingIsLost

LEMMA FilesInvSound ==
  ASSUME FilesInv PROVE FilesAreSafe
BY DEF FilesInv, FilesAreSafe

LEMMA NamesAre == GivenNames \subseteq Names /\ DOMAIN FirstTree \subseteq AllPaths
<1>1. Seq(STRING) \subseteq Names
  BY DEF Names
<1>2. Seq(Seq(STRING)) \subseteq AllPaths
  BY <1>1 DEF AllPaths
<1>. QED BY <1>1, <1>2, WebFilesAssumption DEF WebFilesAssumption

LEMMA FirstTreeOK == TreeOK(FirstTree)
<1>1. /\ IsFiniteSet(DOMAIN FirstTree) /\ DOMAIN FirstTree \subseteq AllPaths \ {<<>>}
      /\ \A p \in DOMAIN FirstTree : \A n \in 1..(Len(p) - 1) :
           SubSeq(p, 1, n) \in DOMAIN FirstTree /\ FirstTree[SubSeq(p, 1, n)] = Folder
  BY NamesAre, WebFilesAssumption DEF WebFilesAssumption
<1>2. ASSUME NEW p \in DOMAIN FirstTree, NEW q \in AllPaths, q # <<>>, q # p, IsPrefix(q, p)
      PROVE  q \in DOMAIN FirstTree /\ FirstTree[q] = Folder
  <2>1. p \in AllPaths
    BY <1>1
  <2>2. /\ Len(q) \in Nat /\ Len(q) # 0 /\ Len(q) <= Len(p) /\ Len(q) # Len(p)
        /\ Len(p) \in Nat
    BY <1>2, <2>1, PathFacts, PrefixOrder
  <2>3. Len(q) \in 1..(Len(p) - 1)
    BY <2>2
  <2>4. q = SubSeq(p, 1, Len(q))
    <3>1. SubSeq(q, 1, Len(q)) = q
      BY SubSeqFull DEF AllPaths
    <3>. QED BY <1>2, <3>1 DEF IsPrefix
  <2>. QED BY <1>1, <2>3, <2>4
<1>. QED BY <1>1, <1>2 DEF TreeOK, Rooted

\* No protected entry of the start is at or below what a request may touch.
LEMMA GuardApart ==
  ASSUME NEW p \in AllPaths, p # <<>>, Guarded(p) => p \notin DOMAIN FirstTree,
         NEW g \in DOMAIN FirstTree, Guarded(g)
  PROVE  ~IsPrefix(p, g)
<1> SUFFICES ASSUME IsPrefix(p, g) PROVE FALSE
  OBVIOUS
<1>1. g \in AllPaths /\ g # <<>> /\ Rooted(FirstTree)
  BY FirstTreeOK DEF TreeOK
<1>2. Head(g) \in ProtectedRoots
  BY <1>1 DEF Guarded
<1>3. Head(p) = Head(g)
  <2>1. Len(p) \in Nat /\ Len(p) # 0 /\ 1 \in 1..Len(p)
    BY PathFacts
  <2>2. p[1] = g[1]
    BY <1>1, <2>1, PrefixIs
  <2>3. Head(p) = p[1] /\ Head(g) = g[1]
    BY <1>1, HeadTailProperties DEF AllPaths
  <2>. QED BY <2>2, <2>3
<1>4. Guarded(p)
  BY <1>2, <1>3 DEF Guarded
<1>5. p \notin DOMAIN FirstTree
  BY <1>4
<1>. QED BY <1>1, <1>5 DEF Rooted

LEMMA FreeIsApart ==
  ASSUME GuardedStay, NEW d, ~HasPath(d)
  PROVE  d # <<>> /\ d \notin DOMAIN tree /\ (Guarded(d) => d \notin DOMAIN FirstTree)
BY DEF GuardedStay, HasPath

LEMMA FilesInvInit ==
  ASSUME FilesInit PROVE FilesInv
<1>1. /\ tree = FirstTree /\ job = [j \in FileRequests |-> NoJob]
      /\ jobs = 0 /\ crossed = FALSE /\ saved = ContentsAt(DOMAIN tree)
  BY DEF FilesInit
<1>2. TreeOK(tree)
  BY <1>1, FirstTreeOK
<1>3. \A i \in FileRequests : JobOK(job[i]) /\ FreeToAct(tree, job[i]) /\ ~Uploading(job[i])
  BY <1>1 DEF JobOK, FreeToAct, Uploading, NoJob
<1>4. job \in [FileRequests -> JobRecords]
  BY <1>1 DEF JobRecords
<1>5. NothingIsLost
  <2>1. \A p \in DOMAIN tree : tree[p].kind = "file" => tree[p] = Content(tree[p].of, TRUE)
    <3>1. tree = FirstTree
      BY <1>1
    <3>2. \A p \in DOMAIN FirstTree :
            FirstTree[p] = Folder \/ FirstTree[p] = Content(FirstTree[p].of, TRUE)
      BY WebFilesAssumption DEF WebFilesAssumption
    <3>3. Folder.kind # "file"
      BY DEF Folder
    <3>. QED BY <3>1, <3>2, <3>3
  <2>. QED BY <1>1, <2>1 DEF NothingIsLost, ContentsAt
<1>6. GuardedStay
  BY <1>1 DEF GuardedStay
<1>7. Numbered
  BY <1>3 DEF Numbered
<1>. QED BY <1>1, <1>2, <1>3, <1>4, <1>5, <1>6, <1>7 DEF FilesInv

-----------------------------------------------------------------------------
(* One request takes a step *)

LEMMA JobsKeep ==
  ASSUME FilesInv, NEW j \in FileRequests, NEW r \in JobRecords, JobStep(j, r), JobOK(r),
         Crossing(j), jobs' \in Nat, jobs <= jobs',
         Uploading(r) => /\ r.of < jobs'
                         /\ (Uploading(job[j]) /\ r.of = job[j].of) \/ r.of = jobs,
         TreeOK(tree'), GuardedStay', NothingIsLost', ~crossed' => FreeToAct(tree', r)
  PROVE  FilesInv'
<1>1. /\ job \in [FileRequests -> JobRecords] /\ jobs \in Nat /\ Numbered /\ crossed \in BOOLEAN
      /\ \A i \in FileRequests : JobOK(job[i])
  BY DEF FilesInv
<1>2. /\ job' \in [FileRequests -> JobRecords] /\ job'[j] = r
      /\ \A i \in FileRequests \ {j} : job'[i] = job[i]
  BY <1>1 DEF JobStep
<1>3. crossed' \in BOOLEAN
  BY <1>1 DEF Crossing
<1>4. \A i \in FileRequests : JobOK(job'[i])
  BY <1>1, <1>2
<1>5. Numbered'
  <2> DEFINE up(i) == Uploading(job[i])
             num(i) == job[i].of
  <2>1. \A i \in FileRequests : up(i) => num(i) \in Nat /\ num(i) < jobs
    BY <1>1 DEF Numbered, Uploading, JobRecords, NoJob, BatchJobs, UploadJobs
  <2>2. \A i, h \in FileRequests : i # h /\ up(i) /\ up(h) => num(i) # num(h)
    BY <1>1 DEF Numbered
  <2>3. Uploading(r) => r.of < jobs' /\ ((up(j) /\ r.of = num(j)) \/ r.of = jobs)
    OBVIOUS
  <2>4. \A i \in FileRequests \ {j} : (Uploading(job'[i]) <=> up(i)) /\ job'[i].of = num(i)
    BY <1>2
  <2> HIDE DEF up, num
  <2>5. \A i \in FileRequests : Uploading(job'[i]) => job'[i].of < jobs'
    BY <1>1, <1>2, <2>1, <2>3, <2>4
  <2>6. \A i \in FileRequests \ {j} : Uploading(job'[i]) /\ Uploading(r) => job'[i].of # r.of
    BY <1>1, <2>1, <2>2, <2>3, <2>4
  <2>7. \A i, h \in FileRequests :
          i # h /\ Uploading(job'[i]) /\ Uploading(job'[h]) => job'[i].of # job'[h].of
    <3> SUFFICES ASSUME NEW i \in FileRequests, NEW h \in FileRequests,
                        i # h, Uploading(job'[i]), Uploading(job'[h])
                 PROVE  job'[i].of # job'[h].of
      OBVIOUS
    <3>1. CASE i = j
      BY <1>2, <2>6, <3>1
    <3>2. CASE h = j
      BY <1>2, <2>6, <3>2
    <3>3. CASE i # j /\ h # j
      BY <2>2, <2>4, <3>3
    <3>. QED BY <3>1, <3>2, <3>3
  <2>. QED BY <2>5, <2>7 DEF Numbered
<1>6. ASSUME ~crossed', NEW i \in FileRequests \ {j} PROVE FreeToAct(tree', job'[i])
  <2>1. ~crossed /\ FreeToAct(tree, job[i])
    BY <1>1, <1>6 DEF Crossing, FilesInv
  <2>2. job'[i] = job[i]
    BY <1>2
  <2>3. CASE tree' = tree
    BY <2>1, <2>2, <2>3
  <2>4. CASE tree' # tree
    <3>1. /\ job[i].pc \notin {"act", "open"}
          /\ job[i].pc = "fill" => /\ job[i].dst \in DOMAIN tree'
                                   /\ tree'[job[i].dst] = tree[job[i].dst]
      BY <1>1, <1>6, <2>4 DEF Crossing, Looked
    <3>. QED BY <2>1, <2>2, <3>1 DEF FreeToAct
  <2>. QED BY <2>3, <2>4
<1>7. ~crossed' => \A i \in FileRequests : FreeToAct(tree', job'[i])
  BY <1>2, <1>6
<1>. QED BY <1>2, <1>3, <1>4, <1>5, <1>7 DEF FilesInv

\* A step that leaves the tree alone.
LEMMA LooksKeep ==
  ASSUME FilesInv, NEW j \in FileRequests, NEW r \in JobRecords, JobStep(j, r), JobOK(r),
         UNCHANGED <<tree, saved, dropped, crossed>>, jobs' \in Nat, jobs <= jobs',
         Uploading(r) => /\ r.of < jobs'
                         /\ (Uploading(job[j]) /\ r.of = job[j].of) \/ r.of = jobs,
         ~crossed => FreeToAct(tree, r)
  PROVE  FilesInv'
<1>1. crossed \in BOOLEAN /\ TreeOK(tree) /\ GuardedStay /\ NothingIsLost
  BY DEF FilesInv
<1>2. Crossing(j)
  BY <1>1 DEF Crossing
<1>3. TreeOK(tree') /\ GuardedStay' /\ NothingIsLost'
  BY <1>1 DEF GuardedStay, Guarded, NothingIsLost
<1>4. ~crossed' => FreeToAct(tree', r)
  OBVIOUS
<1>. QED BY <1>2, <1>3, <1>4, JobsKeep

LEMMA IdleIsOK ==
  /\ NoJob \in JobRecords /\ JobOK(NoJob) /\ ~Uploading(NoJob)
  /\ FreeToAct(tree, NoJob) /\ FreeToAct(tree', NoJob)
BY DEF JobRecords, JobOK, Uploading, FreeToAct, NoJob

LEMMA BatchIs ==
  ASSUME NEW op \in {"move", "copy", "delete"}, NEW into \in AllPaths,
         NEW recursive \in BOOLEAN, NEW ps \in Seq(AllPaths), ps # <<>>, NEW r,
         r = Batch(op, into, recursive, ps)
  PROVE  r \in JobRecords /\ JobOK(r) /\ ~Uploading(r) /\ FreeToAct(tree, r)
<1>1. r \in BatchJobs /\ r.pc = "next" /\ r.rest = ps
  BY EmptyPath DEF Batch, BatchJobs
<1>. QED BY <1>1 DEF JobRecords, JobOK, Uploading, FreeToAct

LEMMA MoreOfIs ==
  ASSUME FilesInv, NEW j \in FileRequests, job[j].pc = "act"
  PROVE  /\ MoreOf(j) \in JobRecords /\ JobOK(MoreOf(j)) /\ ~Uploading(MoreOf(j))
         /\ FreeToAct(tree', MoreOf(j))
<1>1. job[j] \in BatchJobs
  BY DEF FilesInv, JobRecords, NoJob, UploadJobs
<1>2. CASE job[j].rest = <<>>
  BY <1>2, IdleIsOK DEF MoreOf
<1>3. CASE job[j].rest # <<>>
  <2> DEFINE r == MoreOf(j)
  <2>1. r \in BatchJobs /\ r.pc = "next" /\ r.rest # <<>>
    BY <1>1, <1>3, EmptyPath DEF MoreOf, BatchJobs
  <2> HIDE DEF r
  <2>2. r \in JobRecords /\ JobOK(r) /\ ~Uploading(r) /\ FreeToAct(tree', r)
    BY <2>1 DEF JobRecords, JobOK, Uploading, FreeToAct
  <2>. QED BY <2>2 DEF r
<1>. QED BY <1>2, <1>3

LEMMA BeginRenameKeeps ==
  ASSUME FilesInv, NEW j \in FileRequests, NEW p \in DOMAIN tree, NEW name \in GivenNames,
         BeginRename(j, p, name)
  PROVE  FilesInv'
<1> DEFINE d == Append(Front(p), name)
           r == [Batch("rename", <<>>, FALSE, <<>>) EXCEPT !.pc = "act", !.src = p, !.dst = d]
<1>1. /\ ~Guarded(p) /\ ~HasPath(d)
      /\ jobs' = jobs + 1 /\ JobStep(j, r) /\ UNCHANGED <<tree, saved, dropped, crossed>>
  BY DEF BeginRename, StartJob
<1>2. p \in AllPaths /\ p # <<>> /\ jobs \in Nat /\ GuardedStay
  BY DEF FilesInv, TreeOK
<1>3. d \in AllPaths
  BY <1>2, FrontOf, AppendIs, NamesAre
<1>4. d # <<>> /\ d \notin DOMAIN tree /\ (Guarded(d) => d \notin DOMAIN FirstTree)
  BY <1>1, <1>2, FreeIsApart
<1> HIDE DEF d
<1>5. /\ r \in BatchJobs /\ r.pc = "act" /\ r.src = p /\ r.dst = d
  <2>1. <<>> \in AllPaths /\ <<>> \in Seq(AllPaths)
    BY EmptyPath
  <2>. QED BY <1>2, <1>3, <2>1 DEF Batch, BatchJobs
<1> HIDE DEF r
<1>6. r \in JobRecords /\ JobOK(r) /\ ~Uploading(r) /\ FreeToAct(tree, r)
  BY <1>1, <1>4, <1>5 DEF JobRecords, JobOK, Uploading, FreeToAct
<1>7. jobs' \in Nat /\ jobs <= jobs'
  BY <1>1, <1>2
<1>. QED BY <1>1, <1>6, <1>7, LooksKeep

LEMMA BatchesAre ==
  ASSUME FilesInv
  PROVE  /\ \A ps \in Batches : ps \in Seq(AllPaths) /\ ps # <<>>
         /\ FoldersNow \subseteq AllPaths
<1>1. DOMAIN tree \subseteq AllPaths
  BY DEF FilesInv, TreeOK
<1>2. FoldersNow \subseteq AllPaths
  BY <1>1, EmptyPath DEF FoldersNow
<1>3. ASSUME NEW ps \in Batches PROVE ps \in Seq(AllPaths) /\ ps # <<>>
  <2>1. \A p \in AllPaths : <<p>> \in Seq(AllPaths) /\ <<p>> # <<>>
    OBVIOUS
  <2>2. \A p, q \in AllPaths : <<p, q>> \in Seq(AllPaths) /\ <<p, q>> # <<>>
    OBVIOUS
  <2>3. CASE ps \in {<<p>> : p \in DOMAIN tree}
    BY <1>1, <2>1, <2>3
  <2>4. ASSUME NEW p \in DOMAIN tree, NEW q \in DOMAIN tree, ps = <<p, q>>
        PROVE  ps \in Seq(AllPaths) /\ ps # <<>>
    BY <1>1, <2>2, <2>4
  <2>5. ps \in {<<p>> : p \in DOMAIN tree} \/ \E p, q \in DOMAIN tree : ps = <<p, q>>
    BY DEF Batches
  <2>. QED BY <2>3, <2>4, <2>5
<1>. QED BY <1>2, <1>3

LEMMA BeginBatchKeeps ==
  ASSUME FilesInv, NEW j \in FileRequests, NEW op \in {"move", "copy", "delete"},
         NEW into \in AllPaths, NEW recursive \in BOOLEAN, NEW ps \in Batches,
         StartJob(j, Batch(op, into, recursive, ps)), UNCHANGED <<tree, saved, dropped, crossed>>
  PROVE  FilesInv'
<1> DEFINE r == Batch(op, into, recursive, ps)
<1>1. ps \in Seq(AllPaths) /\ ps # <<>>
  BY BatchesAre
<1>2. r \in JobRecords /\ JobOK(r) /\ ~Uploading(r) /\ FreeToAct(tree, r)
  BY <1>1, BatchIs
<1>3. jobs \in Nat /\ jobs' = jobs + 1 /\ JobStep(j, r)
  BY DEF StartJob, FilesInv
<1>4. jobs' \in Nat /\ jobs <= jobs'
  BY <1>3
<1> HIDE DEF r
<1>. QED BY <1>2, <1>3, <1>4, LooksKeep

LEMMA LookAtKeeps ==
  ASSUME FilesInv, NEW j \in FileRequests, LookAt(j)
  PROVE  FilesInv'
<1> DEFINE r == job[j]
           p == Head(r.rest)
           d == IF r.op = "delete" THEN p ELSE FreeName(r.into, Last(p))
           n == [r EXCEPT !.pc = "act", !.rest = Tail(@), !.src = p, !.dst = d]
<1>1. r.pc = "next" /\ UNCHANGED <<tree, jobs, saved, dropped, crossed>>
  BY DEF LookAt
<1>2. r \in BatchJobs /\ r.rest # <<>> /\ jobs \in Nat /\ GuardedStay /\ TreeOK(tree)
  BY <1>1 DEF FilesInv, JobRecords, NoJob, UploadJobs, JobOK
<1>3. JobStep(j, NoJob) \/ (JobStep(j, n) /\ HasPath(p) /\ ~Guarded(p))
  BY DEF LookAt
<1>4. p \in AllPaths /\ Tail(r.rest) \in Seq(AllPaths)
  BY <1>2, HeadTailProperties DEF BatchJobs
<1>5. CASE JobStep(j, NoJob)
  BY <1>1, <1>2, <1>5, IdleIsOK, LooksKeep
<1>6. CASE JobStep(j, n) /\ ~Guarded(p)
  <2>1. p # <<>>
    BY <1>6 DEF Guarded
  <2>2. Last(p) \in Names /\ r.into \in AllPaths
    BY <1>2, <1>4, <2>1, FrontOf DEF BatchJobs
  <2>3. /\ d \in AllPaths /\ d # <<>>
        /\ r.op # "delete" => d \notin DOMAIN tree
        /\ Guarded(d) => d \notin DOMAIN FirstTree
    <3>1. CASE r.op = "delete"
      BY <1>4, <1>6, <2>1, <3>1
    <3>2. CASE r.op # "delete"
      <4>1. d = FreeName(r.into, Last(p))
        BY <3>2
      <4>2. IsFiniteSet(DOMAIN tree)
        BY <1>2 DEF TreeOK
      <4> HIDE DEF d, r, p
      <4>3. d \in AllPaths /\ ~HasPath(d)
        BY <4>1, <4>2, <2>2, FreeNameIs
      <4>. QED BY <1>2, <4>3, FreeIsApart
    <3>. QED BY <3>1, <3>2
  <2> HIDE DEF d, p
  <2>4. n \in BatchJobs /\ n.pc = "act" /\ n.src = p /\ n.dst = d /\ n.op = r.op
    BY <1>2, <1>4, <2>3 DEF BatchJobs
  <2>5. JobStep(j, n)
    BY <1>6
  <2> HIDE DEF n, r
  <2>6. n \in JobRecords /\ JobOK(n) /\ ~Uploading(n) /\ FreeToAct(tree, n)
    BY <1>6, <2>3, <2>4 DEF JobRecords, JobOK, Uploading, FreeToAct
  <2>. QED BY <1>1, <1>2, <2>5, <2>6, LooksKeep
<1>. QED BY <1>3, <1>5, <1>6

LEMMA BeginUploadKeeps ==
  ASSUME FilesInv, NEW j \in FileRequests, NEW dir \in FoldersNow, NEW name \in GivenNames,
         BeginUpload(j, dir, name)
  PROVE  FilesInv'
<1> DEFINE d == FreeName(dir, name)
           r == [pc |-> "open", dst |-> d, of |-> jobs]
<1>1. /\ jobs' = jobs + 1 /\ JobStep(j, r) /\ UNCHANGED <<tree, saved, dropped, crossed>>
      /\ jobs \in Nat /\ GuardedStay /\ IsFiniteSet(DOMAIN tree)
  BY DEF BeginUpload, StartJob, FilesInv, TreeOK
<1>2. d \in AllPaths /\ ~HasPath(d)
  BY <1>1, FreeNameIs, BatchesAre, NamesAre
<1> HIDE DEF d
<1>3. d # <<>> /\ d \notin DOMAIN tree /\ (Guarded(d) => d \notin DOMAIN FirstTree)
  BY <1>1, <1>2, FreeIsApart
<1>4. r \in UploadJobs /\ r.pc = "open" /\ r.dst = d /\ r.of = jobs
  BY <1>1, <1>2 DEF UploadJobs
<1> HIDE DEF r
<1>5. r \in JobRecords /\ JobOK(r) /\ FreeToAct(tree, r)
  BY <1>3, <1>4 DEF JobRecords, JobOK, FreeToAct
<1>6. jobs' \in Nat /\ jobs <= jobs' /\ r.of < jobs'
  BY <1>1, <1>4
<1>. QED BY <1>1, <1>4, <1>5, <1>6, LooksKeep

LEMMA BreakUploadKeeps ==
  ASSUME FilesInv, NEW j \in FileRequests, BreakUpload(j)
  PROVE  FilesInv'
<1>1. JobStep(j, NoJob) /\ UNCHANGED <<tree, jobs, saved, dropped, crossed>> /\ jobs \in Nat
  BY DEF BreakUpload, FilesInv
<1>. QED BY <1>1, IdleIsOK, LooksKeep

-----------------------------------------------------------------------------
(* The steps that change the tree *)

\* What is asked of a batch about to act, and of an upload under way.
LEMMA ActingIs ==
  ASSUME FilesInv, NEW j \in FileRequests, job[j].pc = "act"
  PROVE  /\ job[j].src \in AllPaths /\ job[j].dst \in AllPaths
         /\ job[j].src # <<>> /\ job[j].dst # <<>>
         /\ ~Guarded(job[j].src)
         /\ Guarded(job[j].dst) => job[j].dst \notin DOMAIN FirstTree
         /\ ~crossed /\ job[j].op # "delete" => job[j].dst \notin DOMAIN tree
<1>1. job[j] \in BatchJobs /\ JobOK(job[j]) /\ (~crossed => FreeToAct(tree, job[j]))
  BY DEF FilesInv, JobRecords, NoJob, UploadJobs
<1>2. job[j].src # <<>>
  BY <1>1 DEF JobOK, Guarded
<1>. QED BY <1>1, <1>2 DEF JobOK, FreeToAct, BatchJobs

LEMMA UploadIs ==
  ASSUME FilesInv, NEW j \in FileRequests, Uploading(job[j])
  PROVE  /\ job[j] \in UploadJobs /\ job[j].dst \in AllPaths /\ job[j].dst # <<>>
         /\ job[j].of \in Nat /\ job[j].of < jobs
         /\ Guarded(job[j].dst) => job[j].dst \notin DOMAIN FirstTree
         /\ ~crossed => FreeToAct(tree, job[j])
<1>1. job[j] \in UploadJobs /\ JobOK(job[j]) /\ (~crossed => FreeToAct(tree, job[j]))
  BY DEF FilesInv, JobRecords, NoJob, BatchJobs, Uploading
<1>2. job[j].of < jobs
  BY DEF FilesInv, Numbered
<1>. QED BY <1>1, <1>2 DEF JobOK, UploadJobs

\* What is at or below an unprotected path is none of the protected entries of
\* the start, so that these stay.
LEMMA GuardedKept ==
  ASSUME GuardedStay,
         \A g \in DOMAIN FirstTree : Guarded(g) /\ g \in DOMAIN tree =>
             g \in DOMAIN tree' /\ tree'[g] = tree[g]
  PROVE  GuardedStay'
BY DEF GuardedStay, Guarded

\* What was whole and saved is kept when each value of the tree is.
LEMMA ValuesKept ==
  ASSUME FilesInv, UNCHANGED saved, dropped \subseteq dropped',
         crossed' \/ ~crossed,
         ~crossed' => \A g \in DOMAIN tree : \E p \in DOMAIN tree' : tree'[p] = tree[g]
  PROVE  NothingIsLost'
BY DEF FilesInv, NothingIsLost

LEMMA CrossedStays ==
  ASSUME FilesInv, NEW j \in FileRequests, Crossing(j)
  PROVE  crossed' \/ ~crossed
BY DEF FilesInv, Crossing

LEMMA MoveOneKeeps ==
  ASSUME FilesInv, NEW j \in FileRequests, MoveOne(j)
  PROVE  FilesInv'
<1> DEFINE r == job[j]
<1>1. /\ r.pc = "act" /\ r.op # "delete" /\ Crossing(j) /\ UNCHANGED <<jobs, saved, dropped>>
      /\ jobs \in Nat /\ TreeOK(tree) /\ GuardedStay /\ NothingIsLost
  BY DEF MoveOne, JobActs, FilesInv
<1>2. /\ r.src \in AllPaths /\ r.dst \in AllPaths /\ r.src # <<>> /\ r.dst # <<>>
      /\ ~Guarded(r.src) /\ (Guarded(r.dst) => r.dst \notin DOMAIN FirstTree)
      /\ ~crossed => r.dst \notin DOMAIN tree
  BY <1>1, ActingIs
<1>3. \/ /\ CanRename(r.src, r.dst) /\ JobStep(j, MoreOf(j))
         /\ tree' = Onto(Rebased(r.src, r.dst), Without(Below(r.src)))
      \/ JobStep(j, NoJob) /\ UNCHANGED tree
  BY DEF MoveOne
<1>4. crossed' \/ ~crossed
  BY <1>1, CrossedStays
<1>5. CASE JobStep(j, NoJob) /\ UNCHANGED tree
  <2>1. GuardedStay'
    BY <1>1, <1>5, GuardedKept
  <2>2. NothingIsLost'
    BY <1>1, <1>4, <1>5, ValuesKept
  <2>. QED BY <1>1, <1>5, <2>1, <2>2, IdleIsOK, JobsKeep
<1>6. CASE /\ CanRename(r.src, r.dst) /\ JobStep(j, MoreOf(j))
           /\ tree' = Onto(Rebased(r.src, r.dst), Without(Below(r.src)))
  <2>1. /\ TreeOK(tree')
        /\ \A g \in DOMAIN tree : ~IsPrefix(r.src, g) /\ ~IsPrefix(r.dst, g) =>
             g \in DOMAIN tree' /\ tree'[g] = tree[g]
        /\ r.dst \notin DOMAIN tree => \A g \in DOMAIN tree : \E p \in DOMAIN tree' : tree'[p] = tree[g]
    <3> HIDE DEF r
    <3>. QED BY <1>1, <1>2, <1>6, MoveKeeps
  <2>2. GuardedStay'
    <3>1. \A g \in DOMAIN FirstTree : Guarded(g) => ~IsPrefix(r.src, g) /\ ~IsPrefix(r.dst, g)
      <4> HIDE DEF r
      <4>. QED BY <1>2, GuardApart
    <3>. QED BY <1>1, <2>1, <3>1, GuardedKept
  <2>3. NothingIsLost'
    BY <1>1, <1>2, <1>4, <2>1, ValuesKept
  <2>4. /\ MoreOf(j) \in JobRecords /\ JobOK(MoreOf(j)) /\ ~Uploading(MoreOf(j))
        /\ FreeToAct(tree', MoreOf(j))
    BY <1>1, MoreOfIs
  <2>. QED BY <1>1, <1>6, <2>1, <2>2, <2>3, <2>4, JobsKeep
<1>. QED BY <1>3, <1>5, <1>6

LEMMA CopyOneKeeps ==
  ASSUME FilesInv, NEW j \in FileRequests, CopyOne(j)
  PROVE  FilesInv'
<1> DEFINE r == job[j]
           to == IF IsFolder(r.dst) THEN Append(r.dst, Last(r.src)) ELSE r.dst
           file == r.src \in DOMAIN tree /\ ~IsFolder(r.src) /\ IsFolder(Front(r.dst)) /\ ~IsFolder(to)
           folder == /\ IsFolder(r.src) /\ ~HasPath(r.dst)
                     /\ ~(\E q \in DOMAIN Parents(r.dst) : HasPath(q) /\ ~IsFolder(q))
           gone == IsFolder(r.src) /\ HasPath(r.dst)
<1>1. /\ r.pc = "act" /\ r.op # "delete" /\ Crossing(j) /\ UNCHANGED <<jobs, saved, dropped>>
      /\ jobs \in Nat /\ TreeOK(tree) /\ GuardedStay /\ NothingIsLost
  BY DEF CopyOne, JobActs, FilesInv
<1>2. /\ r.src \in AllPaths /\ r.dst \in AllPaths /\ r.src # <<>> /\ r.dst # <<>>
      /\ ~Guarded(r.src) /\ (Guarded(r.dst) => r.dst \notin DOMAIN FirstTree)
      /\ ~crossed => r.dst \notin DOMAIN tree
  BY <1>1, ActingIs
<1>3. \/ file /\ tree' = Onto(Rebased(r.src, to), tree) /\ JobStep(j, MoreOf(j))
      \/ /\ folder /\ tree' = Onto(Onto(Rebased(r.src, r.dst), Parents(r.dst)), tree)
         /\ JobStep(j, MoreOf(j))
      \/ gone /\ tree' = Without(Below(r.dst)) /\ JobStep(j, NoJob)
      \/ JobStep(j, NoJob) /\ UNCHANGED tree
  BY DEF CopyOne
<1>4. crossed' \/ ~crossed
  BY <1>1, CrossedStays
<1>5. /\ MoreOf(j) \in JobRecords /\ JobOK(MoreOf(j)) /\ ~Uploading(MoreOf(j))
      /\ FreeToAct(tree', MoreOf(j))
  BY <1>1, MoreOfIs
<1>6. \A g \in DOMAIN FirstTree : Guarded(g) => ~IsPrefix(r.dst, g)
  <2> HIDE DEF r
  <2>. QED BY <1>2, GuardApart
<1> HIDE DEF r
<1>7. CASE file /\ tree' = Onto(Rebased(r.src, to), tree) /\ JobStep(j, MoreOf(j))
  <2>1. /\ to \in AllPaths /\ IsFolder(Front(to)) /\ ~IsFolder(to) /\ IsPrefix(r.dst, to)
        /\ r.dst \notin DOMAIN tree => to = r.dst
    <3>1. CASE IsFolder(r.dst)
      <4>1. Last(r.src) \in Names /\ to = Append(r.dst, Last(r.src))
        BY <1>2, <3>1, FrontOf
      <4>2. to \in AllPaths /\ Front(to) = r.dst /\ IsPrefix(r.dst, to)
        BY <1>2, <4>1, AppendIs
      <4>. QED BY <1>2, <1>7, <3>1, <4>2 DEF IsFolder
    <3>2. CASE ~IsFolder(r.dst)
      BY <1>2, <1>7, <3>2, PrefixOrder
    <3>. QED BY <3>1, <3>2
  <2>2. tree' = With(to, tree[r.src])
    BY <1>1, <1>7, <2>1, CopyFileIs
  <2> HIDE DEF to, folder, gone
  <2>3. TreeOK(tree') /\ \A p \in DOMAIN tree \ {to} : p \in DOMAIN tree' /\ tree'[p] = tree[p]
    BY <1>1, <2>1, <2>2, PutKeeps
  <2>4. GuardedStay'
    BY <1>1, <1>6, <2>1, <2>3, GuardedKept
  <2>5. NothingIsLost'
    BY <1>1, <1>2, <1>4, <2>1, <2>3, ValuesKept
  <2>. QED BY <1>1, <1>5, <1>7, <2>3, <2>4, <2>5, JobsKeep
<1>8. CASE /\ folder /\ tree' = Onto(Onto(Rebased(r.src, r.dst), Parents(r.dst)), tree)
           /\ JobStep(j, MoreOf(j))
  <2>1. TreeOK(tree') /\ \A g \in DOMAIN tree : g \in DOMAIN tree' /\ tree'[g] = tree[g]
    <3>1. /\ ~HasPath(r.dst) /\ ~(\E q \in DOMAIN Parents(r.dst) : HasPath(q) /\ ~IsFolder(q))
      BY <1>8
    <3> HIDE DEF folder, file, gone, to
    <3>. QED BY <1>1, <1>2, <1>8, <3>1, CopyTreeKeeps
  <2>2. GuardedStay'
    BY <1>1, <2>1, GuardedKept
  <2>3. NothingIsLost'
    BY <1>1, <1>4, <2>1, ValuesKept
  <2>. QED BY <1>1, <1>5, <1>8, <2>1, <2>2, <2>3, JobsKeep
<1>9. CASE gone /\ tree' = Without(Below(r.dst)) /\ JobStep(j, NoJob)
  <2>1. TreeOK(tree')
    BY <1>1, <1>2, <1>9, BelowTaken
  <2>2. \A g \in DOMAIN tree : ~IsPrefix(r.dst, g) => g \in DOMAIN tree' /\ tree'[g] = tree[g]
    BY <1>9 DEF Without, Below
  <2>3. GuardedStay'
    BY <1>1, <1>6, <2>2, GuardedKept
  <2>4. crossed
    BY <1>2, <1>9 DEF HasPath
  <2>5. crossed'
    BY <1>4, <2>4
  <2>6. NothingIsLost'
    BY <2>5 DEF NothingIsLost
  <2>. QED BY <1>1, <1>9, <2>1, <2>3, <2>6, IdleIsOK, JobsKeep
<1>10. CASE JobStep(j, NoJob) /\ UNCHANGED tree
  <2>1. GuardedStay'
    BY <1>1, <1>10, GuardedKept
  <2>2. NothingIsLost'
    BY <1>1, <1>4, <1>10, ValuesKept
  <2>. QED BY <1>1, <1>10, <2>1, <2>2, IdleIsOK, JobsKeep
<1>. QED BY <1>3, <1>7, <1>8, <1>9, <1>10

LEMMA DeleteOneKeeps ==
  ASSUME FilesInv, NEW j \in FileRequests, DeleteOne(j)
  PROVE  FilesInv'
<1> DEFINE r == job[j]
<1>1. /\ r.pc = "act" /\ Crossing(j) /\ UNCHANGED <<jobs, saved>>
      /\ jobs \in Nat /\ TreeOK(tree) /\ GuardedStay /\ NothingIsLost
  BY DEF DeleteOne, JobActs, FilesInv
<1>2. r.src \in AllPaths /\ r.src # <<>> /\ ~Guarded(r.src)
  BY <1>1, ActingIs
<1>3. \/ /\ tree' = Without(Below(r.src)) /\ dropped' = dropped \cup ContentsAt(Below(r.src))
         /\ JobStep(j, MoreOf(j))
      \/ JobStep(j, NoJob) /\ UNCHANGED <<tree, dropped>>
  BY DEF DeleteOne
<1>4. crossed' \/ ~crossed
  BY <1>1, CrossedStays
<1>5. /\ MoreOf(j) \in JobRecords /\ JobOK(MoreOf(j)) /\ ~Uploading(MoreOf(j))
      /\ FreeToAct(tree', MoreOf(j))
  BY <1>1, MoreOfIs
<1> HIDE DEF r
<1>6. CASE /\ tree' = Without(Below(r.src)) /\ dropped' = dropped \cup ContentsAt(Below(r.src))
           /\ JobStep(j, MoreOf(j))
  <2>1. TreeOK(tree')
    BY <1>1, <1>2, <1>6, BelowTaken
  <2>2. \A g \in DOMAIN tree : g \notin Below(r.src) => g \in DOMAIN tree' /\ tree'[g] = tree[g]
    BY <1>6 DEF Without
  <2>3. GuardedStay'
    <3>1. \A g \in DOMAIN FirstTree : Guarded(g) => ~IsPrefix(r.src, g)
      BY <1>2, GuardApart
    <3>2. \A g \in DOMAIN FirstTree : Guarded(g) => g \notin Below(r.src)
      BY <3>1 DEF Below
    <3>. QED BY <1>1, <2>2, <3>2, GuardedKept
  <2>4. ASSUME ~crossed', NEW n \in saved' \ dropped'
        PROVE  \E p \in DOMAIN tree' : tree'[p] = Content(n, TRUE)
    <3>1. n \in saved \ dropped /\ n \notin ContentsAt(Below(r.src))
      BY <1>1, <1>6, <2>4
    <3>2. PICK p \in DOMAIN tree : tree[p] = Content(n, TRUE)
      BY <1>1, <1>4, <2>4, <3>1 DEF NothingIsLost
    <3>3. tree[p].kind = "file" /\ tree[p].of = n
      BY <3>2 DEF Content
    <3>4. p \notin Below(r.src)
      BY <3>1, <3>3 DEF ContentsAt
    <3>. QED BY <2>2, <3>2, <3>4
  <2>5. NothingIsLost'
    BY <2>4 DEF NothingIsLost
  <2>. QED BY <1>1, <1>5, <1>6, <2>1, <2>3, <2>5, JobsKeep
<1>7. CASE JobStep(j, NoJob) /\ UNCHANGED <<tree, dropped>>
  <2>1. GuardedStay'
    BY <1>1, <1>7, GuardedKept
  <2>2. NothingIsLost'
    BY <1>1, <1>4, <1>7, ValuesKept
  <2>. QED BY <1>1, <1>7, <2>1, <2>2, IdleIsOK, JobsKeep
<1>. QED BY <1>3, <1>6, <1>7

LEMMA MakeFolderKeeps ==
  ASSUME FilesInv, NEW j \in FileRequests, NEW dir \in FoldersNow, NEW name \in GivenNames,
         MakeFolder(j, Append(dir, name))
  PROVE  FilesInv'
<1> DEFINE p == Append(dir, name)
<1>1. /\ Crossing(j) /\ UNCHANGED <<saved, dropped>> /\ JobStep(j, NoJob) /\ jobs' = jobs + 1
      /\ tree' = IF HasPath(p) THEN tree ELSE With(p, Folder)
      /\ jobs \in Nat /\ TreeOK(tree) /\ GuardedStay
  BY DEF MakeFolder, StartJob, FilesInv
<1>2. p \in AllPaths /\ Front(p) = dir /\ IsFolder(dir)
  <2>1. IsFolder(dir)
    BY DEF FoldersNow, IsFolder
  <2>. QED BY <2>1, AppendIs, BatchesAre, NamesAre
<1> HIDE DEF p
<1>3. crossed' \/ ~crossed
  BY <1>1, CrossedStays
<1>4. TreeOK(tree') /\ \A g \in DOMAIN tree : g \in DOMAIN tree' /\ tree'[g] = tree[g]
  <2>1. CASE HasPath(p)
    BY <1>1, <2>1
  <2>2. CASE ~HasPath(p)
    <3>1. ~IsFolder(p) /\ p \notin DOMAIN tree /\ tree' = With(p, Folder)
      BY <1>1, <2>2 DEF HasPath, IsFolder
    <3>. QED BY <1>1, <1>2, <3>1, PutKeeps
  <2>. QED BY <2>1, <2>2
<1>5. GuardedStay'
  BY <1>1, <1>4, GuardedKept
<1>6. NothingIsLost'
  BY <1>1, <1>3, <1>4, ValuesKept
<1>7. jobs' \in Nat /\ jobs <= jobs'
  BY <1>1
<1>. QED BY <1>1, <1>4, <1>5, <1>6, <1>7, IdleIsOK, JobsKeep

LEMMA OpenUploadKeeps ==
  ASSUME FilesInv, NEW j \in FileRequests, OpenUpload(j)
  PROVE  FilesInv'
<1> DEFINE r == job[j]
           n == [r EXCEPT !.pc = "fill"]
<1>1. /\ r.pc = "open" /\ Crossing(j) /\ UNCHANGED <<jobs, saved, dropped>>
      /\ jobs \in Nat /\ TreeOK(tree) /\ GuardedStay
  BY DEF OpenUpload, FilesInv
<1>2. /\ r \in UploadJobs /\ r.dst \in AllPaths /\ r.dst # <<>> /\ r.of \in Nat /\ r.of < jobs
      /\ Guarded(r.dst) => r.dst \notin DOMAIN FirstTree
      /\ ~crossed => FreeToAct(tree, r)
      /\ Uploading(r)
  <2>1. Uploading(job[j])
    BY <1>1 DEF Uploading
  <2>. QED BY <2>1, UploadIs
<1>3. \/ /\ IsFolder(Front(r.dst)) /\ ~IsFolder(r.dst)
         /\ tree' = With(r.dst, Content(r.of, FALSE)) /\ JobStep(j, n)
      \/ JobStep(j, NoJob) /\ UNCHANGED tree
  BY DEF OpenUpload
<1>4. crossed' \/ ~crossed
  BY <1>1, CrossedStays
<1>5. /\ n \in UploadJobs /\ n.pc = "fill" /\ n.dst = r.dst /\ n.of = r.of
  BY <1>2 DEF UploadJobs
<1> HIDE DEF n
<1>6. CASE /\ IsFolder(Front(r.dst)) /\ ~IsFolder(r.dst)
           /\ tree' = With(r.dst, Content(r.of, FALSE)) /\ JobStep(j, n)
  <2> HIDE DEF r
  <2>1. /\ TreeOK(tree') /\ r.dst \in DOMAIN tree' /\ tree'[r.dst] = Content(r.of, FALSE)
        /\ \A p \in DOMAIN tree \ {r.dst} : p \in DOMAIN tree' /\ tree'[p] = tree[p]
    <3> DEFINE e == Content(r.of, FALSE)
               d == r.dst
    <3>1. /\ tree' = With(d, e) /\ d \in AllPaths /\ ~IsFolder(d) /\ IsFolder(Front(d))
          /\ TreeOK(tree)
      BY <1>1, <1>2, <1>6
    <3> HIDE DEF e, d
    <3>2. /\ TreeOK(tree') /\ d \in DOMAIN tree' /\ tree'[d] = e
          /\ \A p \in DOMAIN tree \ {d} : p \in DOMAIN tree' /\ tree'[p] = tree[p]
      BY <3>1, PutKeeps
    <3>. QED BY <3>2 DEF e, d
  <2>2. GuardedStay'
    <3>1. \A g \in DOMAIN FirstTree : Guarded(g) => g # r.dst
      BY <1>2
    <3>. QED BY <1>1, <2>1, <3>1, GuardedKept
  <2>3. ~crossed => r.dst \notin DOMAIN tree
    BY <1>1, <1>2 DEF FreeToAct
  <2>4. NothingIsLost'
    BY <1>1, <1>4, <2>1, <2>3, ValuesKept
  <2>5. n \in JobRecords /\ JobOK(n) /\ Uploading(n) /\ FreeToAct(tree', n)
    BY <1>2, <1>5, <2>1 DEF JobRecords, JobOK, Uploading, FreeToAct
  <2>6. n.of < jobs' /\ Uploading(job[j]) /\ n.of = job[j].of
    BY <1>1, <1>2, <1>5 DEF r
  <2>7. jobs' \in Nat /\ jobs <= jobs'
    BY <1>1
  <2>. QED BY <1>1, <1>6, <2>1, <2>2, <2>4, <2>5, <2>6, <2>7, JobsKeep
<1>7. CASE JobStep(j, NoJob) /\ UNCHANGED tree
  <2>1. GuardedStay'
    BY <1>1, <1>7, GuardedKept
  <2>2. NothingIsLost'
    BY <1>1, <1>4, <1>7, ValuesKept
  <2>. QED BY <1>1, <1>7, <2>1, <2>2, IdleIsOK, JobsKeep
<1>. QED BY <1>3, <1>6, <1>7

LEMMA RefuseUploadKeeps ==
  ASSUME FilesInv, NEW j \in FileRequests, RefuseUpload(j)
  PROVE  FilesInv'
<1> DEFINE r == job[j]
<1>1. /\ r.pc = "fill" /\ Crossing(j) /\ UNCHANGED <<jobs, saved, dropped>> /\ JobStep(j, NoJob)
      /\ jobs \in Nat /\ TreeOK(tree) /\ GuardedStay /\ NothingIsLost
      /\ tree' = IF HasPath(r.dst) /\ ~IsFolder(r.dst) THEN Without({r.dst}) ELSE tree
  BY DEF RefuseUpload, FilesInv
<1>2. /\ r.dst \in AllPaths /\ r.dst # <<>>
      /\ Guarded(r.dst) => r.dst \notin DOMAIN FirstTree
      /\ ~crossed => FreeToAct(tree, r)
  <2>1. Uploading(job[j])
    BY <1>1 DEF Uploading
  <2>. QED BY <2>1, UploadIs
<1>3. crossed' \/ ~crossed
  BY <1>1, CrossedStays
<1> HIDE DEF r
<1>4. /\ TreeOK(tree')
      /\ \A p \in DOMAIN tree \ {r.dst} : p \in DOMAIN tree' /\ tree'[p] = tree[p]
  <2>1. CASE HasPath(r.dst) /\ ~IsFolder(r.dst)
    <3>1. r.dst \in DOMAIN tree /\ tree[r.dst] # Folder /\ tree' = Without({r.dst})
      BY <1>1, <1>2, <2>1 DEF HasPath, IsFolder
    <3>2. ASSUME NEW y \in DOMAIN tree, IsPrefix(r.dst, y) PROVE y = r.dst
      BY <1>1, <1>2, <3>1, <3>2 DEF TreeOK, Rooted
    <3>3. \A x \in {r.dst} : \A y \in DOMAIN tree : IsPrefix(x, y) => y \in {r.dst}
      BY <3>2
    <3>4. TreeOK(Without({r.dst}))
      BY <1>1, <3>3, TakeKeeps
    <3>. QED BY <3>1, <3>4 DEF Without
  <2>2. CASE ~(HasPath(r.dst) /\ ~IsFolder(r.dst))
    BY <1>1, <2>2
  <2>. QED BY <2>1, <2>2
<1>5. GuardedStay'
  <2>1. \A g \in DOMAIN FirstTree : Guarded(g) => g # r.dst
    BY <1>2
  <2>. QED BY <1>1, <1>4, <2>1, GuardedKept
<1>6. ASSUME ~crossed', NEW n \in saved' \ dropped'
      PROVE  \E p \in DOMAIN tree' : tree'[p] = Content(n, TRUE)
  <2>1. n \in saved \ dropped
    BY <1>1
  <2>2. PICK p \in DOMAIN tree : tree[p] = Content(n, TRUE)
    BY <1>1, <1>3, <1>6, <2>1 DEF NothingIsLost
  <2>3. tree[r.dst] = Content(r.of, FALSE)
    BY <1>1, <1>2, <1>3, <1>6 DEF FreeToAct
  <2>4. Content(n, TRUE).whole = TRUE /\ Content(r.of, FALSE).whole = FALSE
    BY DEF Content
  <2>5. p # r.dst
    BY <2>2, <2>3, <2>4
  <2>. QED BY <1>4, <2>2, <2>5
<1>7. NothingIsLost'
  BY <1>6 DEF NothingIsLost
<1>. QED BY <1>1, <1>4, <1>5, <1>7, IdleIsOK, JobsKeep

LEMMA ContentIs ==
  /\ \A m, n : \A v, w \in BOOLEAN : Content(m, v) = Content(n, w) => m = n /\ v = w
  /\ \A n : \A v \in BOOLEAN : Content(n, v) # Folder
<1>1. \A n : \A v \in BOOLEAN : /\ Content(n, v).of = n /\ Content(n, v).whole = v
                                /\ Content(n, v).kind = "file"
  BY DEF Content
<1>2. Folder.kind = "folder"
  BY DEF Folder
<1>. QED BY <1>1, <1>2

LEMMA FinishUploadKeeps ==
  ASSUME FilesInv, NEW j \in FileRequests, FinishUpload(j)
  PROVE  FilesInv'
<1> DEFINE r == job[j]
           half == Content(r.of, FALSE)
           done == Content(r.of, TRUE)
<1>1. /\ r.pc = "fill" /\ UNCHANGED <<jobs, dropped, crossed>> /\ JobStep(j, NoJob)
      /\ saved' = saved \cup {r.of}
      /\ tree' = [q \in DOMAIN tree |-> IF tree[q] = half THEN done ELSE tree[q]]
      /\ TreeOK(tree) /\ GuardedStay /\ NothingIsLost /\ Numbered
      /\ job \in [FileRequests -> JobRecords] /\ jobs \in Nat /\ crossed \in BOOLEAN
      /\ \A i \in FileRequests : JobOK(job[i]) /\ (~crossed => FreeToAct(tree, job[i]))
  BY DEF FinishUpload, FilesInv
<1>2. Uploading(r) /\ (~crossed => FreeToAct(tree, r))
  BY <1>1 DEF Uploading
<1>3. half # Folder /\ half # done /\ \A n : Content(n, TRUE) # half
  BY ContentIs
<1>4. \A i \in FileRequests \ {j} : Uploading(job[i]) => Content(job[i].of, FALSE) # half
  <2>1. \A i \in FileRequests \ {j} : Uploading(job[i]) => job[i].of # r.of
    BY <1>1, <1>2 DEF Numbered
  <2>2. \A m, n : Content(m, FALSE) = Content(n, FALSE) => m = n
    BY ContentIs
  <2>. QED BY <2>1, <2>2
<1> HIDE DEF half, done
<1>5. /\ DOMAIN tree' = DOMAIN tree
      /\ \A p \in DOMAIN tree : tree[p] # half => tree'[p] = tree[p]
      /\ \A p \in DOMAIN tree : tree[p] = half => tree'[p] = done
  BY <1>1
<1>6. /\ job' \in [FileRequests -> JobRecords] /\ job'[j] = NoJob
      /\ \A i \in FileRequests \ {j} : job'[i] = job[i]
  BY <1>1, IdleIsOK DEF JobStep
<1> HIDE DEF r
<1>7. TreeOK(tree')
  BY <1>1, <1>3, <1>5 DEF TreeOK, Rooted
<1>8. GuardedStay'
  <2>1. \A p \in DOMAIN FirstTree : FirstTree[p] # half
    <3>1. \A p \in DOMAIN FirstTree :
            FirstTree[p] = Folder \/ FirstTree[p] = Content(FirstTree[p].of, TRUE)
      BY WebFilesAssumption DEF WebFilesAssumption
    <3>. QED BY <1>3, <3>1
  <2>2. \A p \in DOMAIN FirstTree : Guarded(p) => p \in DOMAIN tree /\ tree[p] = FirstTree[p]
    BY <1>1 DEF GuardedStay
  <2>3. \A p \in DOMAIN FirstTree : Guarded(p) => p \in DOMAIN tree' /\ tree'[p] = FirstTree[p]
    BY <1>5, <2>1, <2>2
  <2>. QED BY <2>3 DEF GuardedStay, Guarded
<1>9. ASSUME ~crossed', NEW n \in saved' \ dropped'
      PROVE  \E p \in DOMAIN tree' : tree'[p] = Content(n, TRUE)
  <2>1. ~crossed
    BY <1>1, <1>9
  <2>2. CASE n = r.of
    <3>1. r.dst \in DOMAIN tree /\ tree[r.dst] = half
      BY <1>1, <1>2, <2>1 DEF FreeToAct, half
    <3>. QED BY <1>5, <2>2, <3>1 DEF done
  <2>3. CASE n \in saved \ dropped
    <3>1. PICK p \in DOMAIN tree : tree[p] = Content(n, TRUE)
      BY <1>1, <2>1, <2>3 DEF NothingIsLost
    <3>. QED BY <1>3, <1>5, <3>1
  <2>. QED BY <1>1, <1>9, <2>2, <2>3
<1>10. NothingIsLost'
  BY <1>9 DEF NothingIsLost
<1>11. ASSUME ~crossed', NEW i \in FileRequests PROVE FreeToAct(tree', job'[i])
  <2>1. ~crossed
    BY <1>1, <1>11
  <2>2. CASE i = j
    BY <1>6, <2>2, IdleIsOK
  <2>3. CASE i # j
    <3>1. job'[i] = job[i] /\ FreeToAct(tree, job[i])
      BY <1>1, <1>6, <2>1, <2>3
    <3>2. job[i].pc = "fill" => Content(job[i].of, FALSE) # half
      BY <1>4, <2>3 DEF Uploading
    <3>. QED BY <1>5, <3>1, <3>2 DEF FreeToAct
  <2>. QED BY <2>2, <2>3
<1>12. \A i \in FileRequests : JobOK(job'[i])
  BY <1>1, <1>6, IdleIsOK
<1>13. Numbered'
  <2>1. \A i \in FileRequests : Uploading(job'[i]) => i # j /\ job'[i] = job[i]
    BY <1>6, IdleIsOK
  <2>. QED BY <1>1, <2>1 DEF Numbered
<1>14. jobs' \in Nat /\ crossed' \in BOOLEAN
  BY <1>1
<1>. QED BY <1>6, <1>7, <1>8, <1>10, <1>11, <1>12, <1>13, <1>14 DEF FilesInv

LEMMA FilesInvStep ==
  ASSUME FilesInv, [FilesNext]_filesVars
  PROVE  FilesInv'
<1>1. CASE UNCHANGED filesVars
  BY <1>1 DEF filesVars, FilesInv, TreeOK, Rooted, JobOK, FreeToAct, Numbered, Uploading,
              GuardedStay, Guarded, NothingIsLost
<1>2. ASSUME NEW j \in FileRequests,
             \/ \E p \in DOMAIN tree, name \in GivenNames : BeginRename(j, p, name)
             \/ \E op \in {"move", "copy"}, ps \in Batches, dir \in FoldersNow : BeginMany(j, op, ps, dir)
             \/ \E ps \in Batches, recursive \in BOOLEAN : BeginDelete(j, ps, recursive)
             \/ \E dir \in FoldersNow, name \in GivenNames :
                  /\ Len(dir) < MaxDepth
                  /\ BeginUpload(j, dir, name) \/ MakeFolder(j, Append(dir, name))
             \/ LookAt(j) \/ MoveOne(j) \/ CopyOne(j) \/ DeleteOne(j)
             \/ OpenUpload(j) \/ FinishUpload(j) \/ RefuseUpload(j) \/ BreakUpload(j)
      PROVE  FilesInv'
  <2>1. CASE \E p \in DOMAIN tree, name \in GivenNames : BeginRename(j, p, name)
    BY <2>1, BeginRenameKeeps
  <2>2. ASSUME NEW op \in {"move", "copy"}, NEW ps \in Batches, NEW dir \in FoldersNow,
               BeginMany(j, op, ps, dir)
        PROVE  FilesInv'
    <3>1. dir \in AllPaths
      BY BatchesAre
    <3>2. StartJob(j, Batch(op, dir, FALSE, ps)) /\ UNCHANGED <<tree, saved, dropped, crossed>>
      BY <2>2 DEF BeginMany
    <3>. QED BY <3>1, <3>2, BeginBatchKeeps
  <2>3. ASSUME NEW ps \in Batches, NEW recursive \in BOOLEAN, BeginDelete(j, ps, recursive)
        PROVE  FilesInv'
    <3> DEFINE root == <<>>
    <3>1. root \in AllPaths
      BY EmptyPath
    <3>2. /\ StartJob(j, Batch("delete", root, recursive, ps))
          /\ UNCHANGED <<tree, saved, dropped, crossed>>
      BY <2>3 DEF BeginDelete
    <3> HIDE DEF root
    <3>. QED BY <3>1, <3>2, BeginBatchKeeps
  <2>4. CASE \E dir \in FoldersNow, name \in GivenNames : BeginUpload(j, dir, name)
    BY <2>4, BeginUploadKeeps
  <2>5. CASE \E dir \in FoldersNow, name \in GivenNames : MakeFolder(j, Append(dir, name))
    BY <2>5, MakeFolderKeeps
  <2>6. CASE LookAt(j)
    BY <2>6, LookAtKeeps
  <2>7. CASE MoveOne(j)
    BY <2>7, MoveOneKeeps
  <2>8. CASE CopyOne(j)
    BY <2>8, CopyOneKeeps
  <2>9. CASE DeleteOne(j)
    BY <2>9, DeleteOneKeeps
  <2>10. CASE OpenUpload(j)
    BY <2>10, OpenUploadKeeps
  <2>11. CASE FinishUpload(j)
    BY <2>11, FinishUploadKeeps
  <2>12. CASE RefuseUpload(j)
    BY <2>12, RefuseUploadKeeps
  <2>13. CASE BreakUpload(j)
    BY <2>13, BreakUploadKeeps
  <2>. QED BY <1>2, <2>1, <2>2, <2>3, <2>4, <2>5, <2>6, <2>7, <2>8, <2>9, <2>10, <2>11, <2>12, <2>13
<1>. QED BY <1>1, <1>2 DEF FilesNext

-----------------------------------------------------------------------------
(* The budgets of pins and of what is pending: what a sum comes to, then what
   each step leaves *)

\* The element the sum takes first.
Pick(S) == CHOOSE f \in S : TRUE
\* t: what each set within S comes to, by the recursion of the sum.
Sums(t, held, S) ==
  t = [s \in SUBSET S |-> IF s = {} THEN 0
                          ELSE TokensOf(held[Pick(s)]) + t[s \ {Pick(s)}]]

LEMMA SumIs ==
  ASSUME NEW S, NEW held, NEW t, Sums(t, held, S), NEW s \in SUBSET S
  PROVE  t[s] = IF s = {} THEN 0 ELSE TokensOf(held[Pick(s)]) + t[s \ {Pick(s)}]
BY DEF Sums

\* Two such functions agree.
LEMMA SumsAgree ==
  ASSUME NEW S, IsFiniteSet(S), NEW held, NEW t, Sums(t, held, S),
         NEW R, NEW u, Sums(u, held, R), NEW s \in SUBSET (S \cap R)
  PROVE  t[s] = u[s]
<1> DEFINE B == {r \in SUBSET (S \cap R) : t[r] # u[r]}
<1>1. SUFFICES ASSUME B # {} PROVE FALSE
  OBVIOUS
<1>2. IsFiniteSet(S \cap R)
  BY FS_Subset
<1>3. PICK T \in B : \A r \in SUBSET T : r \in B => r = T
  <2>1. B \in SUBSET (SUBSET (S \cap R))
    OBVIOUS
  <2> HIDE DEF B
  <2>. QED BY <1>1, <1>2, <2>1, SmallestExists
<1>4. T \in SUBSET S /\ T \in SUBSET R /\ t[T] # u[T]
  BY <1>3
<1>5. T # {}
  BY <1>4, SumIs
<1>6. Pick(T) \in T
  BY <1>5 DEF Pick
<1>7. t[T \ {Pick(T)}] = u[T \ {Pick(T)}]
  BY <1>3, <1>6
<1> HIDE DEF B
<1>8. t[T] = TokensOf(held[Pick(T)]) + t[T \ {Pick(T)}]
  <2>1. Sums(t, held, S) /\ T \in SUBSET S
    BY <1>4
  <2>. QED BY <2>1, <1>5, SumIs
<1>9. u[T] = TokensOf(held[Pick(T)]) + u[T \ {Pick(T)}]
  <2>1. Sums(u, held, R) /\ T \in SUBSET R
    BY <1>4
  <2>. QED BY <2>1, <1>5, SumIs
<1>. QED BY <1>4, <1>7, <1>8, <1>9

\* Within a set it has, a function of sums is one of the set's.
LEMMA SumsWithin ==
  ASSUME NEW S, NEW held, NEW t, Sums(t, held, S), NEW R \in SUBSET S
  PROVE  Sums([s \in SUBSET R |-> t[s]], held, R)
<1> DEFINE u == [s \in SUBSET R |-> t[s]]
<1>1. \A s \in SUBSET R :
         u[s] = IF s = {} THEN 0 ELSE TokensOf(held[Pick(s)]) + u[s \ {Pick(s)}]
  <2> TAKE s \in SUBSET R
  <2>1. s \ {Pick(s)} \in SUBSET R /\ s \in SUBSET S
    OBVIOUS
  <2>2. u[s] = t[s] /\ u[s \ {Pick(s)}] = t[s \ {Pick(s)}]
    BY <2>1
  <2> HIDE DEF u
  <2>. QED BY <2>1, <2>2, SumIs
<1>2. u = [s \in SUBSET R |-> u[s]]
  OBVIOUS
<1> HIDE DEF u
<1>3. u = [s \in SUBSET R |-> IF s = {} THEN 0
                              ELSE TokensOf(held[Pick(s)]) + u[s \ {Pick(s)}]]
  BY <1>1, <1>2, Zenon
<1>4. Sums(u, held, R)
  BY <1>3 DEF Sums
<1>. QED BY <1>4 DEF u

\* Every finite set has its sums.
LEMMA SumsExist ==
  ASSUME NEW S, IsFiniteSet(S), NEW held
  PROVE  \E t : Sums(t, held, S)
<1> DEFINE B == {R \in SUBSET S : ~ \E t : Sums(t, held, R)}
           Within(R) == CHOOSE t : Sums(t, held, R)
<1>1. SUFFICES ASSUME B # {} PROVE FALSE
  OBVIOUS
<1>2. PICK T \in B : \A r \in SUBSET T : r \in B => r = T
  <2>1. B \in SUBSET (SUBSET S)
    OBVIOUS
  <2> HIDE DEF B
  <2>. QED BY <1>1, <2>1, SmallestExists
<1>3. \A r \in SUBSET T : r # T => Sums(Within(r), held, r)
  BY <1>2
<1>4. IsFiniteSet(T)
  BY <1>2, FS_Subset
<1>5. \A r \in SUBSET T : IsFiniteSet(r)
  BY <1>4, FS_Subset
<1> DEFINE Sum(s) == IF s = {} THEN 0
                     ELSE TokensOf(held[Pick(s)]) + Within(s \ {Pick(s)})[s \ {Pick(s)}]
           t == [s \in SUBSET T |-> Sum(s)]
<1>6. ASSUME NEW s \in SUBSET T, s # {}
      PROVE  Within(s \ {Pick(s)})[s \ {Pick(s)}] = t[s \ {Pick(s)}]
  <2> DEFINE r == s \ {Pick(s)}
  <2>1. Pick(s) \in s
    BY <1>6 DEF Pick
  <2>2. r \in SUBSET T /\ r # T
    BY <2>1
  <2>3. t[r] = Sum(r)
    BY <2>2
  <2> HIDE DEF r, t
  <2>4. Sums(Within(r), held, r)
    BY <2>2, <1>3
  <2>5. Within(r)[r] = Sum(r)
    <3>1. CASE r = {}
      <4> HIDE DEF Within
      <4>. QED BY <3>1, <2>4, SumIs
    <3>2. CASE r # {}
      <4> DEFINE q == r \ {Pick(r)}
      <4>1. Pick(r) \in r
        BY <3>2 DEF Pick
      <4>2. q \in SUBSET T /\ q # T /\ q \in SUBSET r
        BY <4>1, <2>2
      <4>3. Sums(Within(q), held, q)
        BY <4>2, <1>3
      <4> HIDE DEF Within
      <4>4. Within(r)[r] = TokensOf(held[Pick(r)]) + Within(r)[q]
        BY <2>4, <3>2, SumIs
      <4>5. Sum(r) = TokensOf(held[Pick(r)]) + Within(q)[q]
        BY <3>2
      <4>6. Within(r)[q] = Within(q)[q]
        <5> HIDE DEF q
        <5>1. q \in SUBSET (r \cap q) /\ IsFiniteSet(r)
          BY <4>2, <2>2, <1>5
        <5>. QED BY <5>1, <2>4, <4>3, SumsAgree
      <4>. QED BY <4>4, <4>5, <4>6
    <3>. QED BY <3>1, <3>2
  <2>6. Within(r)[r] = t[r]
    BY <2>3, <2>5
  <2>. QED BY <2>6 DEF r
<1>7. Sums(t, held, T)
  <2>1. t = [s \in SUBSET T |-> Sum(s)]
    OBVIOUS
  <2>2. \A s \in SUBSET T : Sum(s) = IF s = {} THEN 0
                            ELSE TokensOf(held[Pick(s)]) + t[s \ {Pick(s)}]
    <3> HIDE DEF t, Within
    <3>. QED BY <1>6
  <2> HIDE DEF t, Sum
  <2>3. t = [s \in SUBSET T |-> IF s = {} THEN 0
                                ELSE TokensOf(held[Pick(s)]) + t[s \ {Pick(s)}]]
    BY <2>1, <2>2, Zenon
  <2>. QED BY <2>3 DEF Sums
<1>. QED BY <1>2, <1>7

\* The total is what the sums come to.
LEMMA TotalIsSum ==
  ASSUME NEW S, NEW held
  PROVE  Total(held, S) = (CHOOSE it : Sums(it, held, S))[S]
<1>1. Total(held, S) = (CHOOSE it : it = [s \in SUBSET S |-> IF s = {} THEN 0 ELSE TokensOf(held[CHOOSE f \in s : TRUE]) + it[s \ {CHOOSE f \in s : TRUE}]])[S]
  BY Zenon DEF Total, MapThenSumSet, MapThenFoldSet
<1>. QED BY <1>1, Zenon DEF Sums, Pick

LEMMA TotalOfNone == ASSUME NEW held PROVE Total(held, {}) = 0
<1> DEFINE it == CHOOSE it : Sums(it, held, {})
<1>1. Sums(it, held, {})
  BY SumsExist, FS_EmptySet
<1>2. Total(held, {}) = it[{}]
  BY TotalIsSum
<1> HIDE DEF it
<1>. QED BY <1>1, <1>2, SumIs

\* The total takes the picked element first.
LEMMA TotalStep ==
  ASSUME NEW S, IsFiniteSet(S), S # {}, NEW held
  PROVE  Total(held, S) = TokensOf(held[Pick(S)]) + Total(held, S \ {Pick(S)})
<1> DEFINE R == S \ {Pick(S)}
           t == CHOOSE it : Sums(it, held, S)
           u == CHOOSE it : Sums(it, held, R)
<1>1. IsFiniteSet(R)
  BY FS_RemoveElement
<1>2. Sums(t, held, S) /\ Sums(u, held, R)
  BY <1>1, SumsExist
<1>3. Total(held, S) = t[S] /\ Total(held, R) = u[R]
  BY TotalIsSum
<1> HIDE DEF t, u
<1>4. t[S] = TokensOf(held[Pick(S)]) + t[R]
  BY <1>2, SumIs
<1>5. t[R] = u[R]
  <2>1. R \in SUBSET (S \cap R)
    OBVIOUS
  <2> HIDE DEF R
  <2>. QED BY <1>2, <2>1, SumsAgree
<1>. QED BY <1>3, <1>4, <1>5


\* Tokens is what each file of a finite set holds, None or a number of them.
Counted(held, S) ==
  IsFiniteSet(S) /\ \A f \in S : TokensOf(held[f]) \in Nat

\* A total is a number of tokens.
LEMMA TotalType ==
  ASSUME NEW S, NEW held, Counted(held, S)
  PROVE  Total(held, S) \in Nat
<1> DEFINE B == {R \in SUBSET S : Total(held, R) \notin Nat}
<1>1. SUFFICES ASSUME B # {} PROVE FALSE
  OBVIOUS
<1>2. IsFiniteSet(S)
  BY DEF Counted
<1>3. PICK T \in B : \A r \in SUBSET T : r \in B => r = T
  <2>1. B \in SUBSET (SUBSET S)
    OBVIOUS
  <2> HIDE DEF B
  <2>. QED BY <1>1, <1>2, <2>1, SmallestExists
<1>4. T \in SUBSET S /\ Total(held, T) \notin Nat
  BY <1>3
<1>5. T # {}
  BY <1>4, TotalOfNone
<1>6. Pick(T) \in T
  BY <1>5 DEF Pick
<1>7. Total(held, T \ {Pick(T)}) \in Nat
  BY <1>3, <1>6
<1> HIDE DEF B
<1>8. IsFiniteSet(T)
  BY <1>2, <1>4, FS_Subset
<1>9. Total(held, T) = TokensOf(held[Pick(T)]) + Total(held, T \ {Pick(T)})
  BY <1>5, <1>8, TotalStep
<1>10. TokensOf(held[Pick(T)]) \in Nat
  BY <1>4, <1>6 DEF Counted
<1>. QED BY <1>4, <1>7, <1>9, <1>10

\* Where nothing is held, the total is none.
LEMMA TotalZero ==
  ASSUME NEW S, IsFiniteSet(S), NEW held, \A f \in S : TokensOf(held[f]) = 0
  PROVE  Total(held, S) = 0
<1> DEFINE B == {R \in SUBSET S : Total(held, R) # 0}
<1>1. SUFFICES ASSUME B # {} PROVE FALSE
  OBVIOUS
<1>3. PICK T \in B : \A r \in SUBSET T : r \in B => r = T
  <2>1. B \in SUBSET (SUBSET S)
    OBVIOUS
  <2> HIDE DEF B
  <2>. QED BY <1>1, <2>1, SmallestExists
<1>4. T \in SUBSET S /\ Total(held, T) # 0
  BY <1>3
<1>5. T # {}
  BY <1>4, TotalOfNone
<1>6. Pick(T) \in T
  BY <1>5 DEF Pick
<1>7. Total(held, T \ {Pick(T)}) = 0
  BY <1>3, <1>6
<1> HIDE DEF B
<1>8. IsFiniteSet(T)
  BY <1>4, FS_Subset
<1>9. Total(held, T) = TokensOf(held[Pick(T)]) + Total(held, T \ {Pick(T)})
  BY <1>5, <1>8, TotalStep
<1>11. TokensOf(held[Pick(T)]) = 0
  BY <1>4, <1>6
<1>. QED BY <1>4, <1>7, <1>9, <1>11

\* Any file may be taken first.
LEMMA TotalSplits ==
  ASSUME NEW S, NEW held, Counted(held, S), NEW g \in S
  PROVE  Total(held, S) = Total(held, S \ {g}) + TokensOf(held[g])
<1> DEFINE Splits(R) == \A f \in R : Total(held, R) = Total(held, R \ {f}) + TokensOf(held[f])
           B == {R \in SUBSET S : ~ Splits(R)}
<1>1. SUFFICES ASSUME B # {} PROVE FALSE
  OBVIOUS
<1>2. IsFiniteSet(S)
  BY DEF Counted
<1>3. PICK T \in B : \A r \in SUBSET T : r \in B => r = T
  <2>1. B \in SUBSET (SUBSET S)
    OBVIOUS
  <2> HIDE DEF B
  <2>. QED BY <1>1, <1>2, <2>1, SmallestExists
<1>4. T \in SUBSET S /\ ~ Splits(T)
  BY <1>3
<1>5. \A r \in SUBSET T : r # T => Splits(r)
  BY <1>3, <1>4
<1> HIDE DEF B
<1>6. PICK f \in T : Total(held, T) # Total(held, T \ {f}) + TokensOf(held[f])
  BY <1>4
<1>7. \A r \in SUBSET S : IsFiniteSet(r) /\ Total(held, r) \in Nat
  <2> TAKE r \in SUBSET S
  <2>1. IsFiniteSet(r)
    BY <1>2, FS_Subset
  <2>2. Counted(held, r)
    BY <2>1 DEF Counted
  <2>. QED BY <2>1, <2>2, TotalType
<1> DEFINE p == Pick(T)
<1>8. p \in T
  BY <1>6 DEF Pick
<1>9. Total(held, T) = TokensOf(held[p]) + Total(held, T \ {p})
  BY <1>4, <1>6, <1>7, TotalStep
<1>10. TokensOf(held[p]) \in Nat /\ TokensOf(held[f]) \in Nat
  BY <1>4, <1>6, <1>8 DEF Counted
<1> HIDE DEF p
<1>11. p # f
  <2>1. Total(held, T \ {p}) \in Nat
    BY <1>4, <1>7
  <2>. QED BY <2>1, <1>6, <1>9, <1>10
<1>12. Total(held, T \ {p}) = Total(held, (T \ {p}) \ {f}) + TokensOf(held[f])
  <2>1. Splits(T \ {p})
    BY <1>5, <1>8
  <2>. QED BY <2>1, <1>6, <1>11
<1>13. Total(held, T \ {f}) = Total(held, (T \ {f}) \ {p}) + TokensOf(held[p])
  <2>1. Splits(T \ {f})
    BY <1>5, <1>6
  <2>. QED BY <2>1, <1>8, <1>11
<1>14. (T \ {p}) \ {f} = (T \ {f}) \ {p}
  OBVIOUS
<1>15. Total(held, (T \ {f}) \ {p}) \in Nat
  BY <1>4, <1>7
<1> HIDE DEF Splits
<1>16. Total(held, T) = Total(held, T \ {f}) + TokensOf(held[f])
  <2> DEFINE x == Total(held, (T \ {f}) \ {p})
             tp == TokensOf(held[p])
             tf == TokensOf(held[f])
  <2>1. Total(held, T) = tp + (x + tf)
    BY <1>9, <1>12, <1>14
  <2>2. Total(held, T \ {f}) = x + tp
    BY <1>13
  <2>3. x \in Nat /\ tp \in Nat /\ tf \in Nat
    BY <1>10, <1>15
  <2> HIDE DEF x, tp, tf
  <2>4. tp + (x + tf) = (x + tp) + tf
    BY <2>3
  <2>. QED BY <2>1, <2>2, <2>4 DEF tf
<1>. QED BY <1>6, <1>16


\* Holding no more of each file comes to no more.
LEMMA TotalShrinks ==
  ASSUME NEW S, NEW held, Counted(held, S), NEW other, Counted(other, S),
         \A f \in S : TokensOf(other[f]) <= TokensOf(held[f])
  PROVE  Total(other, S) <= Total(held, S)
<1> DEFINE B == {R \in SUBSET S : ~ (Total(other, R) <= Total(held, R))}
<1>1. SUFFICES ASSUME B # {} PROVE FALSE
  OBVIOUS
<1>2. IsFiniteSet(S)
  BY DEF Counted
<1>3. PICK T \in B : \A r \in SUBSET T : r \in B => r = T
  <2>1. B \in SUBSET (SUBSET S)
    OBVIOUS
  <2> HIDE DEF B
  <2>. QED BY <1>1, <1>2, <2>1, SmallestExists
<1>4. T \in SUBSET S /\ ~ (Total(other, T) <= Total(held, T))
  BY <1>3
<1>5. IsFiniteSet(T)
  BY <1>2, <1>4, FS_Subset
<1>6. T # {}
  BY <1>4, TotalOfNone
<1>7. Pick(T) \in T
  BY <1>6 DEF Pick
<1> DEFINE R == T \ {Pick(T)}
<1>8. Total(other, R) <= Total(held, R)
  BY <1>3, <1>7
<1> HIDE DEF B
<1>9. /\ Total(held, T) = TokensOf(held[Pick(T)]) + Total(held, R)
      /\ Total(other, T) = TokensOf(other[Pick(T)]) + Total(other, R)
  BY <1>5, <1>6, TotalStep
<1>10. /\ TokensOf(other[Pick(T)]) <= TokensOf(held[Pick(T)])
       /\ TokensOf(other[Pick(T)]) \in Nat /\ TokensOf(held[Pick(T)]) \in Nat
  BY <1>4, <1>7 DEF Counted
<1>11. Counted(held, R) /\ Counted(other, R)
  BY <1>4, <1>5, FS_Subset DEF Counted
<1>12. Total(held, R) \in Nat /\ Total(other, R) \in Nat
  BY <1>11, TotalType
<1> HIDE DEF R
<1>. QED BY <1>4, <1>8, <1>9, <1>10, <1>12

\* The share of the pins is a number of tokens.
LEMMA PinBudgetType == PinBudget \in Nat
<1>1. \A x \in Nat, y \in Nat : Max({x, y}) \in Nat
  <2> TAKE x \in Nat, y \in Nat
  <2>1. \E z \in {x, y} : \A v \in {x, y} : z >= v
    OBVIOUS
  <2>. QED BY <2>1 DEF Max
<1>2. \A x \in Nat, y \in Nat : Min({x, y}) \in Nat
  <2> TAKE x \in Nat, y \in Nat
  <2>1. \E z \in {x, y} : \A v \in {x, y} : z =< v
    OBVIOUS
  <2>. QED BY <2>1 DEF Min
<1> DEFINE ratio == Min({50, Max({5, PinRatio})})
<1>3. ratio \in Nat
  BY <1>1, <1>2, BudgetAssumption
<1> HIDE DEF ratio
<1>4. ContextLimit * ratio \in Nat
  BY <1>3, BudgetAssumption
<1>5. \A x \in Nat : x \div 100 \in Nat
  OBVIOUS
<1>6. (ContextLimit * ratio) \div 100 \in Nat
  BY <1>4, <1>5
<1>7. Max({1, (ContextLimit * ratio) \div 100}) \in Nat
  BY <1>1, <1>6
<1>. QED BY <1>7 DEF PinBudget, ratio

\* What fits leaves room for less of it.
LEMMA LessFits ==
  ASSUME NEW m \in Nat, NEW base \in Nat, NEW limit \in Nat, ~ Blocked(m, base, limit),
         NEW n \in Nat, NEW used \in Nat, used + n <= base + m
  PROVE  ~ Blocked(n, used, limit)
BY DEF Blocked

\* What a file may come to fits, and is one number.
LEMMA MaterializedFits ==
  ASSUME NEW n \in Nat, NEW chunked, NEW base \in Nat, NEW limit \in Nat,
         NEW m \in Materialized(n, chunked, base, limit)
  PROVE  m \in Nat /\ ~ Blocked(m, base, limit)
<1> DEFINE cut == IF n > Portion THEN Portion ELSE n
<1>1. cut \in Nat /\ cut <= n /\ Portion \in Nat
  BY BudgetAssumption
<1>2. m \in {cut, n}
  BY DEF Materialized
<1>3. CASE Blocked(n, base, limit)
  BY <1>1, <1>3 DEF Materialized
<1>4. CASE ~ Blocked(n, base, limit)
  <2>1. ~ Blocked(cut, base, limit)
    <3> HIDE DEF cut
    <3>. QED BY <1>1, <1>4, LessFits
  <2>. QED BY <1>1, <1>2, <1>4, <2>1
<1>. QED BY <1>3, <1>4

LEMMA MaterializedIsOne ==
  ASSUME NEW n \in Nat, NEW chunked, NEW base, NEW limit,
         NEW m \in Materialized(n, chunked, base, limit),
         NEW k \in Materialized(n, chunked, base, limit)
  PROVE  m = k /\ m \in Nat
BY BudgetAssumption DEF Materialized


\* The requests in flight, and what the chat holds.
AttachAsked == [kind : {"attach"}, file : Files, met : BOOLEAN, baseline : Nat]
PinAsked == [kind : {"pin"}, file : Files, others : Nat, met : BOOLEAN]
Asked == {NotAsking} \cup AttachAsked \cup PinAsked
Holding == [Files -> Nat \cup {None}]

BudgetTypes ==
  /\ usage \in Nat /\ run \in BOOLEAN /\ attachMet \in BOOLEAN /\ pinMet \in BOOLEAN
  /\ attached \in Holding /\ pinned \in Holding /\ asking \in [Asks -> Asked]

\* A request to pin has seen at least the pins there are besides its file.
PinRoom(q) ==
  asking[q].kind = "pin" => Total(pinned, Files \ {asking[q].file}) <= asking[q].others
\* A request to attach has met a run, or none goes and it has seen at least the
\* usage and what is pending besides its file.
AttachRoom(q) ==
  asking[q].kind = "attach" =>
    \/ asking[q].met
    \/ ~ run /\ usage + Total(attached, Files \ {asking[q].file}) <= asking[q].baseline

PinsHold == pinMet \/ (PinsFit /\ \A q \in Asks : PinRoom(q))
AttachmentsHold ==
  attachMet \/ /\ AttachmentsFit /\ (run => Total(attached, Files) = 0)
               /\ \A q \in Asks : AttachRoom(q)
BudgetInv == BudgetTypes /\ PinsHold /\ AttachmentsHold

LEMMA BudgetInvSound == BudgetInv => BudgetIsKept
BY DEF BudgetInv, PinsHold, AttachmentsHold, BudgetIsKept, PinsFit, AttachmentsFit

\* Whatever is held is counted, and so is what part of the files hold.
LEMMA HoldingCounts ==
  ASSUME NEW held \in Holding, NEW S \in SUBSET Files
  PROVE  Counted(held, S) /\ Total(held, S) \in Nat
<1>1. IsFiniteSet(S)
  BY FS_Subset, BudgetAssumption
<1>2. \A f \in S : TokensOf(held[f]) \in Nat
  BY DEF Holding, TokensOf
<1>3. Counted(held, S)
  BY <1>1, <1>2 DEF Counted
<1>. QED BY <1>3, TotalType

\* A file comes to no more than the total besides it and what it is given.
LEMMA HoldingGrows ==
  ASSUME NEW held \in Holding, NEW g \in Files, NEW m \in Nat
  PROVE  /\ [held EXCEPT ![g] = m] \in Holding
         /\ Total([held EXCEPT ![g] = m], Files) <= Total(held, Files \ {g}) + m
<1> DEFINE more == [held EXCEPT ![g] = m]
           R == Files \ {g}
<1>1. more \in Holding
  BY DEF Holding
<1>2. more[g] = m /\ \A f \in R : more[f] = held[f]
  BY DEF Holding
<1> HIDE DEF more
<1>3. Counted(held, R) /\ Counted(more, R) /\ Counted(more, Files)
  BY <1>1, HoldingCounts
<1>4. Total(more, R) \in Nat /\ Total(held, R) \in Nat
  BY <1>1, HoldingCounts
<1>5. \A f \in R : TokensOf(more[f]) <= TokensOf(held[f])
  BY <1>2, <1>3 DEF Counted
<1> HIDE DEF R
<1>6. Total(more, R) <= Total(held, R)
  BY <1>3, <1>5, TotalShrinks
<1>7. Total(more, Files) = Total(more, R) + TokensOf(more[g])
  BY <1>3, TotalSplits DEF R
<1>8. TokensOf(more[g]) \in Nat /\ TokensOf(more[g]) <= m
  BY <1>2 DEF TokensOf
<1>9. Total(more, Files) <= Total(held, R) + m
  BY <1>4, <1>6, <1>7, <1>8
<1>. QED BY <1>1, <1>9 DEF more, R

\* Letting files go comes to no more, whichever files are counted.
LEMMA HoldingShrinks ==
  ASSUME NEW held \in Holding, NEW fs, NEW S \in SUBSET Files
  PROVE  LET less == [f \in Files |-> IF f \in fs THEN None ELSE held[f]] IN
         /\ less \in Holding
         /\ Total(less, S) <= Total(held, S)
<1> DEFINE less == [f \in Files |-> IF f \in fs THEN None ELSE held[f]]
<1>1. less \in Holding
  BY DEF Holding
<1>2. Counted(held, S)
  BY HoldingCounts
<1>3. \A f \in S : TokensOf(less[f]) <= TokensOf(held[f])
  BY <1>2 DEF Counted, TokensOf
<1> HIDE DEF less
<1>4. Counted(less, S)
  BY <1>1, HoldingCounts
<1>5. Total(less, S) <= Total(held, S)
  BY <1>2, <1>3, <1>4, TotalShrinks
<1>. QED BY <1>1, <1>5 DEF less

\* Nothing held comes to nothing.
LEMMA NothingHeld ==
  /\ [f \in Files |-> None] \in Holding
  /\ Total([f \in Files |-> None], Files) = 0
<1> DEFINE none == [f \in Files |-> None]
<1>1. none \in Holding
  BY DEF Holding
<1>2. \A f \in Files : TokensOf(none[f]) = 0
  BY DEF TokensOf
<1> HIDE DEF none
<1>3. Total(none, Files) = 0
  BY <1>2, TotalZero, BudgetAssumption
<1>. QED BY <1>1, <1>3 DEF none

LEMMA AskedKinds ==
  ASSUME NEW q \in Asks, asking \in [Asks -> Asked]
  PROVE  /\ asking[q].kind = "attach" => asking[q] \in AttachAsked
         /\ asking[q].kind = "pin" => asking[q] \in PinAsked
<1>1. asking[q] \in Asked
  OBVIOUS
<1>2. CASE asking[q] = NotAsking
  BY <1>2, BudgetAssumption DEF NotAsking
<1>3. CASE asking[q] \in AttachAsked
  BY <1>3 DEF AttachAsked
<1>4. CASE asking[q] \in PinAsked
  BY <1>4 DEF PinAsked
<1>. QED BY <1>1, <1>2, <1>3, <1>4 DEF Asked

LEMMA BudgetInvInit == BudgetInit => BudgetInv
<1> SUFFICES ASSUME BudgetInit PROVE BudgetInv
  OBVIOUS
<1>1. /\ usage = 0 /\ run = FALSE /\ attachMet = FALSE /\ pinMet = FALSE
      /\ attached = [f \in Files |-> None] /\ pinned = [f \in Files |-> None]
      /\ asking = [q \in Asks |-> NotAsking]
  BY DEF BudgetInit
<1>2. BudgetTypes
  BY <1>1, NothingHeld DEF BudgetTypes, Asked
<1>3. Total(attached, Files) = 0 /\ Total(pinned, Files) = 0
  BY <1>1, NothingHeld
<1>4. \A q \in Asks : asking[q].kind = None
  BY <1>1 DEF NotAsking
<1>5. \A q \in Asks : PinRoom(q) /\ AttachRoom(q)
  BY <1>4, BudgetAssumption DEF PinRoom, AttachRoom
<1>6. PinsFit
  BY <1>3, PinBudgetType DEF PinsFit
<1>7. PinsHold
  BY <1>5, <1>6 DEF PinsHold
<1>8. AttachmentsHold
  BY <1>1, <1>3, <1>5 DEF AttachmentsHold, AttachmentsFit
<1>. QED BY <1>2, <1>7, <1>8 DEF BudgetInv


----------------------------------------------------------------------------
\* Nothing more is pinned, and each request to pin is one there was, or one that
\* has seen the pins there are.
PinsLess ==
  pinMet' = pinMet /\ \A S \in SUBSET Files : Total(pinned', S) <= Total(pinned, S)
PinAsksStay ==
  \A q \in Asks : asking'[q].kind = "pin" =>
    \/ /\ asking[q].kind = "pin"
       /\ asking'[q].file = asking[q].file /\ asking'[q].others = asking[q].others
    \/ Total(pinned', Files \ {asking'[q].file}) <= asking'[q].others

LEMMA PinsKeep ==
  ASSUME BudgetTypes, BudgetTypes', PinsHold, PinsLess, PinAsksStay
  PROVE  PinsHold'
<1>1. CASE pinMet
  BY <1>1 DEF PinsHold, PinsLess
<1>2. CASE ~ pinMet
  <2>1. Total(pinned, Files) <= PinBudget /\ \A q \in Asks : PinRoom(q)
    BY <1>2 DEF PinsHold, PinsFit
  <2>2. pinned \in Holding /\ pinned' \in Holding /\ asking' \in [Asks -> Asked]
        /\ asking \in [Asks -> Asked]
    BY DEF BudgetTypes
  <2>3. \A S \in SUBSET Files : Total(pinned, S) \in Nat /\ Total(pinned', S) \in Nat
    BY <2>2, HoldingCounts
  <2>4. Total(pinned', Files) <= PinBudget
    <3>1. Total(pinned', Files) <= Total(pinned, Files)
      BY DEF PinsLess
    <3>. QED BY <2>1, <2>3, <3>1, PinBudgetType
  <2>5. ASSUME NEW q \in Asks, asking'[q].kind = "pin"
        PROVE  Total(pinned', Files \ {asking'[q].file}) <= asking'[q].others
    <3> DEFINE S == Files \ {asking'[q].file}
    <3>1. CASE /\ asking[q].kind = "pin"
               /\ asking'[q].file = asking[q].file /\ asking'[q].others = asking[q].others
      <4>1. asking[q] \in PinAsked
        BY <2>2, <3>1, AskedKinds
      <4>2. asking[q].others \in Nat
        BY <4>1 DEF PinAsked
      <4>3. Total(pinned, S) <= asking[q].others
        BY <2>1, <3>1 DEF PinRoom
      <4>4. Total(pinned', S) <= Total(pinned, S)
        BY DEF PinsLess
      <4>5. Total(pinned, S) \in Nat /\ Total(pinned', S) \in Nat
        BY <2>3
      <4> HIDE DEF S
      <4>6. Total(pinned', S) <= asking'[q].others
        BY <3>1, <4>2, <4>3, <4>4, <4>5
      <4>. QED BY <4>6 DEF S
    <3>. QED BY <2>5, <3>1 DEF PinAsksStay
  <2>. QED BY <2>4, <2>5 DEF PinsHold, PinsFit, PinRoom
<1>. QED BY <1>1, <1>2

\* Nothing more is attached, no run starts, and each request to attach is one
\* there was, or one that has seen the usage and what is pending.
AttachLess ==
  /\ attachMet' = attachMet /\ usage' = usage /\ (run' => run)
  /\ \A S \in SUBSET Files : Total(attached', S) <= Total(attached, S)
AttachAsksStay ==
  \A q \in Asks : asking'[q].kind = "attach" =>
    \/ /\ asking[q].kind = "attach" /\ asking'[q].met = asking[q].met
       /\ asking'[q].file = asking[q].file /\ asking'[q].baseline = asking[q].baseline
    \/ ~ run' /\ usage' + Total(attached', Files \ {asking'[q].file}) <= asking'[q].baseline

LEMMA AttachmentsKeep ==
  ASSUME BudgetTypes, BudgetTypes', AttachmentsHold, AttachLess, AttachAsksStay
  PROVE  AttachmentsHold'
<1>1. CASE attachMet
  BY <1>1 DEF AttachmentsHold, AttachLess
<1>2. CASE ~ attachMet
  <2>1. /\ AttachmentsFit /\ (run => Total(attached, Files) = 0)
        /\ \A q \in Asks : AttachRoom(q)
    BY <1>2 DEF AttachmentsHold
  <2>2. attached \in Holding /\ attached' \in Holding /\ asking' \in [Asks -> Asked]
        /\ asking \in [Asks -> Asked] /\ usage \in Nat /\ usage' = usage
    BY DEF BudgetTypes, AttachLess
  <2>3. \A S \in SUBSET Files : Total(attached, S) \in Nat /\ Total(attached', S) \in Nat
    BY <2>2, HoldingCounts
  <2>4. Total(attached', Files) <= Total(attached, Files)
    BY DEF AttachLess
  <2>5. Total(attached, Files) = 0 => Total(attached', Files) = 0
    BY <2>3, <2>4
  <2>6. ASSUME ~ Blocked(Total(attached, Files), usage, ContextLimit)
        PROVE  ~ Blocked(Total(attached', Files), usage', ContextLimit)
    <3> DEFINE before == Total(attached, Files)
               after == Total(attached', Files)
    <3>1. before \in Nat /\ after \in Nat
      BY <2>3
    <3>2. after <= before
      BY <2>4
    <3>3. ~ Blocked(before, usage, ContextLimit)
      BY <2>6
    <3> HIDE DEF before, after
    <3>4. usage + after <= usage + before
      BY <2>2, <3>1, <3>2
    <3>5. ~ Blocked(after, usage, ContextLimit)
      BY <2>2, <3>1, <3>3, <3>4, LessFits, BudgetAssumption
    <3>. QED BY <2>2, <3>5 DEF after
  <2>7. AttachmentsFit'
    BY <1>2, <2>1, <2>5, <2>6 DEF AttachmentsFit
  <2>8. run' => Total(attached', Files) = 0
    BY <2>1, <2>5 DEF AttachLess
  <2>9. ASSUME NEW q \in Asks, asking'[q].kind = "attach"
        PROVE  \/ asking'[q].met
               \/ ~ run' /\ usage' + Total(attached', Files \ {asking'[q].file})
                              <= asking'[q].baseline
    <3> DEFINE S == Files \ {asking'[q].file}
    <3>1. CASE /\ asking[q].kind = "attach" /\ asking'[q].met = asking[q].met
               /\ asking'[q].file = asking[q].file
               /\ asking'[q].baseline = asking[q].baseline
      <4>1. asking[q] \in AttachAsked
        BY <2>2, <3>1, AskedKinds
      <4>2. asking[q].baseline \in Nat
        BY <4>1 DEF AttachAsked
      <4>3. asking[q].met \/ (~ run /\ usage + Total(attached, S) <= asking[q].baseline)
        BY <2>1, <3>1 DEF AttachRoom
      <4>4. Total(attached', S) <= Total(attached, S)
        BY DEF AttachLess
      <4>5. Total(attached, S) \in Nat /\ Total(attached', S) \in Nat
        BY <2>3
      <4>6. CASE ~ run /\ usage + Total(attached, S) <= asking[q].baseline
        <5> HIDE DEF S
        <5>1. usage' + Total(attached', S) <= asking'[q].baseline
          BY <2>2, <3>1, <4>2, <4>4, <4>5, <4>6
        <5>2. ~ run'
          BY <4>6 DEF AttachLess
        <5>. QED BY <5>1, <5>2 DEF S
      <4>. QED BY <3>1, <4>3, <4>6
    <3>. QED BY <2>9, <3>1 DEF AttachAsksStay
  <2>10. \A q \in Asks : AttachRoom(q)'
    BY <2>9 DEF AttachRoom
  <2>. QED BY <2>7, <2>8, <2>10 DEF AttachmentsHold
<1>. QED BY <1>1, <1>2


----------------------------------------------------------------------------
\* Each step keeps the budget.
LEMMA SameHolds ==
  /\ pinned' = pinned /\ pinMet' = pinMet => PinsLess \/ pinned \notin Holding
  /\ attached' = attached /\ attachMet' = attachMet /\ usage' = usage /\ run' = run =>
       AttachLess \/ attached \notin Holding
<1>1. \A held \in Holding, S \in SUBSET Files : Total(held, S) <= Total(held, S)
  <2> TAKE held \in Holding, S \in SUBSET Files
  <2>1. Total(held, S) \in Nat
    BY HoldingCounts
  <2>. QED BY <2>1
<1>. QED BY <1>1 DEF PinsLess, AttachLess

LEMMA BudgetBegins ==
  ASSUME BudgetInv, NEW q \in Asks, NEW g \in Files, BeginAttach(q, g) \/ BeginPin(q, g)
  PROVE  BudgetInv'
<1>1. BudgetTypes /\ PinsHold /\ AttachmentsHold
  BY DEF BudgetInv
<1>2. usage \in Nat /\ attached \in Holding /\ pinned \in Holding /\ asking \in [Asks -> Asked]
  BY <1>1 DEF BudgetTypes
<1> DEFINE room == usage + Total(attached, Files \ {g}) + Total(pinned, Files)
           attach == [kind |-> "attach", file |-> g, met |-> FALSE, baseline |-> room]
           pin == [kind |-> "pin", file |-> g, others |-> Total(pinned, Files \ {g}), met |-> FALSE]
<1>3. /\ Total(attached, Files \ {g}) \in Nat /\ Total(pinned, Files) \in Nat
      /\ Total(pinned, Files \ {g}) \in Nat
  BY <1>2, HoldingCounts
<1>4. room \in Nat /\ usage + Total(attached, Files \ {g}) <= room
  BY <1>2, <1>3
<1>5. /\ UNCHANGED <<usage, attached, pinned, run, attachMet, pinMet>> /\ ~ run
      /\ asking' = [asking EXCEPT ![q] = attach] \/ asking' = [asking EXCEPT ![q] = pin]
  BY DEF BeginAttach, BeginPin, Ask, OtherPins
<1> HIDE DEF room
<1>6. attach \in Asked /\ pin \in Asked
  BY <1>3, <1>4 DEF Asked, AttachAsked, PinAsked
<1>7. /\ attach.kind = "attach" /\ attach.file = g /\ attach.baseline = room
      /\ pin.kind = "pin" /\ pin.file = g /\ pin.others = Total(pinned, Files \ {g})
  OBVIOUS
<1> HIDE DEF attach, pin
<1>8. BudgetTypes'
  BY <1>1, <1>5, <1>6 DEF BudgetTypes
<1>9. PinsLess /\ AttachLess
  BY <1>2, <1>5, SameHolds
<1>10. \A p \in Asks : asking'[p] = asking[p] \/ (p = q /\ asking'[p] \in {attach, pin})
  BY <1>2, <1>5
<1>11. PinAsksStay
  <2>1. Total(pinned', Files \ {g}) <= pin.others
    BY <1>3, <1>5, <1>7
  <2>. QED BY <1>7, <1>10, <2>1 DEF PinAsksStay
<1>12. AttachAsksStay
  <2>1. ~ run' /\ usage' + Total(attached', Files \ {g}) <= attach.baseline
    BY <1>4, <1>5, <1>7
  <2>. QED BY <1>7, <1>10, <2>1 DEF AttachAsksStay
<1>. QED BY <1>1, <1>8, <1>9, <1>11, <1>12, PinsKeep, AttachmentsKeep DEF BudgetInv

\* A request that is answered is no request any more; the others stay.
LEMMA AnswersStay ==
  ASSUME NEW q \in Asks, Answered(q), asking \in [Asks -> Asked]
  PROVE  /\ asking' \in [Asks -> Asked]
         /\ \A p \in Asks : asking'[p].kind \in {"attach", "pin"} =>
                             p # q /\ asking'[p] = asking[p]
         /\ PinAsksStay /\ AttachAsksStay
<1>1. asking' = [asking EXCEPT ![q] = NotAsking]
  BY DEF Answered
<1>2. asking' \in [Asks -> Asked]
  BY <1>1 DEF Asked
<1>3. asking'[q] = NotAsking /\ \A p \in Asks : p # q => asking'[p] = asking[p]
  BY <1>1
<1>4. asking'[q].kind \notin {"attach", "pin"}
  BY <1>3, BudgetAssumption DEF NotAsking
<1>5. \A p \in Asks : asking'[p].kind \in {"attach", "pin"} => p # q /\ asking'[p] = asking[p]
  BY <1>3, <1>4
<1>. QED BY <1>2, <1>5 DEF PinAsksStay, AttachAsksStay

LEMMA BudgetAttaches ==
  ASSUME BudgetInv, NEW q \in Asks, NEW n \in Sizes, NEW ch \in Chunkings, EndAttach(q, n, ch)
  PROVE  BudgetInv'
<1> DEFINE req == asking[q]
           sizes == Materialized(n, ch, req.baseline, ContextLimit)
           m == CHOOSE m \in sizes : TRUE
<1>1. BudgetTypes /\ PinsHold /\ AttachmentsHold
  BY DEF BudgetInv
<1>2. usage \in Nat /\ attached \in Holding /\ pinned \in Holding /\ asking \in [Asks -> Asked]
  BY <1>1 DEF BudgetTypes
<1>3. /\ req.kind = "attach" /\ Answered(q) /\ UNCHANGED <<usage, pinned, run, pinMet>>
      /\ \/ /\ sizes # {} /\ attached' = [attached EXCEPT ![req.file] = m]
            /\ attachMet' = (attachMet \/ req.met \/ Others(q, "attach") # {} \/ run)
         \/ UNCHANGED <<attached, attachMet>>
  BY Zenon DEF EndAttach
<1>4. req \in AttachAsked
  BY <1>2, <1>3, AskedKinds
<1>5. req.file \in Files /\ req.baseline \in Nat /\ req.met \in BOOLEAN
  BY <1>4 DEF AttachAsked
<1>6. n \in Nat /\ ContextLimit \in Nat
  BY BudgetAssumption
<1>7. asking' \in [Asks -> Asked] /\ PinAsksStay /\ AttachAsksStay
  BY <1>2, <1>3, AnswersStay
<1>8. PinsLess
  BY <1>2, <1>3, SameHolds
<1>9. CASE UNCHANGED <<attached, attachMet>>
  <2>1. BudgetTypes'
    BY <1>1, <1>3, <1>7, <1>9 DEF BudgetTypes
  <2>2. AttachLess
    BY <1>2, <1>3, <1>9, SameHolds
  <2>. QED BY <1>1, <1>7, <1>8, <2>1, <2>2, PinsKeep, AttachmentsKeep DEF BudgetInv
<1>10. CASE /\ sizes # {} /\ attached' = [attached EXCEPT ![req.file] = m]
            /\ attachMet' = (attachMet \/ req.met \/ Others(q, "attach") # {} \/ run)
  <2>1. m \in sizes
    BY <1>10
  <2> HIDE DEF m
  <2>2. m \in Nat /\ ~ Blocked(m, req.baseline, ContextLimit)
    BY <1>5, <1>6, <2>1, MaterializedFits
  <2> HIDE DEF sizes
  <2>3. /\ attached' \in Holding
        /\ Total(attached', Files) <= Total(attached, Files \ {req.file}) + m
    BY <1>2, <1>5, <1>10, <2>2, HoldingGrows
  <2>4. BudgetTypes'
    <3>1. attachMet' \in BOOLEAN
      BY <1>10
    <3>. QED BY <1>1, <1>3, <1>7, <2>3, <3>1 DEF BudgetTypes
  <2>5. PinsHold'
    BY <1>1, <1>7, <1>8, <2>4, PinsKeep
  <2>6. CASE attachMet'
    BY <2>4, <2>5, <2>6 DEF BudgetInv, AttachmentsHold
  <2>7. CASE ~ attachMet'
    <3>1. ~ attachMet /\ ~ req.met /\ Others(q, "attach") = {} /\ ~ run
      BY <1>10, <2>7
    <3> DEFINE kept == Total(attached, Files \ {req.file})
               after == Total(attached', Files)
    <3>2. usage + kept <= req.baseline
      <4>1. AttachRoom(q)
        BY <1>1, <3>1 DEF AttachmentsHold
      <4>. QED BY <1>3, <3>1, <4>1 DEF AttachRoom
    <3>3. kept \in Nat /\ after \in Nat
      BY <1>2, <2>3, HoldingCounts
    <3>4. after <= kept + m
      BY <2>3
    <3> HIDE DEF kept, after, req
    <3>5. usage + after <= req.baseline + m
      BY <1>2, <1>5, <2>2, <3>2, <3>3, <3>4
    <3>6. ~ Blocked(after, usage, ContextLimit)
      BY <1>2, <1>5, <1>6, <2>2, <3>3, <3>5, LessFits
    <3>7. AttachmentsFit'
      BY <1>3, <3>6 DEF AttachmentsFit, after
    <3>8. \A p \in Asks : asking'[p].kind # "attach"
      <4>1. \A p \in Asks : asking'[p].kind = "attach" => p # q /\ asking'[p] = asking[p]
        BY <1>2, <1>3, AnswersStay
      <4>. QED BY <3>1, <4>1 DEF Others
    <3>9. \A p \in Asks : AttachRoom(p)'
      BY <3>8 DEF AttachRoom
    <3>10. ~ run'
      BY <1>3, <3>1
    <3>. QED BY <2>4, <2>5, <3>7, <3>9, <3>10 DEF BudgetInv, AttachmentsHold
  <2>. QED BY <2>6, <2>7
<1>. QED BY <1>3, <1>9, <1>10


LEMMA BudgetPins ==
  ASSUME BudgetInv, NEW q \in Asks, NEW n \in Sizes, NEW ch \in Chunkings, EndPin(q, n, ch)
  PROVE  BudgetInv'
<1> DEFINE req == asking[q]
           room == IF req.others < PinBudget THEN PinBudget - req.others ELSE 1
           sizes == Materialized(n, ch, 0, room)
           m == CHOOSE m \in sizes : TRUE
<1>1. BudgetTypes /\ PinsHold /\ AttachmentsHold
  BY DEF BudgetInv
<1>2. usage \in Nat /\ attached \in Holding /\ pinned \in Holding /\ asking \in [Asks -> Asked]
  BY <1>1 DEF BudgetTypes
<1>3. /\ req.kind = "pin" /\ Answered(q) /\ UNCHANGED <<usage, attached, run, attachMet>>
      /\ \/ /\ \E k \in sizes : req.others + k <= PinBudget
            /\ pinned' = [pinned EXCEPT ![req.file] = m]
            /\ pinMet' = (pinMet \/ Others(q, "pin") # {})
         \/ UNCHANGED <<pinned, pinMet>>
  BY Zenon DEF EndPin
<1>4. req \in PinAsked
  BY <1>2, <1>3, AskedKinds
<1>5. req.file \in Files /\ req.others \in Nat
  BY <1>4 DEF PinAsked
<1>6. n \in Nat
  BY BudgetAssumption
<1>7. asking' \in [Asks -> Asked] /\ PinAsksStay /\ AttachAsksStay
  BY <1>2, <1>3, AnswersStay
<1>8. AttachLess
  BY <1>2, <1>3, SameHolds
<1>9. CASE UNCHANGED <<pinned, pinMet>>
  <2>1. BudgetTypes'
    BY <1>1, <1>3, <1>7, <1>9 DEF BudgetTypes
  <2>2. PinsLess
    BY <1>2, <1>9, SameHolds
  <2>. QED BY <1>1, <1>7, <1>8, <2>1, <2>2, PinsKeep, AttachmentsKeep DEF BudgetInv
<1>10. CASE /\ \E k \in sizes : req.others + k <= PinBudget
            /\ pinned' = [pinned EXCEPT ![req.file] = m]
            /\ pinMet' = (pinMet \/ Others(q, "pin") # {})
  <2>1. PICK k \in sizes : req.others + k <= PinBudget
    BY <1>10
  <2>2. m \in sizes
    BY <2>1
  <2> HIDE DEF m
  <2>3. m = k /\ m \in Nat
    BY <1>6, <2>1, <2>2, MaterializedIsOne
  <2> HIDE DEF sizes
  <2>4. req.others + m <= PinBudget
    BY <2>1, <2>3
  <2>5. /\ pinned' \in Holding
        /\ Total(pinned', Files) <= Total(pinned, Files \ {req.file}) + m
    BY <1>2, <1>5, <1>10, <2>3, HoldingGrows
  <2>6. BudgetTypes'
    <3>1. pinMet' \in BOOLEAN
      BY <1>10
    <3>. QED BY <1>1, <1>3, <1>7, <2>5, <3>1 DEF BudgetTypes
  <2>7. AttachmentsHold'
    BY <1>1, <1>7, <1>8, <2>6, AttachmentsKeep
  <2>8. CASE pinMet'
    BY <2>6, <2>7, <2>8 DEF BudgetInv, PinsHold
  <2>9. CASE ~ pinMet'
    <3>1. ~ pinMet /\ Others(q, "pin") = {}
      BY <1>10, <2>9
    <3> DEFINE kept == Total(pinned, Files \ {req.file})
               after == Total(pinned', Files)
    <3>2. kept <= req.others
      <4>1. PinRoom(q)
        BY <1>1, <3>1 DEF PinsHold
      <4>. QED BY <1>3, <4>1 DEF PinRoom
    <3>3. kept \in Nat /\ after \in Nat
      BY <1>2, <2>5, HoldingCounts
    <3>4. after <= kept + m
      BY <2>5
    <3> HIDE DEF kept, after, req
    <3>5. after <= PinBudget
      BY <1>5, <2>3, <2>4, <3>2, <3>3, <3>4, PinBudgetType
    <3>6. PinsFit'
      BY <3>5 DEF PinsFit, after
    <3>7. \A p \in Asks : asking'[p].kind # "pin"
      <4>1. \A p \in Asks : asking'[p].kind = "pin" => p # q /\ asking'[p] = asking[p]
        BY <1>2, <1>3, AnswersStay
      <4>. QED BY <3>1, <4>1 DEF Others
    <3>8. \A p \in Asks : PinRoom(p)'
      BY <3>7 DEF PinRoom
    <3>. QED BY <2>6, <2>7, <3>6, <3>8 DEF BudgetInv, PinsHold
  <2>. QED BY <2>8, <2>9
<1>. QED BY <1>3, <1>9, <1>10

\* Where no request changes, those there are stay.
LEMMA AsksStay == asking' = asking => PinAsksStay /\ AttachAsksStay
BY DEF PinAsksStay, AttachAsksStay

LEMMA BudgetDetaches ==
  ASSUME BudgetInv, NEW fs, DetachFiles(fs)
  PROVE  BudgetInv'
<1>1. BudgetTypes /\ PinsHold /\ AttachmentsHold
  BY DEF BudgetInv
<1>2. attached \in Holding /\ pinned \in Holding
  BY <1>1 DEF BudgetTypes
<1>3. /\ attached' = [f \in Files |-> IF f \in fs THEN None ELSE attached[f]]
      /\ UNCHANGED <<usage, pinned, asking, run, attachMet, pinMet>>
  BY DEF DetachFiles
<1>4. attached' \in Holding /\ \A S \in SUBSET Files : Total(attached', S) <= Total(attached, S)
  BY <1>2, <1>3, HoldingShrinks
<1>5. BudgetTypes'
  BY <1>1, <1>3, <1>4 DEF BudgetTypes
<1>6. AttachLess /\ PinsLess
  BY <1>2, <1>3, <1>4, SameHolds DEF AttachLess
<1>. QED BY <1>1, <1>3, <1>5, <1>6, AsksStay, PinsKeep, AttachmentsKeep DEF BudgetInv

LEMMA BudgetUnpins ==
  ASSUME BudgetInv, NEW fs, UnpinFiles(fs)
  PROVE  BudgetInv'
<1>1. BudgetTypes /\ PinsHold /\ AttachmentsHold
  BY DEF BudgetInv
<1>2. attached \in Holding /\ pinned \in Holding
  BY <1>1 DEF BudgetTypes
<1>3. /\ pinned' = [f \in Files |-> IF f \in fs THEN None ELSE pinned[f]]
      /\ UNCHANGED <<usage, attached, asking, run, attachMet, pinMet>>
  BY DEF UnpinFiles
<1>4. pinned' \in Holding /\ \A S \in SUBSET Files : Total(pinned', S) <= Total(pinned, S)
  BY <1>2, <1>3, HoldingShrinks
<1>5. BudgetTypes'
  BY <1>1, <1>3, <1>4 DEF BudgetTypes
<1>6. AttachLess /\ PinsLess
  BY <1>2, <1>3, <1>4, SameHolds DEF PinsLess
<1>. QED BY <1>1, <1>3, <1>5, <1>6, AsksStay, PinsKeep, AttachmentsKeep DEF BudgetInv

\* A message takes what is pending with it, and every request meets its run.
LEMMA BudgetSends ==
  ASSUME BudgetInv, SendMessage
  PROVE  BudgetInv'
<1>1. BudgetTypes /\ PinsHold /\ AttachmentsHold
  BY DEF BudgetInv
<1>2. pinned \in Holding /\ asking \in [Asks -> Asked]
  BY <1>1 DEF BudgetTypes
<1>3. /\ run' = TRUE /\ attached' = [f \in Files |-> None]
      /\ asking' = [q \in Asks |-> IF asking[q] = NotAsking THEN NotAsking
                                   ELSE [asking[q] EXCEPT !.met = TRUE]]
      /\ UNCHANGED <<usage, pinned, attachMet, pinMet>>
  BY DEF SendMessage
<1>4. ASSUME NEW q \in Asks
      PROVE  /\ asking'[q] \in Asked
             /\ asking'[q].kind = "attach" => asking'[q].met
             /\ asking'[q].kind = "pin" => /\ asking[q].kind = "pin"
                  /\ asking'[q].file = asking[q].file /\ asking'[q].others = asking[q].others
  <2>1. asking[q] \in Asked
    BY <1>2
  <2>2. asking'[q] = IF asking[q] = NotAsking THEN NotAsking ELSE [asking[q] EXCEPT !.met = TRUE]
    BY <1>3
  <2>3. CASE asking[q] = NotAsking
    BY <2>2, <2>3, BudgetAssumption DEF NotAsking, Asked
  <2>4. CASE asking[q] \in AttachAsked
    <3> DEFINE it == asking[q]
               met == [it EXCEPT !.met = TRUE]
    <3>1. it.kind = "attach" /\ met \in AttachAsked /\ met.kind = "attach" /\ met.met
      <4> HIDE DEF it
      <4>. QED BY <2>4 DEF AttachAsked, it
    <3>2. asking'[q] = met
      BY <2>2, <3>1, BudgetAssumption DEF NotAsking
    <3> HIDE DEF met, it
    <3>. QED BY <3>1, <3>2 DEF Asked
  <2>5. CASE asking[q] \in PinAsked
    <3> DEFINE it == asking[q]
               met == [it EXCEPT !.met = TRUE]
    <3>1. it.kind = "pin" /\ met \in PinAsked /\ met.kind = "pin"
          /\ met.file = it.file /\ met.others = it.others
      <4> HIDE DEF it
      <4>. QED BY <2>5 DEF PinAsked, it
    <3>2. asking'[q] = met
      BY <2>2, <3>1, BudgetAssumption DEF NotAsking
    <3> HIDE DEF met
    <3>. QED BY <3>1, <3>2 DEF Asked
  <2>. QED BY <2>1, <2>3, <2>4, <2>5 DEF Asked
<1>5. asking' \in [Asks -> Asked]
  BY <1>3, <1>4
<1>6. attached' \in Holding /\ Total(attached', Files) = 0
  BY <1>3, NothingHeld
<1>7. BudgetTypes'
  BY <1>1, <1>3, <1>5, <1>6 DEF BudgetTypes
<1>8. PinsLess /\ PinAsksStay
  BY <1>2, <1>3, <1>4, SameHolds DEF PinAsksStay
<1>9. PinsHold'
  BY <1>1, <1>7, <1>8, PinsKeep
<1>10. AttachmentsHold'
  <2>1. AttachmentsFit'
    BY <1>6 DEF AttachmentsFit
  <2>2. \A q \in Asks : AttachRoom(q)'
    BY <1>4 DEF AttachRoom
  <2>. QED BY <1>6, <2>1, <2>2 DEF AttachmentsHold
<1>. QED BY <1>7, <1>9, <1>10 DEF BudgetInv

\* A run has nothing pending when it ends, and has met every request.
LEMMA BudgetRunEnds ==
  ASSUME BudgetInv, NEW n \in Usages, EndRun(n)
  PROVE  BudgetInv'
<1>1. BudgetTypes /\ PinsHold /\ AttachmentsHold
  BY DEF BudgetInv
<1>2. pinned \in Holding
  BY <1>1 DEF BudgetTypes
<1>3. run /\ run' = FALSE /\ usage' = n /\ UNCHANGED <<attached, pinned, asking, attachMet, pinMet>>
  BY DEF EndRun
<1>4. BudgetTypes'
  BY <1>1, <1>3, BudgetAssumption DEF BudgetTypes
<1>5. PinsHold'
  BY <1>1, <1>2, <1>3, <1>4, SameHolds, AsksStay, PinsKeep
<1>6. AttachmentsHold'
  BY <1>1, <1>3 DEF AttachmentsHold, AttachmentsFit, AttachRoom
<1>. QED BY <1>4, <1>5, <1>6 DEF BudgetInv

LEMMA BudgetLoses ==
  ASSUME BudgetInv, LosePending
  PROVE  BudgetInv'
<1>1. BudgetTypes /\ PinsHold /\ AttachmentsHold
  BY DEF BudgetInv
<1>2. pinned \in Holding
  BY <1>1 DEF BudgetTypes
<1>3. /\ attached' = [f \in Files |-> None] /\ asking' = [q \in Asks |-> NotAsking]
      /\ run' = FALSE /\ UNCHANGED <<usage, pinned, attachMet, pinMet>>
  BY DEF LosePending
<1>4. attached' \in Holding /\ Total(attached', Files) = 0
  BY <1>3, NothingHeld
<1>5. BudgetTypes'
  BY <1>1, <1>3, <1>4 DEF BudgetTypes, Asked
<1>6. \A q \in Asks : asking'[q].kind \notin {"attach", "pin"}
  BY <1>3, BudgetAssumption DEF NotAsking
<1>7. PinsHold'
  BY <1>1, <1>2, <1>3, <1>5, <1>6, SameHolds, PinsKeep DEF PinAsksStay
<1>8. AttachmentsHold'
  BY <1>3, <1>4, <1>6 DEF AttachmentsHold, AttachmentsFit, AttachRoom
<1>. QED BY <1>5, <1>7, <1>8 DEF BudgetInv

LEMMA BudgetInvStep == BudgetInv /\ [BudgetNext]_budgetVars => BudgetInv'
<1> SUFFICES ASSUME BudgetInv, [BudgetNext]_budgetVars PROVE BudgetInv'
  OBVIOUS
<1>1. ASSUME NEW q \in Asks, NEW g \in Files, BeginAttach(q, g) \/ BeginPin(q, g)
      PROVE  BudgetInv'
  BY <1>1, BudgetBegins
<1>2. ASSUME NEW q \in Asks, NEW n \in Sizes, NEW ch \in Chunkings, EndAttach(q, n, ch)
      PROVE  BudgetInv'
  BY <1>2, BudgetAttaches
<1>3. ASSUME NEW q \in Asks, NEW n \in Sizes, NEW ch \in Chunkings, EndPin(q, n, ch)
      PROVE  BudgetInv'
  BY <1>3, BudgetPins
<1>4. ASSUME NEW fs, DetachFiles(fs) \/ UnpinFiles(fs) PROVE BudgetInv'
  BY <1>4, BudgetDetaches, BudgetUnpins
<1>5. CASE SendMessage
  BY <1>5, BudgetSends
<1>6. ASSUME NEW n \in Usages, EndRun(n) PROVE BudgetInv'
  BY <1>6, BudgetRunEnds
<1>7. CASE LosePending
  BY <1>7, BudgetLoses
<1>8. CASE UNCHANGED budgetVars
  BY <1>8 DEF budgetVars, BudgetInv, BudgetTypes, PinsHold, AttachmentsHold, PinsFit,
              AttachmentsFit, PinRoom, AttachRoom
<1>. QED BY <1>1, <1>2, <1>3, <1>4, <1>5, <1>6, <1>7, <1>8 DEF BudgetNext

-----------------------------------------------------------------------------
(* All parts together *)

channelVars == <<focus, telegramVars, browserVars, approvalVars, processVars, botVars,
                 loginVars, noticeVars, filesVars, accountVars, budgetVars>>

ChannelsSpec == Init /\ [][Next]_channelVars

LEMMA PartSteps ==
  ASSUME [Next]_channelVars
  PROVE  /\ focus' = focus
         /\ focus = "process" => [ProcessNext]_processVars
         /\ focus = "bot" => [BotNext]_botVars
         /\ focus = "login" => [LoginNext]_loginVars
         /\ focus = "approvals" => [ApprovalsNext]_approvalVars
         /\ focus = "accounts" => [AccountsNext]_accountVars
         /\ focus = "notices" => [NoticesNext]_noticeVars
         /\ focus = "telegram" => [TelegramNext]_telegramVars
         /\ focus = "browser" => [BrowserNext]_browserVars
         /\ focus = "files" => [FilesNext]_filesVars
         /\ focus = "budget" => [BudgetNext]_budgetVars
<1>1. CASE UNCHANGED channelVars
  BY <1>1 DEF channelVars
<1>2. CASE Next
  BY <1>2 DEF Next, Apart
<1>. QED BY <1>1, <1>2

\* For every set of tabs, requests and messages: stop() of the web channel and of
\* the bot takes servers and containers away only from requests that are over and
\* leaves nothing behind.
THEOREM StopsAreClean == ChannelsSpec => []ShutdownIsClean
<1> DEFINE Inv == /\ focus = "process" => ProcessInv
                  /\ focus = "bot" => BotInv
<1>1. Init => Inv
  BY ProcessInvInit, BotInvInit DEF Init
<1>2. Inv /\ [Next]_channelVars => Inv'
  BY PartSteps, ProcessInvStep, BotInvStep
<1>3. Inv => ShutdownIsClean
  BY ProcessInvClean, BotInvClean DEF ShutdownIsClean
<1>. QED BY <1>1, <1>2, <1>3, PTL DEF ChannelsSpec

\* For every number of addresses, names, tokens, items and chats and every limit:
\* failures that reach a limit are followed by the whole lockout, a token is
\* accepted once, a merge keeps every item and leaves nothing behind however often
\* it fails, and the import brings back nobody an administrator has removed.
THEOREM SignInStaysSound == ChannelsSpec => []SignInIsSound
<1> DEFINE Inv == /\ focus = "login" => LoginInv
                  /\ focus = "accounts" => AccountsInv
<1>1. Init => Inv
  BY LoginInvInit, AccountsInvInit DEF Init
<1>2. Inv /\ [Next]_channelVars => Inv'
  BY PartSteps, LoginInvStep, AccountsInvStep
<1>3. Inv => SignInIsSound
  BY LoginInvSound, AccountsInvSound DEF SignInIsSound
<1>. QED BY <1>1, <1>2, <1>3, PTL DEF ChannelsSpec

\* For every number of calls, loops, tabs and prompts: a call that needs the user
\* runs only after his yes to it, a loop asks for one call at a time, and a tab
\* that has settled shows each open prompt or is about to be told of it.
THEOREM PromptsStaySound == ChannelsSpec => []PromptsAreSound
<1> DEFINE Inv == focus = "approvals" => ApprovalsInv
<1>1. Init => Inv
  BY ApprovalsInvInit DEF Init
<1>2. Inv /\ [Next]_channelVars => Inv'
  BY PartSteps, ApprovalsInvStep
<1>3. Inv => PromptsAreSound
  BY ApprovalsInvSound DEF PromptsAreSound
<1>. QED BY <1>1, <1>2, <1>3, PTL DEF ChannelsSpec

\* For every number of notices, runs, tabs and sessions: no row is left in a
\* session that is gone, a reply is announced in the session that holds it, and a
\* tab that views the session of a stored notice shows it exactly once.
THEOREM NoticesStaySound == ChannelsSpec => []NoticesArrive
<1> DEFINE Inv == focus = "notices" => NoticesInv
<1>1. Init => Inv
  BY NoticesInvInit DEF Init
<1>2. Inv /\ [Next]_channelVars => Inv'
  BY PartSteps, NoticesInvStep
<1>3. Inv => NoticesArrive
  BY NoticesInvSound DEF NoticesArrive
<1>. QED BY <1>1, <1>2, <1>3, PTL DEF ChannelsSpec

\* For every number of updates, handlers and deliveries: the user's gate is held
\* exactly while a handler works, but for exits outside every try; no answer of the
\* form is lost to another; an update is engaged twice only after more others than
\* the channel remembers; and the bot listens until it has given up.
THEOREM BotStaysSound == ChannelsSpec => []BotIsSound
<1> DEFINE Inv == /\ focus = "telegram" => TelegramInv
                  /\ focus = "bot" => BotInv
<1>1. Init => Inv
  BY TelegramInvInit, BotInvInit DEF Init
<1>2. Inv /\ [Next]_channelVars => Inv'
  BY PartSteps, TelegramInvStep, BotInvStep
<1>3. Inv => BotIsSound
  BY TelegramInvSound, BotInvClean DEF BotIsSound
<1>. QED BY <1>1, <1>2, <1>3, PTL DEF ChannelsSpec

\* For every workspace, number of requests, names typed, taps and messages: while
\* no other request changed the tree between a look and what it led to, whatever
\* was saved and not deleted is somewhere in the workspace, whole; the protected
\* entries stay even when requests cross; and in calm use of the bot the
\* confirmation of a deletion names the file that is deleted.
THEOREM UserFilesStaySafe == ChannelsSpec => []UserFilesAreSafe
<1> DEFINE Inv == /\ focus = "files" => FilesInv
                  /\ focus = "browser" => BrowserInv
<1>1. Init => Inv
  BY FilesInvInit, BrowserInvInit DEF Init
<1>2. Inv /\ [Next]_channelVars => Inv'
  BY PartSteps, FilesInvStep, BrowserInvStep
<1>3. Inv => UserFilesAreSafe
  BY FilesInvSound, BrowserInvSound DEF UserFilesAreSafe
<1>. QED BY <1>1, <1>2, <1>3, PTL DEF ChannelsSpec

\* For every set of files and of requests, whatever the files measure and the
\* runs use: what is pinned stays within its share of the context while no two
\* requests to pin overlap, and what is pending fits with the usage while no
\* request to attach overlaps another or a run.
THEOREM BudgetStaysKept == ChannelsSpec => []BudgetFits
<1> DEFINE Inv == focus = "budget" => BudgetInv
<1>1. Init => Inv
  BY BudgetInvInit DEF Init
<1>2. Inv /\ [Next]_channelVars => Inv'
  BY PartSteps, BudgetInvStep
<1>3. Inv => BudgetFits
  BY BudgetInvSound DEF BudgetFits
<1>. QED BY <1>1, <1>2, <1>3, PTL DEF ChannelsSpec
=============================================================================

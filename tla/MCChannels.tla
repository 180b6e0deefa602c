----------------------------- MODULE MCChannels -----------------------------
(***************************************************************************)
(* The parts of the channels that share no variable, checked in one run: a *)
(* behaviour is one of the part in focus, every other part stays unstarted *)
(* (all its variables are None), so what the run reaches of a part is what *)
(* the part reaches alone.  a and b are the two members of every set whose *)
(* members are alike.                                                      *)
(***************************************************************************)
EXTENDS Telegram, DeleteBrowser, Approvals, BotProcess, WebProcess, WebLogin, Notices,
        WebFiles, Accounts, ContextBudget

CONSTANTS Parts,      \* the parts to check
          a, b, c,
          u1, u2,     \* users
          i1, i2, i3, h1, h2  \* files and chats of a merge

VARIABLE focus        \* the part this behaviour is of

ChannelsSymmetry == Permutations({a, b})

----------------------------------------------------------------------------
(* Constants *)

\* Updates 1 to 4 of a user: text, a file, a photo, and an answer to /setup.
MCKindOf == 1 :> "text" @@ 2 :> "document" @@ 3 :> "photo" @@ 4 :> "setup"

\* A workspace with the files a, a_1 and the folder d that holds the file b.
MCListing == <<"d", "a", "a_1", "b">>
MCParentOf == "d" :> "/" @@ "a" :> "/" @@ "a_1" :> "/" @@ "b" :> "d"
MCFirstFree == <<"a", "a_1">>

\* Two loops of one user: his own and that of a sub-agent.
MCUserOf == 1 :> u1 @@ 2 :> u1
MCGuardRules == {[severity |-> 1, asks |-> TRUE], [severity |-> 2, asks |-> FALSE]}

\* A workspace with the guarded file m and the file b in the folder d; a user
\* may type the name b.
MCGivenNames == {<<"b">>}
MCGuarded == {<<"m">>}
MCTree == <<<<"m">>>> :> Content(92, TRUE) @@ <<<<"d">>>> :> Folder
          @@ <<<<"d">>, <<"b">>>> :> Content(93, TRUE)

\* Two items of the source account, one named as an item of the target.
MCItemName == i1 :> "a" @@ i2 :> "a" @@ i3 :> "b"
MCItemHome == i1 :> Source @@ i2 :> Target @@ i3 :> Source
MCChatOf == h1 :> Source @@ h2 :> Target

----------------------------------------------------------------------------
(* One part at a time *)

NoTelegram ==
    /\ seen = None /\ welcome = None /\ account = None /\ stamps = None
    /\ form = None /\ gateOf = None /\ task = None /\ deliveries = None
    /\ given = None /\ engaged = None /\ slips = None
NoDeleteBrowser ==
    /\ disk = None /\ browse = None /\ screen = None /\ tap = None
    /\ tapCount = None /\ calm = None /\ strayed = None /\ covered = None
NoApprovals ==
    /\ call = None /\ line = None /\ prompts = None /\ future = None
    /\ untold = None /\ taps = None /\ tab = None /\ adrift = None
    /\ batches = None /\ connects = None
NoWebProcess ==
    /\ stage = None /\ background = None /\ listening = None
    /\ connected = None /\ toClose = None /\ work = None /\ awaited = None
    /\ casts = None /\ servers = None /\ boxes = None /\ late = None
NoBotProcess ==
    /\ botStage = None /\ attempt = None /\ botTasks = None /\ application = None
    /\ polling = None /\ reconnect = None /\ netErrors = None /\ conflicts = None
    /\ incoming = None /\ botServers = None /\ botBoxes = None /\ lost = None
    /\ skipped = None
NoWebLogin ==
    /\ attempts = None /\ wrong = None /\ pass = None /\ uses = None
    /\ now = None
NoNotices ==
    /\ inbox = None /\ opened = None /\ log = None /\ note = None
    /\ runner = None /\ viewer = None /\ sent = None
NoWebFiles ==
    /\ tree = None /\ job = None /\ jobs = None /\ saved = None
    /\ dropped = None /\ crossed = None
NoAccounts ==
    /\ acct = None /\ session = None /\ signIn = None /\ rotate = None
    /\ merge = None /\ merged = None /\ item = None /\ chat = None
    /\ password = None /\ whitelist = None /\ marker = None /\ starter = None
    /\ removed = None
NoContextBudget ==
    /\ usage = None /\ attached = None /\ pinned = None /\ asking = None
    /\ run = None /\ attachMet = None /\ pinMet = None

Init ==
    /\ focus \in Parts
    /\ IF focus = "telegram" THEN TelegramInit ELSE NoTelegram
    /\ IF focus = "browser" THEN BrowserInit ELSE NoDeleteBrowser
    /\ IF focus = "approvals" THEN ApprovalsInit ELSE NoApprovals
    /\ IF focus = "process" THEN ProcessInit ELSE NoWebProcess
    /\ IF focus = "bot" THEN BotInit ELSE NoBotProcess
    /\ IF focus = "login" THEN LoginInit ELSE NoWebLogin
    /\ IF focus = "notices" THEN NoticesInit ELSE NoNotices
    /\ IF focus = "files" THEN FilesInit ELSE NoWebFiles
    /\ IF focus = "accounts" THEN AccountsInit ELSE NoAccounts
    /\ IF focus = "budget" THEN BudgetInit ELSE NoContextBudget

\* A step of one part leaves the others alone.
Apart(part) ==
    /\ UNCHANGED focus
    /\ IF part = "telegram" THEN TRUE ELSE UNCHANGED telegramVars
    /\ IF part = "browser" THEN TRUE ELSE UNCHANGED browserVars
    /\ IF part = "approvals" THEN TRUE ELSE UNCHANGED approvalVars
    /\ IF part = "process" THEN TRUE ELSE UNCHANGED processVars
    /\ IF part = "bot" THEN TRUE ELSE UNCHANGED botVars
    /\ IF part = "login" THEN TRUE ELSE UNCHANGED loginVars
    /\ IF part = "notices" THEN TRUE ELSE UNCHANGED noticeVars
    /\ IF part = "files" THEN TRUE ELSE UNCHANGED filesVars
    /\ IF part = "accounts" THEN TRUE ELSE UNCHANGED accountVars
    /\ IF part = "budget" THEN TRUE ELSE UNCHANGED budgetVars

Next ==
    \/ focus = "telegram" /\ TelegramNext /\ Apart("telegram")
    \/ focus = "browser" /\ BrowserNext /\ Apart("browser")
    \/ focus = "approvals" /\ ApprovalsNext /\ Apart("approvals")
    \/ focus = "process" /\ ProcessNext /\ Apart("process")
    \/ focus = "bot" /\ BotNext /\ Apart("bot")
    \/ focus = "login" /\ LoginNext /\ Apart("login")
    \/ focus = "notices" /\ NoticesNext /\ Apart("notices")
    \/ focus = "files" /\ FilesNext /\ Apart("files")
    \/ focus = "accounts" /\ AccountsNext /\ Apart("accounts")
    \/ focus = "budget" /\ BudgetNext /\ Apart("budget")

----------------------------------------------------------------------------
(* Properties *)

\* The type of the part in focus.
ChannelsTypeOK ==
    CASE focus = "telegram" -> TelegramTypeOK
      [] focus = "browser" -> BrowserTypeOK
      [] focus = "approvals" -> ApprovalsTypeOK
      [] focus = "process" -> ProcessTypeOK
      [] focus = "bot" -> BotTypeOK
      [] focus = "login" -> LoginTypeOK
      [] focus = "notices" -> NoticesTypeOK
      [] focus = "files" -> FilesTypeOK
      [] focus = "accounts" -> AccountsTypeOK
      [] focus = "budget" -> BudgetTypeOK

\* The user's gate is held exactly while a handler of his message works, the
\* onboarding counts the answers he gave, and no delivery of an update the
\* channel still remembers starts a second run (telegram/orchestrator.py); and
\* a bot that is up listens or is about to, unless a reconnect handler has used
\* up its attempts (telegram/channel.py).
BotIsSound ==
    /\ focus = "telegram" => TelegramSound
    /\ focus = "bot" => KeepsListening

\* Nothing a user did not ask to lose is lost: a rename, move, copy, upload or
\* deletion leaves what other requests wrote (web/files.py), and /delete on the
\* bot removes the file its confirmation showed (file_manager.py).
UserFilesAreSafe ==
    /\ focus = "files" => FilesAreSafe
    /\ focus = "browser" => CalmUseIsSafe

\* A call that needs the user runs only after his own yes to it, and a tab shows
\* each open prompt or will be told of it (_pending_approvals, loop.py:2526).
PromptsAreSound == focus = "approvals" => ApprovalsAreSound

\* stop() takes servers and containers away only from requests that are over,
\* and leaves nothing behind (stop of web/orchestrator.py and, when its channel
\* can be closed, of telegram/orchestrator.py).
ShutdownIsClean ==
    /\ focus = "process" => StopIsClean
    /\ focus = "bot" => BotStopIsClean

\* A lockout lasts as long as the failures call for, a ticket or grant is
\* accepted once, and the accounts survive a merge and an import: no item is
\* overwritten, a merge that ended left nothing behind, and nobody an
\* administrator removed returns (web/orchestrator.py, users/manager.py).
SignInIsSound ==
    /\ focus = "login" => LoginIsSound
    /\ focus = "accounts" => MergeKeepsAll /\ ImportRevivesNobody

\* A notice reaches the session and every tab that views it once, whatever is
\* deleted and loaded meanwhile (channels/user_notifier.py).
NoticesArrive == focus = "notices" => NoticesAreSound

\* What is pinned and what is attached fit the budget that was checked, as long
\* as no two requests were checked against the same room (agent/budget_gate.py).
BudgetFits == focus = "budget" => BudgetIsKept
=============================================================================

----------------------------- MODULE Approvals -----------------------------
(***************************************************************************)
(* The tool calls of a model answer and their approval.  ToolGuard judges  *)
(* a call; one that needs the user waits for the lock of its loop, then    *)
(* prompts: in every tab of the user on the web, by two buttons on         *)
(* Telegram.  Tabs come and go and are told what is pending, one prompt at *)
(* a time, while other calls prompt, are answered or time out.             *)
(***************************************************************************)
EXTENDS Naturals, Sequences, SequencesExt, FiniteSets, FiniteSetsExt, World

CONSTANTS Calls, Tabs,
          Loops,        \* agent loops: a user's own and those of his sub-agents
          UserOf,       \* [Loops -> Users]
          Rules,        \* rules a call may match: [severity: 0..3, asks: BOOLEAN]
          MaxBatches, MaxConnects   \* bounds

ASSUME ApprovalsAssumption ==
    /\ IsFiniteSet(Calls)
    /\ UserOf \in [Loops -> Users] /\ MaxBatches \in Nat /\ MaxConnects \in Nat
    /\ Rules \subseteq [severity : 0..3, asks : BOOLEAN]

VARIABLES call,      \* the calls: where each is, its loop and the verdict on it
          line,      \* holder of and waiters for a loop's approval lock, by arrival
          prompts,   \* what was put into _pending_approvals of the web channel, in order; see Live
          future,    \* the answer a prompt waits for
          untold,    \* tabs a prompt has still to be sent to
          taps,      \* Telegram messages whose buttons wait for a tap
          tab,       \* the tabs
          adrift,    \* calls whose answer is over: another of its calls raised
          batches, connects
approvalVars == <<call, line, prompts, future, untold, taps, tab, adrift, batches, connects>>

HIGH == 2
NoCall == [pc |-> "idle"]
Gone == [pc |-> "gone"]
NoTab == [pc |-> "closed"]
Owner(c) == UserOf[call[c].loop]

ApprovalsInit ==
    /\ call = [c \in Calls |-> NoCall] /\ line = [l \in Loops |-> <<>>]
    /\ prompts = <<>> /\ taps = {}
    /\ future = [c \in Calls |-> "none"] /\ untold = [c \in Calls |-> {}]
    /\ tab = [t \in Tabs |-> NoTab] /\ adrift = {}
    /\ batches = 0 /\ connects = 0

----------------------------------------------------------------------------
\* ToolGuard.check
SmartMay(asking, smart) == smart /\ \A r \in asking : r.severity < HIGH
GuardVerdict(loaded, risk, matched, smart) ==
    LET asking == {r \in matched : r.asks} IN
    CASE ~loaded /\ risk # "low" -> "block"
      [] matched = {} /\ risk = "critical" -> "block"
      [] matched = {} /\ risk = "high" -> "ask"
      [] \E r \in matched : r.severity >= HIGH /\ ~r.asks -> "block"
      [] asking # {} -> IF SmartMay(asking, smart) THEN "judge" ELSE "ask"
      [] OTHER -> "allow"

\* What a call is, once the guard has seen it.
Judged(l, web, verdict) ==
    IF verdict = "block" THEN Gone
    ELSE [pc |-> CASE verdict = "allow" -> "run" [] verdict = "judge" -> "judge" [] verdict = "ask" -> "wait",
          loop |-> l, web |-> web, verdict |-> verdict]

Verdicts ==
    {GuardVerdict(loaded, risk, matched, smart) :
        loaded \in BOOLEAN, risk \in {"low", "high", "critical"}, matched \in SUBSET Rules, smart \in BOOLEAN}

\* The loop has no answer's calls to wait for: they ended, or one of them
\* raised and the others were left to themselves.
Alive(c) == call[c] \notin {NoCall, Gone}
Of(l) == {c \in Calls : Alive(c) /\ call[c].loop = l}
Quiet(l) == Of(l) \subseteq adrift

\* The calls of an answer start together; a call without permission is
\* refused before the guard.
StartCalls(l, some, web) ==
    /\ batches < MaxBatches /\ batches' = batches + 1
    /\ some # {} /\ Quiet(l)
    /\ \A c \in some : call[c] = NoCall
    /\ \E v \in [some -> Verdicts] :
        /\ call' = [c \in Calls |-> IF c \in some THEN Judged(l, web, v[c]) ELSE call[c]]
        /\ \E asked \in SetToSeqs({c \in some : v[c] = "ask"}) : line' = [line EXCEPT ![l] = @ \o asked]
    /\ UNCHANGED <<prompts, future, untold, taps, tab, adrift, connects>>

CallStep(c, pc) == call' = [call EXCEPT ![c].pc = pc]
EndCall(c) == call' = [call EXCEPT ![c] = Gone]

\* _smart_evaluate: a failure or a late answer escalates.
SmartAnswer(c, verdict) ==
    /\ call[c].pc = "judge"
    /\ CASE verdict = "approve" -> CallStep(c, "run") [] verdict = "deny" -> EndCall(c)
         [] verdict = "escalate" -> CallStep(c, "wait")
    /\ line' = IF verdict = "escalate" THEN [line EXCEPT ![call[c].loop] = Append(@, c)] ELSE line
    /\ UNCHANGED <<prompts, future, untold, taps, tab, adrift, batches, connects>>

Finished(c) ==
    /\ call[c].pc = "run" /\ EndCall(c) /\ future' = [future EXCEPT ![c] = "none"]
    /\ UNCHANGED <<line, prompts, untold, taps, tab, adrift, batches, connects>>

----------------------------------------------------------------------------
\* A bug: no lock, every call prompts at once.
AnyTurn(c) == Contains(line[call[c].loop], c)
\* The approval lock of the loop.
HasTurn(c) == Head(line[call[c].loop]) = c

\* _clients: a tab is in it from its first moment.
Clients(u) == {t \in Tabs : tab[t] # NoTab /\ tab[t].user = u}

WebPrompt(c) ==
    /\ call[c].pc = "wait" /\ call[c].web /\ HasTurn(c)
    /\ CallStep(c, "asked")
    /\ prompts' = Append(prompts, c)
    /\ future' = [future EXCEPT ![c] = "open"]
    /\ untold' = [untold EXCEPT ![c] = Clients(Owner(c))]
    /\ UNCHANGED <<line, taps, tab, adrift, batches, connects>>

\* The connection of a tab is gone: no prompt has to be sent to it any more.
Leave(t) == tab' = [tab EXCEPT ![t] = NoTab] /\ untold' = [c \in Calls |-> untold[c] \ {t}]

\* _broadcast_to_user, one tab after another; a tab that cannot be reached is dropped.
TellTab(c, t, reached) ==
    /\ t \in untold[c]
    /\ IF reached /\ tab[t].pc # "broken"
       THEN tab' = [tab EXCEPT ![t].shows = @ \cup {c}] /\ untold' = [untold EXCEPT ![c] = @ \ {t}]
       ELSE Leave(t)
    /\ UNCHANGED <<call, line, prompts, future, taps, adrift, batches, connects>>

\* request_approval sends the buttons, and only then registers the future.
TelegramPrompt(c) ==
    /\ call[c].pc = "wait" /\ ~call[c].web /\ HasTurn(c)
    /\ CallStep(c, "sent")
    /\ UNCHANGED <<line, prompts, future, untold, taps, tab, adrift, batches, connects>>
RegisterTap(c) ==
    /\ call[c].pc = "sent" /\ CallStep(c, "asked")
    /\ taps' = taps \cup {c} /\ future' = [future EXCEPT ![c] = "open"]
    /\ UNCHANGED <<line, prompts, untold, tab, adrift, batches, connects>>

\* Telegram refuses the message: the exception leaves the batch, and the
\* other calls of the answer go on without it.
PromptFails(c) ==
    /\ call[c].pc = "sent"
    /\ EndCall(c)
    /\ line' = [line EXCEPT ![call[c].loop] = Tail(@)]
    /\ adrift' = adrift \cup Of(call[c].loop)
    /\ UNCHANGED <<prompts, future, untold, taps, tab, batches, connects>>

\* approve and deny from a tab.  approval_resolved reaches every tab that
\* is not being told at this moment.
TabAnswers(t, c, says) ==
    /\ tab[t] # NoTab /\ tab[t].pc = "settled" /\ c \in tab[t].shows
    /\ call[c].pc = "asked" /\ call[c].web /\ Owner(c) = tab[t].user /\ future[c] = "open"
    /\ future' = [future EXCEPT ![c] = says]
    /\ tab' = [x \in Tabs |-> IF x \in Clients(Owner(c)) THEN [tab[x] EXCEPT !.shows = @ \ {c}] ELSE tab[x]]
    /\ UNCHANGED <<call, line, prompts, untold, taps, adrift, batches, connects>>

\* _handle_callback; the message must carry the caller's own prompt.
Tapped(c, says) ==
    /\ c \in taps /\ taps' = taps \ {c}
    /\ future' = IF future[c] = "open" THEN [future EXCEPT ![c] = says] ELSE future
    /\ UNCHANGED <<call, line, prompts, untold, tab, adrift, batches, connects>>

\* wait_for gives up; the waiter runs later.
Expire(c) ==
    /\ call[c].pc = "asked" /\ untold[c] = {} /\ future[c] = "open"
    /\ future' = [future EXCEPT ![c] = "expired"]
    /\ UNCHANGED <<call, line, prompts, untold, taps, tab, adrift, batches, connects>>

\* The waiting call takes the answer and gives the lock back.
PromptEnds(c) ==
    /\ call[c].pc = "asked" /\ untold[c] = {} /\ future[c] # "open"
    /\ IF future[c] = "yes" THEN CallStep(c, "run") /\ UNCHANGED future
       ELSE EndCall(c) /\ future' = [future EXCEPT ![c] = "none"]
    /\ line' = [line EXCEPT ![call[c].loop] = Tail(@)]
    /\ taps' = IF future[c] = "expired" THEN taps \ {c} ELSE taps
    /\ UNCHANGED <<prompts, untold, tab, adrift, batches, connects>>

----------------------------------------------------------------------------
\* _handle_chat_ws
OpenTab(t, u) == [pc |-> "joining", user |-> u, shows |-> {}, at |-> 0, size |-> 0]
Connect(t, u) ==
    /\ tab[t] = NoTab /\ connects < MaxConnects /\ connects' = connects + 1
    /\ tab' = [tab EXCEPT ![t] = OpenTab(t, u)]
    /\ UNCHANGED <<call, line, prompts, future, untold, taps, adrift, batches>>

\* The loop over _pending_approvals.values(), up to the next send.  A change
\* of its size during a send breaks the loop and with it the connection.
Live == {i \in 1..Len(prompts) : call[prompts[i]].pc = "asked"}
Pending(u, i) == i \in Live /\ Owner(prompts[i]) = u /\ future[prompts[i]] = "open"
NextPending(t) == {i \in 1..Len(prompts) : i > tab[t].at /\ Pending(tab[t].user, i)}
TellPending(t) ==
    /\ tab[t] # NoTab /\ tab[t].pc \in {"joining", "telling"}
    /\ tab' = [tab EXCEPT ![t] =
         IF @.pc = "telling" /\ @.size # Cardinality(Live) THEN [@ EXCEPT !.pc = "broken"]
         ELSE IF NextPending(t) = {} THEN [@ EXCEPT !.pc = "settled", !.at = 0, !.size = 0]
         ELSE LET i == Min(NextPending(t)) IN
              [@ EXCEPT !.pc = "telling", !.at = i, !.size = Cardinality(Live),
                        !.shows = tab[t].shows \cup {prompts[i]}]]
    /\ UNCHANGED <<call, line, prompts, future, untold, taps, adrift, batches, connects>>

\* The browser closes the connection.
Disconnect(t) ==
    /\ tab[t] # NoTab /\ Leave(t)
    /\ UNCHANGED <<call, line, prompts, future, taps, adrift, batches, connects>>

ApprovalsNext ==
    \/ \E l \in Loops, some \in SUBSET Calls, web \in BOOLEAN : StartCalls(l, some, web)
    \/ \E c \in Calls : WebPrompt(c) \/ TelegramPrompt(c) \/ RegisterTap(c) \/ PromptFails(c)
                        \/ Expire(c) \/ PromptEnds(c) \/ Finished(c)
    \/ \E c \in Calls, v \in {"approve", "deny", "escalate"} : SmartAnswer(c, v)
    \/ \E c \in Calls, t \in Tabs, b \in BOOLEAN : TellTab(c, t, b)
    \/ \E c \in Calls, t \in Tabs, says \in {"yes", "no"} : TabAnswers(t, c, says)
    \/ \E c \in Calls, says \in {"yes", "no"} : Tapped(c, says)
    \/ \E t \in Tabs, u \in Users : Connect(t, u)
    \/ \E t \in Tabs : TellPending(t) \/ Disconnect(t)

----------------------------------------------------------------------------
\* The type of the state.
ApprovalsTypeOK ==
    /\ \A c \in Calls : call[c] \in {NoCall, Gone} \/ (call[c].loop \in Loops /\ call[c].web \in BOOLEAN)
    /\ \A l \in Loops : Range(line[l]) \subseteq Calls
    /\ future \in [Calls -> {"none", "open", "yes", "no", "expired"}]
    /\ untold \in [Calls -> SUBSET Tabs] /\ taps \subseteq Calls /\ adrift \subseteq Calls

\* A call that needed the user and runs was approved in a prompt of its own;
\* one loop has one prompt before its user at a time.
AskedFirst ==
    /\ \A c \in Calls : call[c].pc = "run" => call[c].verdict \in {"allow", "judge"} \/ future[c] = "yes"
    /\ \A l \in Loops : Cardinality({c \in Of(l) : future[c] = "open"}) <= 1

\* A tab that has been told what was pending shows every prompt that waits
\* for its user, unless the prompt is still on its way to it.
TabsShowPrompts ==
    \A t \in Tabs, i \in 1..Len(prompts) :
        tab[t] # NoTab /\ tab[t].pc = "settled" /\ Pending(tab[t].user, i) =>
            prompts[i] \in tab[t].shows \/ t \in untold[prompts[i]]

ApprovalsAreSound == AskedFirst /\ TabsShowPrompts
============================================================================

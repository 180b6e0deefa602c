------------------------------ MODULE Notices ------------------------------
(***************************************************************************)
(* Messages the system sends a user on its own (channels/user_notifier.py):*)
(* a row in the session of the system, then the tabs and Telegram at once. *)
(* Scheduler and memory worker take no gate for them, a headless run does; *)
(* meanwhile the user opens the session in a tab, or deletes it.           *)
(***************************************************************************)
EXTENDS Naturals, Sequences, FiniteSets, World

CONSTANTS Announcements, \* notices of the scheduler, stored by notify()
          Headless,      \* headless runs, which store their reply themselves
          Viewers,
          KeptRows,      \* active_max_messages
          MaxSystem      \* bound: sessions of the system made in all

ASSUME NoticesAssumption ==
    /\ Announcements \cap Headless = {} /\ None \notin Headless
    /\ {KeptRows, MaxSystem} \subseteq Nat \ {0}

VARIABLES inbox,   \* the open session of the system, 0 when there is none
          opened,  \* how many there have been
          log,     \* the rows of each: who wrote them
          note,    \* step and session of each notice, the tabs it has left, the session it names
          runner,  \* the headless run that holds the user's gate
          viewer,     \* session a tab views, what it shows, the page it waits for
          sent     \* what Telegram took
noticeVars == <<inbox, opened, log, note, runner, viewer, sent>>

Notes == Announcements \cup Headless
Inboxes == 1..MaxSystem
NoPage == [of |-> 0, rows |-> <<>>]

NoticesInit ==
    /\ inbox = 0 /\ opened = 0 /\ log = [s \in Inboxes |-> <<>>]
    /\ note = [n \in Notes |-> [pc |-> "ensure", session |-> 0, left |-> {}, names |-> 0]]
    /\ runner = None
    /\ viewer = [t \in Viewers |-> [view |-> 0, shown |-> <<>>, page |-> NoPage, stale |-> FALSE]]
    /\ sent = {}

Occurs(n, rows) == Cardinality({i \in DOMAIN rows : rows[i] = n})

----------------------------------------------------------------------------
\* ensure_system_session.  Of two callers that find none the unique index rejects
\* the second: what comes of it is what comes of NoticeFails after the first.
Ensured(s) ==
    IF inbox # 0 THEN s = inbox /\ UNCHANGED <<inbox, opened>>
    ELSE /\ opened < MaxSystem /\ s = opened + 1
         /\ inbox' = s /\ opened' = s
EnsureInbox(n) ==
    /\ note[n].pc = "ensure" /\ (n \in Headless => runner = None)
    /\ \E s \in Inboxes : Ensured(s) /\ note' = [note EXCEPT ![n].pc = "append", ![n].session = s]
    /\ runner' = IF n \in Headless THEN n ELSE runner
    /\ UNCHANGED <<log, viewer, sent>>

\* A bug: the row is written whether or not the session is still there.
MayAppendBlindly(s) == TRUE
\* append_message: the session must be there; old rows are pruned.
MayAppend(s) == s = inbox
Kept(rows) == SubSeq(rows, IF Len(rows) > KeptRows THEN Len(rows) - KeptRows + 1 ELSE 1, Len(rows))
AppendRow(n) ==
    /\ note[n].pc = "append" /\ MayAppend(note[n].session)
    /\ log' = [log EXCEPT ![note[n].session] = Kept(Append(@, n))]
    /\ note' = [note EXCEPT ![n].pc = IF n \in Headless THEN "again" ELSE "push", ![n].names = note[n].session,
                            ![n].left = IF n \in Headless THEN {} ELSE Viewers]
    /\ UNCHANGED <<inbox, opened, runner, viewer, sent>>
\* The session is gone, the database is busy, or the headless run raises.
NoticeFails(n) ==
    /\ note[n].pc = "append" /\ note' = [note EXCEPT ![n].pc = "failed"]
    /\ runner' = IF n \in Headless THEN None ELSE runner
    /\ UNCHANGED <<inbox, opened, log, viewer, sent>>

\* notify(persist=False) looks the session up again.
EnsureAgain(n) ==
    /\ note[n].pc = "again"
    /\ \E s \in Inboxes : Ensured(s) /\ note' = [note EXCEPT ![n].pc = "push", ![n].names = s, ![n].left = Viewers]
    /\ UNCHANGED <<log, runner, viewer, sent>>

\* _push_sinks_parallel: the tabs one after the other, Telegram meanwhile.
\* A tab that views the session adds the message, a stored one only once.
WithNote(n, rows) == IF n \in Announcements /\ Occurs(n, rows) > 0 THEN rows ELSE Append(rows, n)
PushTab(n, t) ==
    /\ note[n].pc = "push" /\ t \in note[n].left
    /\ note' = [note EXCEPT ![n].left = @ \ {t}]
    /\ viewer' = [viewer EXCEPT ![t].shown = IF viewer[t].view = note[n].names THEN WithNote(n, @) ELSE @]
    /\ UNCHANGED <<inbox, opened, log, runner, sent>>
PushTelegram(n) ==
    /\ note[n].pc = "push" /\ n \notin sent /\ sent' = sent \cup {n}
    /\ UNCHANGED <<inbox, opened, log, note, runner, viewer>>
\* Both have ended; Telegram may have failed, or the user has none.
EndNotice(n) ==
    /\ note[n].pc = "push" /\ note[n].left = {}
    /\ note' = [note EXCEPT ![n].pc = "ok"]
    /\ runner' = IF n \in Headless THEN None ELSE runner
    /\ UNCHANGED <<inbox, opened, log, viewer, sent>>

----------------------------------------------------------------------------
\* load_chat: the tab shows nothing until the page arrives.
LoadInbox(t) ==
    /\ inbox # 0 /\ viewer[t].page = NoPage
    /\ viewer' = [viewer EXCEPT ![t] = [view |-> inbox, shown |-> <<>>, page |-> [of |-> inbox, rows |-> log[inbox]], stale |-> FALSE]]
    /\ UNCHANGED <<inbox, opened, log, note, runner, sent>>
ShowPage(t) ==
    LET page == viewer[t].page IN
    /\ page # NoPage
    /\ viewer' = [viewer EXCEPT ![t].shown = page.rows, ![t].page = NoPage, ![t].stale = page.rows # log[page.of]]
    /\ UNCHANGED <<inbox, opened, log, note, runner, sent>>
\* _handle_delete_chat needs the gate; the tabs turn to the chat made instead.
DeleteInbox ==
    /\ inbox # 0 /\ runner = None
    /\ inbox' = 0 /\ log' = [log EXCEPT ![inbox] = <<>>]
    /\ viewer' = [t \in Viewers |-> [viewer[t] EXCEPT !.view = 0, !.shown = <<>>]]
    /\ UNCHANGED <<opened, note, runner, sent>>

NoticesNext ==
    \/ DeleteInbox
    \/ \E n \in Notes : \/ EnsureInbox(n) \/ AppendRow(n) \/ NoticeFails(n) \/ EnsureAgain(n)
                        \/ PushTelegram(n) \/ EndNotice(n) \/ \E t \in Viewers : PushTab(n, t)
    \/ \E t \in Viewers : LoadInbox(t) \/ ShowPage(t)

----------------------------------------------------------------------------
\* The type of the state.
NoticesTypeOK ==
    /\ inbox \in 0..opened /\ opened \in 0..MaxSystem
    /\ \A s \in Inboxes : Len(log[s]) <= KeptRows
    /\ \A n \in Notes : /\ note[n].pc \in {"ensure", "append", "again", "push", "ok", "failed"}
                        /\ note[n].left \subseteq Viewers /\ note[n].session \in 0..opened
    /\ runner \in Headless \cup {None} /\ sent \subseteq Notes

\* Whatever is deleted and loaded meanwhile: no row is left in a session that
\* is gone; the reply of a headless run is announced in the session it is in;
\* and a stored notice is shown at most once, and by every tab that views its
\* session, but for one whose page was read before it and shown after it.
NoticesAreSound ==
    /\ \A s \in Inboxes \ {inbox} : log[s] = <<>>
    /\ \A n \in Headless : note[n].pc \in {"push", "ok"} => note[n].names = note[n].session
    /\ \A t \in Viewers, n \in Announcements :
         /\ Occurs(n, viewer[t].shown) <= 1
         /\ /\ note[n].pc = "ok" /\ viewer[t].view = note[n].session
            /\ viewer[t].page = NoPage /\ ~viewer[t].stale /\ Occurs(n, log[inbox]) > 0
            => Occurs(n, viewer[t].shown) = 1
============================================================================

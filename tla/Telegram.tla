------------------------------ MODULE Telegram ------------------------------
(***************************************************************************)
(* How the bot serves one Telegram user: the handlers of                   *)
(* channels/telegram/channel.py and orchestrator.py, from the update to    *)
(* the release of the user's gate, with the onboarding flow in between     *)
(* (onboarding/engine.py, storage.py).  Updates are handled concurrently   *)
(* (concurrent_updates=True), may be delivered again, and a handler may    *)
(* fail at each of its awaits.                                             *)
(***************************************************************************)
EXTENDS Naturals, Sequences, FiniteSets, World

CONSTANTS Updates,      \* updates of the user, by number
          KindOf,       \* "text", "document", "photo" or "setup"
          Handlers,     \* handlers running at the same time
          MaxDeliveries, \* bound: deliveries in all
          Remembered,   \* _DEDUP_BUFFER_SIZE
          PerMinute,    \* max_per_minute of the rate limiter
          Questions,    \* number of questions for the user's department
          MaxSlips      \* bound: exits that leave the gate taken

ASSUME TelegramAssumption ==
    /\ KindOf \in [Updates -> {"text", "document", "photo", "setup"}]
    /\ {MaxDeliveries, MaxSlips} \subseteq Nat
    /\ {Remembered, PerMinute, Questions} \subseteq Nat \ {0}
    /\ None \notin Handlers \cup [step : Nat, done : BOOLEAN]

VARIABLES seen,      \* _processed_order
          welcome,   \* on the whitelist and not revoked
          account,   \* the user has a row
          stamps,    \* messages counted in the rate limiter's window
          form,      \* the onboarding row: step and completed, or None
          gateOf,    \* the handler that holds the user's gate, or None
          task,      \* the handlers
          deliveries, \* deliveries so far
          given,     \* answers accepted since the last reset
          engaged,   \* updates let past the deduplication, in order
          slips      \* exits that left the gate taken

telegramVars == <<seen, welcome, account, stamps, form, gateOf, task, deliveries,
                  given, engaged, slips>>

Waiting == [pc |-> "idle", update |-> None, read |-> None]

\* a new user, or one who answered the questions earlier
TelegramInit ==
    /\ seen = <<>>
    /\ welcome = TRUE
    /\ \/ account = FALSE /\ form = None /\ given = 0
       \/ account = TRUE /\ form = [step |-> Questions, done |-> TRUE] /\ given = Questions
    /\ stamps = 0
    /\ gateOf = None
    /\ task = [h \in Handlers |-> Waiting]
    /\ deliveries = 0 /\ slips = 0
    /\ engaged = <<>>

Is(h, pc) == task[h].pc = pc
To(h, pc) == task' = [task EXCEPT ![h].pc = pc]
Kind(h) == KindOf[task[h].update]

----------------------------------------------------------------------------
\* A text is looked up among the repetitions before the checks, an upload after
\* them, a command not at all.
Deliver(h, u) ==
    /\ Is(h, "idle")
    /\ deliveries < MaxDeliveries
    /\ deliveries' = deliveries + 1
    /\ task' = [task EXCEPT ![h] = [Waiting EXCEPT !.update = u,
                    !.pc = IF KindOf[u] = "text" THEN "dedup" ELSE "access"]]
    /\ UNCHANGED <<seen, welcome, account, stamps, form, gateOf, given, engaged, slips>>

AfterDedup == [text |-> "access", document |-> "needs", photo |-> "gate"]
AfterRate == [text |-> "needs", document |-> "dedup", photo |-> "dedup", setup |-> "gate"]

Forget(s) == IF Len(s) > Remembered THEN Tail(s) ELSE s

\* _is_duplicate, one section under its lock
Dedup(h) ==
    /\ Is(h, "dedup")
    /\ LET u == task[h].update
           again == \E i \in DOMAIN seen : seen[i] = u
       IN IF again THEN task' = [task EXCEPT ![h] = Waiting] /\ UNCHANGED <<seen, engaged>>
          ELSE /\ seen' = Forget(Append(seen, u))
               /\ engaged' = Append(engaged, u)
               /\ To(h, AfterDedup[Kind(h)])
    /\ UNCHANGED <<welcome, account, stamps, form, gateOf, deliveries, given, slips>>

\* revoked, not on the list: the handler ends
Access(h) ==
    /\ Is(h, "access")
    /\ IF welcome THEN To(h, "user") ELSE task' = [task EXCEPT ![h] = Waiting]
    /\ UNCHANGED <<seen, welcome, account, stamps, form, gateOf, deliveries, given,
                   engaged, slips>>

\* the row is looked up, and made in a later statement if there is none
FindUser(h) ==
    /\ Is(h, "user")
    /\ To(h, IF account THEN "rate" ELSE "create")
    /\ UNCHANGED <<seen, welcome, account, stamps, form, gateOf, deliveries, given,
                   engaged, slips>>

\* telegram_id is unique: the second of two inserts raises and its handler ends
CreateUser(h) ==
    /\ Is(h, "create")
    /\ account' = TRUE
    /\ \/ To(h, "rate")
       \/ account /\ task' = [task EXCEPT ![h] = Waiting]
    /\ UNCHANGED <<seen, welcome, stamps, form, gateOf, deliveries, given, engaged, slips>>

\* RateLimiter.check, under its lock
Rate(h) ==
    /\ Is(h, "rate")
    /\ IF stamps < PerMinute
       THEN /\ stamps' = stamps + 1
            /\ To(h, AfterRate[Kind(h)])
       ELSE task' = [task EXCEPT ![h] = Waiting] /\ UNCHANGED stamps
    /\ UNCHANGED <<seen, welcome, account, form, gateOf, deliveries, given, engaged, slips>>

\* stamps leave the window; the list is edited
Minute ==
    /\ stamps' \in 0..PerMinute /\ stamps' < stamps
    /\ UNCHANGED <<seen, welcome, account, form, gateOf, task, deliveries, given,
                   engaged, slips>>

Revoke ==
    /\ welcome' = ~welcome
    /\ UNCHANGED <<seen, account, stamps, form, gateOf, task, deliveries, given,
                   engaged, slips>>

----------------------------------------------------------------------------
Done(f) == f # None /\ f.done

\* needs_onboarding, before the gate; the text made for a document counts as an
\* answer too
Needs(h) ==
    /\ Is(h, "needs")
    /\ To(h, IF Done(form) THEN "gate" ELSE "formGate")
    /\ UNCHANGED <<seen, welcome, account, stamps, form, gateOf, deliveries, given,
                   engaged, slips>>

\* try_start: refused when the gate is taken
Enter(h) ==
    /\ Is(h, "gate") \/ Is(h, "formGate")
    /\ IF gateOf # None
       THEN task' = [task EXCEPT ![h] = Waiting] /\ UNCHANGED gateOf
       ELSE /\ gateOf' = h
            /\ To(h, CASE Is(h, "formGate") -> "progress"
                       [] Kind(h) = "setup" -> "reset"
                       [] Kind(h) = "photo" -> "work"
                       [] OTHER -> "container")
    /\ UNCHANGED <<seen, welcome, account, stamps, form, deliveries, given, engaged, slips>>

\* the end of a handler that gives the gate back, by return or exception
Finish(h) ==
    /\ gateOf' = None
    /\ task' = [task EXCEPT ![h] = Waiting]

\* is_in_progress, then start or submit_answer
Progress(h) ==
    /\ Is(h, "progress")
    /\ To(h, IF form # None /\ ~form.done THEN "readForm" ELSE "startForm")
    /\ UNCHANGED <<seen, welcome, account, stamps, form, gateOf, deliveries, given,
                   engaged, slips>>

\* start: the row is made if there is none.  A form completed meanwhile has no
\* question left: the gate is given back and the message goes to the agent.
StartForm(h) ==
    /\ Is(h, "startForm")
    /\ IF form = None
       THEN /\ form' = [step |-> 0, done |-> FALSE]
            /\ Finish(h)
       ELSE /\ gateOf' = None /\ To(h, "gate")
            /\ UNCHANGED form
    /\ UNCHANGED <<seen, welcome, account, stamps, deliveries, given, engaged, slips>>

ReadForm(h) ==
    /\ Is(h, "readForm")
    /\ task' = [task EXCEPT ![h].pc = "saveForm", ![h].read = form]
    /\ UNCHANGED <<seen, welcome, account, stamps, form, gateOf, deliveries, given,
                   engaged, slips>>

\* the answer is stored with the whole row as it was read
SaveForm(h) ==
    /\ Is(h, "saveForm")
    /\ LET step == task[h].read.step + 1
       IN /\ form' = [step |-> step, done |-> step >= Questions]
          /\ given' = given + 1
          /\ IF step >= Questions THEN To(h, "finalize") /\ UNCHANGED gateOf ELSE Finish(h)
    /\ UNCHANGED <<seen, welcome, account, stamps, deliveries, engaged, slips>>

\* the model call; its failure is caught, one of the fallback is not
Finalize(h) ==
    /\ Is(h, "finalize")
    /\ Finish(h)
    /\ UNCHANGED <<seen, welcome, account, stamps, form, deliveries, given, engaged, slips>>

\* /setup: reset, then start
Reset(h) ==
    /\ Is(h, "reset")
    /\ form' = None /\ given' = 0
    /\ To(h, "restart")
    /\ UNCHANGED <<seen, welcome, account, stamps, gateOf, deliveries, engaged, slips>>

Restart(h) ==
    /\ Is(h, "restart")
    /\ form' = [step |-> 0, done |-> FALSE]
    /\ Finish(h)
    /\ UNCHANGED <<seen, welcome, account, stamps, deliveries, given, engaged, slips>>

----------------------------------------------------------------------------
\* Mutant: a container that cannot be started ends the handler at once.
ContainerUnfinished(h) ==
    /\ Is(h, "container")
    /\ \/ To(h, "work") /\ UNCHANGED gateOf
       \/ task' = [task EXCEPT ![h] = Waiting] /\ UNCHANGED gateOf
    /\ UNCHANGED <<seen, welcome, account, stamps, form, deliveries, given, engaged, slips>>

\* ensure_running: a ContainerManagerError is answered
Container(h) ==
    /\ Is(h, "container")
    /\ \/ To(h, "work") /\ UNCHANGED gateOf
       \/ Finish(h)
    /\ UNCHANGED <<seen, welcome, account, stamps, form, deliveries, given, engaged, slips>>

\* the agent or the vision model; an Exception becomes an answer or is raised
\* again after the release
RunAgent(h) ==
    /\ Is(h, "work")
    /\ \/ To(h, "answer") /\ UNCHANGED gateOf
       \/ Kind(h) = "photo" /\ Finish(h)
    /\ UNCHANGED <<seen, welcome, account, stamps, form, deliveries, given, engaged, slips>>

\* send_message does not raise; its finally gives the gate back
Answer(h) ==
    /\ Is(h, "answer")
    /\ Finish(h)
    /\ UNCHANGED <<seen, welcome, account, stamps, form, deliveries, given, engaged, slips>>

\* Outside every try: another error of ensure_running, a cancellation of the
\* run, an error of the progress message, of the activity log or of the photo's
\* log.  The gate stays taken.
Slip(h) ==
    /\ Is(h, "container") \/ Is(h, "work") \/ Is(h, "answer")
    /\ slips < MaxSlips
    /\ slips' = slips + 1
    /\ task' = [task EXCEPT ![h] = Waiting]
    /\ UNCHANGED <<seen, welcome, account, stamps, form, gateOf, deliveries, given, engaged>>

----------------------------------------------------------------------------
HandlerStep(h) ==
    \/ Dedup(h) \/ Access(h) \/ FindUser(h) \/ CreateUser(h) \/ Rate(h)
    \/ Needs(h) \/ Enter(h) \/ Progress(h) \/ StartForm(h) \/ ReadForm(h) \/ SaveForm(h)
    \/ Finalize(h) \/ Reset(h) \/ Restart(h) \/ Container(h) \/ RunAgent(h) \/ Answer(h)

TelegramNext ==
    \/ \E h \in Handlers : (\E u \in Updates : Deliver(h, u)) \/ HandlerStep(h) \/ Slip(h)
    \/ Minute \/ Revoke

----------------------------------------------------------------------------
(* Properties *)

TelegramTypeOK ==
    /\ seen \in Seq(Updates) /\ Len(seen) <= Remembered
    /\ stamps \in 0..PerMinute
    /\ gateOf \in Handlers \cup {None}
    /\ \A h \in Handlers : task[h].update \in Updates \cup {None}
    /\ form # None => form.step \in 0..Questions

Inside == {"progress", "startForm", "readForm", "saveForm", "finalize", "reset",
           "restart", "container", "work", "answer"}

\* The gate is held exactly while the handler that took it is at work, unless an
\* exit left it taken: every refusal, failure and early return gives it back.
GateFollowsHandler ==
    slips = 0 => \A h \in Handlers : (task[h].pc \in Inside) <=> (gateOf = h)

\* The step of the form is the number of answers accepted since the last reset:
\* no answer overwrites another although each is a read, an await and a write
\* of the whole row.
StepsCountAnswers == form # None => form.step = given

\* An update is engaged twice only when more others than the channel remembers
\* were engaged in between.
EngagedOnce ==
    \A i, j \in DOMAIN engaged :
        i < j /\ engaged[i] = engaged[j]
            => Cardinality({engaged[k] : k \in (i + 1)..(j - 1)}) >= Remembered

TelegramSound == GateFollowsHandler /\ StepsCountAnswers /\ EngagedOnce
=============================================================================

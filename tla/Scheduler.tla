----------------------------- MODULE Scheduler ------------------------------
(***************************************************************************)
(* Scheduled tasks of one user: the table scheduled_tasks                  *)
(* (scheduler/store.py) and SchedulerService (scheduler/service.py).       *)
(*                                                                         *)
(* The web process owns the poll loop (a poller).  The operations of the   *)
(* user (a client each) come from the web API, the agent's tools, Telegram *)
(* and the command line, which are up to three processes that share only   *)
(* the table.  Every store call is one transaction; an operation reads the *)
(* whole row in one and writes the whole row back in a later one.          *)
(*                                                                         *)
(* Time: a stamp is the value of a next_run_at; due is the set of those    *)
(* that have passed.  A token identifies a claim; stale is the set of      *)
(* those whose claimed_at is older than the TTL.  A poller stamps all the  *)
(* claims of a tick with the time at which the tick made its list, so a    *)
(* claim that it makes after some runs may be stale when it is made.       *)
(***************************************************************************)
EXTENDS Naturals, FiniteSets, TLC

CONSTANTS
    Task,      \* task ids
    Key,       \* dedup fingerprints
    Poller,    \* poll loops
    Client,    \* user operations that may be in progress at once
    Proposer,  \* the clients that propose tasks
    Ops,       \* the other operations that clients perform
    MaxTasks,  \* max_tasks_per_user
    MaxToken,  \* bound: claim tokens in use at once
    MaxStamp,  \* bound: next_run_at values in use at once
    MaxAbandon,\* bound: runs that end without completing their claim
    LongRuns,  \* whether a single run may outlast claim_ttl_seconds
    LongLists, \* whether the runs of a list together may
    None

Actor == Poller \cup Client
Token == 1..MaxToken
Stamp == 1..MaxStamp

ASSUME SchedulerAssumption ==
    /\ MaxTasks \in Nat /\ MaxToken \in Nat /\ MaxStamp \in Nat
    /\ MaxAbandon \in Nat
    /\ Proposer \subseteq Client /\ Poller \cap Client = {}
    /\ LongRuns \in BOOLEAN /\ LongLists \in BOOLEAN
    /\ Actor \cap Nat = {}
    /\ None \notin Nat /\ None \notin Task /\ None \notin Key

VARIABLES
    row,      \* scheduled_tasks
    due,      \* the stamps that are not in the future
    stale,    \* the tokens whose claim is older than the TTL
    pc,       \* where each actor stands
    tid,      \* the task it works on
    copy,     \* the row as it last read it
    tok,      \* the claim it runs under
    todo,     \* a poller's list of due tasks, each with its next_run_at
    age,      \* how old the "now" of a poller's tick is
    old,      \* the tokens and ticks that were stale at the "now" of a tick
    abandoned,\* number of runs that did not complete their claim
    ran,      \* history: agent runs that completed, per task (0, 1, 2 or more)
    outlived  \* history: tasks of which a run outlived the claim it runs under

local == <<pc, tid, copy, tok, todo, age, old>>
history == <<abandoned, ran, outlived>>
vars == <<row, due, stale, local, history>>

Status == {"absent", "pending", "active", "paused", "done", "dismissed"}
Row == [status : Status, enabled : BOOLEAN, key : Key \cup {None},
        next : Stamp \cup {None}, claim : Token \cup {None}, once : BOOLEAN]
Absent == [status |-> "absent", enabled |-> FALSE, key |-> None,
           next |-> None, claim |-> None, once |-> FALSE]

Live == {"pending", "active", "paused"}

\* The statuses in which an operation accepts the row it has read.
Expected == [accept |-> {"pending"}, dismiss |-> Live, pause |-> {"active"},
             resume |-> {"paused"}, delete |-> Status \ {"absent"},
             run_paused |-> {"paused"}, run_early |-> {"active"},
             run_due |-> {"active"}]

Step == {"idle", "insert", "list", "tick", "reload", "dispatch", "running"}

TypeOK ==
    /\ row \in [Task -> Row]
    /\ due \subseteq Stamp
    /\ stale \subseteq Token
    /\ pc \in [Actor -> Step \cup DOMAIN Expected]
    /\ tid \in [Actor -> Task \cup {None}]
    /\ copy \in [Actor -> Row]
    /\ tok \in [Actor -> Token \cup {None}]
    /\ todo \in [Actor -> SUBSET (Task \X Stamp)]
    /\ age \in [Poller -> {"new", "stale"}]
    /\ old \in [Actor -> SUBSET (Token \cup Poller)]
    /\ abandoned \in 0..MaxAbandon
    /\ ran \in [Task -> 0..2]
    /\ outlived \subseteq Task
    /\ \A a \in Actor : (tok[a] = None) <=> (pc[a] # "running")

-----------------------------------------------------------------------------
(* Tokens are uuid4 and stamps are time stamps: one that is written is new.  *)
(* A value that nothing refers to any more may stand for a new one.          *)

TokensInUse == {row[t].claim : t \in Task} \cup {copy[a].claim : a \in Actor}
               \cup {tok[a] : a \in Actor} \cup UNION {old[a] : a \in Actor}
StampsInUse == {row[t].next : t \in Task} \cup {copy[a].next : a \in Actor}
               \cup UNION {{e[2] : e \in todo[a]} : a \in Actor}

IsNewToken(k) == k \in Token \ TokensInUse /\ \A j \in Token \ TokensInUse : k <= j
IsNewStamp(n) == n \in Stamp \ StampsInUse /\ \A m \in Stamp \ StampsInUse : n <= m

-----------------------------------------------------------------------------

Go(a, p) == pc' = [pc EXCEPT ![a] = p]

\* An operation ends: its locals are gone.
End(a, p) ==
    /\ Go(a, p)
    /\ tid' = [tid EXCEPT ![a] = None]
    /\ copy' = [copy EXCEPT ![a] = Absent]
    /\ tok' = [tok EXCEPT ![a] = None]

\* update(): the whole row, whatever its status is now.
Update(a, r) == row' = [row EXCEPT ![tid[a]] = r]

\* Mutant: the UPDATE has no status clause.
UpdateGuardedNever(a, r) == Update(a, r)

\* update_guarded(): only if the status is still one the operation accepts;
\* otherwise the operation fails.
UpdateGuarded(a, r) ==
    row' = IF row[tid[a]].status \in Expected[pc[a]]
           THEN [row EXCEPT ![tid[a]] = r] ELSE row

-----------------------------------------------------------------------------
(* Proposals *)

\* The fingerprint was dismissed or is live, or the limit is reached.
Refused(k) ==
    \/ \E t \in Task : row[t].key = k /\ row[t].status \in Live \cup {"dismissed"}
    \/ Cardinality({t \in Task : row[t].status \in {"pending", "active"}}) >= MaxTasks

\* propose(), and the SELECTs of insert_pending_if_allowed(): sqlite3 opens its
\* transaction at the INSERT, so these are transactions of their own.
Propose(c, k) ==
    /\ pc[c] = "idle" /\ c \in Proposer
    /\ ~Refused(k)
    /\ copy' = [copy EXCEPT ![c] = [Absent EXCEPT !.status = "pending",
                                                  !.enabled = TRUE, !.key = k]]
    /\ Go(c, "insert")
    /\ UNCHANGED <<row, due, stale, tid, tok, todo, age, old, history>>

\* Its INSERT, under a new id.
Insert(c, t) ==
    /\ pc[c] = "insert"
    /\ row[t].status = "absent"
    /\ row' = [row EXCEPT ![t] = copy[c]]
    /\ End(c, "idle")
    /\ UNCHANGED <<due, stale, todo, age, old, history>>

-----------------------------------------------------------------------------
(* The operations of the user *)

\* get(), and the status check that follows it.
Begin(c, op, t) ==
    /\ pc[c] = "idle" /\ op \in Ops
    /\ row[t].status \in Expected[op]
    /\ op = "run_due" => row[t].next \in due
    /\ op = "run_early" => row[t].next \notin due
    /\ Go(c, IF op = "run_due" THEN "dispatch" ELSE op)
    /\ tid' = [tid EXCEPT ![c] = t]
    /\ copy' = [copy EXCEPT ![c] = row[t]]
    /\ UNCHANGED <<row, due, stale, tok, todo, age, old, history>>

\* accept(): the schedule is parsed again and may have been edited.
Accept(c) ==
    /\ pc[c] = "accept"
    /\ \E n \in Stamp, o \in BOOLEAN :
          /\ IsNewStamp(n)
          /\ UpdateGuarded(c, [copy[c] EXCEPT !.status = "active", !.enabled = TRUE,
                                              !.next = n, !.once = o])
          /\ due' = due \ {n}
    /\ End(c, "idle")
    /\ UNCHANGED <<stale, todo, age, old, history>>

Dismiss(c) ==
    /\ pc[c] = "dismiss"
    /\ UpdateGuarded(c, [copy[c] EXCEPT !.status = "dismissed", !.enabled = FALSE,
                                        !.next = None])
    /\ End(c, "idle")
    /\ UNCHANGED <<due, stale, todo, age, old, history>>

Pause(c) ==
    /\ pc[c] = "pause"
    /\ UpdateGuarded(c, [copy[c] EXCEPT !.status = "paused", !.enabled = FALSE])
    /\ End(c, "idle")
    /\ UNCHANGED <<due, stale, todo, age, old, history>>

\* Mutant: a schedule without a next run is resumed without one.
ResumeUnset(c) ==
    /\ pc[c] = "resume"
    /\ \E n \in {None, copy[c].next} :
          UpdateGuarded(c, [copy[c] EXCEPT !.status = "active", !.enabled = TRUE,
                                           !.next = n])
    /\ End(c, "idle")
    /\ UNCHANGED <<due, stale, todo, age, old, history>>

\* resume(): the schedule yields the time it yielded before, or a new one (now,
\* if it yields none).
Resume(c) ==
    /\ pc[c] = "resume"
    /\ \E n \in Stamp :
          /\ n = copy[c].next \/ IsNewStamp(n)
          /\ UpdateGuarded(c, [copy[c] EXCEPT !.status = "active", !.enabled = TRUE,
                                              !.next = n])
          /\ due' = IF n = copy[c].next THEN due ELSE due \ {n}
    /\ End(c, "idle")
    /\ UNCHANGED <<stale, todo, age, old, history>>

\* delete(): not guarded.
Delete(c) ==
    /\ pc[c] = "delete"
    /\ Update(c, [copy[c] EXCEPT !.status = "dismissed", !.enabled = FALSE,
                                 !.next = None])
    /\ End(c, "idle")
    /\ UNCHANGED <<due, stale, todo, age, old, history>>

\* run_now() of a paused task: activates it, not guarded, then dispatches.  A
\* paused task keeps its next_run_at.
RunPaused(c) ==
    LET r == [copy[c] EXCEPT !.status = "active", !.enabled = TRUE] IN
    /\ pc[c] = "run_paused"
    /\ Update(c, r)
    /\ copy' = [copy EXCEPT ![c] = r]
    /\ Go(c, "dispatch")
    /\ UNCHANGED <<due, stale, tid, tok, todo, age, old, history>>

\* run_now() of an active task that is not due: next_run_at becomes now, not
\* guarded; then the row is read again and dispatched.
RunEarly(c) ==
    /\ pc[c] = "run_early"
    /\ \E n \in Stamp :
          /\ IsNewStamp(n)
          /\ Update(c, [copy[c] EXCEPT !.enabled = TRUE, !.next = n])
          /\ due' = due \cup {n}
    /\ Go(c, "reload")
    /\ UNCHANGED <<stale, tid, copy, tok, todo, age, old, history>>

Reload(c) ==
    /\ pc[c] = "reload"
    /\ copy' = [copy EXCEPT ![c] = row[tid[c]]]
    /\ Go(c, "dispatch")
    /\ UNCHANGED <<row, due, stale, tid, tok, todo, age, old, history>>

-----------------------------------------------------------------------------
(* Dispatch *)

\* Mutant: a row that is claimed can be claimed.
FreeOrNot(r, S) == TRUE

\* Mutant: a claim never expires.
FreeForGood(r, S) == r.claim = None

\* claimed_at IS NULL OR claimed_at < stale_before
Free(r, S) == r.claim = None \/ r.claim \in S

\* Mutant: the claim does not compare next_run_at.
ClaimableAnyTime(t, n, S) ==
    row[t].status = "active" /\ row[t].enabled /\ Free(row[t], S)

\* The WHERE clause of claim_task()
Claimable(t, n, S) ==
    row[t].status = "active" /\ row[t].enabled /\ row[t].next = n /\ Free(row[t], S)

\* Mutant: the row is claimed without a token.
ClaimWithoutToken(a, t) ==
    /\ Go(a, "running")
    /\ tid' = [tid EXCEPT ![a] = t]
    /\ copy' = [copy EXCEPT ![a] = Absent]
    /\ UNCHANGED <<row, tok, stale, old, outlived>>

\* The time a claim is made with: now, or that of a tick that has become old.
IsLate(a) == a \in Poller /\ age[a] = "stale"

\* The UPDATE of claim_task(), under a token of its own.
Claim(a, t) ==
    \E k \in Token :
       /\ IsNewToken(k)
       /\ row' = [row EXCEPT ![t] = [@ EXCEPT !.claim = k]]
       /\ tok' = [tok EXCEPT ![a] = k]
       /\ stale' = IF IsLate(a) THEN stale \cup {k} ELSE stale \ {k}
       /\ old' = [b \in Actor |-> IF a \in old[b] THEN old[b] \cup {k} ELSE old[b]]
       /\ outlived' = IF IsLate(a) THEN outlived \cup {t} ELSE outlived
       /\ Go(a, "running")
       /\ tid' = [tid EXCEPT ![a] = t]
       /\ copy' = [copy EXCEPT ![a] = Absent]

\* run_now(): _dispatch() with the current time.
DispatchNow(c) ==
    LET t == tid[c]  n == copy[c].next IN
    /\ pc[c] = "dispatch"
    /\ IF n # None /\ Claimable(t, n, stale)
       THEN Claim(c, t)
       ELSE End(c, "idle") /\ UNCHANGED <<row, stale, old, outlived>>
    /\ UNCHANGED <<due, todo, age, abandoned, ran>>

\* tick(): _expire_pending(), for whatever proposals are too old.
Tick(p) ==
    /\ pc[p] = "idle"
    /\ \E D \in SUBSET {t \in Task : row[t].status = "pending"} :
          row' = [t \in Task |-> IF t \in D
                                 THEN [row[t] EXCEPT !.status = "dismissed",
                                                     !.key = None]
                                 ELSE row[t]]
    /\ Go(p, "list")
    /\ UNCHANGED <<due, stale, tid, copy, tok, todo, age, old, history>>

\* A poller has a time of its own again; S is what is stale at that time.
NewTime(p, S) ==
    /\ age' = [age EXCEPT ![p] = "new"]
    /\ old' = [b \in Actor |-> IF b = p THEN S ELSE old[b] \ {p}]

\* list_due(), at the time that the claims of this tick are made with.
ListDue(p) ==
    /\ pc[p] = "list"
    /\ todo' = [todo EXCEPT ![p] =
                  {e \in Task \X due : Claimable(e[1], e[2], stale)}]
    /\ NewTime(p, (stale \cap {row[t].claim : t \in Task})
                  \cup {q \in Poller \ {p} : age[q] = "stale"})
    /\ Go(p, "tick")
    /\ UNCHANGED <<row, due, stale, tid, copy, tok, history>>

\* _dispatch() of one task of the list.
Dispatch(p, e) ==
    /\ pc[p] = "tick" /\ e \in todo[p]
    /\ todo' = [todo EXCEPT ![p] = @ \ {e}]
    /\ IF Claimable(e[1], e[2], old[p])
       THEN Claim(p, e[1])
       ELSE UNCHANGED <<row, stale, pc, tid, copy, tok, old, outlived>>
    /\ UNCHANGED <<due, age, abandoned, ran>>

EndTick(p) ==
    /\ pc[p] = "tick" /\ todo[p] = {}
    /\ Go(p, "idle")
    /\ NewTime(p, {})
    /\ UNCHANGED <<row, due, stale, tid, copy, tok, todo, history>>

\* Where an actor goes when its run is over.
After(a) == IF a \in Poller THEN "tick" ELSE "idle"

\* Mutant: a task that runs once is scheduled again like the others.
CompletedNever(r, n, ok) ==
    IF r.status = "active" /\ r.enabled
    THEN [r EXCEPT !.claim = None, !.next = n]
    ELSE [r EXCEPT !.claim = None]

\* complete_claim(): the claim is cleared; the scheduling fields change only if
\* the task is still active.  n is the next run.
Completed(r, n, ok) ==
    IF r.status = "active" /\ r.enabled
    THEN IF ok /\ r.once
         THEN [r EXCEPT !.claim = None, !.next = None, !.status = "done",
                        !.enabled = FALSE]
         ELSE [r EXCEPT !.claim = None, !.next = n]
    ELSE [r EXCEPT !.claim = None]

\* The run returns: ok, or with an error, or skipped because the user is busy
\* (these two are tried again a little later).
Complete(a, ok) ==
    LET t == tid[a] IN
    /\ pc[a] = "running"
    /\ \E n \in Stamp :
          /\ IsNewStamp(n)
          /\ row' = IF row[t].claim = tok[a]
                    THEN [row EXCEPT ![t] = Completed(row[t], n, ok)] ELSE row
          /\ due' = due \ {n}
    /\ ran' = IF ok THEN [ran EXCEPT ![t] = IF @ < 2 THEN @ + 1 ELSE 2] ELSE ran
    /\ End(a, After(a))
    /\ UNCHANGED <<stale, todo, age, old, abandoned, outlived>>

\* The process dies or is stopped during the run, or complete_claim() raises:
\* the claim stays.  A dead poller starts again with an empty list.
Abandon(a) ==
    /\ pc[a] = "running"
    /\ abandoned < MaxAbandon
    /\ abandoned' = abandoned + 1
    /\ todo' \in {todo, [todo EXCEPT ![a] = {}]}
    /\ End(a, After(a))
    /\ UNCHANGED <<row, due, stale, age, old, ran, outlived>>

-----------------------------------------------------------------------------
(* Time *)

BecomeDue(n) ==
    /\ n \in StampsInUse \ due
    /\ due' = due \cup {n}
    /\ UNCHANGED <<row, stale, local, history>>

\* claim_ttl_seconds have passed since the time a claim is stamped with.  While
\* its run goes on, it is stale with the tick if the run is a poller's.
GoStale(k) ==
    /\ \E t \in Task : row[t].claim = k
    /\ k \notin stale
    /\ \A a \in Actor : tok[a] = k => LongRuns /\ a \in Client
    /\ stale' = stale \cup {k}
    /\ outlived' = outlived \cup {tid[a] : a \in {b \in Actor : tok[b] = k}}
    /\ UNCHANGED <<row, due, local, abandoned, ran>>

\* claim_ttl_seconds have passed since a tick made its list; so long ago is the
\* claim it runs under.  No single run need be that long: the list holds up to 20
\* tasks, of this user and of others, which run one after the other.
TickAges(p) ==
    /\ pc[p] \in {"tick", "running"}
    /\ (LongRuns \/ LongLists) /\ age[p] = "new"
    /\ age' = [age EXCEPT ![p] = "stale"]
    /\ stale' = stale \cup ({tok[p]} \ {None})
    /\ outlived' = outlived \cup ({tid[p]} \ {None})
    /\ UNCHANGED <<row, due, pc, tid, copy, tok, todo, old, abandoned, ran>>

-----------------------------------------------------------------------------

Init ==
    /\ row = [t \in Task |-> Absent]
    /\ due = {} /\ stale = {}
    /\ pc = [a \in Actor |-> "idle"]
    /\ tid = [a \in Actor |-> None]
    /\ copy = [a \in Actor |-> Absent]
    /\ tok = [a \in Actor |-> None]
    /\ todo = [a \in Actor |-> {}]
    /\ age = [p \in Poller |-> "new"]
    /\ old = [a \in Actor |-> {}]
    /\ abandoned = 0
    /\ ran = [t \in Task |-> 0]
    /\ outlived = {}

Poll(p) ==
    \/ Tick(p) \/ ListDue(p) \/ EndTick(p)
    \/ \E e \in todo[p] : Dispatch(p, e)

Finish(c) ==
    \/ Accept(c) \/ Dismiss(c) \/ Pause(c) \/ Resume(c) \/ Delete(c)
    \/ RunPaused(c) \/ RunEarly(c) \/ Reload(c) \/ DispatchNow(c)

Operate(c) ==
    \/ \E k \in Key : Propose(c, k)
    \/ \E t \in Task : Insert(c, t)
    \/ \E op \in DOMAIN Expected, t \in Task : Begin(c, op, t)
    \/ Finish(c)

Return(a) == \E ok \in BOOLEAN : Complete(a, ok)

Next ==
    \/ \E p \in Poller : Poll(p)
    \/ \E c \in Client : Operate(c)
    \/ \E a \in Actor : Return(a) \/ Abandon(a)
    \/ \E n \in Stamp : BecomeDue(n)
    \/ \E k \in Token : GoStale(k)
    \/ \E p \in Poller : TickAges(p)

Spec == Init /\ [][Next]_vars

\* The poll loop goes on, store calls return, a run ends within its budget, and
\* time passes.  Nothing obliges the user to do anything.
FairSpec ==
    /\ Spec
    /\ \A p \in Poller : WF_vars(Poll(p))
    /\ \A c \in Client : WF_vars(Finish(c))
    /\ \A a \in Actor : WF_vars(Return(a))
    /\ \A k \in Token : WF_vars(GoStale(k))

-----------------------------------------------------------------------------
(* Properties *)

Running(t) == {a \in Actor : pc[a] = "running" /\ tid[a] = t}

\* "This caller owns the run": the poll loop and a forced run never execute one
\* task at the same time.
ExclusiveRun == \A t \in Task : Cardinality(Running(t)) <= 1

\* The same of every task none of whose runs outlived its claim: a claim that is
\* held for less than claim_ttl_seconds, counted from the time it is stamped
\* with, keeps everybody else out.
ClaimHolderRunsAlone ==
    \A t \in Task \ outlived : Cardinality(Running(t)) <= 1

\* A task that runs once completes at most once, although the poller may hold a
\* list in which it is still due; unless one of its runs outlived its claim.
OnceRunsOnce == \A t \in Task \ outlived : row[t].once => ran[t] <= 1

\* A task that is dismissed or done is never active again, whatever operation
\* or completion was under way when it was stopped.
StoppedStaysStopped ==
    [][\A t \in Task : row[t].status \in {"dismissed", "done"}
                       => row'[t].status # "active"]_vars

\* What the poll loop executes is due at that moment: a list that is minutes
\* old does not run a task that was executed and rescheduled meanwhile.
PollRunsWhatIsDue ==
    [][\A p \in Poller : pc[p] # "running" /\ pc'[p] = "running"
                         => row[tid'[p]].next \in due]_vars

\* An active task can be picked up: it is enabled and has a next run, whatever
\* stale copy of the row was written last.
ActiveHasNextRun ==
    \A t \in Task : row[t].status = "active"
                    => row[t].enabled /\ row[t].next # None

\* A due task does not stay unhandled: it is executed, rescheduled or stopped,
\* although claims are left behind by dead processes and by stale copies.
DueTaskIsHandled ==
    \A t \in Task :
        row[t].status = "active" /\ row[t].next \in due
        ~> Running(t) # {} \/ row[t].status # "active" \/ row[t].next \notin due

\* for TLC: the members of these sets are alike
Symmetry == Permutations(Client) \cup Permutations(Task) \cup Permutations(Key)
=============================================================================

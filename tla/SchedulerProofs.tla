-------------------------- MODULE SchedulerProofs ---------------------------
(***************************************************************************)
(* Theorems about Scheduler, for any number of tasks, pollers, clients and *)
(* fingerprints.                                                           *)
(***************************************************************************)
EXTENDS Scheduler, FiniteSetTheorems, TLAPS

-----------------------------------------------------------------------------
(* The inductive invariant *)

Op == {"accept", "dismiss", "pause", "resume", "delete", "run_paused",
       "run_early", "run_due"}

LEMMA OpIsExpected == DOMAIN Expected = Op
BY DEF Expected, Op

\* A row that is or may become active again has a next run; an active one is
\* enabled.
Runnable(r) ==
    /\ r.status \in {"active", "paused"} => r.next # None
    /\ r.status = "active" => r.enabled

\* An actor past its first read works on a task.
Placed ==
    \A a \in Actor : pc[a] \in Op \cup {"reload", "dispatch", "running"} => tid[a] \in Task

\* An operation works on a copy that had a status it accepts.
CopyFits == \A a \in Actor : pc[a] \in Op => copy[a].status \in Expected[pc[a]]

\* What is due stays due as long as a poller has it on its list.
TodoIsDue == \A a \in Actor : \A e \in todo[a] : e[2] \in due

IInv == /\ TypeOK /\ Placed /\ CopyFits /\ TodoIsDue
        /\ \A t \in Task : Runnable(row[t])
        /\ \A a \in Actor : Runnable(copy[a])

-----------------------------------------------------------------------------
(* Writes *)

\* Both kinds of UPDATE write the row of the actor's task, or nothing.
LEMMA UpdateEffect ==
    ASSUME IInv, NEW a \in Actor, tid[a] \in Task, NEW r \in Row,
           Update(a, r) \/ UpdateGuarded(a, r)
    PROVE  /\ row' \in [Task -> Row]
           /\ row' = row \/ row' = [row EXCEPT ![tid[a]] = r]
           /\ Runnable(r) => \A t \in Task : Runnable(row'[t])
BY DEF IInv, TypeOK, Update, UpdateGuarded

\* The end of an operation, in whatever state it leaves the table.
LEMMA EndEffect ==
    ASSUME IInv, NEW a \in Actor, NEW p \in {"idle", "tick"}, End(a, p),
           UNCHANGED <<todo, old>>
    PROVE  /\ pc' \in [Actor -> Step \cup Op] /\ tid' \in [Actor -> Task \cup {None}]
           /\ copy' \in [Actor -> Row] /\ tok' \in [Actor -> Token \cup {None}]
           /\ \A b \in Actor : (tok'[b] = None) <=> (pc'[b] # "running")
           /\ Placed' /\ CopyFits'
           /\ \A b \in Actor : Runnable(copy'[b])
<1>1. Absent \in Row /\ Runnable(Absent) /\ p \in Step /\ p \notin Op \cup {"reload", "dispatch", "running"}
  BY DEF Absent, Row, Status, Runnable, Step, Op
<1>2. /\ pc \in [Actor -> Step \cup Op] /\ tid \in [Actor -> Task \cup {None}]
      /\ copy \in [Actor -> Row] /\ tok \in [Actor -> Token \cup {None}]
      /\ \A b \in Actor : (tok[b] = None) <=> (pc[b] # "running")
      /\ \A b \in Actor : Runnable(copy[b])
  BY OpIsExpected DEF IInv, TypeOK
<1>3. /\ pc' = [pc EXCEPT ![a] = p] /\ tid' = [tid EXCEPT ![a] = None]
      /\ copy' = [copy EXCEPT ![a] = Absent] /\ tok' = [tok EXCEPT ![a] = None]
  BY DEF End, Go
<1>4. Placed'
  BY <1>1, <1>2, <1>3 DEF IInv, Placed
<1>5. CopyFits'
  BY <1>1, <1>2, <1>3 DEF IInv, CopyFits
<1>. QED
  BY <1>1, <1>2, <1>3, <1>4, <1>5

\* So an operation that ends keeps the invariant if the row it leaves is
\* runnable and what is on a list stays due.
LEMMA OperationEnds ==
    ASSUME IInv, NEW a \in Actor, NEW p \in {"idle", "tick"}, End(a, p),
           UNCHANGED <<todo, old>>,
           row' \in [Task -> Row], \A t \in Task : Runnable(row'[t]),
           due' \subseteq Stamp, \A b \in Actor : \A e \in todo[b] : e[2] \in due',
           stale' \subseteq Token, age' \in [Poller -> {"new", "stale"}],
           abandoned' \in 0..MaxAbandon, ran' \in [Task -> 0..2], outlived' \subseteq Task
    PROVE  IInv'
<1>1. TypeOK'
  BY EndEffect, OpIsExpected DEF IInv, TypeOK
<1>. QED
  BY <1>1, EndEffect DEF IInv, TodoIsDue

\* A new stamp is on no list.
LEMMA NewStampIsFree ==
    ASSUME IInv, NEW n \in Stamp, IsNewStamp(n)
    PROVE  \A a \in Actor : \A e \in todo[a] : e[2] \in due \ {n}
<1> SUFFICES ASSUME NEW a \in Actor, NEW e \in todo[a]
             PROVE  e[2] \in due \ {n}
  OBVIOUS
<1>1. e[2] \in StampsInUse
  BY DEF StampsInUse
<1>. QED
  BY <1>1 DEF IInv, TodoIsDue, IsNewStamp

-----------------------------------------------------------------------------
(* Runs *)

\* A claim changes the claim of one row and nothing else of it.
LEMMA ClaimKeeps ==
    ASSUME IInv, NEW a \in Actor, NEW t \in Task, Claim(a, t),
           todo' \in [Actor -> SUBSET (Task \X Stamp)],
           \A b \in Actor : todo'[b] \subseteq todo[b],
           UNCHANGED <<due, age, abandoned, ran>>
    PROVE  IInv'
<1>1. PICK k \in Token :
         /\ row' = [row EXCEPT ![t] = [@ EXCEPT !.claim = k]]
         /\ tok' = [tok EXCEPT ![a] = k]
         /\ stale' = IF IsLate(a) THEN stale \cup {k} ELSE stale \ {k}
         /\ old' = [b \in Actor |-> IF a \in old[b] THEN old[b] \cup {k} ELSE old[b]]
         /\ outlived' = IF IsLate(a) THEN outlived \cup {t} ELSE outlived
         /\ pc' = [pc EXCEPT ![a] = "running"] /\ tid' = [tid EXCEPT ![a] = t]
         /\ copy' = [copy EXCEPT ![a] = Absent]
  BY DEF Claim, Go
<1>2. Absent \in Row /\ Runnable(Absent) /\ k # None
  BY SchedulerAssumption DEF Absent, Row, Status, Runnable, Token
<1>3. [row[t] EXCEPT !.claim = k] \in Row /\ Runnable([row[t] EXCEPT !.claim = k])
  <2>1. row[t] \in Row /\ Runnable(row[t])
    BY DEF IInv, TypeOK
  <2>. QED
    BY <2>1 DEF Row, Runnable
<1>4. row' \in [Task -> Row] /\ \A u \in Task : Runnable(row'[u])
  BY <1>1, <1>3 DEF IInv, TypeOK
<1>o. /\ old' \in [Actor -> SUBSET (Token \cup Poller)] /\ stale' \subseteq Token
      /\ outlived' \subseteq Task
  BY <1>1 DEF IInv, TypeOK
<1>5. TypeOK'
  BY <1>1, <1>2, <1>4, <1>o DEF IInv, TypeOK, Step
<1>6. Placed' /\ CopyFits' /\ TodoIsDue'
  BY <1>1 DEF IInv, TypeOK, Placed, CopyFits, TodoIsDue, Op
<1>. QED
  BY <1>1, <1>2, <1>4, <1>5, <1>6 DEF IInv, TypeOK

-----------------------------------------------------------------------------
(* The operations of the user *)

LEMMA OperateStep ==
    ASSUME IInv, NEW c \in Client, Operate(c)
    PROVE  IInv'
<1>0. c \in Actor /\ None \notin Nat /\ Stamp \subseteq Nat /\ Token \subseteq Nat
  BY SchedulerAssumption DEF Actor, Stamp, Token
<1>1. ASSUME NEW k \in Key, Propose(c, k)  PROVE IInv'
  <2> DEFINE r == [Absent EXCEPT !.status = "pending", !.enabled = TRUE, !.key = k]
  <2>1. r \in Row /\ Runnable(r)
    BY DEF Row, Absent, Status, Runnable
  <2>2. copy' = [copy EXCEPT ![c] = r] /\ pc' = [pc EXCEPT ![c] = "insert"]
    BY <1>1 DEF Propose, Go
  <2>. HIDE DEF r
  <2>3. TypeOK'
    BY <1>0, <1>1, <2>1, <2>2 DEF IInv, TypeOK, Propose, Step, history
  <2>. QED
    BY <1>0, <1>1, <2>1, <2>2, <2>3
       DEF IInv, TypeOK, Placed, CopyFits, TodoIsDue, Propose, Op
<1>2. ASSUME NEW t \in Task, Insert(c, t)  PROVE IInv'
  <2>1. row' \in [Task -> Row] /\ \A u \in Task : Runnable(row'[u])
    BY <1>0, <1>2 DEF Insert, IInv, TypeOK
  <2>. QED
    BY <1>0, <1>2, <2>1, OperationEnds DEF Insert, IInv, TypeOK, TodoIsDue, history
<1>3. ASSUME NEW op \in DOMAIN Expected, NEW t \in Task, Begin(c, op, t)  PROVE IInv'
  <2>1. /\ pc' = [pc EXCEPT ![c] = IF op = "run_due" THEN "dispatch" ELSE op]
        /\ tid' = [tid EXCEPT ![c] = t] /\ copy' = [copy EXCEPT ![c] = row[t]]
        /\ row[t].status \in Expected[op]
        /\ UNCHANGED <<row, due, stale, tok, todo, age, old, history>>
    BY <1>3 DEF Begin, Go
  <2>2. TypeOK'
    BY <1>0, <1>3, <2>1, OpIsExpected DEF IInv, TypeOK, Step, Begin, history, Op
  <2>3. Placed'
    BY <1>0, <2>1 DEF IInv, TypeOK, Placed
  <2>4. CopyFits'
    BY <1>0, <2>1 DEF IInv, TypeOK, CopyFits, Op
  <2>. QED
    BY <1>0, <2>1, <2>2, <2>3, <2>4 DEF IInv, TypeOK, TodoIsDue
<1>4. ASSUME pc[c] \in Op
      PROVE  tid[c] \in Task /\ copy[c] \in Row /\ Runnable(copy[c])
             /\ copy[c].status \in Expected[pc[c]]
  BY <1>0, <1>4 DEF IInv, TypeOK, Placed, CopyFits
<1>5. CASE Accept(c)
  <2>1. PICK n \in Stamp, o \in BOOLEAN :
           /\ IsNewStamp(n) /\ due' = due \ {n}
           /\ UpdateGuarded(c, [copy[c] EXCEPT !.status = "active", !.enabled = TRUE,
                                               !.next = n, !.once = o])
    BY <1>5 DEF Accept
  <2> DEFINE r == [copy[c] EXCEPT !.status = "active", !.enabled = TRUE,
                                  !.next = n, !.once = o]
  <2>2. r \in Row /\ Runnable(r) /\ tid[c] \in Task
    BY <1>0, <1>4, <1>5 DEF Accept, Row, Status, Runnable, Op
  <2>3. row' \in [Task -> Row] /\ \A t \in Task : Runnable(row'[t])
    BY <1>0, <2>1, <2>2, UpdateEffect
  <2>. QED
    BY <1>0, <1>5, <2>1, <2>3, NewStampIsFree, OperationEnds
       DEF Accept, IInv, TypeOK, history
<1>6. CASE Dismiss(c)
  <2> DEFINE r == [copy[c] EXCEPT !.status = "dismissed", !.enabled = FALSE, !.next = None]
  <2>2. r \in Row /\ Runnable(r) /\ tid[c] \in Task
    BY <1>0, <1>4, <1>6 DEF Dismiss, Row, Status, Runnable, Op
  <2>3. row' \in [Task -> Row] /\ \A t \in Task : Runnable(row'[t])
    BY <1>0, <1>6, <2>2, UpdateEffect DEF Dismiss
  <2>. QED
    BY <1>0, <1>6, <2>3, OperationEnds DEF Dismiss, IInv, TypeOK, TodoIsDue, history
<1>7. CASE Pause(c)
  <2> DEFINE r == [copy[c] EXCEPT !.status = "paused", !.enabled = FALSE]
  <2>1. pc[c] \in Op /\ copy[c].status = "active"
    BY <1>4, <1>7 DEF Pause, Op, Expected
  <2>2. r \in Row /\ Runnable(r) /\ tid[c] \in Task
    BY <1>4, <2>1 DEF Row, Status, Runnable
  <2>3. row' \in [Task -> Row] /\ \A t \in Task : Runnable(row'[t])
    BY <1>0, <1>7, <2>2, UpdateEffect DEF Pause
  <2>. QED
    BY <1>0, <1>7, <2>3, OperationEnds DEF Pause, IInv, TypeOK, TodoIsDue, history
<1>8. CASE Resume(c)
  <2>1. PICK n \in Stamp :
           /\ n = copy[c].next \/ IsNewStamp(n)
           /\ UpdateGuarded(c, [copy[c] EXCEPT !.status = "active", !.enabled = TRUE,
                                               !.next = n])
           /\ due' = IF n = copy[c].next THEN due ELSE due \ {n}
    BY <1>8 DEF Resume
  <2> DEFINE r == [copy[c] EXCEPT !.status = "active", !.enabled = TRUE, !.next = n]
  <2>2. r \in Row /\ Runnable(r) /\ tid[c] \in Task
    BY <1>0, <1>4, <1>8 DEF Resume, Row, Status, Runnable, Op
  <2>3. row' \in [Task -> Row] /\ \A t \in Task : Runnable(row'[t])
    BY <1>0, <2>1, <2>2, UpdateEffect
  <2>4. \A b \in Actor : \A e \in todo[b] : e[2] \in due'
    BY <2>1, NewStampIsFree DEF IInv, TodoIsDue
  <2>. QED
    BY <1>0, <1>8, <2>1, <2>3, <2>4, OperationEnds DEF Resume, IInv, TypeOK, history
<1>9. CASE Delete(c)
  <2> DEFINE r == [copy[c] EXCEPT !.status = "dismissed", !.enabled = FALSE, !.next = None]
  <2>2. r \in Row /\ Runnable(r) /\ tid[c] \in Task
    BY <1>0, <1>4, <1>9 DEF Delete, Row, Status, Runnable, Op
  <2>3. row' \in [Task -> Row] /\ \A t \in Task : Runnable(row'[t])
    BY <1>0, <1>9, <2>2, UpdateEffect DEF Delete
  <2>. QED
    BY <1>0, <1>9, <2>3, OperationEnds DEF Delete, IInv, TypeOK, TodoIsDue, history
<1>10. CASE RunPaused(c)
  <2> DEFINE r == [copy[c] EXCEPT !.status = "active", !.enabled = TRUE]
  <2>1. /\ Update(c, r) /\ copy' = [copy EXCEPT ![c] = r]
        /\ pc[c] = "run_paused" /\ pc' = [pc EXCEPT ![c] = "dispatch"]
        /\ UNCHANGED <<due, stale, tid, tok, todo, age, old, history>>
    BY <1>10 DEF RunPaused, Go
  <2>b. pc[c] \in Op /\ copy[c].status = "paused"
    BY <1>4, <2>1 DEF Op, Expected
  <2>2. r \in Row /\ Runnable(r) /\ tid[c] \in Task
    BY <1>4, <2>b DEF Row, Status, Runnable
  <2>. HIDE DEF r
  <2>3. row' \in [Task -> Row] /\ \A t \in Task : Runnable(row'[t])
    BY <1>0, <2>1, <2>2, UpdateEffect
  <2>4. TypeOK'
    BY <1>0, <2>1, <2>2, <2>3 DEF IInv, TypeOK, Step, history
  <2>. QED
    BY <1>0, <2>1, <2>2, <2>3, <2>4 DEF IInv, TypeOK, Placed, CopyFits, TodoIsDue, Op
<1>11. CASE RunEarly(c)
  <2>1. PICK n \in Stamp : /\ due' = due \cup {n}
                           /\ Update(c, [copy[c] EXCEPT !.enabled = TRUE, !.next = n])
    BY <1>11 DEF RunEarly
  <2> DEFINE r == [copy[c] EXCEPT !.enabled = TRUE, !.next = n]
  <2>2. /\ pc[c] = "run_early" /\ pc' = [pc EXCEPT ![c] = "reload"]
        /\ UNCHANGED <<stale, tid, copy, tok, todo, age, old, history>>
    BY <1>11 DEF RunEarly, Go
  <2>3. r \in Row /\ Runnable(r) /\ tid[c] \in Task
    BY <1>0, <1>4, <2>2 DEF Row, Status, Runnable, Op
  <2>. HIDE DEF r
  <2>4. row' \in [Task -> Row] /\ \A t \in Task : Runnable(row'[t])
    BY <1>0, <2>1, <2>3, UpdateEffect DEF r
  <2>5. TypeOK'
    BY <1>0, <2>1, <2>2, <2>4 DEF IInv, TypeOK, Step, history
  <2>. QED
    BY <1>0, <2>1, <2>2, <2>3, <2>4, <2>5
       DEF IInv, TypeOK, Placed, CopyFits, TodoIsDue, Op
<1>12. CASE Reload(c)
  <2>1. /\ pc[c] = "reload" /\ pc' = [pc EXCEPT ![c] = "dispatch"]
        /\ copy' = [copy EXCEPT ![c] = row[tid[c]]]
        /\ UNCHANGED <<row, due, stale, tid, tok, todo, age, old, history>>
    BY <1>12 DEF Reload, Go
  <2>2. tid[c] \in Task
    BY <1>0, <2>1 DEF IInv, Placed
  <2>3. TypeOK'
    BY <1>0, <2>1, <2>2 DEF IInv, TypeOK, Step, history
  <2>. QED
    BY <1>0, <2>1, <2>2, <2>3 DEF IInv, TypeOK, Placed, CopyFits, TodoIsDue, Op
<1>13. CASE DispatchNow(c)
  <2>1. tid[c] \in Task /\ pc[c] = "dispatch" /\ UNCHANGED <<due, todo, age, abandoned, ran>>
    BY <1>0, <1>13 DEF DispatchNow, IInv, Placed
  <2>2. CASE Claim(c, tid[c])
    BY <1>0, <2>1, <2>2, ClaimKeeps DEF IInv, TypeOK
  <2>3. CASE End(c, "idle") /\ UNCHANGED <<row, stale, old, outlived>>
    BY <1>0, <2>1, <2>3, OperationEnds DEF IInv, TypeOK, TodoIsDue
  <2>. QED
    BY <1>13, <2>2, <2>3 DEF DispatchNow
<1>. QED
  BY <1>1, <1>2, <1>3, <1>5, <1>6, <1>7, <1>8, <1>9, <1>10, <1>11, <1>12, <1>13
     DEF Operate, Finish

-----------------------------------------------------------------------------
(* The poll loop, the end of a run, and time *)

LEMMA PollStep ==
    ASSUME IInv, NEW p \in Poller, Poll(p)
    PROVE  IInv'
<1>0. p \in Actor
  BY DEF Actor
<1>1. CASE Tick(p)
  <2>1. PICK D \in SUBSET {t \in Task : row[t].status = "pending"} :
          row' = [t \in Task |-> IF t \in D
                                 THEN [row[t] EXCEPT !.status = "dismissed", !.key = None]
                                 ELSE row[t]]
    BY <1>1 DEF Tick
  <2>2. row' \in [Task -> Row] /\ \A t \in Task : Runnable(row'[t])
    <3>1. ASSUME NEW r \in Row
          PROVE  LET d == [r EXCEPT !.status = "dismissed", !.key = None]
                 IN  d \in Row /\ Runnable(d)
      BY DEF Row, Status, Runnable
    <3>2. \A t \in Task : row[t] \in Row /\ Runnable(row[t])
      BY DEF IInv, TypeOK
    <3>. QED
      BY <2>1, <3>1, <3>2
  <2>3. pc' = [pc EXCEPT ![p] = "list"] /\ pc[p] = "idle"
        /\ UNCHANGED <<due, stale, tid, copy, tok, todo, age, old, history>>
    BY <1>1 DEF Tick, Go
  <2>4. TypeOK'
    BY <1>0, <2>2, <2>3 DEF IInv, TypeOK, Step, history
  <2>. QED
    BY <1>0, <2>2, <2>3, <2>4 DEF IInv, TypeOK, Placed, CopyFits, TodoIsDue, Op
<1>2. CASE ListDue(p)
  <2> DEFINE S == {e \in Task \X due : Claimable(e[1], e[2], stale)}
             O == (stale \cap {row[t].claim : t \in Task})
                  \cup {q \in Poller \ {p} : age[q] = "stale"}
  <2>1. /\ pc' = [pc EXCEPT ![p] = "tick"] /\ pc[p] = "list"
        /\ todo' = [todo EXCEPT ![p] = S] /\ NewTime(p, O)
        /\ UNCHANGED <<row, due, stale, tid, copy, tok, history>>
    BY <1>2 DEF ListDue, Go
  <2>2. /\ S \in SUBSET (Task \X Stamp) /\ O \in SUBSET (Token \cup Poller)
        /\ \A e \in S : e[2] \in due
    BY DEF IInv, TypeOK
  <2>. HIDE DEF S, O
  <2>n. /\ age' \in [Poller -> {"new", "stale"}]
        /\ old' \in [Actor -> SUBSET (Token \cup Poller)]
    BY <2>1, <2>2 DEF IInv, TypeOK, NewTime
  <2>3. TypeOK'
    BY <1>0, <2>1, <2>2, <2>n DEF IInv, TypeOK, Step, history
  <2>. QED
    BY <1>0, <2>1, <2>2, <2>3 DEF IInv, TypeOK, Placed, CopyFits, TodoIsDue, Op
<1>3. CASE EndTick(p)
  <2>1. /\ pc' = [pc EXCEPT ![p] = "idle"] /\ pc[p] = "tick"
        /\ NewTime(p, {})
        /\ UNCHANGED <<row, due, stale, tid, copy, tok, todo, history>>
    BY <1>3 DEF EndTick, Go
  <2>n. /\ age' \in [Poller -> {"new", "stale"}]
        /\ old' \in [Actor -> SUBSET (Token \cup Poller)]
    BY <2>1 DEF IInv, TypeOK, NewTime
  <2>2. TypeOK'
    BY <1>0, <2>1, <2>n DEF IInv, TypeOK, Step, history
  <2>. QED
    BY <1>0, <2>1, <2>2 DEF IInv, TypeOK, Placed, CopyFits, TodoIsDue, Op
<1>4. ASSUME NEW e \in todo[p], Dispatch(p, e)  PROVE IInv'
  <2>1. e[1] \in Task
    BY <1>0 DEF IInv, TypeOK
  <2>2. /\ todo' \in [Actor -> SUBSET (Task \X Stamp)]
        /\ \A b \in Actor : todo'[b] \subseteq todo[b]
        /\ UNCHANGED <<due, age, abandoned, ran>>
    BY <1>0, <1>4 DEF Dispatch, IInv, TypeOK
  <2>3. CASE Claim(p, e[1])
    BY <1>0, <2>1, <2>2, <2>3, ClaimKeeps
  <2>4. CASE UNCHANGED <<row, stale, pc, tid, copy, tok, old, outlived>>
    <3>1. TypeOK'
      BY <2>2, <2>4 DEF IInv, TypeOK
    <3>. QED
      BY <2>2, <2>4, <3>1 DEF IInv, Placed, CopyFits, TodoIsDue
  <2>. QED
    BY <1>4, <2>3, <2>4 DEF Dispatch
<1>. QED
  BY <1>1, <1>2, <1>3, <1>4 DEF Poll

LEMMA RunStep ==
    ASSUME IInv, NEW a \in Actor, Return(a) \/ Abandon(a)
    PROVE  IInv'
<1>0. /\ After(a) \in {"idle", "tick"}
  BY DEF After, IInv, TypeOK
<1>1. ASSUME NEW ok \in BOOLEAN, Complete(a, ok)  PROVE IInv'
  <2> DEFINE t == tid[a]
  <2>1. t \in Task
    BY <1>1 DEF Complete, IInv, Placed
  <2>2. PICK n \in Stamp :
           /\ IsNewStamp(n) /\ due' = due \ {n}
           /\ row' = IF row[t].claim = tok[a]
                     THEN [row EXCEPT ![t] = Completed(row[t], n, ok)] ELSE row
    BY <1>1 DEF Complete
  <2>3. row[t] \in Row /\ Runnable(row[t]) /\ n # None
    BY <2>1, SchedulerAssumption DEF IInv, TypeOK, Stamp
  <2>4. Completed(row[t], n, ok) \in Row /\ Runnable(Completed(row[t], n, ok))
    BY <2>3 DEF Completed, Row, Status, Runnable
  <2>5. row' \in [Task -> Row] /\ \A u \in Task : Runnable(row'[u])
    BY <2>1, <2>2, <2>4 DEF IInv, TypeOK
  <2>6. ran' \in [Task -> 0..2]
    BY <1>1, <2>1 DEF Complete, IInv, TypeOK
  <2>7. /\ End(a, After(a))
        /\ UNCHANGED <<stale, todo, age, old, abandoned, outlived>>
    BY <1>1 DEF Complete
  <2>. QED
    BY <1>0, <2>2, <2>5, <2>6, <2>7, NewStampIsFree, OperationEnds DEF IInv, TypeOK
<1>2. CASE Abandon(a)
  <2>1. /\ pc' = [pc EXCEPT ![a] = After(a)] /\ tid' = [tid EXCEPT ![a] = None]
        /\ copy' = [copy EXCEPT ![a] = Absent] /\ tok' = [tok EXCEPT ![a] = None]
        /\ abandoned' \in 0..MaxAbandon
        /\ UNCHANGED <<row, due, stale, age, old, ran, outlived>>
    BY <1>2, SchedulerAssumption DEF Abandon, End, Go, IInv, TypeOK
  <2>2. /\ todo' \in [Actor -> SUBSET (Task \X Stamp)]
        /\ \A b \in Actor : todo'[b] \subseteq todo[b]
    BY <1>2 DEF Abandon, IInv, TypeOK
  <2>3. Absent \in Row /\ Runnable(Absent)
    BY DEF Absent, Row, Status, Runnable
  <2>4. TypeOK'
    BY <1>0, <2>1, <2>2, <2>3 DEF IInv, TypeOK, Step
  <2>. QED
    BY <1>0, <2>1, <2>2, <2>3, <2>4 DEF IInv, TypeOK, Placed, CopyFits, TodoIsDue, Op
<1>. QED
  BY <1>1, <1>2 DEF Return

LEMMA TimeStep ==
    ASSUME IInv, \/ \E n \in Stamp : BecomeDue(n)
                 \/ \E k \in Token : GoStale(k)
                 \/ \E p \in Poller : TickAges(p)
    PROVE  IInv'
<1>1. ASSUME NEW n \in Stamp, BecomeDue(n)  PROVE IInv'
  BY <1>1 DEF IInv, TypeOK, Placed, CopyFits, TodoIsDue, BecomeDue, local, history
<1>2. ASSUME NEW k \in Token, GoStale(k)  PROVE IInv'
  <2>1. \A a \in Actor : tok[a] = k => tid[a] \in Task
    BY <1>2, SchedulerAssumption DEF IInv, TypeOK, Placed, Token
  <2>2. outlived' \subseteq Task
    BY <1>2, <2>1 DEF GoStale, IInv, TypeOK
  <2>. QED
    BY <1>2, <2>2 DEF IInv, TypeOK, Placed, CopyFits, TodoIsDue, GoStale, local
<1>3. ASSUME NEW p \in Poller, TickAges(p)  PROVE IInv'
  <2>1. p \in Actor
    BY DEF Actor
  <2>2. /\ stale' \subseteq Token /\ outlived' \subseteq Task
        /\ age' \in [Poller -> {"new", "stale"}]
    BY <1>3, <2>1 DEF TickAges, IInv, TypeOK
  <2>. QED
    BY <1>3, <2>2 DEF IInv, TypeOK, Placed, CopyFits, TodoIsDue, TickAges
<1>. QED
  BY <1>1, <1>2, <1>3

-----------------------------------------------------------------------------
(* Theorems *)

LEMMA Inductive == IInv /\ [Next]_vars => IInv'
<1>1. ASSUME IInv, UNCHANGED vars  PROVE IInv'
  BY <1>1 DEF vars, local, history, IInv, TypeOK, Placed, CopyFits, TodoIsDue
<1>. QED
  BY <1>1, PollStep, OperateStep, RunStep, TimeStep DEF Next

LEMMA Initially == Init => IInv
<1> SUFFICES ASSUME Init  PROVE IInv
  OBVIOUS
<1>1. Absent \in Row /\ Runnable(Absent)
  BY DEF Absent, Row, Status, Runnable
<1>2. TypeOK
  BY <1>1, SchedulerAssumption DEF Init, TypeOK, Step
<1>. QED
  BY <1>1, <1>2 DEF Init, IInv, Placed, CopyFits, TodoIsDue, Op

\* Every reachable state satisfies the inductive invariant.
THEOREM Invariance == Spec => []IInv
BY Initially, Inductive, PTL DEF Spec

\* The types of the table and of the locals of every poller and operation.
THEOREM TypeCorrect == Spec => []TypeOK
<1>1. IInv => TypeOK
  BY DEF IInv
<1>. QED
  BY <1>1, Invariance, PTL

\* An active task is enabled and has a next run, whatever stale copies of the
\* row pause(), resume(), delete() and run_now() write, and whatever crashes.
THEOREM ActiveIsRunnable == Spec => []ActiveHasNextRun
<1>1. IInv => ActiveHasNextRun
  BY DEF IInv, Runnable, ActiveHasNextRun
<1>. QED
  BY <1>1, Invariance, PTL

\* The poll loop starts only runs that are due when they start: claim_task()
\* compares the next_run_at of its list with that of the row.
THEOREM PollIsTimely == Spec => PollRunsWhatIsDue
<1>1. IInv /\ [Next]_vars
      => [\A p \in Poller : pc[p] # "running" /\ pc'[p] = "running"
                            => row[tid'[p]].next \in due]_vars
  <2> SUFFICES ASSUME IInv, Next, NEW p \in Poller, pc[p] # "running", pc'[p] = "running"
               PROVE  row[tid'[p]].next \in due
    OBVIOUS
  <2>0. /\ p \in Actor /\ p \notin Client /\ pc \in [Actor -> Step \cup Op]
        /\ tid \in [Actor -> Task \cup {None}]
        /\ \A c \in Client : c \in Actor /\ c # p
    BY SchedulerAssumption, OpIsExpected DEF Actor, IInv, TypeOK
  <2>1. ASSUME NEW a \in Actor, NEW q, pc' = [pc EXCEPT ![a] = q]
        PROVE  a = p /\ q = "running"
    BY <2>0, <2>1
  <2>2. ASSUME NEW c \in Client  PROVE ~ Operate(c)
    <3>1. ~ \E a \in Actor \ {p} : \E q : pc' = [pc EXCEPT ![a] = q]
      BY <2>1
    <3>2. c \in Actor \ {p} /\ pc' # pc
      BY <2>0, <2>2
    <3>. QED
      BY <3>1, <3>2 DEF Operate, Finish, Propose, Insert, Begin, Accept, Dismiss, Pause,
             Resume, Delete, RunPaused, RunEarly, Reload, DispatchNow, Claim, End, Go
  <2>3. ASSUME NEW a \in Actor  PROVE ~ (Return(a) \/ Abandon(a))
    BY <2>1 DEF Return, Complete, Abandon, End, Go, After
  <2>4. ~ (Tick(p) \/ ListDue(p) \/ EndTick(p))
    BY <2>0, <2>1 DEF Tick, ListDue, EndTick, Go
  <2>5. pc' # pc
    OBVIOUS
  <2>6. \E e \in todo[p] : Dispatch(p, e)
    <3>1. PICK r \in Poller : Poll(r)
      BY <2>2, <2>3, <2>5 DEF Next, BecomeDue, GoStale, TickAges, local
    <3>2. r \in Actor
      BY DEF Actor
    <3>3. r = p
      BY <2>1, <2>5, <3>1, <3>2 DEF Poll, Tick, ListDue, EndTick, Dispatch, Claim, Go
    <3>. QED
      BY <2>4, <3>1, <3>3 DEF Poll
  <2>7. PICK e \in todo[p] : Dispatch(p, e)
    BY <2>6
  <2>8. Claimable(e[1], e[2], old[p]) /\ Claim(p, e[1])
    BY <2>5, <2>7 DEF Dispatch
  <2>9. tid'[p] = e[1] /\ row[e[1]].next = e[2]
    BY <2>0, <2>8 DEF Claim, Claimable
  <2>10. e[2] \in due
    BY <2>0 DEF IInv, TodoIsDue
  <2>. QED
    BY <2>9, <2>10
<1>. QED
  BY <1>1, Invariance, PTL DEF Spec, PollRunsWhatIsDue

-----------------------------------------------------------------------------
(* Where no operation activates a task unguarded *)

Forced == {"run_paused", "run_early"}

\* What operations are under way are among those that clients perform.
OnlyOps == \A a \in Actor : pc[a] \in Op => pc[a] \in Ops

LEMMA OnlyOpsInductive == IInv /\ OnlyOps /\ [Next]_vars => OnlyOps'
<1> SUFFICES ASSUME IInv, OnlyOps, [Next]_vars  PROVE OnlyOps'
  OBVIOUS
<1>0. pc \in [Actor -> Step \cup Op] /\ Step \cap Op = {}
  BY OpIsExpected DEF IInv, TypeOK, Step, Op
<1>1. CASE UNCHANGED pc
  BY <1>1 DEF OnlyOps
<1>2. ASSUME NEW a \in Actor, NEW q, pc' = [pc EXCEPT ![a] = q], q \in Step \cup Ops
      PROVE  OnlyOps'
  BY <1>0, <1>2 DEF OnlyOps
<1>3. ASSUME NEW c \in Client, Operate(c)  PROVE OnlyOps'
  <2>1. c \in Actor
    BY DEF Actor
  <2>2. \E q \in Step \cup Ops : pc' = [pc EXCEPT ![c] = q]
    BY <1>3 DEF Operate, Finish, Propose, Insert, Begin, Accept, Dismiss, Pause, Resume,
       Delete, RunPaused, RunEarly, Reload, DispatchNow, Claim, End, Go, Step
  <2>. QED
    BY <1>2, <2>1, <2>2
<1>4. ASSUME NEW p \in Poller, Poll(p)  PROVE OnlyOps'
  <2>1. p \in Actor
    BY DEF Actor
  <2>2. pc' = pc \/ \E q \in Step : pc' = [pc EXCEPT ![p] = q]
    BY <1>4 DEF Poll, Tick, ListDue, EndTick, Dispatch, Claim, Go, Step
  <2>. QED
    BY <1>1, <1>2, <2>1, <2>2
<1>5. ASSUME NEW a \in Actor, Return(a) \/ Abandon(a)  PROVE OnlyOps'
  <2>1. \E q \in Step : pc' = [pc EXCEPT ![a] = q]
    BY <1>5 DEF Return, Complete, Abandon, End, Go, After, Step
  <2>. QED
    BY <1>2, <2>1
<1>. QED
  BY <1>1, <1>3, <1>4, <1>5 DEF Next, BecomeDue, GoStale, TickAges, local, vars

\* What a step does to the row of a task: a stopped task stays stopped unless a
\* forced run is under way.
LEMMA StoppedStep ==
    ASSUME IInv, OnlyOps, Ops \cap Forced = {}, [Next]_vars,
           NEW t \in Task, row[t].status \in {"dismissed", "done"}
    PROVE  row'[t].status # "active"
<1>0. row \in [Task -> Row] /\ \A a \in Actor : pc[a] \in Forced => FALSE
  BY DEF IInv, TypeOK, OnlyOps, Forced, Op
<1>1. CASE row' = row
  BY <1>1
<1>2. ASSUME NEW u \in Task, NEW r \in Row, row' = [row EXCEPT ![u] = r],
             r.status = "active" => row[u].status \notin {"dismissed", "done"}
      PROVE  row'[t].status # "active"
  BY <1>0, <1>2
<1>3. ASSUME NEW a \in Actor, NEW u \in Task, Claim(a, u)
      PROVE  row'[t].status # "active"
  BY <1>0, <1>3 DEF Claim, Row
<1>4. ASSUME NEW c \in Client, Operate(c)  PROVE row'[t].status # "active"
  <2>1. c \in Actor
    BY DEF Actor
  <2>2. ~ RunPaused(c) /\ ~ RunEarly(c)
    BY <1>0, <2>1 DEF RunPaused, RunEarly, Forced
  <2>3. ASSUME pc[c] \in Op
        PROVE  /\ copy[c] \in Row /\ tid[c] \in Task
               /\ copy[c].status \in Expected[pc[c]]
    BY <2>1, <2>3 DEF IInv, TypeOK, Placed, CopyFits
  <2>4. ASSUME NEW v \in Task, Insert(c, v)  PROVE row'[t].status # "active"
    BY <1>0, <2>4 DEF Insert
  <2>5. CASE Accept(c)
    BY <1>0, <2>5 DEF Accept, UpdateGuarded, Expected
  <2>6. CASE Resume(c)
    BY <1>0, <2>6 DEF Resume, UpdateGuarded, Expected
  <2>7. CASE Dismiss(c) \/ Pause(c)
    <3>1. pc[c] \in Op
      BY <2>7 DEF Dismiss, Pause, Op
    <3>2. PICK r : UpdateGuarded(c, r) /\ r.status # "active"
      <4> DEFINE d == [copy[c] EXCEPT !.status = "dismissed", !.enabled = FALSE,
                                      !.next = None]
                 q == [copy[c] EXCEPT !.status = "paused", !.enabled = FALSE]
      <4>1. d.status # "active" /\ q.status # "active"
        BY <2>3, <3>1 DEF Row
      <4>2. UpdateGuarded(c, d) \/ UpdateGuarded(c, q)
        BY <2>7 DEF Dismiss, Pause
      <4>. HIDE DEF d, q
      <4>. QED
        BY <4>1, <4>2
    <3>3. row' = row \/ row' = [row EXCEPT ![tid[c]] = r]
      BY <3>2 DEF UpdateGuarded
    <3>. QED
      BY <1>0, <2>3, <3>1, <3>2, <3>3
  <2>8. CASE Delete(c)
    <3>1. pc[c] \in Op
      BY <2>8 DEF Delete, Op
    <3>. QED
      BY <1>0, <2>3, <2>8, <3>1 DEF Delete, Update, Row
  <2>9. CASE DispatchNow(c)
    <3>1. tid[c] \in Task
      BY <2>1, <2>9 DEF DispatchNow, IInv, Placed
    <3>. QED
      BY <1>1, <1>3, <2>1, <2>9, <3>1 DEF DispatchNow
  <2>. QED
    BY <1>1, <1>4, <2>2, <2>4, <2>5, <2>6, <2>7, <2>8, <2>9
       DEF Operate, Finish, Propose, Begin, Reload
<1>5. ASSUME NEW p \in Poller, Poll(p)  PROVE row'[t].status # "active"
  <2>1. CASE Tick(p)
    BY <1>0, <2>1 DEF Tick
  <2>2. ASSUME NEW e \in todo[p], Dispatch(p, e)  PROVE row'[t].status # "active"
    <3>1. e[1] \in Task /\ p \in Actor
      BY DEF IInv, TypeOK, Actor
    <3>. QED
      BY <1>1, <1>3, <2>2, <3>1 DEF Dispatch
  <2>. QED
    BY <1>1, <1>5, <2>1, <2>2 DEF Poll, ListDue, EndTick
<1>6. ASSUME NEW a \in Actor, Return(a)  PROVE row'[t].status # "active"
  <2>1. PICK ok \in BOOLEAN, n \in Stamp :
           row' = IF row[tid[a]].claim = tok[a]
                  THEN [row EXCEPT ![tid[a]] = Completed(row[tid[a]], n, ok)] ELSE row
    BY <1>6 DEF Return, Complete
  <2>2. Completed(row[t], n, ok).status # "active"
    BY <1>0 DEF Completed, Row
  <2>. QED
    BY <1>0, <2>1, <2>2
<1>7. CASE UNCHANGED row
  BY <1>7
<1>. QED
  BY <1>4, <1>5, <1>6, <1>7 DEF Next, Abandon, BecomeDue, GoStale, TickAges, vars

\* Without run_now() of a task that is paused or not due, a task that was
\* dismissed, deleted or done is never active again: the stale copies of pause(),
\* resume() and accept() are written under a guard, and a completion changes the
\* status of active rows only.
THEOREM GuardsKeepStopped ==
    ASSUME Ops \cap Forced = {}
    PROVE  Spec => StoppedStaysStopped
<1>1. Init => OnlyOps
  BY DEF Init, OnlyOps, Op
<1>2. IInv /\ OnlyOps /\ [Next]_vars
      => [\A t \in Task : row[t].status \in {"dismissed", "done"}
                         => row'[t].status # "active"]_vars
  BY StoppedStep
<1>. QED
  BY <1>1, <1>2, Invariance, OnlyOpsInductive, PTL DEF Spec, StoppedStaysStopped

-----------------------------------------------------------------------------
(* Claims are exclusive *)

Unguarded == {"resume", "run_paused", "run_early"}

\* A run is of a task that was accepted; unless it outlived its claim, it owns the
\* claim in the row while the task is active, and nobody takes this claim for stale.
Owned ==
    \A a \in Actor : pc[a] = "running" =>
        /\ row[tid[a]].status \notin {"absent", "pending"}
        /\ tid[a] \notin outlived =>
              /\ row[tid[a]].status = "active" => row[tid[a]].claim = tok[a]
              /\ tok[a] \notin stale
              /\ \A b \in Actor : tok[a] \notin old[b]

OneRun ==
    \A a, b \in Actor : /\ pc[a] = "running" /\ pc[b] = "running"
                        /\ \/ tid[a] = tid[b] /\ tid[a] \notin outlived
                           \/ tok[a] = tok[b]
                        => a = b

\* A tick that was stale at the time of another is stale.
OldIsStale == \A p \in Poller, b \in Actor : p \in old[b] => age[p] = "stale"

OInv == IInv /\ OnlyOps /\ Owned /\ OneRun /\ OldIsStale

LEMMA OldIsStaleInductive == IInv /\ OldIsStale /\ [Next]_vars => OldIsStale'
<1> SUFFICES ASSUME IInv, OldIsStale, [Next]_vars  PROVE OldIsStale'
  OBVIOUS
<1>0. /\ age \in [Poller -> {"new", "stale"}]
      /\ old \in [Actor -> SUBSET (Token \cup Poller)]
      /\ stale \subseteq Token /\ Token \cap Poller = {} /\ Poller \subseteq Actor
  BY SchedulerAssumption DEF IInv, TypeOK, Token, Actor
<1>1. CASE UNCHANGED <<age, old>>
  BY <1>1 DEF OldIsStale
<1>2. ASSUME NEW p \in Poller, NEW S, NewTime(p, S),
             S \cap Poller \subseteq {q \in Poller \ {p} : age[q] = "stale"}
      PROVE  OldIsStale'
  BY <1>0, <1>2 DEF NewTime, OldIsStale
<1>3. ASSUME NEW a \in Actor, NEW t, Claim(a, t), UNCHANGED age  PROVE OldIsStale'
  BY <1>0, <1>3 DEF Claim, OldIsStale
<1>5. ASSUME NEW p \in Poller, TickAges(p)  PROVE OldIsStale'
  BY <1>0, <1>5 DEF TickAges, OldIsStale
<1>6. ASSUME NEW p \in Poller, Poll(p)  PROVE OldIsStale'
  <2>0. p \in Actor
    BY <1>0
  <2>1. CASE ListDue(p)
    <3> DEFINE O == (stale \cap {row[t].claim : t \in Task})
                    \cup {q \in Poller \ {p} : age[q] = "stale"}
    <3>1. NewTime(p, O) /\ O \cap Poller \subseteq {q \in Poller \ {p} : age[q] = "stale"}
      BY <1>0, <2>1 DEF ListDue
    <3> HIDE DEF O
    <3>. QED BY <1>2, <3>1
  <2>2. CASE EndTick(p)
    BY <1>2, <2>2 DEF EndTick
  <2>3. CASE Tick(p)
    BY <1>1, <2>3 DEF Tick
  <2>4. ASSUME NEW e \in todo[p], Dispatch(p, e)  PROVE OldIsStale'
    BY <1>1, <1>3, <2>0, <2>4 DEF Dispatch
  <2>. QED BY <1>6, <2>1, <2>2, <2>3, <2>4 DEF Poll
<1>7. ASSUME NEW c \in Client, Operate(c)  PROVE OldIsStale'
  <2>1. c \in Actor
    BY DEF Actor
  <2>2. CASE DispatchNow(c)
    BY <1>1, <1>3, <2>1, <2>2 DEF DispatchNow
  <2>. QED
    BY <1>1, <1>7, <2>2 DEF Operate, Finish, Propose, Insert, Begin, Accept, Dismiss,
       Pause, Resume, Delete, RunPaused, RunEarly, Reload
<1>8. ASSUME NEW a \in Actor, Return(a) \/ Abandon(a)  PROVE OldIsStale'
  BY <1>1, <1>8 DEF Return, Complete, Abandon
<1>9. CASE UNCHANGED vars \/ (\E n \in Stamp : BecomeDue(n)) \/ (\E k \in Token : GoStale(k))
  BY <1>1, <1>9 DEF vars, local, BecomeDue, GoStale
<1>. QED
  BY <1>5, <1>6, <1>7, <1>8, <1>9 DEF Next

\* A step that starts no run, makes stale no claim that a run keeps, lets no row
\* become active, absent or pending, and changes no claim of an active row.
LEMMA OwnedKept ==
    ASSUME OInv, IInv',
           \A a \in Actor : pc'[a] = "running" =>
               pc[a] = "running" /\ tid'[a] = tid[a] /\ tok'[a] = tok[a],
           outlived \subseteq outlived',
           \A a \in Actor : pc[a] = "running" /\ tok[a] \in stale'
                            => tok[a] \in stale \/ tid[a] \in outlived',
           \A a, b \in Actor : pc[a] = "running" /\ tok[a] \in old'[b]
                               => tok[a] \in stale \cup old[b],
           \A t \in Task : row[t].status \notin {"absent", "pending"} =>
               /\ row'[t].status \notin {"absent", "pending"}
               /\ row'[t].status = "active" =>
                     row[t].status = "active"
                     /\ \/ row'[t].claim = row[t].claim
                        \/ t \in outlived
                        \/ \A a \in Actor : pc'[a] = "running" => tid[a] # t
    PROVE  Owned' /\ OneRun'
<1>1. \A a \in Actor : pc[a] = "running" => tid[a] \in Task
  BY DEF OInv, IInv, Placed
<1>2. Owned'
  BY <1>1 DEF OInv, Owned
<1>3. OneRun'
  BY DEF OInv, OneRun
<1>. QED
  BY <1>2, <1>3

\* A claim is of an active row that is free, so nobody runs the task.
LEMMA ClaimIsOwned ==
    ASSUME OInv, NEW a \in Actor, NEW t \in Task, NEW S, Claim(a, t),
           row[t].status = "active", Free(row[t], S),
           S = stale \/ \E b \in Actor : S = old[b]
    PROVE  Owned' /\ OneRun'
<1>0. /\ row \in [Task -> Row] /\ pc \in [Actor -> Step \cup Op]
      /\ tid \in [Actor -> Task \cup {None}] /\ tok \in [Actor -> Token \cup {None}]
      /\ \A b \in Actor : pc[b] = "running" => tid[b] \in Task /\ tok[b] # None
  BY OpIsExpected DEF OInv, IInv, TypeOK, Placed
<1>1. PICK k \in Token :
         /\ IsNewToken(k)
         /\ row' = [row EXCEPT ![t] = [@ EXCEPT !.claim = k]]
         /\ tok' = [tok EXCEPT ![a] = k]
         /\ stale' = IF IsLate(a) THEN stale \cup {k} ELSE stale \ {k}
         /\ old' = [b \in Actor |-> IF a \in old[b] THEN old[b] \cup {k} ELSE old[b]]
         /\ outlived' = IF IsLate(a) THEN outlived \cup {t} ELSE outlived
         /\ pc' = [pc EXCEPT ![a] = "running"] /\ tid' = [tid EXCEPT ![a] = t]
  BY DEF Claim, Go
<1>2. /\ \A b \in Actor : k # tok[b] /\ k \notin old[b]
      /\ \A u \in Task : k # row[u].claim
  BY <1>1 DEF IsNewToken, TokensInUse
<1>3. t \notin outlived => \A b \in Actor : pc[b] = "running" => tid[b] # t
  BY <1>0 DEF OInv, Owned, Free
<1>o. ~ IsLate(a) => \A b \in Actor : a \notin old[b]
  <2>1. a \notin Token /\ \A b \in Actor : old[b] \subseteq Token \cup Poller
    BY SchedulerAssumption DEF Token, OInv, IInv, TypeOK
  <2>. QED
    BY <2>1 DEF IsLate, OInv, OldIsStale
<1>4. row'[t].status = "active" /\ row'[t].claim = k
      /\ \A u \in Task : u # t => row'[u] = row[u]
  BY <1>0, <1>1 DEF Row
<1>5. Owned'
  <2> SUFFICES ASSUME NEW b \in Actor, pc'[b] = "running"
               PROVE  /\ row'[tid'[b]].status \notin {"absent", "pending"}
                      /\ tid'[b] \notin outlived' =>
                            /\ row'[tid'[b]].status = "active" => row'[tid'[b]].claim = tok'[b]
                            /\ tok'[b] \notin stale'
                            /\ \A c \in Actor : tok'[b] \notin old'[c]
    BY DEF Owned
  <2>1. CASE b = a
    BY <1>0, <1>1, <1>2, <1>4, <1>o, <2>1
  <2>2. CASE b # a
    <3>1. pc[b] = "running" /\ tid'[b] = tid[b] /\ tok'[b] = tok[b] /\ tid[b] \in Task
      BY <1>0, <1>1, <2>2
    <3>2. /\ row[tid[b]].status \notin {"absent", "pending"}
          /\ row'[tid[b]].status = row[tid[b]].status
      BY <1>4, <3>1 DEF OInv, Owned
    <3>3. ASSUME tid[b] \notin outlived'
          PROVE  /\ row'[tid[b]].status = "active" => row'[tid[b]].claim = tok[b]
                 /\ tok[b] \notin stale'
                 /\ \A c \in Actor : tok[b] \notin old'[c]
      <4>1. tid[b] \notin outlived
        BY <1>1, <3>3
      <4>2. /\ row[tid[b]].status = "active" => row[tid[b]].claim = tok[b]
            /\ tok[b] \notin stale
            /\ \A c \in Actor : tok[b] \notin old[c]
        BY <3>1, <4>1 DEF OInv, Owned
      <4>3. row'[tid[b]] = row[tid[b]]
        BY <1>3, <1>4, <3>1, <4>1
      <4>. QED
        BY <1>1, <1>2, <4>2, <4>3
    <3>. QED
      BY <3>1, <3>2, <3>3
  <2>. QED
    BY <2>1, <2>2
<1>6. OneRun'
  BY <1>0, <1>1, <1>2, <1>3 DEF OInv, OneRun
<1>. QED
  BY <1>5, <1>6

LEMMA OwnedStep ==
    ASSUME OInv, IInv', Ops \cap Unguarded = {}, [Next]_vars
    PROVE  Owned' /\ OneRun'
<1>0. /\ row \in [Task -> Row] /\ pc \in [Actor -> Step \cup Op] /\ IInv
      /\ tid \in [Actor -> Task \cup {None}] /\ tok \in [Actor -> Token \cup {None}]
      /\ \A a \in Actor : pc[a] = "running" => tid[a] \in Task
      /\ \A a \in Actor : pc[a] \in Unguarded => FALSE
      /\ \A c \in Client : c \in Actor
      /\ \A p \in Poller : p \in Actor
  BY OpIsExpected DEF OInv, IInv, TypeOK, Placed, OnlyOps, Unguarded, Op, Actor
  \* Steps that write no row.
<1>1. ASSUME row' = row, UNCHANGED <<stale, old, outlived>>,
             \A a \in Actor : pc'[a] = "running" =>
                 pc[a] = "running" /\ tid'[a] = tid[a] /\ tok'[a] = tok[a]
      PROVE  Owned' /\ OneRun'
  BY <1>1, OwnedKept
  \* Steps of an actor that is not running and does not start to run, and write
  \* one row: a stopped one, or one that was pending.
<1>2. ASSUME NEW a \in Actor, NEW t \in Task, NEW r, UNCHANGED <<stale, old, outlived>>,
             pc[a] # "running", pc'[a] # "running",
             \A b \in Actor : b # a => pc'[b] = pc[b] /\ tid'[b] = tid[b] /\ tok'[b] = tok[b],
             row' = [row EXCEPT ![t] = r],
             \/ r.status \in {"dismissed", "paused"}
             \/ row[t].status \in {"absent", "pending"}
      PROVE  Owned' /\ OneRun'
  <2>1. \A b \in Actor : pc'[b] = "running" =>
            pc[b] = "running" /\ tid'[b] = tid[b] /\ tok'[b] = tok[b]
    BY <1>2
  <2>2. \A u \in Task : row[u].status \notin {"absent", "pending"} =>
               /\ row'[u].status \notin {"absent", "pending"}
               /\ row'[u].status = "active" => row'[u] = row[u]
    BY <1>0, <1>2
  <2>. QED
    BY <1>2, <2>1, <2>2, OwnedKept
<1>3. ASSUME NEW c \in Client, Operate(c)  PROVE Owned' /\ OneRun'
  <2>0. c \in Actor
    BY <1>0
  <2>1. ASSUME NEW q, End(c, q), q # "running", UNCHANGED <<stale, old, outlived>>, NEW r,
               UpdateGuarded(c, r), pc[c] # "running", tid[c] \in Task,
               \/ r.status \in {"dismissed", "paused"}
               \/ Expected[pc[c]] = {"pending"}
        PROVE  Owned' /\ OneRun'
    <3>1. /\ pc'[c] # "running"
          /\ \A b \in Actor : b # c => pc'[b] = pc[b] /\ tid'[b] = tid[b] /\ tok'[b] = tok[b]
      BY <1>0, <2>0, <2>1 DEF End, Go
    <3>2. CASE row' = row
      BY <1>1, <2>1, <3>1, <3>2
    <3>3. CASE /\ row' = [row EXCEPT ![tid[c]] = r]
               /\ row[tid[c]].status \in Expected[pc[c]]
      BY <1>2, <2>0, <2>1, <3>1, <3>3
    <3>. QED
      BY <2>1, <3>2, <3>3 DEF UpdateGuarded
  <2>2. pc[c] \in Op => tid[c] \in Task /\ copy[c] \in Row
    BY <1>0, <2>0 DEF IInv, TypeOK, Placed
  <2>3. ASSUME NEW k \in Key, Propose(c, k)  PROVE Owned' /\ OneRun'
    BY <1>0, <1>1, <2>0, <2>3 DEF Propose, Go, history
  <2>4. ASSUME NEW t \in Task, Insert(c, t)  PROVE Owned' /\ OneRun'
    <3>1. /\ pc'[c] # "running" /\ pc[c] # "running"
          /\ \A b \in Actor : b # c => pc'[b] = pc[b] /\ tid'[b] = tid[b] /\ tok'[b] = tok[b]
      BY <1>0, <2>0, <2>4 DEF Insert, End, Go
    <3>2. /\ row[t].status = "absent" /\ row' = [row EXCEPT ![t] = copy[c]]
          /\ UNCHANGED <<stale, old, outlived>>
      BY <2>4 DEF Insert, history
    <3>. QED
      BY <1>2, <2>0, <3>1, <3>2
  <2>5. ASSUME NEW op \in DOMAIN Expected, NEW t \in Task, Begin(c, op, t)
        PROVE  Owned' /\ OneRun'
    <3>1. pc[c] # "running" /\ pc' = [pc EXCEPT ![c] = IF op = "run_due" THEN "dispatch" ELSE op]
          /\ op # "running"
      BY <2>5, OpIsExpected DEF Begin, Go, Op
    <3>2. /\ row' = row /\ UNCHANGED <<stale, old, outlived, tok>>
          /\ tid' = [tid EXCEPT ![c] = t]
      BY <2>5 DEF Begin, history
    <3>. QED
      BY <1>0, <1>1, <2>0, <3>1, <3>2
  <2>6. CASE Accept(c)
    <3>1. PICK r : UpdateGuarded(c, r)
      BY <2>6 DEF Accept
    <3>2. pc[c] = "accept" /\ Expected[pc[c]] = {"pending"} /\ pc[c] \in Op
          /\ End(c, "idle") /\ UNCHANGED <<stale, old, outlived>>
      BY <2>6 DEF Accept, Expected, Op, history
    <3>. QED
      BY <2>1, <2>2, <3>1, <3>2
  <2>7. CASE Dismiss(c)
    <3> DEFINE r == [copy[c] EXCEPT !.status = "dismissed", !.enabled = FALSE, !.next = None]
    <3>1. /\ pc[c] \in Op /\ pc[c] # "running" /\ UpdateGuarded(c, r)
          /\ End(c, "idle") /\ UNCHANGED <<stale, old, outlived>>
      BY <2>7 DEF Dismiss, Op, history
    <3>2. r.status = "dismissed"
      BY <2>2, <3>1 DEF Row
    <3>. HIDE DEF r
    <3>. QED
      BY <2>1, <2>2, <3>1, <3>2
  <2>8. CASE Pause(c)
    <3> DEFINE r == [copy[c] EXCEPT !.status = "paused", !.enabled = FALSE]
    <3>1. /\ pc[c] \in Op /\ pc[c] # "running" /\ UpdateGuarded(c, r)
          /\ End(c, "idle") /\ UNCHANGED <<stale, old, outlived>>
      BY <2>8 DEF Pause, Op, history
    <3>2. r.status = "paused"
      BY <2>2, <3>1 DEF Row
    <3>. HIDE DEF r
    <3>. QED
      BY <2>1, <2>2, <3>1, <3>2
  <2>9. CASE Delete(c)
    <3> DEFINE r == [copy[c] EXCEPT !.status = "dismissed", !.enabled = FALSE, !.next = None]
    <3>1. /\ pc[c] \in Op /\ pc[c] # "running" /\ row' = [row EXCEPT ![tid[c]] = r]
          /\ End(c, "idle") /\ UNCHANGED <<stale, old, outlived>>
      BY <2>9 DEF Delete, Op, Update, history
    <3>2. r.status = "dismissed"
      BY <2>2, <3>1 DEF Row
    <3>. HIDE DEF r
    <3>3. /\ pc'[c] # "running"
          /\ \A b \in Actor : b # c => pc'[b] = pc[b] /\ tid'[b] = tid[b] /\ tok'[b] = tok[b]
      BY <1>0, <2>0, <3>1 DEF End, Go
    <3>. QED
      BY <1>2, <2>0, <2>2, <3>1, <3>2, <3>3
  <2>10. CASE Reload(c)
    BY <1>0, <1>1, <2>0, <2>10 DEF Reload, Go, history
  <2>11. CASE DispatchNow(c)
    <3>1. pc[c] = "dispatch" /\ tid[c] \in Task
      BY <1>0, <2>0, <2>11 DEF DispatchNow, IInv, Placed
    <3>2. CASE Claimable(tid[c], copy[c].next, stale) /\ Claim(c, tid[c])
      BY <2>0, <3>1, <3>2, ClaimIsOwned DEF Claimable
    <3>3. CASE End(c, "idle") /\ UNCHANGED <<row, stale, old, outlived>>
      BY <1>0, <1>1, <2>0, <3>1, <3>3 DEF End, Go
    <3>. QED
      BY <2>11, <3>2, <3>3 DEF DispatchNow
  <2>12. ~ Resume(c) /\ ~ RunPaused(c) /\ ~ RunEarly(c)
    BY <1>0, <2>0 DEF Resume, RunPaused, RunEarly, Unguarded
  <2>. QED
    BY <1>3, <2>3, <2>4, <2>5, <2>6, <2>7, <2>8, <2>9, <2>10, <2>11, <2>12
       DEF Operate, Finish
<1>4. ASSUME NEW p \in Poller, Poll(p)  PROVE Owned' /\ OneRun'
  <2>0. p \in Actor
    BY <1>0
  <2>1. CASE Tick(p)
    <3>1. \A u \in Task : row[u].status \notin {"absent", "pending"} => row'[u] = row[u]
      BY <2>1 DEF Tick
    <3>2. /\ UNCHANGED <<stale, old, outlived, tid, tok>>
          /\ \A a \in Actor : pc'[a] = "running" => pc[a] = "running"
      BY <1>0, <2>0, <2>1 DEF Tick, Go, history
    <3>. QED
      BY <3>1, <3>2, OwnedKept
  <2>2. CASE ListDue(p)
    <3>1. /\ UNCHANGED <<row, stale, outlived, tid, tok>>
          /\ \A a \in Actor : pc'[a] = "running" => pc[a] = "running"
          /\ NewTime(p, (stale \cap {row[t].claim : t \in Task})
                        \cup {q \in Poller \ {p} : age[q] = "stale"})
      BY <1>0, <2>0, <2>2 DEF ListDue, Go, history
    <3>2. \A a, b \in Actor : pc[a] = "running" /\ tok[a] \in old'[b]
                              => tok[a] \in stale \cup old[b]
      <4>1. \A a \in Actor : pc[a] = "running" => tok[a] \notin Poller
        BY <1>0, SchedulerAssumption DEF IInv, TypeOK, Token, Actor
      <4>. QED
        BY <3>1, <4>1 DEF NewTime
    <3>. QED
      BY <3>1, <3>2, OwnedKept
  <2>3. CASE EndTick(p)
    <3>1. /\ UNCHANGED <<row, stale, outlived, tid, tok>>
          /\ \A a \in Actor : pc'[a] = "running" => pc[a] = "running"
          /\ NewTime(p, {})
      BY <1>0, <2>0, <2>3 DEF EndTick, Go, history
    <3>2. \A a, b \in Actor : tok[a] \in old'[b] => tok[a] \in stale \cup old[b]
      BY <3>1 DEF NewTime
    <3>. QED
      BY <3>1, <3>2, OwnedKept
  <2>4. ASSUME NEW e \in todo[p], Dispatch(p, e)  PROVE Owned' /\ OneRun'
    <3>1. e[1] \in Task
      BY <1>0, <2>0, <2>4 DEF IInv, TypeOK
    <3>2. CASE Claimable(e[1], e[2], old[p]) /\ Claim(p, e[1])
      BY <2>0, <3>1, <3>2, ClaimIsOwned DEF Claimable
    <3>3. CASE UNCHANGED <<row, stale, pc, tid, copy, tok, old, outlived>>
      BY <1>1, <3>1, <3>3
    <3>. QED
      BY <2>4, <3>2, <3>3 DEF Dispatch
  <2>. QED
    BY <1>4, <2>1, <2>2, <2>3, <2>4 DEF Poll
<1>5. ASSUME NEW a \in Actor, NEW ok \in BOOLEAN, Complete(a, ok)  PROVE Owned' /\ OneRun'
  <2>0. tid[a] \in Task /\ row[tid[a]] \in Row /\ pc[a] = "running"
    BY <1>0, <1>5 DEF Complete
  <2>1. PICK n \in Stamp :
           row' = IF row[tid[a]].claim = tok[a]
                  THEN [row EXCEPT ![tid[a]] = Completed(row[tid[a]], n, ok)] ELSE row
    BY <1>5 DEF Complete
  <2>2. LET r == Completed(row[tid[a]], n, ok) IN
        /\ row[tid[a]].status \notin {"absent", "pending"} => r.status \notin {"absent", "pending"}
        /\ r.status = "active" => row[tid[a]].status = "active"
    BY <2>0 DEF Completed, Row
  <2>3. /\ UNCHANGED <<stale, old, outlived>>
        /\ \A b \in Actor : pc'[b] = "running" =>
               b # a /\ pc[b] = "running" /\ tid'[b] = tid[b] /\ tok'[b] = tok[b]
    BY <1>0, <1>5 DEF Complete, End, Go, After
  <2>4. tid[a] \notin outlived => \A b \in Actor : pc'[b] = "running" => tid[b] # tid[a]
    BY <2>0, <2>3 DEF OInv, OneRun
  <2>5. \A u \in Task : u # tid[a] => row'[u] = row[u]
    BY <1>0, <2>1
  <2>6. row'[tid[a]] \in {row[tid[a]], Completed(row[tid[a]], n, ok)}
    BY <1>0, <2>0, <2>1
  <2>. QED
    BY <2>0, <2>2, <2>3, <2>4, <2>5, <2>6, OwnedKept
<1>6. ASSUME NEW a \in Actor, Abandon(a)  PROVE Owned' /\ OneRun'
  BY <1>0, <1>1, <1>6 DEF Abandon, End, Go, After
<1>7. ASSUME NEW n \in Stamp, BecomeDue(n)  PROVE Owned' /\ OneRun'
  BY <1>1, <1>7 DEF BecomeDue, local, history
<1>8. ASSUME NEW k \in Token, GoStale(k)  PROVE Owned' /\ OneRun'
  <2>1. \A a \in Actor : tok[a] = k => tid[a] \in outlived'
    BY <1>8 DEF GoStale
  <2>. QED
    BY <1>8, <2>1, OwnedKept DEF GoStale, local
<1>9. ASSUME NEW p \in Poller, TickAges(p)  PROVE Owned' /\ OneRun'
  <2>1. \A a \in Actor : pc[a] = "running" /\ tok[a] = tok[p]
                        => tok[a] \in stale \/ tid[a] \in outlived'
    <3>1. ASSUME NEW a \in Actor, pc[a] = "running", tok[a] = tok[p]
          PROVE  tok[a] \in stale \/ tid[a] \in outlived'
      <4>1. p \in Actor /\ tok[p] # None /\ pc[p] = "running" /\ tid[p] \in Task
        BY <1>0, <3>1 DEF IInv, TypeOK, Placed
      <4>2. tid[p] \in outlived'
        BY <1>9, <4>1, SchedulerAssumption DEF TickAges
      <4>. QED
        BY <3>1, <4>1, <4>2 DEF OInv, OneRun
    <3>. QED
      BY <3>1
  <2>. QED
    BY <1>9, <2>1, OwnedKept DEF TickAges
<1>10. CASE UNCHANGED vars
  BY <1>1, <1>10 DEF vars, local, history
<1>. QED
  BY <1>3, <1>4, <1>5, <1>6, <1>7, <1>8, <1>9, <1>10 DEF Next, Return

\* A claim keeps every other run of its task out for claim_ttl_seconds from the
\* time it is stamped with, which for a poller is that of its tick and not of the
\* claim: whatever the length of runs and lists, two runs of a task meet only if
\* one of them outlived its claim.  That no operation writes an active row from a
\* stale copy is assumed: resume() and run_now() of a paused or early task may.
THEOREM ClaimsExclude ==
    ASSUME Ops \cap Unguarded = {}
    PROVE  Spec => []ClaimHolderRunsAlone
<1>1. Init => Owned /\ OneRun /\ OnlyOps /\ OldIsStale
  BY DEF Init, Owned, OneRun, OnlyOps, Op, OldIsStale
<1>2. Owned /\ OneRun /\ OldIsStale /\ IInv /\ OnlyOps /\ IInv' /\ [Next]_vars
      => Owned' /\ OneRun'
  BY OwnedStep DEF OInv
<1>3. OneRun => ClaimHolderRunsAlone
  <2> SUFFICES ASSUME OneRun, NEW t \in Task \ outlived
               PROVE  Cardinality(Running(t)) <= 1
    BY DEF ClaimHolderRunsAlone
  <2>1. CASE Running(t) = {}
    BY <2>1, FS_EmptySet
  <2>2. ASSUME NEW a \in Running(t)  PROVE Cardinality(Running(t)) <= 1
    <3>1. Running(t) = {a}
      BY <2>2 DEF Running, OneRun
    <3>2. Cardinality({a}) = 1
      BY FS_Singleton, Zenon
    <3>. QED
      BY <3>1, <3>2
  <2>. QED
    BY <2>1, <2>2
<1>. QED
  BY <1>1, <1>2, <1>3, Initially, Inductive, OnlyOpsInductive, OldIsStaleInductive, PTL
     DEF Spec

-----------------------------------------------------------------------------
(* A task that runs once *)

\* The row, or the copy of it that an operation holds, says so.
Touched(t) == row[t].once \/ \E a \in Actor : tid[a] = t /\ copy[a].once

\* Such a task has been accepted; while it is active its row says so too; and once
\* it has run, it is not active and nobody runs it, unless a run outlived its claim.
OnceAt(t) ==
    /\ row[t].status \in {"absent", "pending"} => ran[t] = 0
    /\ Touched(t) =>
          /\ row[t].status \notin {"absent", "pending"}
          /\ row[t].status = "active" => row[t].once
          /\ ran[t] # 0 /\ t \notin outlived =>
                /\ ran[t] = 1 /\ row[t].status # "active"
                /\ \A a \in Actor : pc[a] = "running" => tid[a] # t

OnceInv ==
    /\ \A a \in Actor : pc[a] = "insert" => ~ copy[a].once
    /\ \A t \in Task : OnceAt(t)

\* A step after which no more tasks run once, are active, or run unless active.
LEMMA OnceKept ==
    ASSUME NEW t \in Task, OnceAt(t), ran'[t] = ran[t], Touched(t)' => Touched(t),
           outlived \subseteq outlived',
           row[t].status \notin {"absent", "pending"} => row'[t].status \notin {"absent", "pending"},
           row'[t].status = "active" => row[t].status = "active" /\ row'[t].once = row[t].once,
           \A a \in Actor : pc'[a] = "running" /\ tid'[a] = t =>
               (pc[a] = "running" /\ tid[a] = t) \/ row[t].status = "active"
    PROVE  OnceAt(t)'
BY DEF OnceAt

\* An actor that writes its copy back, or nothing, and ends.
LEMMA WriteKeepsOnce ==
    ASSUME OInv, OnceInv, NEW a \in Actor, tid[a] \in Task, NEW r, r.once = copy[a].once,
           r.status \notin {"absent", "pending", "active"},
           row' = row \/ row' = [row EXCEPT ![tid[a]] = r],
           End(a, "idle"), UNCHANGED <<ran, outlived>>
    PROVE  OnceInv'
<1>0. /\ row \in [Task -> Row] /\ pc \in [Actor -> Step \cup Op]
      /\ tid \in [Actor -> Task \cup {None}] /\ copy \in [Actor -> Row]
  BY OpIsExpected DEF OInv, IInv, TypeOK
<1>1. /\ pc'[a] = "idle" /\ copy'[a].once = FALSE
      /\ \A b \in Actor \ {a} : pc'[b] = pc[b] /\ tid'[b] = tid[b] /\ copy'[b] = copy[b]
  BY <1>0 DEF End, Go, Absent
<1>2. ASSUME NEW t \in Task PROVE OnceAt(t)'
  <2>1. row'[t] = row[t] \/ (t = tid[a] /\ row'[t] = r)
    BY <1>0
  <2>2. Touched(t)' => Touched(t)
    BY <1>1, <2>1 DEF Touched
  <2>3. \A b \in Actor : pc'[b] = "running" /\ tid'[b] = t => pc[b] = "running" /\ tid[b] = t
    BY <1>1
  <2>. QED BY <2>1, <2>2, <2>3, OnceKept DEF OnceInv
<1>. QED BY <1>1, <1>2 DEF OnceInv

\* A claim is of an active task and leaves all else in its row.
LEMMA ClaimKeepsOnce ==
    ASSUME OInv, OnceInv, NEW a \in Actor, NEW t \in Task, Claim(a, t),
           row[t].status = "active", ran' = ran
    PROVE  OnceInv'
<1>0. /\ row \in [Task -> Row] /\ pc \in [Actor -> Step \cup Op]
      /\ tid \in [Actor -> Task \cup {None}] /\ copy \in [Actor -> Row]
  BY OpIsExpected DEF OInv, IInv, TypeOK
<1>1. /\ outlived \subseteq outlived'
      /\ \E k \in Token : row' = [row EXCEPT ![t] = [@ EXCEPT !.claim = k]]
  BY DEF Claim
<1>2. /\ pc'[a] = "running" /\ tid'[a] = t /\ copy'[a].once = FALSE
      /\ \A b \in Actor \ {a} : pc'[b] = pc[b] /\ tid'[b] = tid[b] /\ copy'[b] = copy[b]
  BY <1>0 DEF Claim, Go, Absent
<1>3. \A u \in Task : row'[u].status = row[u].status /\ row'[u].once = row[u].once
  BY <1>0, <1>1 DEF Row
<1>4. ASSUME NEW u \in Task PROVE OnceAt(u)'
  <2>1. Touched(u)' => Touched(u)
    BY <1>2, <1>3 DEF Touched
  <2>2. \A b \in Actor : pc'[b] = "running" /\ tid'[b] = u =>
            (pc[b] = "running" /\ tid[b] = u) \/ row[u].status = "active"
    BY <1>2
  <2>. QED BY <1>1, <1>3, <2>1, <2>2, OnceKept DEF OnceInv
<1>. QED BY <1>2, <1>4 DEF OnceInv

\* The end of a run.
LEMMA CompleteKeepsOnce ==
    ASSUME OInv, OnceInv, NEW a \in Actor, NEW ok \in BOOLEAN, Complete(a, ok)
    PROVE  OnceInv'
<1>t. PICK t \in Task : t = tid[a]
  BY DEF OInv, IInv, Placed, Complete
<1>0. /\ row \in [Task -> Row] /\ pc \in [Actor -> Step \cup Op] /\ ran \in [Task -> 0..2]
      /\ tid \in [Actor -> Task \cup {None}] /\ copy \in [Actor -> Row]
      /\ pc[a] = "running" /\ tid[a] = t
  BY <1>t, OpIsExpected DEF OInv, IInv, TypeOK, Placed, Complete
<1>1. PICK n \in Stamp :
         row' = IF row[t].claim = tok[a]
                THEN [row EXCEPT ![t] = Completed(row[t], n, ok)] ELSE row
  BY <1>t DEF Complete
<1>2. ran' = IF ok THEN [ran EXCEPT ![t] = IF ran[t] < 2 THEN ran[t] + 1 ELSE 2] ELSE ran
  BY <1>t DEF Complete
<1>3. /\ pc'[a] \in {"idle", "tick"} /\ tid'[a] = None /\ copy'[a].once = FALSE
      /\ \A b \in Actor \ {a} : pc'[b] = pc[b] /\ tid'[b] = tid[b] /\ copy'[b] = copy[b]
      /\ outlived' = outlived
  BY <1>0 DEF Complete, End, Go, Absent, After
<1>4. /\ row[t].status \notin {"absent", "pending"}
      /\ row[t].status = "active" => row[t].enabled
      /\ t \notin outlived =>
            /\ row[t].status = "active" => row[t].claim = tok[a]
            /\ \A b \in Actor : pc[b] = "running" /\ tid[b] = t => b = a
  BY <1>0 DEF OInv, Owned, OneRun, IInv, Runnable
<1>5. LET r == Completed(row[t], n, ok) IN
      /\ r.once = row[t].once /\ r.status \in {row[t].status, "done"}
      /\ ok /\ row[t].once /\ row[t].status = "active" /\ row[t].enabled => r.status = "done"
  BY <1>0 DEF Completed, Row
<1>6. /\ row'[t].once = row[t].once /\ row'[t].status \in {row[t].status, "done"}
      /\ row'[t].status = "active" => row[t].status = "active"
      /\ t \notin outlived /\ ok /\ row[t].once => row'[t].status # "active"
      /\ \A u \in Task \ {t} : row'[u] = row[u] /\ ran'[u] = ran[u]
  <2>1. \A u \in Task \ {t} : row'[u] = row[u] /\ ran'[u] = ran[u]
    BY <1>0, <1>1, <1>2
  <2>2. row'[t] = row[t] \/ (row[t].claim = tok[a] /\ row'[t] = Completed(row[t], n, ok))
    BY <1>0, <1>1
  <2>3. t \notin outlived /\ row[t].status = "active" => row'[t] = Completed(row[t], n, ok)
    BY <1>0, <1>1, <1>4
  <2>. QED BY <1>4, <1>5, <2>1, <2>2, <2>3
<1>7. \A u \in Task : Touched(u)' => Touched(u)
  <2>1. \A u \in Task : row'[u].once = row[u].once
    BY <1>6
  <2>. QED BY <1>3, <2>1 DEF Touched
<1>8. ASSUME NEW u \in Task \ {t} PROVE OnceAt(u)'
  <2>1. \A b \in Actor : pc'[b] = "running" /\ tid'[b] = u => pc[b] = "running" /\ tid[b] = u
    BY <1>3
  <2>. QED BY <1>3, <1>6, <1>7, <2>1, OnceKept DEF OnceInv
<1>9. OnceAt(t)'
  <2>0. t \in Task /\ OnceAt(t)
    BY <1>0 DEF OnceInv
  <2>1. row'[t].status \notin {"absent", "pending"}
    BY <1>4, <1>6
  <2>2. t \notin outlived => \A b \in Actor : pc'[b] = "running" => tid'[b] # t
    BY <1>3, <1>4
  <2>3. ASSUME Touched(t)
        PROVE  /\ row'[t].status = "active" => row'[t].once
               /\ ran'[t] # 0 /\ t \notin outlived => ran'[t] = 1 /\ row'[t].status # "active"
    <3>1. /\ row[t].status = "active" => row[t].once
          /\ t \notin outlived => ran[t] = 0
      BY <1>0, <2>0, <2>3 DEF OnceAt
    <3>2. t \notin outlived => ran'[t] = IF ok THEN 1 ELSE 0
      BY <1>0, <1>2, <3>1
    <3>3. row'[t].status = "active" => row[t].status = "active"
      BY <1>6
    <3>. QED BY <1>6, <3>1, <3>2, <3>3
  <2>4. Touched(t)' => Touched(t)
    BY <1>0, <1>7
  <2>. QED BY <1>3, <2>1, <2>2, <2>3, <2>4 DEF OnceAt
<1>. QED BY <1>3, <1>8, <1>9 DEF OnceInv

LEMMA OnceStep ==
    ASSUME OInv, OnceInv, Ops \cap Unguarded = {}, [Next]_vars
    PROVE  OnceInv'
<1>0. /\ row \in [Task -> Row] /\ pc \in [Actor -> Step \cup Op] /\ ran \in [Task -> 0..2]
      /\ tid \in [Actor -> Task \cup {None}] /\ copy \in [Actor -> Row] /\ IInv
      /\ \A a \in Actor : pc[a] \in Unguarded => FALSE
      /\ \A c \in Client : c \in Actor
      /\ \A p \in Poller : p \in Actor
  BY OpIsExpected DEF OInv, IInv, TypeOK, OnlyOps, Unguarded, Op, Actor
  \* Steps that leave the statuses alone, except that a pending task is dismissed,
  \* and copy no row or one of a task that already runs once.
<1>1. ASSUME \A t \in Task : /\ row'[t].once = row[t].once
                             /\ \/ row'[t].status = row[t].status
                                \/ row'[t].status = "dismissed",
             \A a \in Actor : /\ pc'[a] = "insert" => ~ copy'[a].once
                              /\ pc'[a] = "running" => pc[a] = "running" /\ tid'[a] = tid[a]
                              /\ \/ ~ copy'[a].once
                                 \/ tid'[a] = tid[a] /\ copy'[a] = copy[a]
                                 \/ tid'[a] \in Task /\ copy'[a] = row[tid'[a]],
             ran' = ran, outlived \subseteq outlived'
      PROVE  OnceInv'
  <2>1. ASSUME NEW t \in Task PROVE OnceAt(t)'
    <3>1. Touched(t)' => Touched(t)
      BY <1>1 DEF Touched
    <3>2. \A a \in Actor : pc'[a] = "running" /\ tid'[a] = t => pc[a] = "running" /\ tid[a] = t
      BY <1>1
    <3>. QED BY <1>1, <3>1, <3>2, OnceKept DEF OnceInv
  <2>. QED BY <1>1, <2>1 DEF OnceInv
<1>2. ASSUME NEW c \in Client, Operate(c)  PROVE OnceInv'
  <2>0. c \in Actor /\ (pc[c] \in Op => tid[c] \in Task /\ copy[c] \in Row)
    BY <1>0 DEF IInv, Placed
  <2>1. ASSUME NEW k \in Key, Propose(c, k)  PROVE OnceInv'
    <3>1. /\ row' = row /\ UNCHANGED <<ran, outlived>> /\ tid' = tid
          /\ pc' = [pc EXCEPT ![c] = "insert"]
          /\ copy' = [copy EXCEPT ![c] = [Absent EXCEPT !.status = "pending",
                                                        !.enabled = TRUE, !.key = k]]
      BY <2>1 DEF Propose, Go, history
    <3>2. copy'[c].once = FALSE
      BY <1>0, <2>0, <3>1 DEF Absent
    <3>3. \A a \in Actor \ {c} : pc'[a] = pc[a] /\ copy'[a] = copy[a]
      BY <1>0, <3>1
    <3>4. pc'[c] = "insert"
      BY <1>0, <2>0, <3>1
    <3>. QED BY <1>1, <3>1, <3>2, <3>3, <3>4 DEF OnceInv
  <2>2. ASSUME NEW t \in Task, Insert(c, t)  PROVE OnceInv'
    <3>1. /\ pc[c] = "insert" /\ row[t].status = "absent" /\ UNCHANGED <<ran, outlived>>
          /\ row' = [row EXCEPT ![t] = copy[c]]
      BY <2>2 DEF Insert, history
    <3>2. /\ pc'[c] = "idle" /\ tid'[c] = None /\ copy'[c].once = FALSE
          /\ \A b \in Actor \ {c} : pc'[b] = pc[b] /\ tid'[b] = tid[b] /\ copy'[b] = copy[b]
      BY <1>0, <2>0, <2>2 DEF Insert, End, Go, Absent
    <3>3. ~ copy[c].once /\ ran[t] = 0 /\ ~ Touched(t)
      BY <2>0, <3>1 DEF OnceInv, OnceAt
    <3>4. ASSUME NEW u \in Task PROVE OnceAt(u)'
      <4>1. CASE u = t
        <5>1. row'[t] = copy[c]
          BY <1>0, <3>1
        <5>2. ~ Touched(t)'
          BY <3>2, <3>3, <5>1 DEF Touched
        <5>. QED BY <3>1, <3>3, <4>1, <5>2 DEF OnceAt
      <4>2. CASE u # t
        <5>1. row'[u] = row[u]
          BY <1>0, <3>1, <4>2
        <5>2. Touched(u)' => Touched(u)
          BY <3>2, <5>1 DEF Touched
        <5>3. \A b \in Actor : pc'[b] = "running" /\ tid'[b] = u => pc[b] = "running" /\ tid[b] = u
          BY <3>2
        <5>. QED BY <3>1, <5>1, <5>2, <5>3, OnceKept DEF OnceInv
      <4>. QED BY <4>1, <4>2
    <3>. QED BY <3>2, <3>4 DEF OnceInv
  <2>3. ASSUME NEW op \in DOMAIN Expected, NEW t \in Task, Begin(c, op, t)  PROVE OnceInv'
    <3>1. /\ row' = row /\ UNCHANGED <<ran, outlived>>
          /\ pc' = [pc EXCEPT ![c] = IF op = "run_due" THEN "dispatch" ELSE op]
          /\ tid' = [tid EXCEPT ![c] = t] /\ copy' = [copy EXCEPT ![c] = row[t]]
      BY <2>3 DEF Begin, Go, history
    <3>2. op # "running" /\ op # "insert"
      BY OpIsExpected DEF Op
    <3>3. /\ pc'[c] # "running" /\ pc'[c] # "insert" /\ tid'[c] = t /\ copy'[c] = row[t]
          /\ \A a \in Actor \ {c} : pc'[a] = pc[a] /\ tid'[a] = tid[a] /\ copy'[a] = copy[a]
      BY <1>0, <2>0, <3>1, <3>2
    <3>. QED BY <1>1, <3>1, <3>3 DEF OnceInv
  <2>4. CASE Accept(c)
    <3>1. PICK n \in Stamp, o \in BOOLEAN :
             UpdateGuarded(c, [copy[c] EXCEPT !.status = "active", !.enabled = TRUE,
                                              !.next = n, !.once = o])
      BY <2>4 DEF Accept
    <3> DEFINE r == [copy[c] EXCEPT !.status = "active", !.enabled = TRUE, !.next = n, !.once = o]
    <3>2. /\ pc[c] = "accept" /\ pc[c] \in Op /\ Expected[pc[c]] = {"pending"}
          /\ End(c, "idle") /\ UNCHANGED <<ran, outlived>>
      BY <2>4 DEF Accept, Op, Expected, history
    <3>3. r.once = o /\ r.status = "active"
      BY <2>0, <3>2 DEF Row
    <3>t. PICK t \in Task : t = tid[c]
      BY <2>0, <3>2
    <3>4. row' = row \/ (row[t].status = "pending" /\ row' = [row EXCEPT ![t] = r])
      BY <3>1, <3>2, <3>t DEF UpdateGuarded
    <3> HIDE DEF r
    <3>5. /\ pc'[c] = "idle" /\ tid'[c] = None /\ copy'[c].once = FALSE
          /\ \A b \in Actor \ {c} : pc'[b] = pc[b] /\ tid'[b] = tid[b] /\ copy'[b] = copy[b]
      BY <1>0, <2>0, <3>2 DEF End, Go, Absent
    <3>6. CASE row' = row
      BY <1>1, <3>2, <3>5, <3>6 DEF OnceInv
    <3>7. CASE row[t].status = "pending" /\ row' = [row EXCEPT ![t] = r]
      <4>1. ASSUME NEW u \in Task \ {t} PROVE OnceAt(u)'
        <5>1. row'[u] = row[u]
          BY <1>0, <3>7
        <5>2. Touched(u)' => Touched(u)
          BY <3>5, <5>1 DEF Touched
        <5>3. \A b \in Actor : pc'[b] = "running" /\ tid'[b] = u => pc[b] = "running" /\ tid[b] = u
          BY <3>5
        <5>. QED BY <3>2, <5>1, <5>2, <5>3, OnceKept DEF OnceInv
      <4>2. OnceAt(t)'
        <5>1. row'[t] = r /\ ran'[t] = 0 /\ ~ Touched(t)
          BY <1>0, <3>2, <3>7 DEF OnceInv, OnceAt
        <5>2. Touched(t)' => row'[t].once
          BY <3>5, <5>1 DEF Touched
        <5>. QED BY <3>3, <5>1, <5>2 DEF OnceAt
      <4>. QED BY <3>5, <4>1, <4>2 DEF OnceInv
    <3>. QED BY <3>4, <3>6, <3>7
  <2>5. CASE Dismiss(c) \/ Pause(c) \/ Delete(c)
    <3>1. /\ pc[c] \in Op /\ End(c, "idle") /\ UNCHANGED <<ran, outlived>>
      BY <2>5 DEF Dismiss, Pause, Delete, Op, history
    <3> DEFINE d == [copy[c] EXCEPT !.status = "dismissed", !.enabled = FALSE, !.next = None]
               q == [copy[c] EXCEPT !.status = "paused", !.enabled = FALSE]
    <3>2. /\ d.status = "dismissed" /\ d.once = copy[c].once
          /\ q.status = "paused" /\ q.once = copy[c].once
      BY <2>0, <3>1 DEF Row
    <3>3. \E r \in {d, q} : row' = row \/ row' = [row EXCEPT ![tid[c]] = r]
      BY <2>5 DEF Dismiss, Pause, Delete, UpdateGuarded, Update
    <3> HIDE DEF d, q
    <3>. QED BY <2>0, <3>1, <3>2, <3>3, WriteKeepsOnce
  <2>6. CASE Reload(c)
    <3>1. /\ row' = row /\ UNCHANGED <<ran, outlived, tid>>
          /\ pc' = [pc EXCEPT ![c] = "dispatch"]
          /\ copy' = [copy EXCEPT ![c] = row[tid[c]]] /\ tid[c] \in Task
      BY <1>0, <2>0, <2>6 DEF Reload, Go, history, IInv, Placed
    <3>2. /\ pc'[c] = "dispatch" /\ copy'[c] = row[tid[c]]
          /\ \A a \in Actor \ {c} : pc'[a] = pc[a] /\ copy'[a] = copy[a]
      BY <1>0, <2>0, <3>1
    <3>. QED BY <1>1, <3>1, <3>2 DEF OnceInv
  <2>7. CASE DispatchNow(c)
    <3>1. tid[c] \in Task /\ ran' = ran
      BY <1>0, <2>0, <2>7 DEF DispatchNow, IInv, Placed, history
    <3>2. CASE Claimable(tid[c], copy[c].next, stale) /\ Claim(c, tid[c])
      BY <2>0, <3>1, <3>2, ClaimKeepsOnce DEF Claimable
    <3>3. CASE End(c, "idle") /\ UNCHANGED <<row, stale, old, outlived>>
      <4>1. /\ pc'[c] = "idle" /\ copy'[c].once = FALSE
            /\ \A b \in Actor \ {c} : pc'[b] = pc[b] /\ tid'[b] = tid[b] /\ copy'[b] = copy[b]
        BY <1>0, <2>0, <3>3 DEF End, Go, Absent
      <4>. QED BY <1>1, <3>1, <3>3, <4>1 DEF OnceInv
    <3>. QED BY <2>7, <3>2, <3>3 DEF DispatchNow
  <2>8. ~ Resume(c) /\ ~ RunPaused(c) /\ ~ RunEarly(c)
    BY <1>0, <2>0 DEF Resume, RunPaused, RunEarly, Unguarded
  <2>. QED
    BY <1>2, <2>1, <2>2, <2>3, <2>4, <2>5, <2>6, <2>7, <2>8 DEF Operate, Finish
<1>3. ASSUME NEW p \in Poller, Poll(p)  PROVE OnceInv'
  <2>0. p \in Actor
    BY <1>0
  <2>1. CASE Tick(p)
    <3>1. /\ \A u \in Task : /\ row'[u].once = row[u].once
                             /\ row'[u].status = row[u].status \/ row'[u].status = "dismissed"
          /\ UNCHANGED <<tid, copy, ran, outlived>>
      <4>1. PICK D \in SUBSET {t \in Task : row[t].status = "pending"} :
                row' = [t \in Task |-> IF t \in D THEN [row[t] EXCEPT !.status = "dismissed",
                                                                     !.key = None]
                                       ELSE row[t]]
        BY <2>1 DEF Tick
      <4>2. ASSUME NEW u \in Task
            PROVE  row'[u].once = row[u].once
                   /\ (row'[u].status = row[u].status \/ row'[u].status = "dismissed")
        <5>1. row[u] \in Row
          BY <1>0
        <5>2. row'[u] = IF u \in D THEN [row[u] EXCEPT !.status = "dismissed", !.key = None]
                        ELSE row[u]
          BY <4>1
        <5>. QED BY <5>1, <5>2 DEF Row
      <4>. QED BY <2>1, <4>2 DEF Tick, history
    <3>2. \A a \in Actor : pc'[a] = pc[a] \/ pc'[a] = "list"
      BY <1>0, <2>0, <2>1 DEF Tick, Go
    <3>. QED BY <1>1, <3>1, <3>2 DEF OnceInv
  <2>2. CASE ListDue(p) \/ EndTick(p)
    <3>1. UNCHANGED <<row, tid, copy, ran, outlived>>
      BY <2>2 DEF ListDue, EndTick, history
    <3>2. \A a \in Actor : pc'[a] = pc[a] \/ pc'[a] \in {"tick", "idle"}
      BY <1>0, <2>0, <2>2 DEF ListDue, EndTick, Go
    <3>. QED BY <1>1, <3>1, <3>2 DEF OnceInv
  <2>3. ASSUME NEW e \in todo[p], Dispatch(p, e)  PROVE OnceInv'
    <3>1. e[1] \in Task /\ ran' = ran
      BY <1>0, <2>0, <2>3 DEF Dispatch, IInv, TypeOK
    <3>2. CASE Claimable(e[1], e[2], old[p]) /\ Claim(p, e[1])
      BY <2>0, <3>1, <3>2, ClaimKeepsOnce DEF Claimable
    <3>3. CASE UNCHANGED <<row, stale, pc, tid, copy, tok, old, outlived>>
      BY <1>1, <3>1, <3>3 DEF OnceInv
    <3>. QED BY <2>3, <3>2, <3>3 DEF Dispatch
  <2>. QED BY <1>3, <2>1, <2>2, <2>3 DEF Poll
<1>4. ASSUME NEW a \in Actor, NEW ok \in BOOLEAN, Complete(a, ok)  PROVE OnceInv'
  BY <1>4, CompleteKeepsOnce
<1>5. ASSUME NEW a \in Actor, Abandon(a)  PROVE OnceInv'
  <2>1. /\ pc'[a] \in {"idle", "tick"} /\ copy'[a].once = FALSE
        /\ UNCHANGED <<row, ran, outlived>>
        /\ \A b \in Actor \ {a} : pc'[b] = pc[b] /\ tid'[b] = tid[b] /\ copy'[b] = copy[b]
    BY <1>0, <1>5 DEF Abandon, End, Go, Absent, After
  <2>. QED BY <1>1, <2>1 DEF OnceInv
<1>6. CASE UNCHANGED vars \/ (\E n \in Stamp : BecomeDue(n)) \/ (\E k \in Token : GoStale(k))
           \/ (\E p \in Poller : TickAges(p))
  <2>1. UNCHANGED <<row, pc, tid, copy, ran>> /\ outlived \subseteq outlived'
    BY <1>6 DEF vars, local, history, BecomeDue, GoStale, TickAges
  <2>. QED BY <1>1, <2>1 DEF OnceInv
<1>. QED
  BY <1>2, <1>3, <1>4, <1>5, <1>6 DEF Next, Return

\* A task that runs once completes at most once, whatever lists of due tasks and
\* copies of its row are still held, crashes included, unless one of its runs
\* outlived its claim; under the assumption of ClaimsExclude.
THEOREM OnceTasksRunOnce ==
    ASSUME Ops \cap Unguarded = {}
    PROVE  Spec => []OnceRunsOnce
<1>1. Init => Owned /\ OneRun /\ OnlyOps /\ OldIsStale /\ OnceInv
  BY DEF Init, Owned, OneRun, OnlyOps, Op, OldIsStale, OnceInv, OnceAt, Touched, Absent
<1>2. Owned /\ OneRun /\ OldIsStale /\ IInv /\ OnlyOps /\ OnceInv /\ IInv' /\ [Next]_vars
      => Owned' /\ OneRun' /\ OnceInv'
  BY OwnedStep, OnceStep DEF OInv
<1>3. IInv /\ OnceInv => OnceRunsOnce
  BY DEF IInv, TypeOK, OnceInv, OnceAt, Touched, OnceRunsOnce
<1>. QED
  BY <1>1, <1>2, <1>3, Initially, Inductive, OnlyOpsInductive, OldIsStaleInductive, PTL
     DEF Spec
=============================================================================

------------------------------ MODULE LLMQueue ------------------------------
(***************************************************************************)
(* LLMRequestQueue (src/corpclaw_lite/llm/queue.py): the limiter in front  *)
(* of the inference backend.  A semaphore bounds the number of concurrent  *)
(* requests; with slot affinity an entry first picks one of the backend's  *)
(* slots, waits for the lock of that slot and only then for the semaphore. *)
(*                                                                         *)
(* Everything runs on one asyncio loop.  No critical section under _lock   *)
(* awaits, so _lock is always free when it is asked for, and a coroutine   *)
(* runs without interruption from one blocking await to the next.  Those   *)
(* awaits are the slot lock, the semaphore and the end of the notify task; *)
(* every action below is the code between two of them.                     *)
(***************************************************************************)
EXTENDS Naturals, Sequences, FiniteSets, SequencesExt

CONSTANTS
    Entry,          \* the callers; each call of acquire() makes a QueueEntry
    User,           \* user ids
    NoUser,         \* assigned_user_id = None
    MaxConcurrent,  \* max_concurrent, the initial value of the semaphore
    Sticky,         \* sticky_slot_ids, in increasing order
    Overflow,       \* overflow_slot_ids, in increasing order
    NoSlot          \* selected_slot = None

Slot == Sticky \cup Overflow

ASSUME QueueAssumption ==
    /\ IsFiniteSet(Entry)
    /\ NoUser \notin User
    /\ MaxConcurrent \in Nat \ {0}
    /\ Sticky \subseteq Nat /\ Overflow \subseteq Nat
    /\ Sticky \cap Overflow = {}
    /\ NoSlot \notin Slot

VARIABLES
    pc,       \* where each call of acquire()/release() stands
    who,      \* entry.user_id
    notify,   \* a notify task was started for the entry
    sel,      \* selected_slot, later entry.slot_id
    reused,   \* entry.assignment_reused
    hasLock,  \* the local slot_lock_acquired
    waiting,  \* self._waiting
    sem,      \* self._semaphore
    slots     \* self._slots

vars == <<pc, who, notify, sel, reused, hasLock, waiting, sem, slots>>

(***************************************************************************)
(* "idle": no call in progress.  "lock"/"sem": blocked on the slot lock / *)
(* the semaphore.  "settling": granted, awaiting the end of the notify     *)
(* task.  "held": acquire() returned.  "cancelling": in the CancelledError *)
(* handler, awaiting the end of the notify task.                           *)
(***************************************************************************)
Phase == {"idle", "lock", "sem", "settling", "held", "released",
          "cancelling"}

\* expires_at: 0.0 is "none"; in the future, "ticking"; in the past, "elapsed".
Timer == {"none", "ticking", "elapsed"}

\* asyncio.Semaphore: blocked futures, and the futures already given a permit
\* whose tasks have not run yet, in the order in which the loop will run them.
SemState == [value : Nat, waiters : Seq(Entry), ready : Seq(Entry)]

\* _SlotState with its asyncio.Lock: woken holds the waiter whose future is
\* done but whose task has not run yet (the lock itself is free meanwhile).
SlotState == [held : BOOLEAN, waiters : Seq(Entry), woken : SUBSET Entry,
              assigned : User \cup {NoUser}, active : BOOLEAN, timer : Timer]

TypeOK ==
    /\ pc \in [Entry -> Phase]
    /\ who \in [Entry -> User \cup {NoUser}]
    /\ notify \in [Entry -> BOOLEAN]
    /\ sel \in [Entry -> Slot \cup {NoSlot}]
    /\ reused \in [Entry -> BOOLEAN]
    /\ hasLock \in [Entry -> BOOLEAN]
    /\ waiting \in Seq(Entry)
    /\ sem \in SemState
    /\ slots \in [Slot -> SlotState]

\* self._active
Active == {e \in Entry : pc[e] \in {"settling", "held"}}

-----------------------------------------------------------------------------
(* asyncio.Semaphore *)

\* Mutant: the permit count is not consulted.
SemLockedUncounted == sem.waiters # <<>> \/ sem.ready # <<>>

\* A new caller blocks while there is no permit or somebody is queued.
SemLocked == sem.value = 0 \/ sem.waiters # <<>> \/ sem.ready # <<>>

\* Mutant: a permit handed to a waiter is counted as free as well.
SemReleaseTwice(s) ==
    IF s.waiters = <<>>
    THEN [s EXCEPT !.value = @ + 1]
    ELSE [s EXCEPT !.value = @ + 1, !.waiters = Tail(@),
                   !.ready = Append(@, Head(s.waiters))]

\* release(): one permit, handed to the first blocked future if there is one.
SemRelease(s) ==
    IF s.waiters = <<>>
    THEN [s EXCEPT !.value = @ + 1]
    ELSE [s EXCEPT !.waiters = Tail(@), !.ready = Append(@, Head(s.waiters))]

\* Mutant: nobody is woken when a permit comes back.
SemDrainNobody(s) == s

\* The loop at the end of acquire(): wake as many waiters as there are permits.
SemDrain(s) ==
    LET k == IF s.value < Len(s.waiters) THEN s.value ELSE Len(s.waiters)
    IN  [value   |-> s.value - k,
         waiters |-> SubSeq(s.waiters, k + 1, Len(s.waiters)),
         ready   |-> s.ready \o SubSeq(s.waiters, 1, k)]

-----------------------------------------------------------------------------
(* asyncio.Lock, as fields of a slot record *)

\* Mutant: a waiter that was woken and has not run yet is overlooked.
LockFreeUnfair(r) == ~r.held /\ r.waiters = <<>>

LockFree(r) == ~r.held /\ r.waiters = <<>> /\ r.woken = {}

WakeFirst(r) ==
    IF r.held \/ r.waiters = <<>> \/ r.woken # {}
    THEN r
    ELSE [r EXCEPT !.waiters = Tail(@), !.woken = {Head(r.waiters)}]

\* acquire(): at once when nobody holds or awaits the lock, else in line.
LockTake(r) == [r EXCEPT !.held = TRUE]
LockAwait(r, e) == [r EXCEPT !.waiters = Append(@, e)]

\* The woken waiter runs: it holds the lock, or, cancelled, wakes the next one.
LockResume(r, e) == [r EXCEPT !.held = TRUE, !.woken = @ \ {e}]
LockWithdraw(r, e) ==
    IF e \in r.woken
    THEN WakeFirst([r EXCEPT !.woken = {}])
    ELSE [r EXCEPT !.waiters = RemoveFirst(@, e)]

\* "if lock.locked(): lock.release()"
LockRelease(r) == IF r.held THEN WakeFirst([r EXCEPT !.held = FALSE]) ELSE r

-----------------------------------------------------------------------------
(* Slot selection, _select_slot() *)

First(S) == CHOOSE s \in S : \A t \in S : s <= t

\* _expire_idle_slots_locked()
ExpireIdle ==
    [s \in Slot |->
        IF /\ s \in Sticky /\ ~slots[s].active
           /\ slots[s].assigned # NoUser /\ slots[s].timer = "elapsed"
        THEN [slots[s] EXCEPT !.assigned = NoUser, !.timer = "none"]
        ELSE slots[s]]

AssignedTo(sl, u) == {s \in Sticky : sl[s].assigned = u}
FreeSticky(sl) == {s \in Sticky : sl[s].assigned = NoUser /\ ~sl[s].active}

\* The slot picked, whether it is a reuse, and the slots after picking it.
SelectSlot(u, affine, eligible) ==
    LET sl == ExpireIdle IN
    IF ~affine \/ Slot = {}
        THEN [slot |-> NoSlot, reuse |-> FALSE, slots |-> slots]
    ELSE IF eligible /\ AssignedTo(sl, u) # {}
        THEN [slot |-> First(AssignedTo(sl, u)), reuse |-> TRUE,
              slots |-> sl]
    ELSE IF eligible /\ FreeSticky(sl) # {}
        THEN [slot |-> First(FreeSticky(sl)), reuse |-> FALSE,
              slots |-> [sl EXCEPT ![First(FreeSticky(sl))] =
                            [@ EXCEPT !.assigned = u, !.timer = "none"]]]
    ELSE IF Overflow # {}
        THEN [slot |-> First(Overflow), reuse |-> FALSE, slots |-> sl]
    ELSE [slot |-> NoSlot, reuse |-> FALSE, slots |-> sl]

-----------------------------------------------------------------------------
(* acquire() *)

\* Mutant: the slot keeps the user it was assigned to when it was selected.
ActivatedUnassigned(sl, s, u) ==
    IF s = NoSlot THEN sl ELSE [sl EXCEPT ![s] = [@ EXCEPT !.active = TRUE]]

\* The grant: leave _waiting, mark the slot, join _active.
Activated(sl, s, u) ==
    IF s = NoSlot THEN sl
    ELSE IF s \in Sticky
        THEN [sl EXCEPT ![s] = [@ EXCEPT !.active = TRUE, !.assigned = u,
                                         !.timer = "none"]]
        ELSE [sl EXCEPT ![s] = [@ EXCEPT !.active = TRUE]]

Grant(e, u, nt, s, sl, wq) ==
    /\ pc' = [pc EXCEPT ![e] = IF nt THEN "settling" ELSE "held"]
    /\ waiting' = RemoveFirst(wq, e)
    /\ slots' = Activated(sl, s, u)

\* With the slot lock in hand (or without a slot): the semaphore.
AwaitPermit(e, u, nt, s, sl, wq) ==
    \/ /\ ~SemLocked
       /\ sem' = [sem EXCEPT !.value = @ - 1]
       /\ Grant(e, u, nt, s, sl, wq)
    \/ /\ SemLocked
       /\ sem' = [sem EXCEPT !.waiters = Append(@, e)]
       /\ pc' = [pc EXCEPT ![e] = "sem"]
       /\ waiting' = wq
       /\ slots' = sl

\* A notify task is started for an entry that is not first in line, when the
\* caller passed a status callback.
ShouldNotify(callback) ==
    callback /\ (waiting # <<>> \/ Cardinality(Active) >= MaxConcurrent)

\* acquire() from the call to its first blocking await.
Enter(e, u, affine, eligible, callback) ==
    LET p  == SelectSlot(u, affine, eligible)
        nt == ShouldNotify(callback)
    IN
    /\ pc[e] \in {"idle", "released"}
    /\ who' = [who EXCEPT ![e] = u]
    /\ notify' = [notify EXCEPT ![e] = nt]
    /\ sel' = [sel EXCEPT ![e] = p.slot]
    /\ reused' = [reused EXCEPT ![e] = p.reuse]
    /\ \/ /\ p.slot = NoSlot
          /\ AwaitPermit(e, u, nt, p.slot, p.slots, Append(waiting, e))
          /\ UNCHANGED hasLock
       \/ /\ p.slot # NoSlot /\ LockFree(p.slots[p.slot])
          /\ AwaitPermit(e, u, nt, p.slot,
                         [p.slots EXCEPT ![p.slot] = LockTake(@)],
                         Append(waiting, e))
          /\ hasLock' = [hasLock EXCEPT ![e] = TRUE]
       \/ /\ p.slot # NoSlot /\ ~LockFree(p.slots[p.slot])
          /\ pc' = [pc EXCEPT ![e] = "lock"]
          /\ slots' = [p.slots EXCEPT ![p.slot] = LockAwait(@, e)]
          /\ waiting' = Append(waiting, e)
          /\ UNCHANGED <<sem, hasLock>>

\* The slot lock's waiter runs again and goes on to the semaphore.
ResumeLock(e) ==
    /\ pc[e] = "lock" /\ e \in slots[sel[e]].woken
    /\ AwaitPermit(e, who[e], notify[e], sel[e],
                   [slots EXCEPT ![sel[e]] = LockResume(@, e)], waiting)
    /\ hasLock' = [hasLock EXCEPT ![e] = TRUE]
    /\ UNCHANGED <<who, notify, sel, reused>>

\* The semaphore's waiter runs again, wakes others if permits are left over,
\* and is granted.
ResumeSem(e) ==
    /\ pc[e] = "sem" /\ sem.ready # <<>> /\ Head(sem.ready) = e
    /\ sem' = SemDrain([sem EXCEPT !.ready = Tail(@)])
    /\ Grant(e, who[e], notify[e], sel[e], slots, waiting)
    /\ UNCHANGED <<who, notify, sel, reused, hasLock>>

\* The notify task has ended (a cancellation delivered here is swallowed by
\* _cancel_notify_task) and acquire() returns.
Settle(e) ==
    /\ pc[e] = "settling"
    /\ pc' = [pc EXCEPT ![e] = "held"]
    /\ UNCHANGED <<who, notify, sel, reused, hasLock, waiting, sem, slots>>

-----------------------------------------------------------------------------
(* Cancellation *)

\* The handler after the notify task has ended: leave _waiting, give back an
\* assignment made by this call, release the slot lock.  (semaphore_acquired
\* is never true here: nothing blocks between taking the permit and _active.)
CleanedUp(e, sl) ==
    LET s == sel[e]
        unassign == /\ s \in Sticky /\ sl[s].assigned = who[e]
                    /\ ~sl[s].active /\ ~reused[e]
        kept == IF unassign
                THEN [sl EXCEPT ![s] = [@ EXCEPT !.assigned = NoUser,
                                                 !.timer = "none"]]
                ELSE sl
    IN  IF hasLock[e] THEN [kept EXCEPT ![s] = LockRelease(@)] ELSE kept

\* acquire() raises: nothing refers to the entry any more.
Raised(e, sl) ==
    /\ pc' = [pc EXCEPT ![e] = "idle"]
    /\ slots' = CleanedUp(e, sl)
    /\ waiting' = RemoveFirst(waiting, e)
    /\ hasLock' = [hasLock EXCEPT ![e] = FALSE]
    /\ who' = [who EXCEPT ![e] = NoUser]
    /\ notify' = [notify EXCEPT ![e] = FALSE]
    /\ sel' = [sel EXCEPT ![e] = NoSlot]
    /\ reused' = [reused EXCEPT ![e] = FALSE]

\* CancelledError reaches acquire(): with a notify task the handler first
\* awaits its end, otherwise it cleans up at once.
Handle(e, sl) ==
    \/ /\ notify[e]
       /\ pc' = [pc EXCEPT ![e] = "cancelling"]
       /\ slots' = sl
       /\ UNCHANGED <<who, notify, sel, reused, hasLock, waiting>>
    \/ ~notify[e] /\ Raised(e, sl)

\* Cancelled while blocked on the slot lock, before or after being woken: a
\* woken waiter passes the wake-up on.
CancelLock(e) ==
    /\ pc[e] = "lock"
    /\ Handle(e, [slots EXCEPT ![sel[e]] = LockWithdraw(@, e)])
    /\ UNCHANGED sem

\* Cancelled while blocked on the semaphore, before or after being given a
\* permit: a permit already given is put back and offered to the others.
CancelSem(e) ==
    /\ pc[e] = "sem"
    /\ \/ /\ Contains(sem.waiters, e)
          /\ sem' = SemDrain([sem EXCEPT !.waiters = RemoveFirst(@, e)])
       \/ /\ sem.ready # <<>> /\ Head(sem.ready) = e
          /\ sem' = SemDrain([value |-> sem.value + 1, waiters |-> sem.waiters,
                              ready |-> Tail(sem.ready)])
    /\ Handle(e, slots)

\* The notify task has ended: the rest of the handler.
FinishCancel(e) ==
    /\ pc[e] = "cancelling"
    /\ Raised(e, slots)
    /\ UNCHANGED sem

-----------------------------------------------------------------------------
(* release() *)

\* The slot half of release(): done whether or not the entry was active.
SlotReleased(s) ==
    IF s = NoSlot THEN slots
    ELSE [slots EXCEPT ![s] = LockRelease(
            IF s \in Sticky
            THEN [@ EXCEPT !.active = FALSE, !.timer = "ticking"]
            ELSE [@ EXCEPT !.active = FALSE, !.assigned = NoUser,
                           !.timer = "none"])]

\* release() of an entry that acquire() returned; only its slot_id can matter
\* afterwards.
ReleaseEntry(e) ==
    /\ slots' = SlotReleased(sel[e])
    /\ sem' = IF e \in Active THEN SemRelease(sem) ELSE sem
    /\ pc' = [pc EXCEPT ![e] = "released"]
    /\ hasLock' = [hasLock EXCEPT ![e] = FALSE]
    /\ who' = [who EXCEPT ![e] = NoUser]
    /\ notify' = [notify EXCEPT ![e] = FALSE]
    /\ reused' = [reused EXCEPT ![e] = FALSE]
    /\ UNCHANGED <<sel, waiting>>

\* The callers' single release, in the finally of the LLM call.
Release(e) == pc[e] = "held" /\ ReleaseEntry(e)

\* idle_ttl_seconds pass after a release.
Elapse(s) ==
    /\ slots[s].timer = "ticking"
    /\ slots' = [slots EXCEPT ![s].timer = "elapsed"]
    /\ UNCHANGED <<pc, who, notify, sel, reused, hasLock, waiting, sem>>

-----------------------------------------------------------------------------

InitSlot == [held |-> FALSE, waiters |-> <<>>, woken |-> {},
             assigned |-> NoUser, active |-> FALSE, timer |-> "none"]

Init ==
    /\ pc = [e \in Entry |-> "idle"]
    /\ who = [e \in Entry |-> NoUser]
    /\ notify = [e \in Entry |-> FALSE]
    /\ sel = [e \in Entry |-> NoSlot]
    /\ reused = [e \in Entry |-> FALSE]
    /\ hasLock = [e \in Entry |-> FALSE]
    /\ waiting = <<>>
    /\ sem = [value |-> MaxConcurrent, waiters |-> <<>>, ready |-> <<>>]
    /\ slots = [s \in Slot |-> InitSlot]

\* What the event loop does by itself for an entry that waits or holds.
Progress(e) == \/ ResumeLock(e) \/ ResumeSem(e) \/ Settle(e)
               \/ FinishCancel(e) \/ Release(e)

Step(e) == \/ \E u \in User, affine, eligible, callback \in BOOLEAN :
                  Enter(e, u, affine, eligible, callback)
           \/ Progress(e)
           \/ CancelLock(e)
           \/ CancelSem(e)

Next == (\E e \in Entry : Step(e)) \/ (\E s \in Slot : Elapse(s))

Spec == Init /\ [][Next]_vars

\* Woken tasks run, notify tasks end, and an LLM call returns or times out.
Fairness == \A e \in Entry : WF_vars(Progress(e))

FairSpec == Spec /\ Fairness

-----------------------------------------------------------------------------
(* Properties *)

\* Whatever the interleaving of acquire, cancellation and release, a permit is
\* either free, handed to a waiter that has not run yet, or used by an entry of
\* _active: none is lost by a cancellation and none is made by a release.
PermitConservation ==
    sem.value + Len(sem.ready) + Cardinality(Active) = MaxConcurrent

Holders(s) == {e \in Entry : hasLock[e] /\ sel[e] = s}

\* The lock of a slot is held exactly while one acquire()/release() pair owns
\* it: two requests never run in one backend slot, and a cancelled waiter never
\* leaves the lock behind.
SlotExclusive ==
    \A s \in Slot :
        /\ \A e, f \in Holders(s) : e = f
        /\ slots[s].held <=> Holders(s) # {}

\* A request running in a sticky slot runs in a slot assigned to its own user
\* and marked active: expiry, selection by another user and a cancellation in
\* between never take it over (the slot holds that user's KV cache).
SlotServesItsUser ==
    \A e \in Active : sel[e] # NoSlot =>
        /\ slots[sel[e]].active
        /\ sel[e] \in Sticky => slots[sel[e]].assigned = who[e]

\* An assignment that no idle timer will ever end (expires_at = 0.0) belongs to
\* a user with a request on its way to that slot: no sequence of cancellations
\* pins a sticky slot to a user for ever.
NoOrphanAssignment ==
    \A s \in Sticky :
        (slots[s].assigned # NoUser /\ ~slots[s].active /\ slots[s].timer = "none")
        => \E e \in Entry : /\ sel[e] = s /\ who[e] = slots[s].assigned
                            /\ pc[e] \in {"lock", "sem", "cancelling"}

\* _waiting lists exactly the calls still waiting, once each: a cancelled or
\* granted entry never inflates the positions and waits shown to users.
WaitingExact ==
    /\ \A i, j \in 1..Len(waiting) : waiting[i] = waiting[j] => i = j
    /\ {waiting[i] : i \in 1..Len(waiting)} =
            {e \in Entry : pc[e] \in {"lock", "sem", "cancelling"}}

\* What the queue records of slots and waiters is true of the calls: each slot
\* belongs to one request and serves its user, none stays assigned for ever, and
\* the waiting list is exact (queue.py:240-560).
SlotsAreSound ==
    SlotExclusive /\ SlotServesItsUser /\ NoOrphanAssignment /\ WaitingExact

\* Entries that ask for the same slot (or for none) are granted in the order in
\* which they entered _waiting, whatever was cancelled in between.
NoOvertaking ==
    [][\A e \in Entry :
          (e \notin Active /\ e \in Active') =>
             \A i \in 1..Len(waiting) :
                (/\ waiting[i] # e
                 /\ \A j \in 1..i : waiting[j] # e
                 /\ pc[waiting[i]] # "cancelling")
                => sel[waiting[i]] # sel'[e]]_vars

\* No lost wake-up and no deadlock between slot locks and the semaphore: every
\* call of acquire() that entered the queue is granted or cancelled.
EveryoneIsServed ==
    \A e \in Entry :
        pc[e] \in {"lock", "sem", "cancelling"} ~>
            pc[e] \in {"settling", "held", "idle"}

\* The queue seen by its callers.
Stage == [e \in Entry |->
            IF e \in Active THEN "active"
            ELSE IF pc[e] \in {"lock", "sem", "cancelling"} THEN "waiting"
            ELSE "idle"]

L == INSTANCE Limiter WITH stage <- Stage

\* With slot locks, hand-offs, notify tasks and cancellation in the handler, the
\* queue is still a plain limiter: at most max_concurrent requests are active,
\* and a request only waits, starts, is withdrawn or finishes.
ImplementsLimiter == L!Spec

\* for TLC: the members of these sets are alike
Symmetry == Permutations(Entry) \cup Permutations(User)
=============================================================================

--------------------------- MODULE LLMQueueProofs ---------------------------
(* Proofs about LLMQueue, for every number of callers, users, slots and     *)
(* permits.                                                                 *)
EXTENDS LLMQueue, SeqLemmas, FiniteSetTheorems

-----------------------------------------------------------------------------
(* The semaphore *)

\* Free permits plus permits handed to waiters that have not run yet.
Permits(s) == s.value + Len(s.ready)

\* A release adds exactly one permit, free or handed over.
LEMMA SemReleasePermits ==
  ASSUME NEW s \in SemState
  PROVE  /\ SemRelease(s) \in SemState
         /\ Permits(SemRelease(s)) = Permits(s) + 1
<1>1. CASE s.waiters = <<>>
  BY <1>1 DEF SemRelease, SemState, Permits
<1>2. CASE s.waiters # <<>>
  <2>1. Head(s.waiters) \in Entry /\ Tail(s.waiters) \in Seq(Entry)
    BY <1>2 DEF SemState
  <2>2. SemRelease(s) = [value |-> s.value, waiters |-> Tail(s.waiters),
                         ready |-> Append(s.ready, Head(s.waiters))]
    BY <1>2 DEF SemRelease, SemState
  <2>3. /\ Append(s.ready, Head(s.waiters)) \in Seq(Entry)
        /\ Len(Append(s.ready, Head(s.waiters))) = Len(s.ready) + 1
    BY <2>1 DEF SemState
  <2>. QED BY <2>1, <2>2, <2>3 DEF SemState, Permits
<1>. QED BY <1>1, <1>2

\* Waking waiters turns free permits into handed-over ones.
LEMMA SemDrainPermits ==
  ASSUME NEW s \in SemState
  PROVE  /\ SemDrain(s) \in SemState
         /\ Permits(SemDrain(s)) = Permits(s)
<1> DEFINE k == IF s.value < Len(s.waiters) THEN s.value ELSE Len(s.waiters)
           a == SubSeq(s.waiters, k + 1, Len(s.waiters))
           b == SubSeq(s.waiters, 1, k)
<1>1. k \in 0..s.value /\ k \in 0..Len(s.waiters) /\ s.value \in Nat
  BY DEF SemState
<1>2. \A i \in 1..Len(s.waiters) : s.waiters[i] \in Entry
  BY DEF SemState
<1> HIDE DEF k
<1>3. a \in Seq(Entry)
  <2>1. Len(s.waiters) \in Nat
    BY DEF SemState
  <2>. QED BY <1>1, <1>2, <2>1, SubSeqProperties
<1>4. b \in Seq(Entry) /\ Len(b) = k
  <2>1. Len(s.waiters) \in Nat
    BY DEF SemState
  <2>2. /\ b \in Seq(Entry)
        /\ Len(b) = IF 1 <= k THEN k - 1 + 1 ELSE 0
    BY <1>1, <1>2, <2>1, SubSeqProperties
  <2>. QED BY <1>1, <2>2
<1>5. SemDrain(s) = [value |-> s.value - k, waiters |-> a, ready |-> s.ready \o b]
  BY DEF SemDrain, k
<1> HIDE DEF a, b
<1>6. s.ready \o b \in Seq(Entry) /\ Len(s.ready \o b) = Len(s.ready) + k
  BY <1>4, ConcatProperties DEF SemState
<1>7. Len(s.ready) \in Nat
  BY DEF SemState
<1>. QED BY <1>1, <1>3, <1>5, <1>6, <1>7 DEF SemState, Permits

-----------------------------------------------------------------------------
(* The slots *)

SlotMap == [Slot -> SlotState]

LEMMA WakeFirstType ==
  ASSUME NEW r \in SlotState
  PROVE  WakeFirst(r) \in SlotState
<1>1. CASE r.held \/ r.waiters = <<>> \/ r.woken # {}
  BY <1>1 DEF WakeFirst
<1>2. CASE ~(r.held \/ r.waiters = <<>> \/ r.woken # {})
  <2>1. Head(r.waiters) \in Entry /\ Tail(r.waiters) \in Seq(Entry)
    BY <1>2 DEF SlotState
  <2>. QED BY <1>2, <2>1 DEF WakeFirst, SlotState
<1>. QED BY <1>1, <1>2

LEMMA LockReleaseType ==
  ASSUME NEW r \in SlotState
  PROVE  LockRelease(r) \in SlotState
<1>1. [r EXCEPT !.held = FALSE] \in SlotState
  BY DEF SlotState
<1>. QED BY <1>1, WakeFirstType DEF LockRelease

LEMMA LockOpsType ==
  ASSUME NEW r \in SlotState, NEW e \in Entry
  PROVE  /\ LockTake(r) \in SlotState
         /\ LockAwait(r, e) \in SlotState
         /\ LockResume(r, e) \in SlotState
         /\ LockWithdraw(r, e) \in SlotState
<1>1. LockTake(r) \in SlotState /\ LockResume(r, e) \in SlotState
  BY DEF LockTake, LockResume, SlotState
<1>2. LockAwait(r, e) \in SlotState
  <2>0. r.waiters \in Seq(Entry)
    BY DEF SlotState
  <2>1. PICK q \in Seq(Entry) : q = Append(r.waiters, e)
    BY <2>0, AppendProperties
  <2>2. LockAwait(r, e) = [r EXCEPT !.waiters = q]
    BY <2>1, Zenon DEF LockAwait
  <2>. QED BY <2>2 DEF SlotState
<1>3. LockWithdraw(r, e) \in SlotState
  <2>1. [r EXCEPT !.woken = {}] \in SlotState
    BY DEF SlotState
  <2>2. WakeFirst([r EXCEPT !.woken = {}]) \in SlotState
    BY <2>1, WakeFirstType
  <2>3. RemoveFirst(r.waiters, e) \in Seq(Entry)
    BY RemoveFirstType DEF SlotState
  <2>4. [r EXCEPT !.waiters = RemoveFirst(@, e)] \in SlotState
    BY <2>3 DEF SlotState
  <2>. QED BY <2>2, <2>4 DEF LockWithdraw
<1>. QED BY <1>1, <1>2, <1>3

\* Updating one slot.
LEMMA SlotUpdate ==
  ASSUME NEW sl \in SlotMap, NEW s \in Slot, NEW r \in SlotState
  PROVE  [sl EXCEPT ![s] = r] \in SlotMap
BY DEF SlotMap

LEMMA FirstIn ==
  ASSUME NEW S \in SUBSET Slot, S # {}
  PROVE  First(S) \in S
<1>1. S \in SUBSET Nat
  BY QueueAssumption DEF Slot
<1>. QED BY <1>1, LeastExists DEF First

LEMMA ExpireIdleType ==
  ASSUME slots \in SlotMap
  PROVE  ExpireIdle \in SlotMap
<1> SUFFICES ASSUME NEW s \in Slot
             PROVE  ExpireIdle[s] \in SlotState
  BY DEF ExpireIdle, SlotMap
<1>1. slots[s] \in SlotState
  BY DEF SlotMap
<1>2. [slots[s] EXCEPT !.assigned = NoUser, !.timer = "none"] \in SlotState
  BY <1>1 DEF SlotState, Timer
<1>. QED BY <1>1, <1>2 DEF ExpireIdle

LEMMA SelectSlotType ==
  ASSUME slots \in SlotMap, NEW u \in User,
         NEW affine \in BOOLEAN, NEW eligible \in BOOLEAN
  PROVE  LET p == SelectSlot(u, affine, eligible) IN
         /\ p.slot \in Slot \cup {NoSlot}
         /\ p.reuse \in BOOLEAN
         /\ p.slots \in SlotMap
<1> DEFINE sl == ExpireIdle
           own == AssignedTo(sl, u)
           free == FreeSticky(sl)
<1>1. sl \in SlotMap
  BY ExpireIdleType
<1>2. own \in SUBSET Slot /\ free \in SUBSET Slot /\ Overflow \in SUBSET Slot
  BY DEF AssignedTo, FreeSticky, Slot
<1>3. free # {} => [sl EXCEPT ![First(free)] =
                       [@ EXCEPT !.assigned = u, !.timer = "none"]] \in SlotMap
  <2> HIDE DEF sl, free
  <2> SUFFICES ASSUME free # {}
               PROVE  [sl EXCEPT ![First(free)] =
                         [@ EXCEPT !.assigned = u, !.timer = "none"]] \in SlotMap
    OBVIOUS
  <2>1. First(free) \in Slot
    BY <1>2, FirstIn
  <2>2. sl[First(free)] \in SlotState
    BY <1>1, <2>1 DEF SlotMap
  <2>3. [sl[First(free)] EXCEPT !.assigned = u, !.timer = "none"] \in SlotState
    BY <2>2 DEF SlotState, Timer
  <2>. QED BY <1>1, <2>1, <2>3 DEF SlotMap
<1>4. /\ own # {} => First(own) \in Slot
      /\ free # {} => First(free) \in Slot
      /\ Overflow # {} => First(Overflow) \in Slot
  <2> HIDE DEF own, free
  <2>. QED BY <1>2, FirstIn
<1>5. SelectSlot(u, affine, eligible) =
        IF ~affine \/ Slot = {}
            THEN [slot |-> NoSlot, reuse |-> FALSE, slots |-> slots]
        ELSE IF eligible /\ own # {}
            THEN [slot |-> First(own), reuse |-> TRUE, slots |-> sl]
        ELSE IF eligible /\ free # {}
            THEN [slot |-> First(free), reuse |-> FALSE,
                  slots |-> [sl EXCEPT ![First(free)] =
                               [@ EXCEPT !.assigned = u, !.timer = "none"]]]
        ELSE IF Overflow # {}
            THEN [slot |-> First(Overflow), reuse |-> FALSE, slots |-> sl]
        ELSE [slot |-> NoSlot, reuse |-> FALSE, slots |-> sl]
  BY DEF SelectSlot
<1> HIDE DEF sl, own, free
<1>. QED BY <1>1, <1>3, <1>4, <1>5

LEMMA ActivatedType ==
  ASSUME NEW sl \in SlotMap, NEW s \in Slot \cup {NoSlot},
         NEW u \in User \cup {NoUser}
  PROVE  Activated(sl, s, u) \in SlotMap
<1>1. CASE s = NoSlot
  BY <1>1 DEF Activated
<1>2. CASE s # NoSlot
  <2>1. sl[s] \in SlotState
    BY <1>2 DEF SlotMap
  <2>2. /\ [sl[s] EXCEPT !.active = TRUE] \in SlotState
        /\ [sl[s] EXCEPT !.active = TRUE, !.assigned = u, !.timer = "none"]
              \in SlotState
    BY <2>1 DEF SlotState, Timer
  <2>. QED BY <1>2, <2>2 DEF Activated, SlotMap
<1>. QED BY <1>1, <1>2

LEMMA SlotReleasedType ==
  ASSUME slots \in SlotMap, NEW s \in Slot \cup {NoSlot}
  PROVE  SlotReleased(s) \in SlotMap
<1>1. CASE s = NoSlot
  BY <1>1 DEF SlotReleased
<1>2. CASE s # NoSlot
  <2> DEFINE r == IF s \in Sticky
                  THEN [slots[s] EXCEPT !.active = FALSE, !.timer = "ticking"]
                  ELSE [slots[s] EXCEPT !.active = FALSE, !.assigned = NoUser,
                                        !.timer = "none"]
  <2>1. slots[s] \in SlotState
    BY <1>2 DEF SlotMap
  <2>2. r \in SlotState
    BY <2>1 DEF SlotState, Timer
  <2>3. SlotReleased(s) = [slots EXCEPT ![s] = LockRelease(r)]
    BY <1>2 DEF SlotReleased, SlotMap
  <2> HIDE DEF r
  <2>4. LockRelease(r) \in SlotState
    BY <2>2, LockReleaseType
  <2>. QED BY <2>3, <2>4 DEF SlotMap
<1>. QED BY <1>1, <1>2

LEMMA CleanedUpType ==
  ASSUME TypeOK, NEW sl \in SlotMap, NEW e \in Entry,
         hasLock[e] => sel[e] \in Slot
  PROVE  CleanedUp(e, sl) \in SlotMap
<1> DEFINE s == sel[e]
           kept == IF /\ s \in Sticky /\ sl[s].assigned = who[e]
                      /\ ~sl[s].active /\ ~reused[e]
                   THEN [sl EXCEPT ![s] = [@ EXCEPT !.assigned = NoUser,
                                                    !.timer = "none"]]
                   ELSE sl
<1>1. kept \in SlotMap
  <2>1. CASE s \in Sticky
    <3>1. s \in Slot /\ sl[s] \in SlotState
      BY <2>1 DEF SlotMap, Slot
    <3>2. [sl[s] EXCEPT !.assigned = NoUser, !.timer = "none"] \in SlotState
      BY <3>1 DEF SlotState, Timer
    <3>. QED BY <3>1, <3>2 DEF SlotMap
  <2>2. CASE s \notin Sticky
    BY <2>2
  <2>. QED BY <2>1, <2>2
<1>2. CleanedUp(e, sl) = IF hasLock[e] THEN [kept EXCEPT ![s] = LockRelease(@)]
                         ELSE kept
  BY DEF CleanedUp
<1> HIDE DEF kept
<1>3. ASSUME hasLock[e]
      PROVE  [kept EXCEPT ![s] = LockRelease(@)] \in SlotMap
  <2>1. s \in Slot /\ kept[s] \in SlotState
    BY <1>1, <1>3 DEF SlotMap
  <2>2. LockRelease(kept[s]) \in SlotState
    BY <2>1, LockReleaseType
  <2>. QED BY <1>1, <2>1, <2>2 DEF SlotMap
<1>. QED BY <1>1, <1>2, <1>3

-----------------------------------------------------------------------------
(* Type correctness, and what a step does to the permits *)

\* A caller that waits for or holds a slot lock has selected a slot.
LockNeedsSlot ==
  \A e \in Entry :
    /\ hasLock[e] => sel[e] \in Slot /\ pc[e] \in {"sem", "settling", "held", "cancelling"}
    /\ pc[e] = "lock" => sel[e] \in Slot

TypeInv == TypeOK /\ LockNeedsSlot

\* A step leaves permits and _active alone, grants one permit to one entry, or
\* takes one back from one entry.
PermitStep ==
  \/ Permits(sem') = Permits(sem) /\ Active' = Active
  \/ \E e \in Entry \ Active : /\ Permits(sem') = Permits(sem) - 1
                               /\ Active' = Active \cup {e}
  \/ \E e \in Active : /\ Permits(sem') = Permits(sem) + 1
                       /\ Active' = Active \ {e}

LEMMA GrantType ==
  ASSUME TypeOK, NEW e \in Entry, NEW u \in User \cup {NoUser},
         NEW nt \in BOOLEAN, NEW s \in Slot \cup {NoSlot},
         NEW sl \in SlotMap, NEW wq \in Seq(Entry),
         Grant(e, u, nt, s, sl, wq)
  PROVE  /\ pc' \in [Entry -> Phase]
         /\ pc' = [pc EXCEPT ![e] = pc'[e]]
         /\ pc'[e] \in {"settling", "held"}
         /\ waiting' \in Seq(Entry)
         /\ slots' \in SlotMap
<1>1. waiting' \in Seq(Entry)
  BY RemoveFirstType DEF Grant
<1>2. slots' \in SlotMap
  BY ActivatedType DEF Grant
<1>. QED BY <1>1, <1>2 DEF Grant, TypeOK, Phase

LEMMA AwaitPermitType ==
  ASSUME TypeOK, NEW e \in Entry, NEW u \in User \cup {NoUser},
         NEW nt \in BOOLEAN, NEW s \in Slot \cup {NoSlot},
         NEW sl \in SlotMap, NEW wq \in Seq(Entry),
         AwaitPermit(e, u, nt, s, sl, wq)
  PROVE  /\ pc' \in [Entry -> Phase]
         /\ pc' = [pc EXCEPT ![e] = pc'[e]]
         /\ waiting' \in Seq(Entry)
         /\ slots' \in SlotMap
         /\ sem' \in SemState
         /\ \/ pc'[e] = "sem" /\ Permits(sem') = Permits(sem)
            \/ pc'[e] \in {"settling", "held"} /\ Permits(sem') = Permits(sem) - 1
<1>1. CASE SemLocked
  <2>1. /\ sem' = [sem EXCEPT !.waiters = Append(@, e)]
        /\ pc' = [pc EXCEPT ![e] = "sem"]
        /\ waiting' = wq
        /\ slots' = sl
    BY <1>1 DEF AwaitPermit
  <2>2. sem' \in SemState /\ sem'.value = sem.value /\ sem'.ready = sem.ready
    <3>1. sem' = [value |-> sem.value, waiters |-> Append(sem.waiters, e),
                  ready |-> sem.ready]
      BY <2>1 DEF TypeOK, SemState
    <3>2. Append(sem.waiters, e) \in Seq(Entry)
      BY DEF TypeOK, SemState
    <3>. QED BY <3>1, <3>2 DEF TypeOK, SemState
  <2>3. Permits(sem') = Permits(sem)
    BY <2>2 DEF Permits
  <2>. QED BY <2>1, <2>2, <2>3 DEF TypeOK, Phase
<1>2. CASE ~SemLocked
  <2>1. /\ sem' = [sem EXCEPT !.value = @ - 1]
        /\ Grant(e, u, nt, s, sl, wq)
    BY <1>2 DEF AwaitPermit
  <2>2. sem.value \in Nat /\ sem.value # 0 /\ Len(sem.ready) \in Nat
    BY <1>2 DEF TypeOK, SemState, SemLocked
  <2>3. sem' = [value |-> sem.value - 1, waiters |-> sem.waiters,
                ready |-> sem.ready]
    BY <2>1 DEF TypeOK, SemState
  <2>4. sem' \in SemState /\ Permits(sem') = Permits(sem) - 1
    <3>1. sem.value - 1 \in Nat /\ sem.waiters \in Seq(Entry) /\ sem.ready \in Seq(Entry)
      BY <2>2 DEF TypeOK, SemState
    <3>2. sem' \in SemState
      BY <2>3, <3>1 DEF SemState
    <3>3. sem'.value = sem.value - 1 /\ sem'.ready = sem.ready
      BY <2>3
    <3>4. Permits(sem') = Permits(sem) - 1
      BY <2>2, <3>3 DEF Permits
    <3>. QED BY <3>2, <3>4
  <2>5. /\ pc' \in [Entry -> Phase]
        /\ pc' = [pc EXCEPT ![e] = pc'[e]]
        /\ pc'[e] \in {"settling", "held"}
        /\ waiting' \in Seq(Entry)
        /\ slots' \in SlotMap
    BY <2>1, GrantType
  <2>. QED BY <2>4, <2>5
<1>. QED BY <1>1, <1>2

\* The permits of a step that changes the phase of one entry only.
LEMMA OnePhase ==
  ASSUME TypeOK, NEW e \in Entry, pc' = [pc EXCEPT ![e] = pc'[e]]
  PROVE  /\ pc'[e] \in {"settling", "held"} => Active' = Active \cup {e}
         /\ pc'[e] \notin {"settling", "held"} => Active' = Active \ {e}
         /\ e \notin Active => Active \ {e} = Active
BY DEF Active, TypeOK

LEMMA EnterStep ==
  ASSUME TypeInv, NEW e \in Entry, NEW u \in User, NEW affine \in BOOLEAN,
         NEW eligible \in BOOLEAN, NEW callback \in BOOLEAN,
         Enter(e, u, affine, eligible, callback)
  PROVE  TypeInv' /\ PermitStep
<1> DEFINE p == SelectSlot(u, affine, eligible)
           nt == ShouldNotify(callback)
           wq == Append(waiting, e)
           taken == [p.slots EXCEPT ![p.slot] = LockTake(@)]
           queued == [p.slots EXCEPT ![p.slot] = LockAwait(@, e)]
<1>1. /\ p.slot \in Slot \cup {NoSlot}
      /\ p.reuse \in BOOLEAN
      /\ p.slots \in SlotMap
  BY SelectSlotType DEF TypeInv, TypeOK, SlotMap
<1>2. nt \in BOOLEAN /\ wq \in Seq(Entry)
  BY DEF ShouldNotify, TypeInv, TypeOK
<1>3. /\ pc[e] \in {"idle", "released"}
      /\ who' = [who EXCEPT ![e] = u]
      /\ notify' = [notify EXCEPT ![e] = nt]
      /\ sel' = [sel EXCEPT ![e] = p.slot]
      /\ reused' = [reused EXCEPT ![e] = p.reuse]
      /\ \/ /\ p.slot = NoSlot
            /\ AwaitPermit(e, u, nt, p.slot, p.slots, wq)
            /\ UNCHANGED hasLock
         \/ /\ p.slot # NoSlot /\ LockFree(p.slots[p.slot])
            /\ AwaitPermit(e, u, nt, p.slot, taken, wq)
            /\ hasLock' = [hasLock EXCEPT ![e] = TRUE]
         \/ /\ p.slot # NoSlot /\ ~LockFree(p.slots[p.slot])
            /\ pc' = [pc EXCEPT ![e] = "lock"]
            /\ slots' = queued
            /\ waiting' = wq
            /\ UNCHANGED <<sem, hasLock>>
  BY DEF Enter
<1>4. ASSUME p.slot # NoSlot
      PROVE  taken \in SlotMap /\ queued \in SlotMap
  <2> HIDE DEF p
  <2>1. p.slot \in Slot /\ p.slots[p.slot] \in SlotState
    BY <1>1, <1>4 DEF SlotMap
  <2>2. /\ LockTake(p.slots[p.slot]) \in SlotState
        /\ LockAwait(p.slots[p.slot], e) \in SlotState
    BY <2>1, LockOpsType
  <2>. QED BY <1>1, <2>1, <2>2, SlotUpdate
<1> HIDE DEF p, nt, wq, taken, queued
<1>5. /\ who' \in [Entry -> User \cup {NoUser}]
      /\ notify' \in [Entry -> BOOLEAN]
      /\ sel' \in [Entry -> Slot \cup {NoSlot}]
      /\ reused' \in [Entry -> BOOLEAN]
      /\ hasLock' \in [Entry -> BOOLEAN]
  BY <1>1, <1>2, <1>3 DEF TypeInv, TypeOK
<1>6. e \notin Active
  BY <1>3 DEF Active
<1>7. CASE \E sl \in SlotMap : AwaitPermit(e, u, nt, p.slot, sl, wq)
  <2>1. PICK sl \in SlotMap : AwaitPermit(e, u, nt, p.slot, sl, wq)
    BY <1>7
  <2>2. /\ pc' \in [Entry -> Phase]
        /\ pc' = [pc EXCEPT ![e] = pc'[e]]
        /\ waiting' \in Seq(Entry)
        /\ slots' \in SlotMap
        /\ sem' \in SemState
        /\ \/ pc'[e] = "sem" /\ Permits(sem') = Permits(sem)
           \/ pc'[e] \in {"settling", "held"} /\ Permits(sem') = Permits(sem) - 1
    BY <1>1, <1>2, <2>1, AwaitPermitType DEF TypeInv
  <2>3. TypeOK'
    BY <1>5, <2>2 DEF TypeOK, SlotMap
  <2>4. LockNeedsSlot'
    <3>1. /\ sel' = [sel EXCEPT ![e] = p.slot]
          /\ pc'[e] # "lock"
          /\ \/ UNCHANGED hasLock
             \/ hasLock' = [hasLock EXCEPT ![e] = TRUE] /\ p.slot # NoSlot
      BY <1>3, <2>2
    <3>2. pc'[e] \in {"sem", "settling", "held"} /\ ~hasLock[e]
      BY <1>3, <2>2 DEF LockNeedsSlot, TypeInv
    <3>. QED BY <1>1, <2>2, <3>1, <3>2 DEF LockNeedsSlot, TypeInv, TypeOK
  <2>5. PermitStep
    <3>0. TypeOK /\ pc' = [pc EXCEPT ![e] = pc'[e]]
      BY <2>2 DEF TypeInv
    <3>1. /\ pc'[e] \in {"settling", "held"} => Active' = Active \cup {e}
          /\ pc'[e] \notin {"settling", "held"} => Active' = Active
      BY <1>6, <3>0, OnePhase
    <3>. QED BY <1>6, <2>2, <3>1 DEF PermitStep
  <2>. QED BY <2>3, <2>4, <2>5 DEF TypeInv
<1>8. CASE /\ p.slot # NoSlot
           /\ pc' = [pc EXCEPT ![e] = "lock"]
           /\ slots' = queued
           /\ waiting' = wq
           /\ UNCHANGED <<sem, hasLock>>
  <2>1. TypeOK'
    BY <1>2, <1>4, <1>5, <1>8 DEF TypeInv, TypeOK, SlotMap, Phase
  <2>2. LockNeedsSlot'
    BY <1>1, <1>3, <1>8 DEF LockNeedsSlot, TypeInv, TypeOK
  <2>3. pc'[e] = "lock" /\ pc' = [pc EXCEPT ![e] = pc'[e]]
    BY <1>8 DEF TypeInv, TypeOK
  <2>4. PermitStep
    <3>1. Active' = Active
      BY <1>6, <2>3, OnePhase DEF TypeInv
    <3>. QED BY <1>8, <3>1 DEF PermitStep, Permits
  <2>. QED BY <2>1, <2>2, <2>4 DEF TypeInv
<1>. QED BY <1>1, <1>3, <1>4, <1>7, <1>8

LEMMA ResumeLockStep ==
  ASSUME TypeInv, NEW e \in Entry, ResumeLock(e)
  PROVE  TypeInv' /\ PermitStep
<1> DEFINE sl == [slots EXCEPT ![sel[e]] = LockResume(@, e)]
<1>1. /\ pc[e] = "lock"
      /\ AwaitPermit(e, who[e], notify[e], sel[e], sl, waiting)
      /\ hasLock' = [hasLock EXCEPT ![e] = TRUE]
      /\ UNCHANGED <<who, notify, sel, reused>>
  BY DEF ResumeLock
<1>2. sel[e] \in Slot /\ slots \in SlotMap /\ slots[sel[e]] \in SlotState
  BY <1>1 DEF TypeInv, LockNeedsSlot, TypeOK, SlotMap
<1>3. sl \in SlotMap
  BY <1>2, LockOpsType, SlotUpdate
<1> HIDE DEF sl
<1>4. /\ pc' \in [Entry -> Phase]
      /\ pc' = [pc EXCEPT ![e] = pc'[e]]
      /\ waiting' \in Seq(Entry)
      /\ slots' \in SlotMap
      /\ sem' \in SemState
      /\ \/ pc'[e] = "sem" /\ Permits(sem') = Permits(sem)
         \/ pc'[e] \in {"settling", "held"} /\ Permits(sem') = Permits(sem) - 1
  <2>1. TypeOK /\ who[e] \in User \cup {NoUser} /\ notify[e] \in BOOLEAN
        /\ sel[e] \in Slot \cup {NoSlot} /\ waiting \in Seq(Entry)
    BY DEF TypeInv, TypeOK
  <2>. QED BY <1>1, <1>3, <2>1, AwaitPermitType
<1>5. TypeOK'
  BY <1>1, <1>4 DEF TypeInv, TypeOK, SlotMap
<1>6. LockNeedsSlot'
  <2>1. pc'[e] \in {"sem", "settling", "held"}
    BY <1>4
  <2>. QED BY <1>1, <1>2, <1>4, <2>1 DEF LockNeedsSlot, TypeInv, TypeOK
<1>7. e \notin Active
  BY <1>1 DEF Active
<1>8. PermitStep
  <2>1. TypeOK /\ pc' = [pc EXCEPT ![e] = pc'[e]]
    BY <1>4 DEF TypeInv
  <2>2. /\ pc'[e] \in {"settling", "held"} => Active' = Active \cup {e}
        /\ pc'[e] \notin {"settling", "held"} => Active' = Active
    BY <1>7, <2>1, OnePhase
  <2>. QED BY <1>4, <1>7, <2>2 DEF PermitStep
<1>. QED BY <1>5, <1>6, <1>8 DEF TypeInv

\* Taking the head off the ready queue, and putting back its permit.
LEMMA SemReadyTail ==
  ASSUME NEW s \in SemState, s.ready # <<>>
  PROVE  /\ [s EXCEPT !.ready = Tail(@)] \in SemState
         /\ Permits([s EXCEPT !.ready = Tail(@)]) = Permits(s) - 1
         /\ [value |-> s.value + 1, waiters |-> s.waiters, ready |-> Tail(s.ready)]
               \in SemState
         /\ Permits([value |-> s.value + 1, waiters |-> s.waiters,
                     ready |-> Tail(s.ready)]) = Permits(s)
<1>0. s.ready \in Seq(Entry)
  BY DEF SemState
<1>1. PICK q \in Seq(Entry) : q = Tail(s.ready) /\ Len(q) = Len(s.ready) - 1
  BY <1>0, HeadTailProperties
<1>2. s.value \in Nat /\ Len(s.ready) \in Nat
  BY DEF SemState
<1>3. [s EXCEPT !.ready = Tail(@)] =
        [value |-> s.value, waiters |-> s.waiters, ready |-> q]
  <2>1. [s EXCEPT !.ready = Tail(@)] = [s EXCEPT !.ready = q]
    BY <1>1, Zenon
  <2>. QED BY <2>1 DEF SemState
<1>5. /\ [value |-> s.value, waiters |-> s.waiters, ready |-> q] \in SemState
      /\ [value |-> s.value + 1, waiters |-> s.waiters, ready |-> q] \in SemState
  BY <1>1, <1>2 DEF SemState
<1>6. /\ Permits([value |-> s.value, waiters |-> s.waiters, ready |-> q])
           = Permits(s) - 1
      /\ Permits([value |-> s.value + 1, waiters |-> s.waiters, ready |-> q])
           = Permits(s)
  <2>1. \A v : Permits([value |-> v, waiters |-> s.waiters, ready |-> q])
                = v + (Len(s.ready) - 1)
    BY <1>1 DEF Permits
  <2>2. \A v, l \in Nat : v + (l - 1) = (v + l) - 1 /\ (v + 1) + (l - 1) = v + l
    OBVIOUS
  <2>3. /\ s.value + (Len(s.ready) - 1) = (s.value + Len(s.ready)) - 1
        /\ (s.value + 1) + (Len(s.ready) - 1) = s.value + Len(s.ready)
    BY <1>2, <2>2, Zenon
  <2>4. Permits(s) = s.value + Len(s.ready)
    BY Zenon DEF Permits
  <2>. HIDE DEF Permits
  <2>. QED
    BY <2>1, <2>3, <2>4, Zenon
<1>. QED BY <1>1, <1>3, <1>5, <1>6, Zenon

\* A blocked future leaves the semaphore's queue.
LEMMA SemLeave ==
  ASSUME NEW s \in SemState, NEW e
  PROVE  /\ [s EXCEPT !.waiters = RemoveFirst(@, e)] \in SemState
         /\ Permits([s EXCEPT !.waiters = RemoveFirst(@, e)]) = Permits(s)
<1>1. PICK q \in Seq(Entry) : q = RemoveFirst(s.waiters, e)
  BY RemoveFirstType DEF SemState
<1>2. [s EXCEPT !.waiters = RemoveFirst(@, e)] =
        [value |-> s.value, waiters |-> q, ready |-> s.ready]
  BY <1>1 DEF SemState
<1>3. [value |-> s.value, waiters |-> q, ready |-> s.ready] \in SemState
  BY DEF SemState
<1>. QED BY <1>2, <1>3 DEF Permits

LEMMA ResumeSemStep ==
  ASSUME TypeInv, NEW e \in Entry, ResumeSem(e)
  PROVE  TypeInv' /\ PermitStep
<1>1. /\ pc[e] = "sem" /\ sem.ready # <<>>
      /\ sem' = SemDrain([sem EXCEPT !.ready = Tail(@)])
      /\ Grant(e, who[e], notify[e], sel[e], slots, waiting)
      /\ UNCHANGED <<who, notify, sel, reused, hasLock>>
  BY DEF ResumeSem
<1>2. TypeOK /\ sem \in SemState /\ slots \in SlotMap
  BY DEF TypeInv, TypeOK, SlotMap
<1>3. sem' \in SemState /\ Permits(sem') = Permits(sem) - 1
  BY <1>1, <1>2, SemReadyTail, SemDrainPermits
<1>4. /\ pc' \in [Entry -> Phase]
      /\ pc' = [pc EXCEPT ![e] = pc'[e]]
      /\ pc'[e] \in {"settling", "held"}
      /\ waiting' \in Seq(Entry)
      /\ slots' \in SlotMap
  <2>1. who[e] \in User \cup {NoUser} /\ notify[e] \in BOOLEAN
        /\ sel[e] \in Slot \cup {NoSlot} /\ waiting \in Seq(Entry)
    BY <1>2 DEF TypeOK
  <2>. QED BY <1>1, <1>2, <2>1, GrantType
<1>5. TypeOK'
  BY <1>1, <1>2, <1>3, <1>4 DEF TypeOK, SlotMap
<1>6. LockNeedsSlot'
  BY <1>1, <1>4 DEF LockNeedsSlot, TypeInv, TypeOK
<1>7. e \notin Active
  BY <1>1 DEF Active
<1>8. Active' = Active \cup {e}
  BY <1>2, <1>4, OnePhase
<1>9. PermitStep
  BY <1>3, <1>7, <1>8 DEF PermitStep
<1>. QED BY <1>5, <1>6, <1>9 DEF TypeInv

LEMMA SettleStep ==
  ASSUME TypeInv, NEW e \in Entry, Settle(e)
  PROVE  TypeInv' /\ PermitStep
<1>1. TypeOK'
  BY DEF Settle, TypeInv, TypeOK, Phase
<1>2. LockNeedsSlot'
  BY DEF Settle, TypeInv, TypeOK, LockNeedsSlot
<1>3. Active' = Active /\ Permits(sem') = Permits(sem)
  BY DEF Settle, Active, TypeInv, TypeOK, Permits
<1>. QED BY <1>1, <1>2, <1>3 DEF TypeInv, PermitStep

\* acquire() raising: the entry leaves and no permit moves.
LEMMA RaisedType ==
  ASSUME TypeInv, NEW e \in Entry, NEW sl \in SlotMap, Raised(e, sl),
         sem' \in SemState
  PROVE  TypeInv' /\ Active' = Active \ {e}
<1>1. TypeOK /\ waiting \in Seq(Entry) /\ (hasLock[e] => sel[e] \in Slot)
  BY DEF TypeInv, TypeOK, LockNeedsSlot
<1>2. slots' \in SlotMap
  BY <1>1, CleanedUpType DEF Raised
<1>3. waiting' \in Seq(Entry)
  BY <1>1, RemoveFirstType DEF Raised
<1>4. TypeOK'
  BY <1>1, <1>2, <1>3 DEF Raised, TypeOK, SlotMap, Phase
<1>5. LockNeedsSlot'
  BY <1>1 DEF Raised, TypeInv, TypeOK, LockNeedsSlot
<1>6. pc' = [pc EXCEPT ![e] = pc'[e]] /\ pc'[e] = "idle"
  BY <1>1 DEF Raised, TypeOK
<1>7. Active' = Active \ {e}
  BY <1>1, <1>6, OnePhase
<1>. QED BY <1>4, <1>5, <1>7 DEF TypeInv

\* The handler: no permit moves but those the semaphore itself took back.
LEMMA HandleType ==
  ASSUME TypeInv, NEW e \in Entry, NEW sl \in SlotMap, Handle(e, sl),
         pc[e] \in {"lock", "sem"}, sem' \in SemState
  PROVE  TypeInv' /\ Active' = Active
<1>1. TypeOK /\ e \notin Active
  BY DEF TypeInv, Active
<1>2. Active \ {e} = Active
  BY <1>1
<1>3. CASE Raised(e, sl)
  BY <1>2, <1>3, RaisedType
<1>4. CASE /\ pc' = [pc EXCEPT ![e] = "cancelling"]
           /\ slots' = sl
           /\ UNCHANGED <<who, notify, sel, reused, hasLock, waiting>>
  <2>1. TypeOK'
    BY <1>1, <1>4 DEF TypeOK, SlotMap, Phase
  <2>2. LockNeedsSlot'
    BY <1>1, <1>4 DEF TypeInv, TypeOK, LockNeedsSlot
  <2>3. pc' = [pc EXCEPT ![e] = pc'[e]] /\ pc'[e] = "cancelling"
    BY <1>1, <1>4 DEF TypeOK
  <2>4. Active' = Active
    BY <1>1, <2>3, OnePhase
  <2>. QED BY <2>1, <2>2, <2>4 DEF TypeInv
<1>. QED BY <1>3, <1>4 DEF Handle

LEMMA CancelLockStep ==
  ASSUME TypeInv, NEW e \in Entry, CancelLock(e)
  PROVE  TypeInv' /\ PermitStep
<1> DEFINE sl == [slots EXCEPT ![sel[e]] = LockWithdraw(@, e)]
<1>1. pc[e] = "lock" /\ Handle(e, sl) /\ sem' = sem
  BY DEF CancelLock
<1>2. sel[e] \in Slot /\ slots \in SlotMap /\ slots[sel[e]] \in SlotState
      /\ sem \in SemState
  BY <1>1 DEF TypeInv, LockNeedsSlot, TypeOK, SlotMap
<1>3. sl \in SlotMap
  BY <1>2, LockOpsType, SlotUpdate
<1> HIDE DEF sl
<1>4. TypeInv' /\ Active' = Active
  BY <1>1, <1>2, <1>3, HandleType
<1>. QED BY <1>1, <1>4 DEF PermitStep

LEMMA CancelSemStep ==
  ASSUME TypeInv, NEW e \in Entry, CancelSem(e)
  PROVE  TypeInv' /\ PermitStep
<1>1. sem \in SemState /\ slots \in SlotMap
  BY DEF TypeInv, TypeOK, SlotMap
<1>2. sem' \in SemState /\ Permits(sem') = Permits(sem)
  <2>1. CASE sem' = SemDrain([sem EXCEPT !.waiters = RemoveFirst(@, e)])
    BY <1>1, <2>1, SemLeave, SemDrainPermits
  <2>2. CASE /\ sem.ready # <<>>
             /\ sem' = SemDrain([value |-> sem.value + 1,
                                 waiters |-> sem.waiters,
                                 ready |-> Tail(sem.ready)])
    BY <1>1, <2>2, SemReadyTail, SemDrainPermits
  <2>. QED BY <2>1, <2>2 DEF CancelSem
<1>3. pc[e] = "sem" /\ Handle(e, slots)
  BY DEF CancelSem
<1>4. TypeInv' /\ Active' = Active
  BY <1>1, <1>2, <1>3, HandleType
<1>. QED BY <1>2, <1>4 DEF PermitStep

LEMMA FinishCancelStep ==
  ASSUME TypeInv, NEW e \in Entry, FinishCancel(e)
  PROVE  TypeInv' /\ PermitStep
<1>1. pc[e] = "cancelling" /\ Raised(e, slots) /\ sem' = sem
  BY DEF FinishCancel
<1>2. slots \in SlotMap /\ sem \in SemState
  BY DEF TypeInv, TypeOK, SlotMap
<1>3. Active \ {e} = Active
  BY <1>1 DEF Active
<1>4. TypeInv' /\ Active' = Active
  BY <1>1, <1>2, <1>3, RaisedType
<1>. QED BY <1>1, <1>4 DEF PermitStep

LEMMA ReleaseStep ==
  ASSUME TypeInv, NEW e \in Entry, Release(e)
  PROVE  TypeInv' /\ PermitStep
<1>1. TypeOK /\ sem \in SemState /\ slots \in SlotMap
      /\ sel[e] \in Slot \cup {NoSlot}
  BY DEF TypeInv, TypeOK, SlotMap
<1>2. e \in Active
  BY DEF Release, Active
<1>3. sem' \in SemState /\ Permits(sem') = Permits(sem) + 1
  BY <1>1, <1>2, SemReleasePermits DEF Release, ReleaseEntry
<1>4. slots' \in SlotMap
  BY <1>1, SlotReleasedType DEF Release, ReleaseEntry
<1>5. TypeOK'
  BY <1>1, <1>3, <1>4 DEF Release, ReleaseEntry, TypeOK, SlotMap, Phase
<1>6. LockNeedsSlot'
  BY <1>1 DEF Release, ReleaseEntry, TypeInv, TypeOK, LockNeedsSlot
<1>7. pc' = [pc EXCEPT ![e] = pc'[e]] /\ pc'[e] = "released"
  BY <1>1 DEF Release, ReleaseEntry, TypeOK
<1>8. Active' = Active \ {e}
  BY <1>1, <1>7, OnePhase
<1>. QED BY <1>2, <1>3, <1>5, <1>6, <1>8 DEF TypeInv, PermitStep

LEMMA ElapseStep ==
  ASSUME TypeInv, NEW s \in Slot, Elapse(s)
  PROVE  TypeInv' /\ PermitStep
<1>1. slots \in SlotMap /\ slots[s] \in SlotState
  BY DEF TypeInv, TypeOK, SlotMap
<1>2. [slots[s] EXCEPT !.timer = "elapsed"] \in SlotState
  BY <1>1 DEF SlotState, Timer
<1>3. slots' \in SlotMap
  BY <1>1, <1>2, SlotUpdate DEF Elapse
<1>4. TypeOK'
  BY <1>3 DEF Elapse, TypeInv, TypeOK, SlotMap
<1>5. LockNeedsSlot'
  BY DEF Elapse, TypeInv, TypeOK, LockNeedsSlot
<1>6. Active' = Active /\ sem' = sem
  BY DEF Elapse, Active
<1>. QED BY <1>4, <1>5, <1>6 DEF TypeInv, PermitStep

\* Every step keeps the types and moves at most one permit.
LEMMA NextStep ==
  ASSUME TypeInv, [Next]_vars
  PROVE  TypeInv' /\ PermitStep
<1>1. ASSUME NEW e \in Entry, Step(e)
      PROVE  TypeInv' /\ PermitStep
  BY <1>1, EnterStep, ResumeLockStep, ResumeSemStep, SettleStep, CancelLockStep,
     CancelSemStep, FinishCancelStep, ReleaseStep DEF Step, Progress
<1>2. ASSUME NEW s \in Slot, Elapse(s)
      PROVE  TypeInv' /\ PermitStep
  BY <1>2, ElapseStep
<1>3. CASE UNCHANGED vars
  <2>1. TypeInv'
    BY <1>3 DEF vars, TypeInv, TypeOK, LockNeedsSlot
  <2>2. Active' = Active /\ sem' = sem
    BY <1>3 DEF vars, Active
  <2>. QED BY <2>1, <2>2 DEF PermitStep
<1>. QED BY <1>1, <1>2, <1>3 DEF Next

LEMMA InitTypeInv == Init => TypeInv
<1> SUFFICES ASSUME Init PROVE TypeInv
  OBVIOUS
<1>1. sem \in SemState
  BY QueueAssumption DEF Init, SemState
<1>2. InitSlot \in SlotState
  BY DEF InitSlot, SlotState, Timer
<1>3. TypeOK
  BY <1>1, <1>2 DEF Init, TypeOK, Phase
<1>. QED BY <1>3 DEF Init, TypeInv, LockNeedsSlot

\* Every reachable state of the queue is well typed, and a caller that waits
\* for or holds a slot lock has selected a slot.
THEOREM TypeCorrect == Spec => []TypeOK
<1>1. TypeInv /\ [Next]_vars => TypeInv'
  BY NextStep
<1>2. TypeInv => TypeOK
  BY DEF TypeInv
<1>. QED BY InitTypeInv, <1>1, <1>2, PTL DEF Spec

-----------------------------------------------------------------------------
(* Permits are conserved *)

PermitInv == TypeInv /\ PermitConservation

LEMMA ActiveFinite == IsFiniteSet(Active) /\ Cardinality(Active) \in Nat
<1>1. Active \subseteq Entry
  BY DEF Active
<1>2. IsFiniteSet(Active)
  BY <1>1, QueueAssumption, FS_Subset
<1>. QED BY <1>2, FS_CardinalityType

LEMMA PermitsConserved ==
  ASSUME PermitInv, [Next]_vars
  PROVE  PermitInv'
<1>1. TypeInv' /\ PermitStep
  BY NextStep DEF PermitInv
<1>2. Permits(sem) + Cardinality(Active) = MaxConcurrent
  BY DEF PermitInv, PermitConservation, Permits
<1>3. Permits(sem) \in Nat
  BY DEF PermitInv, TypeInv, TypeOK, SemState, Permits
<1>4. Permits(sem') + Cardinality(Active') = MaxConcurrent
  <2>1. CASE Permits(sem') = Permits(sem) /\ Active' = Active
    BY <1>2, <2>1
  <2>2. ASSUME NEW e \in Entry \ Active, Permits(sem') = Permits(sem) - 1,
               Active' = Active \cup {e}
        PROVE  Permits(sem') + Cardinality(Active') = MaxConcurrent
    <3>1. Cardinality(Active') = Cardinality(Active) + 1
      BY <2>2, ActiveFinite, FS_AddElement
    <3>. QED BY <1>2, <1>3, <2>2, <3>1, ActiveFinite
  <2>3. ASSUME NEW e \in Active, Permits(sem') = Permits(sem) + 1,
               Active' = Active \ {e}
        PROVE  Permits(sem') + Cardinality(Active') = MaxConcurrent
    <3>1. Cardinality(Active') = Cardinality(Active) - 1
      BY <2>3, ActiveFinite, FS_RemoveElement
    <3>. QED BY <1>2, <1>3, <2>3, <3>1, ActiveFinite
  <2>. QED BY <1>1, <2>1, <2>2, <2>3 DEF PermitStep
<1>. QED BY <1>1, <1>4 DEF PermitInv, PermitConservation, Permits

LEMMA InitPermits == Init => PermitInv
<1> SUFFICES ASSUME Init PROVE PermitInv
  OBVIOUS
<1>1. Active = {}
  BY DEF Init, Active
<1>2. Cardinality(Active) = 0
  BY <1>1, FS_EmptySet
<1>3. sem.value = MaxConcurrent /\ Len(sem.ready) = 0
  BY DEF Init
<1>. QED BY <1>2, <1>3, InitTypeInv, QueueAssumption DEF PermitInv, PermitConservation

\* For every number of callers and permits: no interleaving of acquire,
\* cancellation (before or after the permit was handed over) and release loses
\* a permit or makes one.
THEOREM PermitsAreConserved == Spec => []PermitConservation
<1>1. PermitInv /\ [Next]_vars => PermitInv'
  BY PermitsConserved
<1>2. PermitInv => PermitConservation
  BY DEF PermitInv
<1>. QED BY InitPermits, <1>1, <1>2, PTL DEF Spec

-----------------------------------------------------------------------------
(* What the slots record is true of the calls *)

\* The lock of a slot: one holder at most; who was woken runs next, alone, and
\* while the lock is free; a caller past the lock of its slot holds it.
LockInv ==
  /\ SlotExclusive
  /\ \A s \in Slot : /\ slots[s].held => slots[s].woken = {}
                     /\ \A e, f \in slots[s].woken : e = f
  /\ \A e \in Entry :
       pc[e] \in {"sem", "settling", "held"} /\ sel[e] # NoSlot => hasLock[e]

\* An assignment without a timer was made by a call that still waits, not only
\* reused by one: the one whose cancellation takes it back.
AssignedByWaiter ==
  \A s \in Sticky :
    (slots[s].assigned # NoUser /\ ~slots[s].active /\ slots[s].timer = "none")
    => \E e \in Entry : /\ sel[e] = s /\ who[e] = slots[s].assigned /\ ~reused[e]
                        /\ pc[e] \in {"lock", "sem", "cancelling"}

\* Records of one slot that agree on its lock, and on its use.
SameLock(r, t) == r.held = t.held /\ r.woken = t.woken
SameUse(r, t) ==
  r.assigned = t.assigned /\ r.active = t.active /\ r.timer = t.timer

LEMMA WakeFirstFields ==
  ASSUME NEW r \in SlotState
  PROVE  /\ WakeFirst(r).held = r.held
         /\ SameUse(WakeFirst(r), r)
         /\ r.held => WakeFirst(r).woken = r.woken
         /\ (\A x, y \in r.woken : x = y) =>
               \A x, y \in WakeFirst(r).woken : x = y
BY DEF WakeFirst, SlotState, SameUse

LEMMA LockOpsFields ==
  ASSUME NEW r \in SlotState, NEW e \in Entry
  PROVE  /\ SameUse(LockTake(r), r) /\ LockTake(r).held /\ LockTake(r).woken = r.woken
         /\ SameUse(LockAwait(r, e), r) /\ SameLock(LockAwait(r, e), r)
         /\ SameUse(LockResume(r, e), r) /\ LockResume(r, e).held
         /\ LockResume(r, e).woken = r.woken \ {e}
<1>1. LockAwait(r, e) = [r EXCEPT !.waiters = Append(r.waiters, e)]
  BY DEF LockAwait
<1>. QED BY <1>1 DEF LockTake, LockResume, SlotState, SameUse, SameLock

LEMMA LockReleaseFields ==
  ASSUME NEW r \in SlotState, r.held => r.woken = {},
         \A x, y \in r.woken : x = y
  PROVE  /\ SameUse(LockRelease(r), r) /\ ~LockRelease(r).held
         /\ \A x, y \in LockRelease(r).woken : x = y
<1>1. CASE r.held
  <2> DEFINE q == [r EXCEPT !.held = FALSE]
  <2>1. q \in SlotState /\ SameUse(q, r) /\ ~q.held /\ q.woken = r.woken
    BY DEF SlotState, SameUse
  <2>2. LockRelease(r) = WakeFirst(q)
    BY <1>1 DEF LockRelease
  <2> HIDE DEF q
  <2>. QED BY <1>1, <2>1, <2>2, WakeFirstFields DEF SameUse
<1>2. CASE ~r.held
  BY <1>2 DEF LockRelease, SameUse, SlotState
<1>. QED BY <1>1, <1>2

LEMMA LockWithdrawFields ==
  ASSUME NEW r \in SlotState, NEW e \in Entry, r.held => r.woken = {},
         \A x, y \in r.woken : x = y
  PROVE  /\ SameUse(LockWithdraw(r, e), r)
         /\ LockWithdraw(r, e).held = r.held
         /\ r.held => LockWithdraw(r, e).woken = {}
         /\ \A x, y \in LockWithdraw(r, e).woken : x = y
<1>1. CASE e \in r.woken
  <2> DEFINE q == [r EXCEPT !.woken = {}]
  <2>1. q \in SlotState /\ SameUse(q, r) /\ q.held = r.held /\ q.woken = {}
    BY DEF SlotState, SameUse
  <2>2. LockWithdraw(r, e) = WakeFirst(q)
    BY <1>1 DEF LockWithdraw
  <2> HIDE DEF q
  <2>. QED BY <1>1, <2>1, <2>2, WakeFirstFields DEF SameUse
<1>2. CASE e \notin r.woken
  <2>1. LockWithdraw(r, e) = [r EXCEPT !.waiters = RemoveFirst(r.waiters, e)]
    BY <1>2 DEF LockWithdraw
  <2>. QED BY <2>1 DEF SameUse, SlotState
<1>. QED BY <1>1, <1>2

\* Selection leaves locks and slots in use alone; what it assigns anew is the
\* slot it returns, to the user it selects for.
LEMMA SelectSlotEffect ==
  ASSUME slots \in SlotMap, NEW u \in User,
         NEW affine \in BOOLEAN, NEW eligible \in BOOLEAN
  PROVE  LET p == SelectSlot(u, affine, eligible) IN
         \A t \in Slot :
           /\ SameLock(p.slots[t], slots[t])
           /\ p.slots[t].active = slots[t].active
           /\ \/ SameUse(p.slots[t], slots[t])
              \/ p.slots[t].assigned = NoUser /\ ~slots[t].active
              \/ /\ t = p.slot /\ ~p.reuse /\ p.slots[t].assigned = u
                 /\ ~slots[t].active
<1> DEFINE sl == ExpireIdle
           own == AssignedTo(sl, u)
           free == FreeSticky(sl)
           p == SelectSlot(u, affine, eligible)
<1>1. sl \in SlotMap
  BY ExpireIdleType
<1>2. \A t \in Slot :
        /\ SameLock(sl[t], slots[t]) /\ sl[t].active = slots[t].active
        /\ \/ SameUse(sl[t], slots[t])
           \/ sl[t].assigned = NoUser /\ ~slots[t].active
  <2> SUFFICES ASSUME NEW t \in Slot
               PROVE  /\ SameLock(sl[t], slots[t]) /\ sl[t].active = slots[t].active
                      /\ \/ SameUse(sl[t], slots[t])
                         \/ sl[t].assigned = NoUser /\ ~slots[t].active
    OBVIOUS
  <2>1. slots[t] \in SlotState
    BY DEF SlotMap
  <2>2. \/ sl[t] = slots[t]
        \/ /\ ~slots[t].active
           /\ sl[t] = [slots[t] EXCEPT !.assigned = NoUser, !.timer = "none"]
    BY DEF ExpireIdle
  <2>. QED BY <2>1, <2>2 DEF SlotState, SameLock, SameUse
<1>3. \A t \in Slot : SameLock(slots[t], slots[t]) /\ SameUse(slots[t], slots[t])
  BY DEF SameLock, SameUse
<1>4. CASE p.slots \in {slots, sl}
  BY <1>2, <1>3, <1>4
<1>5. CASE /\ free # {} /\ p.slot = First(free) /\ ~p.reuse
           /\ p.slots = [sl EXCEPT ![First(free)] =
                           [@ EXCEPT !.assigned = u, !.timer = "none"]]
  <2> SUFFICES ASSUME NEW t \in Slot
               PROVE  /\ SameLock(p.slots[t], slots[t])
                      /\ p.slots[t].active = slots[t].active
                      /\ \/ SameUse(p.slots[t], slots[t])
                         \/ p.slots[t].assigned = NoUser /\ ~slots[t].active
                         \/ /\ t = p.slot /\ ~p.reuse /\ p.slots[t].assigned = u
                            /\ ~slots[t].active
    OBVIOUS
  <2>1. free \in SUBSET Slot /\ \A t1 \in free : ~sl[t1].active
    BY DEF FreeSticky, Slot
  <2> HIDE DEF sl, free, p
  <2>2. First(free) \in free
    BY <1>5, <2>1, FirstIn
  <2>3. sl[t] \in SlotState
    BY <1>1 DEF SlotMap
  <2>4. CASE t # First(free)
    <3>1. p.slots[t] = sl[t]
      BY <1>1, <1>5, <2>4 DEF SlotMap
    <3>. QED BY <1>2, <3>1
  <2>5. CASE t = First(free)
    <3>1. p.slots[t] = [sl[t] EXCEPT !.assigned = u, !.timer = "none"]
      BY <1>1, <1>5, <2>5 DEF SlotMap
    <3>2. /\ SameLock(p.slots[t], sl[t]) /\ p.slots[t].active = sl[t].active
          /\ p.slots[t].assigned = u
      BY <2>3, <3>1 DEF SlotState, SameLock
    <3>3. ~sl[t].active
      BY <2>1, <2>2, <2>5
    <3>. QED BY <1>2, <1>5, <2>5, <3>2, <3>3 DEF SameLock
  <2>. QED BY <2>4, <2>5
<1>6. \/ p.slots \in {slots, sl}
      \/ /\ free # {} /\ p.slot = First(free) /\ ~p.reuse
         /\ p.slots = [sl EXCEPT ![First(free)] =
                         [@ EXCEPT !.assigned = u, !.timer = "none"]]
  <2> HIDE DEF sl, own, free
  <2>1. p = IF ~affine \/ Slot = {}
            THEN [slot |-> NoSlot, reuse |-> FALSE, slots |-> slots]
        ELSE IF eligible /\ own # {}
            THEN [slot |-> First(own), reuse |-> TRUE, slots |-> sl]
        ELSE IF eligible /\ free # {}
            THEN [slot |-> First(free), reuse |-> FALSE,
                  slots |-> [sl EXCEPT ![First(free)] =
                               [@ EXCEPT !.assigned = u, !.timer = "none"]]]
        ELSE IF Overflow # {}
            THEN [slot |-> First(Overflow), reuse |-> FALSE, slots |-> sl]
        ELSE [slot |-> NoSlot, reuse |-> FALSE, slots |-> sl]
    BY DEF SelectSlot, sl, own, free
  <2> HIDE DEF p
  <2>. QED BY <2>1
<1>. QED BY <1>4, <1>5, <1>6

\* The grant marks the slot and leaves its lock and all other slots alone.
LEMMA ActivatedEffect ==
  ASSUME NEW sl \in SlotMap, NEW s \in Slot \cup {NoSlot}, NEW u \in User \cup {NoUser}
  PROVE  LET a == Activated(sl, s, u) IN
         /\ \A t \in Slot : /\ SameLock(a[t], sl[t])
                            /\ t # s => SameUse(a[t], sl[t])
         /\ s # NoSlot => /\ a[s].active
                          /\ s \in Sticky => a[s].assigned = u
<1> DEFINE a == Activated(sl, s, u)
<1>1. CASE s = NoSlot
  BY <1>1, QueueAssumption DEF Activated, SameLock, SameUse
<1>2. CASE s # NoSlot
  <2>1. s \in Slot /\ sl[s] \in SlotState
    BY <1>2 DEF SlotMap
  <2>2. \A t \in Slot : t # s => a[t] = sl[t]
    BY <1>2 DEF Activated, SlotMap
  <2>3. a[s] = IF s \in Sticky
               THEN [sl[s] EXCEPT !.active = TRUE, !.assigned = u, !.timer = "none"]
               ELSE [sl[s] EXCEPT !.active = TRUE]
    BY <1>2, <2>1 DEF Activated, SlotMap
  <2>4. /\ SameLock(a[s], sl[s]) /\ a[s].active
        /\ s \in Sticky => a[s].assigned = u
    <3> HIDE DEF a
    <3>. QED BY <2>1, <2>3 DEF SlotState, SameLock
  <2>5. \A t \in Slot : t # s => SameLock(a[t], sl[t]) /\ SameUse(a[t], sl[t])
    BY <2>2 DEF SameLock, SameUse
  <2> HIDE DEF a
  <2>6. \A t \in Slot : /\ SameLock(a[t], sl[t])
                        /\ t # s => SameUse(a[t], sl[t])
    BY <2>4, <2>5
  <2>. QED BY <1>2, <2>4, <2>6 DEF a
<1>. QED BY <1>1, <1>2

LEMMA AwaitPermitEffect ==
  ASSUME TypeOK, NEW e \in Entry, NEW u \in User \cup {NoUser},
         NEW nt \in BOOLEAN, NEW s \in Slot \cup {NoSlot},
         NEW sl \in SlotMap, NEW wq \in Seq(Entry),
         AwaitPermit(e, u, nt, s, sl, wq)
  PROVE  /\ \A t \in Slot : /\ SameLock(slots'[t], sl[t])
                            /\ t # s => SameUse(slots'[t], sl[t])
         /\ pc'[e] \in {"sem", "settling", "held"}
         /\ pc'[e] = "sem" /\ s # NoSlot => SameUse(slots'[s], sl[s])
         /\ pc'[e] # "sem" /\ s # NoSlot =>
              /\ slots'[s].active
              /\ s \in Sticky => slots'[s].assigned = u
<1>1. CASE /\ pc' = [pc EXCEPT ![e] = "sem"]
           /\ slots' = sl
  BY <1>1 DEF TypeOK, SameLock, SameUse
<1>2. CASE Grant(e, u, nt, s, sl, wq)
  <2>1. slots' = Activated(sl, s, u) /\ pc'[e] \in {"settling", "held"}
    BY <1>2 DEF Grant, TypeOK
  <2>. QED BY <2>1, ActivatedEffect
<1>. QED BY <1>1, <1>2 DEF AwaitPermit

SlotInv == TypeInv /\ LockInv /\ SlotServesItsUser /\ AssignedByWaiter

\* Two calls never hold the lock of one slot.
LEMMA HolderIsAlone ==
  ASSUME SlotInv, NEW e \in Entry, NEW f \in Entry, hasLock[e], hasLock[f],
         sel[e] = sel[f]
  PROVE  e = f
<1>1. sel[e] \in Slot
  BY DEF SlotInv, TypeInv, LockNeedsSlot
<1>. QED BY <1>1 DEF SlotInv, LockInv, SlotExclusive, Holders

\* A request that runs in a slot holds its lock.
LEMMA ActiveHolds ==
  ASSUME SlotInv, NEW e \in Active, sel[e] # NoSlot
  PROVE  hasLock[e] /\ sel[e] \in Slot
BY DEF SlotInv, LockInv, Active, TypeInv, TypeOK

\* Steps that leave locks and their holders alone.
LEMMA LockInvKept ==
  ASSUME SlotInv, TypeInv', hasLock' = hasLock,
         \A t \in Slot : SameLock(slots'[t], slots[t]),
         \A e \in Entry : hasLock[e] => sel'[e] = sel[e],
         \A e \in Entry : pc'[e] \in {"sem", "settling", "held"} /\ sel'[e] # NoSlot
                            => hasLock[e]
  PROVE  LockInv'
<1>1. \A s \in Slot : Holders(s)' = Holders(s)
  BY DEF Holders
<1>2. SlotExclusive'
  BY <1>1 DEF SlotExclusive, SlotInv, LockInv, SameLock
<1>. QED BY <1>2 DEF SlotInv, LockInv, SameLock

\* A step in which e takes the lock of slot s, free or handed to it.
LEMMA LockInvTaken ==
  ASSUME SlotInv, TypeInv', NEW e \in Entry, NEW s \in Slot,
         hasLock' = [hasLock EXCEPT ![e] = TRUE], ~hasLock[e],
         sel' = [sel EXCEPT ![e] = s],
         \A f \in Entry : f # e => pc'[f] = pc[f],
         ~slots[s].held, slots'[s].held, slots'[s].woken = {},
         \A t \in Slot : t # s => SameLock(slots'[t], slots[t])
  PROVE  LockInv'
<1>1. \A t \in Slot : t # s => Holders(t)' = Holders(t)
  BY DEF Holders, SlotInv, TypeInv, TypeOK
<1>2. Holders(s) = {}
  BY DEF SlotInv, LockInv, SlotExclusive
<1>3. Holders(s)' = {e}
  BY <1>2 DEF Holders, SlotInv, TypeInv, TypeOK
<1>4. SlotExclusive'
  BY <1>1, <1>3 DEF SlotExclusive, SlotInv, LockInv, SameLock
<1>5. \A f \in Entry :
        (pc'[f] \in {"sem", "settling", "held"} /\ sel'[f] # NoSlot) => hasLock'[f]
  BY DEF SlotInv, LockInv, TypeInv, TypeOK
<1>. QED BY <1>4, <1>5 DEF SlotInv, LockInv, SameLock

\* A step in which e lets go of the lock of slot s.
LEMMA LockInvReleased ==
  ASSUME SlotInv, TypeInv', NEW e \in Entry, NEW s \in Slot,
         hasLock[e], sel[e] = s,
         hasLock' = [hasLock EXCEPT ![e] = FALSE],
         \A f \in Entry : f # e => pc'[f] = pc[f] /\ sel'[f] = sel[f],
         pc'[e] \in {"idle", "released"},
         ~slots'[s].held, \A x, y \in slots'[s].woken : x = y,
         \A t \in Slot : t # s => SameLock(slots'[t], slots[t])
  PROVE  LockInv'
<1>1. \A t \in Slot : t # s => Holders(t)' = Holders(t)
  BY DEF Holders, SlotInv, TypeInv, TypeOK
<1>2. Holders(s)' = {}
  <2>1. \A f \in Holders(s) : f = e
    BY DEF SlotInv, LockInv, SlotExclusive, Holders
  <2>. QED BY <2>1 DEF Holders, SlotInv, TypeInv, TypeOK
<1>4. SlotExclusive'
  BY <1>1, <1>2 DEF SlotExclusive, SlotInv, LockInv, SameLock
<1>5. \A f \in Entry :
        (pc'[f] \in {"sem", "settling", "held"} /\ sel'[f] # NoSlot) => hasLock'[f]
  BY DEF SlotInv, LockInv, TypeInv, TypeOK
<1>. QED BY <1>4, <1>5 DEF SlotInv, LockInv, SameLock

\* A slot whose use a step keeps, or ends because its assignment expired.
UseKept(t) ==
  \/ SameUse(slots'[t], slots[t])
  \/ slots'[t].assigned = NoUser /\ ~slots[t].active

\* Nothing happens to the calls but e.
OthersStay(e) ==
  \A f \in Entry : f # e => /\ pc'[f] = pc[f] /\ who'[f] = who[f] /\ sel'[f] = sel[f]
                            /\ reused'[f] = reused[f] /\ hasLock'[f] = hasLock[f]

\* A step of e changes the use of a slot only where e holds the lock, before or
\* after it, or where nobody runs: the requests that run stay served.
LEMMA ServedKept ==
  ASSUME SlotInv, TypeInv', LockInv', NEW e \in Entry, OthersStay(e),
         NEW s \in Slot \cup {NoSlot},
         \A t \in Slot : t # s => UseKept(t),
         s \in Slot => \/ UseKept(s) \/ ~slots[s].active
                       \/ hasLock[e] /\ sel[e] = s
                       \/ hasLock'[e] /\ sel'[e] = s,
         e \in Active' /\ sel'[e] # NoSlot =>
            /\ slots'[sel'[e]].active
            /\ sel'[e] \in Sticky => slots'[sel'[e]].assigned = who'[e]
  PROVE  SlotServesItsUser'
<1> SUFFICES ASSUME NEW f \in Entry, f \in Active', sel'[f] # NoSlot, f # e
             PROVE  /\ slots'[sel'[f]].active
                    /\ sel'[f] \in Sticky => slots'[sel'[f]].assigned = who'[f]
  BY DEF SlotServesItsUser, Active
<1> DEFINE t == sel[f]
<1>1. /\ f \in Active /\ sel'[f] = t /\ who'[f] = who[f] /\ t \in Slot
      /\ hasLock[f] /\ hasLock'[f]
  <2>1. f \in Active /\ sel'[f] = t /\ who'[f] = who[f] /\ hasLock'[f] = hasLock[f]
    BY DEF OthersStay, Active
  <2>. QED BY <2>1, ActiveHolds
<1>2. slots[t].active /\ (t \in Sticky => slots[t].assigned = who[f])
  BY <1>1 DEF SlotInv, SlotServesItsUser
<1>3. UseKept(t)
  <2>1. CASE t # s
    BY <1>1, <2>1
  <2>2. CASE t = s
    <3>1. ~(hasLock[e] /\ sel[e] = s)
      BY <1>1, <2>2, HolderIsAlone
    <3>2. ~(hasLock'[e] /\ sel'[e] = s)
      BY <1>1, <2>2 DEF LockInv, SlotExclusive, Holders
    <3>. QED BY <1>1, <1>2, <2>2, <3>1, <3>2
  <2>. QED BY <2>1, <2>2
<1>. QED BY <1>1, <1>2, <1>3 DEF UseKept, SameUse

\* The calls that wait for a permit, a lock or the end of their cancellation.
WaitPhase == {"lock", "sem", "cancelling"}

\* An assignment at a slot whose use is kept keeps the call that made it.
LEMMA AssignedKept ==
  ASSUME SlotInv, NEW e \in Entry, OthersStay(e), NEW t \in Sticky,
         UseKept(t),
         (pc[e] \in WaitPhase /\ sel[e] = t /\ who[e] = slots[t].assigned
            /\ ~slots[t].active /\ slots[t].timer = "none" /\ ~reused[e])
         => (/\ pc'[e] \in WaitPhase /\ sel'[e] = t /\ who'[e] = who[e]
             /\ reused'[e] = reused[e]),
         slots'[t].assigned # NoUser, ~slots'[t].active, slots'[t].timer = "none"
  PROVE  \E f \in Entry : /\ sel'[f] = t /\ who'[f] = slots'[t].assigned
                          /\ ~reused'[f] /\ pc'[f] \in WaitPhase
<1>1. SameUse(slots'[t], slots[t])
  BY DEF UseKept
<1>2. PICK f \in Entry : /\ sel[f] = t /\ who[f] = slots[t].assigned /\ ~reused[f]
                         /\ pc[f] \in WaitPhase
  BY <1>1 DEF SlotInv, AssignedByWaiter, SameUse, WaitPhase
<1>3. slots'[t].assigned = slots[t].assigned /\ ~slots[t].active /\ slots[t].timer = "none"
  BY <1>1 DEF SameUse
<1>4. /\ sel'[f] = t /\ who'[f] = slots'[t].assigned /\ ~reused'[f]
      /\ pc'[f] \in WaitPhase
  <2>1. CASE f = e
    BY <1>2, <1>3, <2>1
  <2>2. CASE f # e
    BY <1>2, <1>3, <2>2 DEF OthersStay
  <2>. QED BY <2>1, <2>2
<1>. QED BY <1>4

LEMMA EnterSlots ==
  ASSUME SlotInv, TypeInv', NEW e \in Entry, NEW u \in User, NEW affine \in BOOLEAN,
         NEW eligible \in BOOLEAN, NEW callback \in BOOLEAN,
         Enter(e, u, affine, eligible, callback)
  PROVE  SlotInv'
<1> DEFINE p == SelectSlot(u, affine, eligible)
           s == p.slot
           nt == ShouldNotify(callback)
           wq == Append(waiting, e)
           taken == [p.slots EXCEPT ![s] = LockTake(@)]
           queued == [p.slots EXCEPT ![s] = LockAwait(@, e)]
<1>1. /\ s \in Slot \cup {NoSlot}
      /\ p.reuse \in BOOLEAN
      /\ p.slots \in SlotMap
  BY SelectSlotType DEF SlotInv, TypeInv, TypeOK, SlotMap
<1>2. TypeOK /\ nt \in BOOLEAN /\ wq \in Seq(Entry) /\ ~hasLock[e]
      /\ pc[e] \in {"idle", "released"}
  BY DEF ShouldNotify, SlotInv, TypeInv, TypeOK, Enter, LockNeedsSlot
<1>3. \A t \in Slot :
        /\ SameLock(p.slots[t], slots[t])
        /\ p.slots[t].active = slots[t].active
        /\ \/ SameUse(p.slots[t], slots[t])
           \/ p.slots[t].assigned = NoUser /\ ~slots[t].active
           \/ /\ t = s /\ ~p.reuse /\ p.slots[t].assigned = u /\ ~slots[t].active
  BY SelectSlotEffect DEF SlotInv, TypeInv, TypeOK, SlotMap
<1>4. /\ who'[e] = u /\ sel' = [sel EXCEPT ![e] = s] /\ sel'[e] = s
      /\ reused'[e] = p.reuse
      /\ \A f \in Entry : f # e => who'[f] = who[f] /\ sel'[f] = sel[f]
                                   /\ reused'[f] = reused[f]
  BY <1>2 DEF Enter, TypeOK
<1>5. \/ /\ s = NoSlot
         /\ AwaitPermit(e, u, nt, s, p.slots, wq)
         /\ UNCHANGED hasLock
      \/ /\ s # NoSlot /\ LockFree(p.slots[s])
         /\ AwaitPermit(e, u, nt, s, taken, wq)
         /\ hasLock' = [hasLock EXCEPT ![e] = TRUE]
      \/ /\ s # NoSlot /\ ~LockFree(p.slots[s])
         /\ pc' = [pc EXCEPT ![e] = "lock"]
         /\ slots' = queued
         /\ UNCHANGED hasLock
  BY DEF Enter
<1>6. ASSUME s # NoSlot
      PROVE  /\ s \in Slot /\ taken \in SlotMap /\ queued \in SlotMap
             /\ SameUse(taken[s], p.slots[s]) /\ taken[s].held
             /\ taken[s].woken = p.slots[s].woken
             /\ SameUse(queued[s], p.slots[s]) /\ SameLock(queued[s], p.slots[s])
             /\ \A t \in Slot : t # s => taken[t] = p.slots[t] /\ queued[t] = p.slots[t]
  <2> HIDE DEF p
  <2>1. s \in Slot /\ p.slots[s] \in SlotState
    BY <1>1, <1>6 DEF SlotMap
  <2>2. LockTake(p.slots[s]) \in SlotState /\ LockAwait(p.slots[s], e) \in SlotState
    BY <2>1, LockOpsType
  <2>3. taken[s] = LockTake(p.slots[s]) /\ queued[s] = LockAwait(p.slots[s], e)
    BY <1>1, <2>1 DEF SlotMap
  <2>4. \A t \in Slot : t # s => taken[t] = p.slots[t] /\ queued[t] = p.slots[t]
    BY <1>1 DEF SlotMap
  <2>5. taken \in SlotMap /\ queued \in SlotMap
    BY <1>1, <2>1, <2>2, SlotUpdate
  <2> HIDE DEF taken, queued
  <2>. QED BY <2>1, <2>3, <2>4, <2>5, LockOpsFields
\* What the selected slot and the others look like afterwards.
<1> DEFINE fresh == /\ ~p.reuse /\ slots'[s].assigned = u /\ ~slots[s].active
                    /\ pc'[e] \in WaitPhase
<1>7. /\ \A t \in Slot : t # s => UseKept(t) /\ SameLock(slots'[t], slots[t])
      /\ OthersStay(e)
      /\ pc'[e] \in {"lock", "sem", "settling", "held"}
      /\ s = NoSlot => hasLock' = hasLock
      /\ s # NoSlot =>
           /\ \/ UseKept(s) \/ fresh
              \/ /\ slots'[s].active /\ pc'[e] \in {"settling", "held"}
                 /\ s \in Sticky => slots'[s].assigned = u
           /\ pc'[e] \in {"settling", "held"} =>
                slots'[s].active /\ (s \in Sticky => slots'[s].assigned = u)
           /\ \/ /\ ~slots[s].held /\ slots'[s].held /\ slots'[s].woken = {}
                 /\ hasLock' = [hasLock EXCEPT ![e] = TRUE]
              \/ SameLock(slots'[s], slots[s]) /\ hasLock' = hasLock /\ pc'[e] = "lock"
  <2> HIDE DEF p, nt, wq, taken, queued
  <2> USE QueueAssumption
  <2>u. u \in User \cup {NoUser}
    OBVIOUS
  <2>0. \A f \in Entry : f # e => pc'[f] = pc[f]
    BY <1>2, <1>5 DEF AwaitPermit, Grant, TypeOK
  <2>1. CASE /\ s = NoSlot
             /\ AwaitPermit(e, u, nt, s, p.slots, wq)
             /\ UNCHANGED hasLock
    <3>1. /\ \A t \in Slot : /\ SameLock(slots'[t], p.slots[t])
                             /\ t # s => SameUse(slots'[t], p.slots[t])
          /\ pc'[e] \in {"sem", "settling", "held"}
      BY <1>1, <1>2, <2>u, <2>1, AwaitPermitEffect
    <3>. QED BY <1>3, <1>4, <2>0, <2>1, <3>1
             DEF UseKept, SameUse, SameLock, OthersStay
  <2>2. CASE /\ s # NoSlot /\ LockFree(p.slots[s])
             /\ AwaitPermit(e, u, nt, s, taken, wq)
             /\ hasLock' = [hasLock EXCEPT ![e] = TRUE]
    <3>1. /\ \A t \in Slot : /\ SameLock(slots'[t], taken[t])
                             /\ t # s => SameUse(slots'[t], taken[t])
          /\ pc'[e] \in {"sem", "settling", "held"}
          /\ pc'[e] = "sem" /\ s # NoSlot => SameUse(slots'[s], taken[s])
          /\ pc'[e] # "sem" /\ s # NoSlot =>
               /\ slots'[s].active
               /\ s \in Sticky => slots'[s].assigned = u
      BY <1>1, <1>2, <1>6, <2>u, <2>2, AwaitPermitEffect
    <3>2. s \in Slot /\ ~slots[s].held /\ slots'[s].held /\ slots'[s].woken = {}
      BY <1>3, <1>6, <2>2, <3>1 DEF LockFree, SameLock
    <3>3. OthersStay(e)
      BY <1>2, <1>4, <2>0, <2>2 DEF OthersStay, TypeOK
    <3>4. \A t \in Slot : t # s => UseKept(t) /\ SameLock(slots'[t], slots[t])
      BY <1>3, <1>6, <2>2, <3>1 DEF UseKept, SameUse, SameLock
    <3>5. pc'[e] = "sem" => SameUse(slots'[s], p.slots[s])
      BY <1>6, <2>2, <3>1 DEF SameUse
    <3>6. UseKept(s) \/ fresh
              \/ /\ slots'[s].active /\ pc'[e] \in {"settling", "held"}
                 /\ s \in Sticky => slots'[s].assigned = u
      <4>1. CASE pc'[e] = "sem"
        BY <1>3, <3>2, <3>5, <4>1 DEF UseKept, SameUse, WaitPhase
      <4>2. CASE pc'[e] # "sem"
        BY <2>2, <3>1, <4>2
      <4>. QED BY <4>1, <4>2
    <3>. QED BY <2>2, <3>1, <3>2, <3>3, <3>4, <3>6
  <2>3. CASE /\ s # NoSlot /\ ~LockFree(p.slots[s])
             /\ pc' = [pc EXCEPT ![e] = "lock"]
             /\ slots' = queued
             /\ UNCHANGED hasLock
    <3>1. pc'[e] = "lock" /\ OthersStay(e)
      BY <1>2, <1>4, <2>0, <2>3 DEF OthersStay, TypeOK
    <3>2. \A t \in Slot : t # s => UseKept(t) /\ SameLock(slots'[t], slots[t])
      BY <1>3, <1>6, <2>3 DEF UseKept
    <3>3. s \in Slot /\ SameLock(slots'[s], slots[s]) /\ SameUse(slots'[s], p.slots[s])
      BY <1>3, <1>6, <2>3 DEF SameLock
    <3>4. UseKept(s) \/ fresh
      BY <1>3, <3>1, <3>3 DEF UseKept, SameUse, WaitPhase
    <3>. QED BY <2>3, <3>1, <3>2, <3>3, <3>4
  <2>. QED BY <1>5, <2>1, <2>2, <2>3
<1> HIDE DEF p, taken, queued, nt, wq
<1>8. LockInv'
  <2>1. CASE s # NoSlot /\ hasLock' = [hasLock EXCEPT ![e] = TRUE]
             /\ ~slots[s].held /\ slots'[s].held /\ slots'[s].woken = {}
    <3>1. s \in Slot /\ \A f \in Entry : f # e => pc'[f] = pc[f]
      BY <1>1, <1>7, <2>1 DEF OthersStay
    <3>. QED BY <1>2, <1>4, <1>7, <2>1, <3>1, LockInvTaken
  <2>2. CASE hasLock' = hasLock /\ \A t \in Slot : SameLock(slots'[t], slots[t])
    <3>1. \A f \in Entry : hasLock[f] => sel'[f] = sel[f]
      BY <1>2, <1>4
    <3>2. s = NoSlot \/ pc'[e] = "lock"
      BY <1>2, <1>7, <2>2 DEF TypeOK
    <3>3. \A f \in Entry : pc'[f] \in {"sem", "settling", "held"} /\ sel'[f] # NoSlot
                             => hasLock[f]
      BY <1>4, <1>7, <3>2 DEF SlotInv, LockInv, OthersStay
    <3>. QED BY <2>2, <3>1, <3>3, LockInvKept
  <2>3. s = NoSlot => \A t \in Slot : t # s
    BY QueueAssumption
  <2>4. s # NoSlot \/ (s = NoSlot /\ hasLock' = hasLock)
    BY <1>7
  <2>. QED BY <1>7, <2>1, <2>2, <2>3, <2>4
<1>9. SlotServesItsUser'
  <2>1. e \in Active' /\ sel'[e] # NoSlot =>
            /\ slots'[sel'[e]].active
            /\ sel'[e] \in Sticky => slots'[sel'[e]].assigned = who'[e]
    BY <1>4, <1>7 DEF Active
  <2>2. s \in Slot => \/ UseKept(s) \/ ~slots[s].active
                      \/ hasLock'[e] /\ sel'[e] = s
    <3>1. s \in Slot => s # NoSlot
      BY QueueAssumption
    <3>. QED BY <1>2, <1>4, <1>7, <3>1 DEF TypeOK
  <2>. QED BY <1>1, <1>7, <1>8, <2>1, <2>2, ServedKept
<1>10. AssignedByWaiter'
  <2> SUFFICES ASSUME NEW t \in Sticky, slots'[t].assigned # NoUser,
                      ~slots'[t].active, slots'[t].timer = "none"
               PROVE  \E f \in Entry : /\ sel'[f] = t /\ who'[f] = slots'[t].assigned
                                       /\ ~reused'[f] /\ pc'[f] \in WaitPhase
    BY DEF AssignedByWaiter, WaitPhase
  <2>1. CASE UseKept(t)
    BY <1>2, <1>7, <2>1, AssignedKept DEF WaitPhase
  <2>2. CASE ~UseKept(t)
    <3>1. t \in Slot /\ t = s /\ s # NoSlot
      BY <1>7, <2>2, QueueAssumption DEF Slot
    <3>2. fresh
      BY <1>7, <2>2, <3>1
    <3>. QED BY <1>4, <3>1, <3>2
  <2>. QED BY <2>1, <2>2
<1>. QED BY <1>8, <1>9, <1>10 DEF SlotInv

LEMMA ResumeLockSlots ==
  ASSUME SlotInv, TypeInv', NEW e \in Entry, ResumeLock(e)
  PROVE  SlotInv'
<1> DEFINE s == sel[e]
           sl == [slots EXCEPT ![s] = LockResume(@, e)]
<1>1. /\ pc[e] = "lock" /\ e \in slots[s].woken
      /\ AwaitPermit(e, who[e], notify[e], s, sl, waiting)
      /\ hasLock' = [hasLock EXCEPT ![e] = TRUE]
      /\ UNCHANGED <<who, notify, sel, reused>>
  BY DEF ResumeLock
<1>2. /\ TypeOK /\ s \in Slot /\ slots \in SlotMap /\ slots[s] \in SlotState
      /\ who[e] \in User \cup {NoUser} /\ notify[e] \in BOOLEAN /\ waiting \in Seq(Entry)
      /\ ~hasLock[e] /\ s # NoSlot
  BY <1>1, QueueAssumption DEF SlotInv, TypeInv, LockNeedsSlot, TypeOK, SlotMap
<1>3. /\ sl \in SlotMap /\ sl[s] = LockResume(slots[s], e)
      /\ \A t \in Slot : t # s => sl[t] = slots[t]
  BY <1>2, LockOpsType DEF SlotMap
<1>4. /\ SameUse(sl[s], slots[s]) /\ sl[s].held /\ ~slots[s].held /\ sl[s].woken = {}
  <2>1. ~slots[s].held /\ \A x \in slots[s].woken : x = e
    BY <1>1, <1>2 DEF SlotInv, LockInv
  <2>. QED BY <1>2, <1>3, <2>1, LockOpsFields
<1> HIDE DEF sl
<1>5. /\ \A t \in Slot : /\ SameLock(slots'[t], sl[t])
                         /\ t # s => SameUse(slots'[t], sl[t])
      /\ pc'[e] \in {"sem", "settling", "held"}
      /\ pc'[e] = "sem" => SameUse(slots'[s], sl[s])
      /\ pc'[e] # "sem" =>
              /\ slots'[s].active
              /\ s \in Sticky => slots'[s].assigned = who[e]
  <2>1. CASE pc' = [pc EXCEPT ![e] = "sem"] /\ slots' = sl
    BY <1>2, <2>1 DEF TypeOK, SameLock, SameUse
  <2>2. CASE Grant(e, who[e], notify[e], s, sl, waiting)
    <3> DEFINE u == who[e]
    <3>1. slots' = Activated(sl, s, u) /\ pc'[e] \in {"settling", "held"}
      BY <1>2, <2>2 DEF Grant, TypeOK
    <3>2. u \in User \cup {NoUser} /\ s \in Slot \cup {NoSlot}
      BY <1>2
    <3>3. s # NoSlot
      BY <1>2
    <3> HIDE DEF s, u
    <3>4. /\ \A t \in Slot : /\ SameLock(slots'[t], sl[t])
                             /\ t # s => SameUse(slots'[t], sl[t])
          /\ slots'[s].active
          /\ s \in Sticky => slots'[s].assigned = u
      BY <1>3, <3>1, <3>2, <3>3, ActivatedEffect
    <3>. QED BY <3>1, <3>4 DEF u
  <2>. QED BY <1>1, <2>1, <2>2 DEF AwaitPermit
<1>6. OthersStay(e) /\ \A f \in Entry : f # e => pc'[f] = pc[f]
  BY <1>1, <1>2 DEF OthersStay, AwaitPermit, Grant, TypeOK
<1>7. /\ \A t \in Slot : t # s => UseKept(t) /\ SameLock(slots'[t], slots[t])
      /\ slots'[s].held /\ slots'[s].woken = {}
      /\ pc'[e] = "sem" => UseKept(s)
  BY <1>2, <1>3, <1>4, <1>5 DEF UseKept, SameUse, SameLock
<1>8. LockInv'
  <2>1. sel' = [sel EXCEPT ![e] = s]
    BY <1>1, <1>2 DEF TypeOK
  <2>. QED BY <1>1, <1>2, <1>4, <1>6, <1>7, <2>1, LockInvTaken
<1>9. SlotServesItsUser'
  <2>1. e \in Active' /\ sel'[e] # NoSlot =>
            /\ slots'[sel'[e]].active
            /\ sel'[e] \in Sticky => slots'[sel'[e]].assigned = who'[e]
    BY <1>1, <1>5 DEF Active
  <2>2. hasLock'[e] /\ sel'[e] = s
    BY <1>1, <1>2 DEF TypeOK
  <2>. QED BY <1>2, <1>6, <1>7, <1>8, <2>1, <2>2, ServedKept
<1>10. AssignedByWaiter'
  <2> SUFFICES ASSUME NEW t \in Sticky, slots'[t].assigned # NoUser,
                      ~slots'[t].active, slots'[t].timer = "none"
               PROVE  \E f \in Entry : /\ sel'[f] = t /\ who'[f] = slots'[t].assigned
                                       /\ ~reused'[f] /\ pc'[f] \in WaitPhase
    BY DEF AssignedByWaiter, WaitPhase
  <2>1. UseKept(t) /\ (t = s => pc'[e] = "sem")
    BY <1>5, <1>7 DEF Slot
  <2>. QED BY <1>1, <1>6, <2>1, AssignedKept DEF WaitPhase
<1>. QED BY <1>8, <1>9, <1>10 DEF SlotInv

LEMMA ResumeSemSlots ==
  ASSUME SlotInv, TypeInv', NEW e \in Entry, ResumeSem(e)
  PROVE  SlotInv'
<1> DEFINE s == sel[e]
<1>1. /\ pc[e] = "sem" /\ slots' = Activated(slots, s, who[e])
      /\ UNCHANGED <<who, notify, sel, reused, hasLock>>
  BY DEF ResumeSem, Grant
<1>2. /\ TypeOK /\ s \in Slot \cup {NoSlot} /\ slots \in SlotMap
      /\ who[e] \in User \cup {NoUser}
  BY DEF SlotInv, TypeInv, TypeOK, SlotMap
<1>3. /\ \A t \in Slot : /\ SameLock(slots'[t], slots[t])
                         /\ t # s => SameUse(slots'[t], slots[t])
      /\ s # NoSlot => /\ slots'[s].active
                       /\ s \in Sticky => slots'[s].assigned = who[e]
  BY <1>1, <1>2, ActivatedEffect
<1>4. OthersStay(e) /\ pc'[e] \in {"settling", "held"}
  BY <1>1, <1>2 DEF OthersStay, ResumeSem, Grant, TypeOK
<1>5. \A t \in Slot : t # s => UseKept(t)
  BY <1>3 DEF UseKept
<1>6. s # NoSlot => s \in Slot /\ hasLock[e]
  BY <1>1, <1>2 DEF SlotInv, LockInv
<1>7. LockInv'
  <2>1. \A f \in Entry : pc'[f] \in {"sem", "settling", "held"} /\ sel'[f] # NoSlot
                           => hasLock[f]
    BY <1>1, <1>4, <1>6 DEF SlotInv, LockInv, OthersStay
  <2>. QED BY <1>1, <1>3, <2>1, LockInvKept
<1>8. SlotServesItsUser'
  <2>1. e \in Active' /\ sel'[e] # NoSlot =>
            /\ slots'[sel'[e]].active
            /\ sel'[e] \in Sticky => slots'[sel'[e]].assigned = who'[e]
    BY <1>1, <1>3
  <2>2. s \in Slot => hasLock[e] /\ sel[e] = s
    BY <1>6, QueueAssumption
  <2>. QED BY <1>2, <1>4, <1>5, <1>7, <2>1, <2>2, ServedKept
<1>9. AssignedByWaiter'
  <2> SUFFICES ASSUME NEW t \in Sticky, slots'[t].assigned # NoUser,
                      ~slots'[t].active, slots'[t].timer = "none"
               PROVE  \E f \in Entry : /\ sel'[f] = t /\ who'[f] = slots'[t].assigned
                                       /\ ~reused'[f] /\ pc'[f] \in WaitPhase
    BY DEF AssignedByWaiter, WaitPhase
  <2>1. t # s /\ UseKept(t)
    BY <1>3, <1>5, QueueAssumption DEF Slot
  <2>. QED BY <1>4, <2>1, AssignedKept DEF WaitPhase
<1>. QED BY <1>7, <1>8, <1>9 DEF SlotInv

LEMMA SettleSlots ==
  ASSUME SlotInv, TypeInv', NEW e \in Entry, Settle(e)
  PROVE  SlotInv'
<1>1. /\ pc[e] = "settling" /\ OthersStay(e) /\ pc'[e] = "held"
      /\ UNCHANGED <<who, sel, reused, hasLock, slots>>
  BY DEF Settle, OthersStay, SlotInv, TypeInv, TypeOK
<1>2. \A t \in Slot : UseKept(t) /\ SameLock(slots'[t], slots[t])
  BY <1>1 DEF UseKept, SameUse, SameLock
<1>3. LockInv'
  <2>1. \A f \in Entry : pc'[f] \in {"sem", "settling", "held"} /\ sel'[f] # NoSlot
                           => hasLock[f]
    BY <1>1 DEF SlotInv, LockInv, OthersStay
  <2>. QED BY <1>1, <1>2, <2>1, LockInvKept
<1>4. SlotServesItsUser'
  BY <1>1 DEF SlotInv, SlotServesItsUser, Active, OthersStay
<1>5. AssignedByWaiter'
  BY <1>1 DEF SlotInv, AssignedByWaiter, OthersStay
<1>. QED BY <1>3, <1>4, <1>5 DEF SlotInv

LEMMA ElapseSlots ==
  ASSUME SlotInv, TypeInv', NEW s \in Slot, Elapse(s)
  PROVE  SlotInv'
<1>1. /\ slots[s].timer = "ticking" /\ slots' = [slots EXCEPT ![s].timer = "elapsed"]
      /\ UNCHANGED <<pc, who, notify, sel, reused, hasLock>>
  BY DEF Elapse
<1>2. slots \in SlotMap /\ slots[s] \in SlotState
  BY DEF SlotInv, TypeInv, TypeOK, SlotMap
<1>3. /\ \A t \in Slot : t # s => slots'[t] = slots[t]
      /\ slots'[s] = [slots[s] EXCEPT !.timer = "elapsed"]
  BY <1>1, <1>2 DEF SlotMap
<1>4. /\ SameLock(slots'[s], slots[s]) /\ slots'[s].active = slots[s].active
      /\ slots'[s].assigned = slots[s].assigned /\ slots'[s].timer = "elapsed"
  BY <1>2, <1>3 DEF SlotState, SameLock
<1>5. \A t \in Slot : SameLock(slots'[t], slots[t])
  BY <1>3, <1>4 DEF SameLock
<1>6. LockInv'
  <2>1. /\ hasLock' = hasLock
        /\ \A f \in Entry : hasLock[f] => sel'[f] = sel[f]
        /\ \A f \in Entry : pc'[f] \in {"sem", "settling", "held"} /\ sel'[f] # NoSlot
                              => hasLock[f]
    BY <1>1 DEF SlotInv, LockInv
  <2>. QED BY <1>5, <2>1, LockInvKept
<1>7. SlotServesItsUser'
  BY <1>1, <1>3, <1>4 DEF SlotInv, SlotServesItsUser, Active, TypeInv, TypeOK
<1>8. AssignedByWaiter'
  BY <1>1, <1>3, <1>4 DEF SlotInv, AssignedByWaiter, Slot
<1>. QED BY <1>6, <1>7, <1>8 DEF SlotInv

\* acquire() raising, from slots that differ from the present ones by a
\* withdrawal from the lock's queue.
LEMMA RaisedSlots ==
  ASSUME SlotInv, TypeInv', NEW e \in Entry, NEW sl \in SlotMap, Raised(e, sl),
         pc[e] \in WaitPhase,
         \A t \in Slot : /\ SameUse(sl[t], slots[t]) /\ sl[t].held = slots[t].held
                         /\ sl[t].held => sl[t].woken = {}
                         /\ \A x, y \in sl[t].woken : x = y,
         \A t \in Slot : t # sel[e] \/ hasLock[e] => SameLock(sl[t], slots[t])
  PROVE  SlotInv'
<1> DEFINE s == sel[e]
           unassign == /\ s \in Sticky /\ sl[s].assigned = who[e]
                       /\ ~sl[s].active /\ ~reused[e]
           kept == IF unassign
                   THEN [sl EXCEPT ![s] = [@ EXCEPT !.assigned = NoUser,
                                                    !.timer = "none"]]
                   ELSE sl
<1>1. /\ TypeOK /\ s \in Slot \cup {NoSlot} /\ (hasLock[e] => s \in Slot)
      /\ e \notin Active
  BY DEF SlotInv, TypeInv, TypeOK, LockNeedsSlot, Active, WaitPhase
<1>2. slots' = IF hasLock[e] THEN [kept EXCEPT ![s] = LockRelease(@)] ELSE kept
  BY DEF Raised, CleanedUp
<1>3. /\ OthersStay(e) /\ pc'[e] = "idle" /\ hasLock' = [hasLock EXCEPT ![e] = FALSE]
      /\ sel'[e] = NoSlot
      /\ \A f \in Entry : f # e => pc'[f] = pc[f] /\ sel'[f] = sel[f]
  BY <1>1 DEF Raised, OthersStay, TypeOK
<1>4. /\ kept \in SlotMap
      /\ \A t \in Slot : t # s => kept[t] = sl[t]
      /\ \A t \in Slot : SameLock(kept[t], sl[t])
      /\ ~unassign => kept = sl
      /\ unassign => kept[s].assigned = NoUser
  <2>1. CASE unassign
    <3>1. s \in Slot /\ sl[s] \in SlotState
      BY <2>1 DEF Slot, SlotMap
    <3> DEFINE r == [sl[s] EXCEPT !.assigned = NoUser, !.timer = "none"]
    <3>2. r \in SlotState /\ SameLock(r, sl[s]) /\ r.assigned = NoUser
      BY <3>1 DEF SlotState, Timer, SameLock
    <3>3. kept = [sl EXCEPT ![s] = r]
      BY <2>1, <3>1 DEF SlotMap
    <3> HIDE DEF r, kept
    <3>4. kept \in SlotMap /\ kept[s] = r /\ \A t \in Slot : t # s => kept[t] = sl[t]
      BY <3>1, <3>2, <3>3 DEF SlotMap
    <3>. QED BY <2>1, <3>2, <3>4 DEF SameLock
  <2>2. CASE ~unassign
    BY <2>2 DEF SameLock
  <2>. QED BY <2>1, <2>2
<1> HIDE DEF kept
<1>5. \A t \in Slot : t # s => SameUse(slots'[t], slots[t]) /\ SameLock(slots'[t], sl[t])
  BY <1>2, <1>4 DEF SlotMap, SameLock
<1>6. s \in Slot => /\ SameUse(slots'[s], kept[s])
                    /\ \A x, y \in slots'[s].woken : x = y
                    /\ hasLock[e] => ~slots'[s].held
                    /\ ~hasLock[e] => SameLock(slots'[s], sl[s])
  <2> SUFFICES ASSUME s \in Slot
               PROVE  /\ SameUse(slots'[s], kept[s])
                      /\ \A x, y \in slots'[s].woken : x = y
                      /\ hasLock[e] => ~slots'[s].held
                      /\ ~hasLock[e] => SameLock(slots'[s], sl[s])
    OBVIOUS
  <2>1. kept[s] \in SlotState /\ SameLock(kept[s], sl[s])
    BY <1>4 DEF SlotMap
  <2>2. /\ kept[s].held => kept[s].woken = {}
        /\ \A x, y \in kept[s].woken : x = y
    BY <2>1 DEF SameLock
  <2>3. CASE hasLock[e]
    <3>1. slots'[s] = LockRelease(kept[s])
      BY <1>2, <1>4, <2>3 DEF SlotMap
    <3>. QED BY <2>1, <2>2, <2>3, <3>1, LockReleaseFields
  <2>4. CASE ~hasLock[e]
    BY <1>2, <2>1, <2>2, <2>4 DEF SameUse
  <2>. QED BY <2>3, <2>4
<1>7. \A t \in Slot : UseKept(t)
  BY <1>4, <1>5, <1>6 DEF UseKept, SameUse
<1>8. LockInv'
  <2>1. CASE hasLock[e]
    <3>1. s \in Slot /\ ~slots'[s].held /\ \A x, y \in slots'[s].woken : x = y
      BY <1>1, <1>6, <2>1
    <3>2. \A t \in Slot : t # s => SameLock(slots'[t], slots[t])
      BY <1>5 DEF SameLock
    <3>. QED BY <1>3, <2>1, <3>1, <3>2, LockInvReleased
  <2>2. CASE ~hasLock[e]
    <3>1. hasLock' = hasLock
      BY <1>1, <1>3, <2>2 DEF TypeOK
    <3>2. \A t \in Slot : Holders(t)' = Holders(t)
      BY <1>3, <2>2, <3>1 DEF Holders
    <3>3. \A t \in Slot : slots'[t].held = slots[t].held
      BY <1>5, <1>6, <2>2 DEF SameLock
    <3>4. SlotExclusive'
      BY <3>2, <3>3 DEF SlotExclusive, SlotInv, LockInv
    <3>5. \A t \in Slot : /\ slots'[t].held => slots'[t].woken = {}
                          /\ \A x, y \in slots'[t].woken : x = y
      BY <1>5, <1>6, <2>2 DEF SameLock
    <3>6. \A f \in Entry : pc'[f] \in {"sem", "settling", "held"} /\ sel'[f] # NoSlot
                             => hasLock'[f]
      BY <1>3, <3>1 DEF SlotInv, LockInv
    <3>. QED BY <3>4, <3>5, <3>6 DEF LockInv
  <2>. QED BY <2>1, <2>2
<1>9. SlotServesItsUser'
  <2>1. e \notin Active'
    BY <1>3 DEF Active
  <2>. QED BY <1>1, <1>3, <1>7, <1>8, <2>1, ServedKept
<1>10. AssignedByWaiter'
  <2> SUFFICES ASSUME NEW t \in Sticky, slots'[t].assigned # NoUser,
                      ~slots'[t].active, slots'[t].timer = "none"
               PROVE  \E f \in Entry : /\ sel'[f] = t /\ who'[f] = slots'[t].assigned
                                       /\ ~reused'[f] /\ pc'[f] \in WaitPhase
    BY DEF AssignedByWaiter, WaitPhase
  <2>1. t \in Slot /\ UseKept(t)
    BY <1>7 DEF Slot
  <2>2. ~(sel[e] = t /\ who[e] = slots[t].assigned /\ ~slots[t].active /\ ~reused[e])
    <3> SUFFICES ASSUME sel[e] = t, who[e] = slots[t].assigned, ~slots[t].active,
                        ~reused[e]
                 PROVE  FALSE
      OBVIOUS
    <3>1. unassign
      BY <2>1 DEF SameUse
    <3>2. slots'[s].assigned = NoUser
      BY <1>4, <1>6, <2>1, <3>1 DEF SameUse
    <3>. QED BY <3>2
  <2>. QED BY <1>3, <2>1, <2>2, AssignedKept
<1>. QED BY <1>8, <1>9, <1>10 DEF SlotInv

\* The handler waits for the notify task first, or raises at once.
LEMMA HandleSlots ==
  ASSUME SlotInv, TypeInv', NEW e \in Entry, NEW sl \in SlotMap, Handle(e, sl),
         pc[e] \in {"lock", "sem"},
         \A t \in Slot : /\ SameUse(sl[t], slots[t]) /\ sl[t].held = slots[t].held
                         /\ sl[t].held => sl[t].woken = {}
                         /\ \A x, y \in sl[t].woken : x = y,
         \A t \in Slot : t # sel[e] \/ hasLock[e] => SameLock(sl[t], slots[t])
  PROVE  SlotInv'
<1>1. CASE Raised(e, sl)
  BY <1>1, RaisedSlots DEF WaitPhase
<1>2. CASE /\ pc' = [pc EXCEPT ![e] = "cancelling"]
           /\ slots' = sl
           /\ UNCHANGED <<who, notify, sel, reused, hasLock, waiting>>
  <2>1. OthersStay(e) /\ pc'[e] = "cancelling" /\ e \notin Active'
    BY <1>2 DEF OthersStay, SlotInv, TypeInv, TypeOK, Active
  <2>2. \A t \in Slot : UseKept(t)
    BY <1>2 DEF UseKept
  <2>3. LockInv'
    <3>1. \A t \in Slot : Holders(t)' = Holders(t) /\ slots'[t].held = slots[t].held
      BY <1>2 DEF Holders
    <3>2. SlotExclusive'
      BY <3>1 DEF SlotExclusive, SlotInv, LockInv
    <3>3. \A f \in Entry : pc'[f] \in {"sem", "settling", "held"} /\ sel'[f] # NoSlot
                             => hasLock'[f]
      BY <1>2, <2>1 DEF SlotInv, LockInv, OthersStay
    <3>. QED BY <1>2, <3>2, <3>3 DEF LockInv
  <2>4. SlotServesItsUser'
    <3>1. NoSlot \in Slot \cup {NoSlot}
      OBVIOUS
    <3>2. \A t \in Slot : t # NoSlot
      BY QueueAssumption
    <3>. QED BY <2>1, <2>2, <2>3, <3>1, <3>2, ServedKept
  <2>5. AssignedByWaiter'
    <3> SUFFICES ASSUME NEW t \in Sticky, slots'[t].assigned # NoUser,
                        ~slots'[t].active, slots'[t].timer = "none"
                 PROVE  \E f \in Entry : /\ sel'[f] = t /\ who'[f] = slots'[t].assigned
                                         /\ ~reused'[f] /\ pc'[f] \in WaitPhase
      BY DEF AssignedByWaiter, WaitPhase
    <3>1. UseKept(t)
      BY <2>2 DEF Slot
    <3>. QED BY <1>2, <2>1, <3>1, AssignedKept DEF WaitPhase
  <2>. QED BY <2>3, <2>4, <2>5 DEF SlotInv
<1>. QED BY <1>1, <1>2 DEF Handle

\* The premises of RaisedSlots and HandleSlots when nothing was withdrawn.
LEMMA SlotsAsTheyAre ==
  ASSUME SlotInv
  PROVE  /\ slots \in SlotMap
         /\ \A t \in Slot : /\ SameUse(slots[t], slots[t]) /\ SameLock(slots[t], slots[t])
                            /\ slots[t].held => slots[t].woken = {}
                            /\ \A x, y \in slots[t].woken : x = y
BY DEF SlotInv, TypeInv, TypeOK, SlotMap, LockInv, SameUse, SameLock

LEMMA CancelLockSlots ==
  ASSUME SlotInv, TypeInv', NEW e \in Entry, CancelLock(e)
  PROVE  SlotInv'
<1> DEFINE s == sel[e]
           sl == [slots EXCEPT ![s] = LockWithdraw(@, e)]
<1>1. pc[e] = "lock" /\ Handle(e, sl)
  BY DEF CancelLock
<1>2. s \in Slot /\ slots \in SlotMap /\ slots[s] \in SlotState /\ ~hasLock[e]
  BY <1>1 DEF SlotInv, TypeInv, LockNeedsSlot, TypeOK, SlotMap
<1>3. /\ sl \in SlotMap /\ sl[s] = LockWithdraw(slots[s], e)
      /\ \A t \in Slot : t # s => sl[t] = slots[t]
  BY <1>2, LockOpsType DEF SlotMap
<1>4. /\ SameUse(sl[s], slots[s]) /\ sl[s].held = slots[s].held
      /\ sl[s].held => sl[s].woken = {}
      /\ \A x, y \in sl[s].woken : x = y
  BY <1>2, <1>3, SlotsAsTheyAre, LockWithdrawFields
<1> HIDE DEF sl
<1>5. /\ \A t \in Slot : /\ SameUse(sl[t], slots[t]) /\ sl[t].held = slots[t].held
                         /\ sl[t].held => sl[t].woken = {}
                         /\ \A x, y \in sl[t].woken : x = y
      /\ \A t \in Slot : t # s => SameLock(sl[t], slots[t])
  BY <1>3, <1>4, SlotsAsTheyAre
<1>. QED BY <1>1, <1>2, <1>3, <1>5, HandleSlots

LEMMA ReleaseSlots ==
  ASSUME SlotInv, TypeInv', NEW e \in Entry, Release(e)
  PROVE  SlotInv'
<1> DEFINE s == sel[e]
           idle == IF s \in Sticky
                   THEN [slots[s] EXCEPT !.active = FALSE, !.timer = "ticking"]
                   ELSE [slots[s] EXCEPT !.active = FALSE, !.assigned = NoUser,
                                         !.timer = "none"]
<1>1. /\ pc[e] = "held" /\ TypeOK /\ slots' = SlotReleased(s)
      /\ hasLock' = [hasLock EXCEPT ![e] = FALSE]
      /\ sel' = sel /\ pc'[e] = "released" /\ OthersStay(e)
      /\ \A f \in Entry : f # e => pc'[f] = pc[f]
  BY DEF Release, ReleaseEntry, SlotInv, TypeInv, TypeOK, OthersStay
<1>2. s \in Slot \cup {NoSlot} /\ (s # NoSlot => s \in Slot /\ hasLock[e])
      /\ (s = NoSlot => ~hasLock[e])
  BY <1>1, QueueAssumption DEF SlotInv, LockInv, TypeInv, TypeOK, LockNeedsSlot
<1>3. ASSUME s # NoSlot
      PROVE  /\ \A t \in Slot : t # s => slots'[t] = slots[t]
             /\ ~slots'[s].held /\ \A x, y \in slots'[s].woken : x = y
             /\ s \in Sticky => slots'[s].timer = "ticking"
  <2>1. /\ slots[s] \in SlotState
        /\ slots[s].held => slots[s].woken = {}
        /\ \A x, y \in slots[s].woken : x = y
    BY <1>2, <1>3, SlotsAsTheyAre DEF SlotMap
  <2>2. /\ idle \in SlotState /\ SameLock(idle, slots[s])
        /\ s \in Sticky => idle.timer = "ticking"
    BY <2>1 DEF SlotState, Timer, SameLock
  <2>3. slots' = [slots EXCEPT ![s] = LockRelease(idle)]
    BY <1>1, <1>2, <1>3 DEF SlotReleased, TypeOK
  <2> HIDE DEF idle
  <2>4. slots'[s] = LockRelease(idle) /\ \A t \in Slot : t # s => slots'[t] = slots[t]
    BY <1>1, <1>2, <1>3, <2>3 DEF TypeOK
  <2>5. /\ SameUse(LockRelease(idle), idle) /\ ~LockRelease(idle).held
        /\ \A x, y \in LockRelease(idle).woken : x = y
    BY <2>1, <2>2, LockReleaseFields DEF SameLock
  <2>. QED BY <2>2, <2>4, <2>5 DEF SameUse
<1>4. s = NoSlot => slots' = slots
  BY <1>1 DEF SlotReleased
<1>5. LockInv'
  <2>1. CASE s # NoSlot
    <3>1. \A t \in Slot : t # s => SameLock(slots'[t], slots[t])
      BY <1>3, <2>1 DEF SameLock
    <3>. QED BY <1>1, <1>2, <1>3, <2>1, <3>1, LockInvReleased
  <2>2. CASE s = NoSlot
    <3>1. hasLock' = hasLock
      BY <1>1, <1>2, <2>2 DEF TypeOK
    <3>2. \A f \in Entry : pc'[f] \in {"sem", "settling", "held"} /\ sel'[f] # NoSlot
                             => hasLock[f]
      BY <1>1 DEF SlotInv, LockInv
    <3>. QED BY <1>1, <1>4, <2>2, <3>1, <3>2, SlotsAsTheyAre, LockInvKept
  <2>. QED BY <2>1, <2>2
<1>6. \A t \in Slot : t # s => UseKept(t)
  BY <1>2, <1>3, <1>4 DEF UseKept, SameUse
<1>7. SlotServesItsUser'
  <2>1. e \notin Active' /\ (s \in Slot => hasLock[e] /\ sel[e] = s)
    BY <1>1, <1>2, QueueAssumption DEF Active
  <2>. QED BY <1>1, <1>2, <1>5, <1>6, <2>1, ServedKept
<1>8. AssignedByWaiter'
  <2> SUFFICES ASSUME NEW t \in Sticky, slots'[t].assigned # NoUser,
                      ~slots'[t].active, slots'[t].timer = "none"
               PROVE  \E f \in Entry : /\ sel'[f] = t /\ who'[f] = slots'[t].assigned
                                       /\ ~reused'[f] /\ pc'[f] \in WaitPhase
    BY DEF AssignedByWaiter, WaitPhase
  <2>1. t # s /\ t \in Slot
    BY <1>3, QueueAssumption DEF Slot
  <2>2. UseKept(t)
    BY <1>6, <2>1
  <2>. QED BY <1>1, <2>1, <2>2, AssignedKept DEF WaitPhase
<1>. QED BY <1>5, <1>7, <1>8 DEF SlotInv

LEMMA CancelSemSlots ==
  ASSUME SlotInv, TypeInv', NEW e \in Entry, CancelSem(e)
  PROVE  SlotInv'
<1>1. pc[e] = "sem" /\ Handle(e, slots)
  BY DEF CancelSem
<1>. QED BY <1>1, SlotsAsTheyAre, HandleSlots

LEMMA FinishCancelSlots ==
  ASSUME SlotInv, TypeInv', NEW e \in Entry, FinishCancel(e)
  PROVE  SlotInv'
<1>1. pc[e] = "cancelling" /\ Raised(e, slots)
  BY DEF FinishCancel
<1>. QED BY <1>1, SlotsAsTheyAre, RaisedSlots DEF WaitPhase

LEMMA NextSlots ==
  ASSUME SlotInv, [Next]_vars
  PROVE  SlotInv'
<1>1. TypeInv'
  BY NextStep DEF SlotInv
<1>2. ASSUME NEW e \in Entry, Step(e)
      PROVE  SlotInv'
  BY <1>1, <1>2, EnterSlots, ResumeLockSlots, ResumeSemSlots, SettleSlots,
     CancelLockSlots, CancelSemSlots, FinishCancelSlots, ReleaseSlots
     DEF Step, Progress
<1>3. ASSUME NEW s \in Slot, Elapse(s)
      PROVE  SlotInv'
  BY <1>1, <1>3, ElapseSlots
<1>4. CASE UNCHANGED vars
  BY <1>1, <1>4 DEF vars, SlotInv, LockInv, SlotExclusive, Holders,
                    SlotServesItsUser, Active, AssignedByWaiter
<1>. QED BY <1>2, <1>3, <1>4 DEF Next

LEMMA InitSlots == Init => SlotInv
<1> SUFFICES ASSUME Init PROVE SlotInv
  OBVIOUS
<1>1. LockInv
  BY DEF Init, LockInv, SlotExclusive, Holders, InitSlot
<1>2. SlotServesItsUser /\ AssignedByWaiter
  BY DEF Init, SlotServesItsUser, Active, AssignedByWaiter, InitSlot, Slot
<1>. QED BY <1>1, <1>2, InitTypeInv DEF SlotInv

-----------------------------------------------------------------------------
(* Who waits, and what the callers see *)

\* One call moves in a step: into the waiting list, out of it, through it, or
\* without touching it; an active request only stays active or is released.
MoveOf(e) ==
  /\ pc' = [pc EXCEPT ![e] = pc'[e]]
  /\ e \in Active => pc'[e] \in {"held", "released"}
  /\ \/ /\ waiting' = waiting
        /\ pc[e] \in WaitPhase <=> pc'[e] \in WaitPhase
     \/ /\ waiting' = Append(waiting, e)
        /\ pc[e] \notin WaitPhase /\ pc'[e] \in WaitPhase
     \/ /\ waiting' = RemoveFirst(waiting, e)
        /\ pc[e] \in WaitPhase /\ pc'[e] \notin WaitPhase
     \/ /\ waiting' = RemoveFirst(Append(waiting, e), e)
        /\ pc[e] \notin WaitPhase /\ pc'[e] \notin WaitPhase

\* Every step of the queue is such a move, or the expiry of an idle timer.
LEMMA OneMoves ==
  ASSUME TypeInv, [Next]_vars
  PROVE  (\E e \in Entry : MoveOf(e)) \/ (pc' = pc /\ waiting' = waiting)
<1>1. ASSUME NEW e \in Entry, NEW u \in User, NEW affine \in BOOLEAN,
             NEW eligible \in BOOLEAN, NEW callback \in BOOLEAN,
             Enter(e, u, affine, eligible, callback)
      PROVE  MoveOf(e)
  <2> DEFINE wq == Append(waiting, e)
  <2>1. pc[e] \in {"idle", "released"}
    BY <1>1 DEF Enter
  <2>2. \/ \E x \in {"settling", "held"} : /\ pc' = [pc EXCEPT ![e] = x]
                                           /\ waiting' = RemoveFirst(wq, e)
        \/ \E x \in {"lock", "sem"} : /\ pc' = [pc EXCEPT ![e] = x]
                                      /\ waiting' = wq
    BY <1>1 DEF Enter, AwaitPermit, Grant
  <2>. QED BY <2>1, <2>2 DEF MoveOf, Active, WaitPhase, TypeInv, TypeOK
<1>2. ASSUME NEW e \in Entry, ResumeLock(e)
      PROVE  MoveOf(e)
  <2>1. /\ pc[e] = "lock"
        /\ \/ \E x \in {"settling", "held"} :
                 /\ pc' = [pc EXCEPT ![e] = x]
                 /\ waiting' = RemoveFirst(waiting, e)
           \/ pc' = [pc EXCEPT ![e] = "sem"] /\ waiting' = waiting
    BY <1>2 DEF ResumeLock, AwaitPermit, Grant
  <2>. QED BY <2>1 DEF MoveOf, Active, WaitPhase, TypeInv, TypeOK
<1>3. ASSUME NEW e \in Entry, ResumeSem(e)
      PROVE  MoveOf(e)
  <2>1. /\ pc[e] = "sem"
        /\ \E x \in {"settling", "held"} : /\ pc' = [pc EXCEPT ![e] = x]
                                           /\ waiting' = RemoveFirst(waiting, e)
    BY <1>3 DEF ResumeSem, Grant
  <2>. QED BY <2>1 DEF MoveOf, Active, WaitPhase, TypeInv, TypeOK
<1>4. ASSUME NEW e \in Entry, Settle(e)
      PROVE  MoveOf(e)
  BY <1>4 DEF Settle, MoveOf, Active, WaitPhase, TypeInv, TypeOK
<1>5. ASSUME NEW e \in Entry, NEW sl, Handle(e, sl), pc[e] \in {"lock", "sem"}
      PROVE  MoveOf(e)
  BY <1>5 DEF Handle, Raised, MoveOf, Active, WaitPhase, TypeInv, TypeOK
<1>6. ASSUME NEW e \in Entry, CancelLock(e)
      PROVE  MoveOf(e)
  BY <1>5, <1>6 DEF CancelLock
<1>7. ASSUME NEW e \in Entry, CancelSem(e)
      PROVE  MoveOf(e)
  BY <1>5, <1>7 DEF CancelSem
<1>8. ASSUME NEW e \in Entry, FinishCancel(e)
      PROVE  MoveOf(e)
  BY <1>8 DEF FinishCancel, Raised, MoveOf, Active, WaitPhase, TypeInv, TypeOK
<1>9. ASSUME NEW e \in Entry, Release(e)
      PROVE  MoveOf(e)
  BY <1>9 DEF Release, ReleaseEntry, MoveOf, Active, WaitPhase, TypeInv, TypeOK
<1>10. ASSUME NEW s \in Slot, Elapse(s)
       PROVE  pc' = pc /\ waiting' = waiting
  BY <1>10 DEF Elapse
<1>11. CASE UNCHANGED vars
  BY <1>11 DEF vars
<1>. QED BY <1>1, <1>2, <1>3, <1>4, <1>6, <1>7, <1>8, <1>9, <1>10, <1>11
         DEF Next, Step, Progress

LEMMA WaitingKept ==
  ASSUME TypeInv, TypeInv', [Next]_vars, WaitingExact
  PROVE  WaitingExact'
<1> DEFINE W == {e \in Entry : pc[e] \in WaitPhase}
<1>1. waiting \in Seq(Entry) /\ waiting' \in Seq(Entry)
  BY DEF TypeInv, TypeOK
<1>2. NoRepeats(waiting) /\ Elements(waiting) = W
  BY DEF WaitingExact, NoRepeats, Elements, WaitPhase
<1>3. NoRepeats(waiting') /\ Elements(waiting') = W'
  <2>1. CASE pc' = pc /\ waiting' = waiting
    BY <1>2, <2>1
  <2>2. ASSUME NEW e \in Entry, MoveOf(e)
        PROVE  NoRepeats(waiting') /\ Elements(waiting') = W'
    <3>1. \A f \in Entry : f # e => pc'[f] = pc[f]
      BY <2>2 DEF MoveOf, TypeInv, TypeOK
    <3>2. CASE /\ waiting' = waiting
               /\ pc[e] \in WaitPhase <=> pc'[e] \in WaitPhase
      BY <1>2, <3>1, <3>2
    <3>3. CASE /\ waiting' = Append(waiting, e)
               /\ pc[e] \notin WaitPhase /\ pc'[e] \in WaitPhase
      <4>1. W' = W \cup {e} /\ e \notin W
        BY <3>1, <3>3
      <4> HIDE DEF W
      <4>. QED BY <1>1, <1>2, <3>3, <4>1, AppendElements
    <3>4. CASE /\ waiting' = RemoveFirst(waiting, e)
               /\ pc[e] \in WaitPhase /\ pc'[e] \notin WaitPhase
      <4>1. W' = W \ {e}
        BY <3>1, <3>4
      <4> HIDE DEF W
      <4>. QED BY <1>1, <1>2, <3>4, <4>1, RemoveFirstElements
    <3>5. CASE /\ waiting' = RemoveFirst(Append(waiting, e), e)
               /\ pc[e] \notin WaitPhase /\ pc'[e] \notin WaitPhase
      <4> DEFINE wq == Append(waiting, e)
      <4>1. W' = W /\ e \notin W
        BY <3>1, <3>5
      <4> HIDE DEF W
      <4>2. wq \in Seq(Entry) /\ NoRepeats(wq) /\ Elements(wq) = W \cup {e}
        BY <1>1, <1>2, <4>1, AppendElements
      <4>4. waiting' = RemoveFirst(wq, e)
        BY <3>5
      <4> HIDE DEF wq
      <4>3. NoRepeats(RemoveFirst(wq, e)) /\ Elements(RemoveFirst(wq, e)) = W
        <5>1. /\ NoRepeats(RemoveFirst(wq, e))
              /\ Elements(RemoveFirst(wq, e)) = Elements(wq) \ {e}
          BY <4>2, RemoveFirstElements
        <5>. QED BY <4>1, <4>2, <5>1
      <4>. QED BY <4>1, <4>3, <4>4
    <3>. QED BY <2>2, <3>2, <3>3, <3>4, <3>5 DEF MoveOf
  <2>. QED BY <2>1, <2>2, OneMoves
<1>. QED BY <1>3 DEF WaitingExact, NoRepeats, Elements, WaitPhase

\* For every number of callers, users, slots and permits: the lock of a slot is
\* held by one request at most, a running request runs in a slot of its own
\* user, no cancellation leaves a slot assigned for ever, and _waiting lists
\* exactly the calls that wait (queue.py:240-560).
THEOREM SlotsStaySound == Spec => []SlotsAreSound
<1> DEFINE Inv == SlotInv /\ WaitingExact
<1>1. Init => Inv
  <2>1. Init => WaitingExact
    BY DEF Init, WaitingExact
  <2>. QED BY <2>1, InitSlots
<1>2. Inv /\ [Next]_vars => Inv'
  <2> SUFFICES ASSUME Inv, [Next]_vars PROVE Inv'
    OBVIOUS
  <2>1. SlotInv'
    BY NextSlots
  <2>. QED BY <2>1, WaitingKept DEF SlotInv
<1>3. Inv => SlotsAreSound
  <2>1. AssignedByWaiter => NoOrphanAssignment
    BY DEF AssignedByWaiter, NoOrphanAssignment
  <2>. QED BY <2>1 DEF SlotInv, LockInv, SlotsAreSound
<1> HIDE DEF Inv
<1>. QED BY <1>1, <1>2, <1>3, PTL DEF Spec

-----------------------------------------------------------------------------
(* The queue implements the limiter *)

LEMMA SameCardinality == \A S : L!Cardinality(S) = Cardinality(S)
BY DEF L!Cardinality, Cardinality

LEMMA StageMeans ==
  /\ L!ActiveStage = Active
  /\ \A e \in Entry : /\ Stage[e] = "idle" <=> e \notin Active /\ pc[e] \notin WaitPhase
                      /\ Stage[e] = "waiting" <=> pc[e] \in WaitPhase
                      /\ Stage[e] = "active" <=> e \in Active
BY DEF L!ActiveStage, Stage, Active, WaitPhase

\* A request that becomes active finds a permit, so fewer than max_concurrent
\* requests were active.
LEMMA RoomForOneMore ==
  ASSUME PermitInv, [Next]_vars, NEW e \in Entry, e \notin Active, e \in Active'
  PROVE  Cardinality(Active) < MaxConcurrent
<1>1. TypeInv' /\ PermitStep
  BY NextStep DEF PermitInv
<1>2. Permits(sem') = Permits(sem) - 1
  BY <1>1 DEF PermitStep
<1>3. Permits(sem) \in Nat /\ Permits(sem') \in Nat
  BY <1>1 DEF PermitInv, TypeInv, TypeOK, SemState, Permits
<1>4. Permits(sem) + Cardinality(Active) = MaxConcurrent
  BY DEF PermitInv, PermitConservation, Permits
<1>. QED BY <1>2, <1>3, <1>4, ActiveFinite, QueueAssumption

LEMMA LimiterStep ==
  ASSUME PermitInv, [Next]_vars
  PROVE  [L!Next]_Stage
<1>1. CASE pc' = pc
  BY <1>1 DEF Stage, Active
<1>2. ASSUME NEW e \in Entry, MoveOf(e)
      PROVE  [L!Next]_Stage
  <2>1. \A f \in Entry : f # e => pc'[f] = pc[f]
    BY <1>2 DEF MoveOf, PermitInv, TypeInv, TypeOK
  <2> DEFINE x == Stage'[e]
  <2>2. Stage' = [Stage EXCEPT ![e] = x]
    BY <2>1 DEF Stage, Active
  <2>3. /\ x = "active" <=> e \in Active'
        /\ x \in {"idle", "waiting", "active"}
        /\ Stage[e] \in {"idle", "waiting", "active"}
    BY DEF Stage
  <2>4. Stage[e] = "active" => x # "waiting"
    BY <1>2 DEF Stage, Active, MoveOf, WaitPhase
  <2>5. Stage[e] # "active" /\ x = "active" => Cardinality(L!ActiveStage) < MaxConcurrent
    BY <2>3, StageMeans, RoomForOneMore
  <2>6. Stage[e] = x => Stage' = Stage
    BY <2>2 DEF Stage
  <2>7. Stage[e] # x => L!Wait(e) \/ L!Start(e) \/ L!Withdraw(e) \/ L!Finish(e)
    <3> HIDE DEF x
    <3>1. CASE x = "waiting"
      <4>1. Stage[e] = "idle" \/ Stage[e] = x
        BY <2>3, <2>4, <3>1
      <4>. QED BY <2>2, <3>1, <4>1 DEF L!Wait
    <3>2. CASE x = "active"
      BY <2>2, <2>3, <2>5, <3>2, SameCardinality DEF L!Start
    <3>3. CASE x = "idle"
      BY <2>2, <2>3, <3>3 DEF L!Withdraw, L!Finish
    <3>. QED BY <2>3, <3>1, <3>2, <3>3
  <2>. QED BY <2>6, <2>7 DEF L!Next
<1>. QED BY <1>1, <1>2, OneMoves DEF PermitInv

\* For every number of callers, slots and permits: behind its slot locks, hand-
\* offs, notify tasks and cancellation handlers the queue is a plain limiter; at
\* most max_concurrent requests are active, and a request only waits, starts, is
\* withdrawn or finishes.
THEOREM QueueImplementsLimiter == Spec => ImplementsLimiter
<1>1. Init => L!Init
  BY DEF Init, L!Init, Stage, Active
<1>2. PermitInv /\ [Next]_vars => PermitInv'
  BY PermitsConserved
<1>3. PermitInv /\ [Next]_vars => [L!Next]_Stage
  BY LimiterStep
<1>. QED BY InitPermits, <1>1, <1>2, <1>3, PTL DEF Spec, L!Spec, ImplementsLimiter
=============================================================================

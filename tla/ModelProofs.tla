----------------------------- MODULE ModelProofs -----------------------------
(* Proofs about the way of a model call: the cache of its slots, the routes *)
(* to the models and the assembly of a streamed answer.                     *)
EXTENDS SlotCache, Routing, ModelStream, SeqLemmas, FiniteSetTheorems, TLAPS

-----------------------------------------------------------------------------
(* The response cache *)

Leasing ==
  {t \in [pc : Pcs \ {"idle"}, slot : Slots, scope : Scopes, old : Scopes \cup {None},
          hit : {"none", "l1", "l2"}, since : Nat, todo : SUBSET Scopes] :
     t.pc \in {"evictSave", "evictRow"} => t.old \in Scopes}
Finishing == {"save", "saveRow", "pruneList", "prune", "pruneRow"}

\* A value is what the user's conversation of today left under the scope, unless
\* its file outlived a reset.
IsFor(v, x) == v.scope = x /\ (x \in stuck \/ v.epoch = epoch[Owner[x]])
IsNew(v, x) == x \in stuck \/ v = None \/ v.epoch = epoch[Owner[x]]

\* The reset under way will still delete the file of the scope.
Doomed(x) == reset.user = Owner[x] /\ (reset.pc = "list" \/ x \in reset.todo)

CacheShape ==
  /\ kv \in [Slots -> Content] /\ tracked \in [Slots -> Scopes \cup {None}]
  /\ files \in [Scopes -> Content \cup {None}] /\ fileRows \subseteq Scopes
  /\ flagged \subseteq Users /\ stuck \subseteq Scopes
  /\ epoch \in [Users -> Nat] /\ interrupted \in Nat
  /\ reset \in [user : Users \cup {None}, pc : {"idle", "list", "unlink", "row"},
                todo : SUBSET Scopes, at : Scopes \cup {None}]
  /\ call = [k \in Calls |-> call[k]]
  /\ \A k \in Calls : call[k] = IdleCall \/ call[k] \in Leasing
  /\ \A k, h \in Calls : call[k] # IdleCall /\ call[k].slot = call[h].slot => k = h

\* No reset runs across a call of its user.
CallIsOfToday(t) == t.since = epoch[Owner[t.scope]] /\ reset.user # Owner[t.scope]

\* What the slot of a call holds (v) and is tracked to hold (w), and the files it
\* reads and has written, at each of its awaits.
SoundWith(t, v, w, fs) ==
  /\ t.pc \in {"evictSave", "evictRow"} => IsFor(v, t.old)
  /\ t.pc \in Finishing \cup {"look", "mismatch"} => IsFor(v, t.scope)
  /\ t.pc = "calling" /\ t.hit # "none" => IsFor(v, t.scope)
  /\ t.pc \in Finishing \cup {"look", "calling", "mismatch", "retrying"} => w \in {t.scope, None}
  /\ t.pc = "restore" => IsNew(fs[t.scope], t.scope)
  /\ t.pc = "evictRow" => IsNew(fs[t.old], t.old)
  /\ t.pc = "saveRow" => IsNew(fs[t.scope], t.scope)
CallIsSound(t) == SoundWith(t, kv[t.slot], tracked[t.slot], files)

\* A free slot holds what it is tracked to hold, a file what it is named after,
\* and a listed file is new or about to be deleted.
FilesAreSound ==
  /\ \A s \in Slots : tracked[s] # None /\ (\A k \in Calls : call[k].slot # s) =>
       IsFor(kv[s], tracked[s])
  /\ \A x \in Scopes : files[x] # None => files[x].scope = x
  /\ \A x \in fileRows : IsNew(files[x], x) \/ Doomed(x)

CacheInv ==
  /\ CacheShape
  /\ \A k \in Calls : call[k] # IdleCall => CallIsOfToday(call[k])
  /\ interrupted = 0 =>
       /\ \A k \in Calls : call[k] # IdleCall => CallIsSound(call[k])
       /\ FilesAreSound

LEMMA CacheInvInit == CacheInit => CacheInv
<1> SUFFICES ASSUME CacheInit PROVE CacheInv
  OBVIOUS
<1>1. Empty \in Content
  BY DEF Empty, Content
<1>2. CacheShape
  BY <1>1, CacheAssumption DEF CacheInit, CacheShape, NoReset, CacheAssumption
<1>. QED BY <1>2 DEF CacheInit, CacheInv, FilesAreSound

\* What a step of call k on slot sl may write.
Stirs(k, t, sl) ==
  /\ sl \in Slots /\ call' = [call EXCEPT ![k] = t]
  /\ UNCHANGED <<epoch, reset, stuck>> /\ interrupted' \in Nat
  /\ flagged' \subseteq Users /\ fileRows' \subseteq Scopes
  /\ kv' \in [Slots -> Content] /\ tracked' \in [Slots -> Scopes \cup {None}]
  /\ files' \in [Scopes -> Content \cup {None}]
  /\ \A h \in Calls : h # k => call[h].slot # sl
  /\ t = IdleCall \/ (t \in Leasing /\ t.slot = sl)

LEMMA ShapeKept ==
  ASSUME CacheShape, NEW k \in Calls, NEW t, NEW sl, Stirs(k, t, sl)
  PROVE  CacheShape'
<1>0. /\ sl \in Slots /\ call' = [call EXCEPT ![k] = t]
      /\ \A h \in Calls : h # k => call[h].slot # sl
      /\ t = IdleCall \/ (t \in Leasing /\ t.slot = sl)
  BY DEF Stirs
<1>1. /\ DOMAIN call' = Calls /\ call'[k] = t
      /\ \A h \in Calls : h # k => call'[h] = call[h]
  BY <1>0 DEF CacheShape
<1>2. \A h \in Calls : call'[h] = IdleCall \/ call'[h] \in Leasing
  BY <1>0, <1>1 DEF CacheShape
<1>3. \A h, e \in Calls : call'[h] # IdleCall /\ call'[h].slot = call'[e].slot => h = e
  <2> SUFFICES ASSUME NEW h \in Calls, NEW e \in Calls, call'[h] # IdleCall,
                      call'[h].slot = call'[e].slot, h # e
               PROVE  FALSE
    OBVIOUS
  <2>1. None \notin Slots /\ \A o \in Leasing : o.slot \in Slots
    BY CacheAssumption DEF CacheAssumption, Leasing
  <2>2. CASE h = k
    BY <1>0, <1>1, <2>1, <2>2
  <2>3. CASE e = k
    <3>1. call[h].slot # sl /\ call[h] \in Leasing
      BY <1>0, <1>1, <2>3 DEF CacheShape
    <3>. QED BY <1>0, <1>1, <2>1, <2>3, <3>1 DEF IdleCall
  <2>4. CASE h # k /\ e # k
    BY <1>0, <1>1, <2>4 DEF CacheShape
  <2>. QED BY <2>2, <2>3, <2>4
<1>. QED BY <1>0, <1>1, <1>2, <1>3 DEF CacheShape, Stirs

\* A step of call k on slot sl, after which it is t.
Moves(k, t, sl) ==
  /\ sl \in Slots /\ call' = [call EXCEPT ![k] = t]
  /\ UNCHANGED <<epoch, reset, stuck>>
  /\ interrupted' \in Nat /\ (interrupted' = 0 => interrupted = 0)
  /\ flagged' \subseteq Users /\ fileRows' \subseteq Scopes
  /\ kv' \in [Slots -> Content] /\ tracked' \in [Slots -> Scopes \cup {None}]
  /\ files' \in [Scopes -> Content \cup {None}]
  /\ \A q \in Slots : q # sl => kv'[q] = kv[q] /\ tracked'[q] = tracked[q]
  /\ \A h \in Calls : h # k => call[h].slot # sl
  /\ call[k] = IdleCall \/ call[k].slot = sl
  /\ t = IdleCall \/ (t \in Leasing /\ t # IdleCall /\ t.slot = sl /\ CallIsOfToday(t))
  /\ interrupted' = 0 =>
       /\ t # IdleCall => SoundWith(t, kv'[sl], tracked'[sl], files')
       /\ t = IdleCall => tracked'[sl] = None \/ IsFor(kv'[sl], tracked'[sl])
       /\ \A x \in Scopes : files'[x] = files[x] \/ files'[x] = None \/ IsFor(files'[x], x)
       /\ \A x \in fileRows' : x \in fileRows \/ IsNew(files'[x], x)

\* Between its Prepare and its end, a call writes no slot but its own, and leaves
\* the other calls sound.
LEMMA CallStepKeeps ==
  ASSUME CacheInv, NEW k \in Calls, NEW t, NEW sl, Moves(k, t, sl)
  PROVE  CacheInv'
<1>0. /\ sl \in Slots /\ call' = [call EXCEPT ![k] = t]
      /\ UNCHANGED <<epoch, reset, stuck>>
      /\ interrupted' \in Nat /\ (interrupted' = 0 => interrupted = 0)
      /\ flagged' \subseteq Users /\ fileRows' \subseteq Scopes
      /\ kv' \in [Slots -> Content] /\ tracked' \in [Slots -> Scopes \cup {None}]
      /\ files' \in [Scopes -> Content \cup {None}]
      /\ \A q \in Slots : q # sl => kv'[q] = kv[q] /\ tracked'[q] = tracked[q]
      /\ \A h \in Calls : h # k => call[h].slot # sl
      /\ call[k] = IdleCall \/ call[k].slot = sl
      /\ t = IdleCall \/ (t \in Leasing /\ t # IdleCall /\ t.slot = sl /\ CallIsOfToday(t))
  BY DEF Moves
<1>1. /\ DOMAIN call' = Calls /\ call'[k] = t
      /\ \A h \in Calls : h # k => call'[h] = call[h]
  BY <1>0 DEF CacheInv, CacheShape
<1>2. CacheShape'
  <2>1. Stirs(k, t, sl)
    BY DEF Moves, Stirs
  <2>. QED BY <2>1, ShapeKept DEF CacheInv
<1>3. \A h \in Calls : call'[h] # IdleCall => CallIsOfToday(call'[h])
  BY <1>0, <1>1 DEF CacheInv
<1>4. \A h \in Calls : call'[h] # IdleCall => call'[h].since = epoch'[Owner[call'[h].scope]]
                                             /\ reset'.user # Owner[call'[h].scope]
  BY <1>0, <1>3 DEF CallIsOfToday
<1>5. ASSUME interrupted' = 0
      PROVE  /\ \A h \in Calls : call'[h] # IdleCall => CallIsSound(call[h])'
             /\ FilesAreSound'
  <2>1. /\ t # IdleCall => SoundWith(t, kv'[sl], tracked'[sl], files')
        /\ t = IdleCall => tracked'[sl] = None \/ IsFor(kv'[sl], tracked'[sl])
        /\ \A x \in Scopes : files'[x] = files[x] \/ files'[x] = None \/ IsFor(files'[x], x)
        /\ \A x \in fileRows' : x \in fileRows \/ IsNew(files'[x], x)
    BY <1>5 DEF Moves
  <2>2. /\ \A h \in Calls : call[h] # IdleCall => CallIsSound(call[h])
        /\ FilesAreSound
    BY <1>0, <1>5 DEF CacheInv
  <2>3. \A x \in Scopes : IsNew(files[x], x) => IsNew(files'[x], x)
    BY <1>0, <2>1 DEF IsNew, IsFor
  <2>4. ASSUME NEW h \in Calls, call'[h] # IdleCall
        PROVE  SoundWith(call'[h], kv'[call'[h].slot], tracked'[call'[h].slot], files')
    <3>1. CASE h = k
      BY <1>0, <1>1, <2>1, <2>4, <3>1
    <3>2. CASE h # k
      <4> DEFINE o == call[h]
      <4>1. call'[h] = o /\ o \in Leasing /\ o.slot # sl /\ CallIsSound(o)
        BY <1>0, <1>1, <2>2, <2>4, <3>2 DEF CacheInv, CacheShape
      <4> HIDE DEF o
      <4>2. /\ o.slot \in Slots /\ o.scope \in Scopes
            /\ o.pc = "evictRow" => o.old \in Scopes
        BY <1>0, <4>1 DEF Leasing
      <4>3. SoundWith(o, kv'[o.slot], tracked'[o.slot], files)
        BY <1>0, <4>1, <4>2 DEF CallIsSound
      <4>4. SoundWith(o, kv'[o.slot], tracked'[o.slot], files')
        BY <1>0, <2>3, <4>2, <4>3 DEF SoundWith
      <4>. QED BY <1>0, <4>1, <4>4
    <3>. QED BY <1>0, <3>1, <3>2
  <2>5. \A h \in Calls : call'[h] # IdleCall => CallIsSound(call[h])'
    BY <1>0, <2>4 DEF CallIsSound, SoundWith, IsFor, IsNew
  <2>6. ASSUME NEW q \in Slots, tracked'[q] # None, \A h \in Calls : call'[h].slot # q
        PROVE  IsFor(kv'[q], tracked'[q])
    <3>1. CASE q = sl
      BY <1>0, <1>1, <2>1, <2>6, <3>1
    <3>2. CASE q # sl
      <4>1. \A h \in Calls : call[h].slot # q
        <5>1. None \notin Slots
          BY CacheAssumption DEF CacheAssumption
        <5>. QED BY <1>0, <1>1, <2>6, <3>2, <5>1 DEF IdleCall
      <4>. QED BY <1>0, <2>2, <2>6, <3>2, <4>1 DEF FilesAreSound
    <3>. QED BY <1>0, <3>1, <3>2
  <2>7. \A x \in Scopes : files'[x] # None => files'[x].scope = x
    BY <1>0, <2>1, <2>2 DEF FilesAreSound, IsFor
  <2>8. \A x \in fileRows' : IsNew(files'[x], x) \/ Doomed(x)
    BY <1>0, <2>1, <2>2, <2>3 DEF FilesAreSound
  <2>9. FilesAreSound'
    BY <1>0, <2>6, <2>7, <2>8 DEF FilesAreSound, IsNew, IsFor, Doomed
  <2>. QED BY <1>0, <2>5, <2>9
<1>. QED BY <1>0, <1>2, <1>4, <1>5 DEF CacheInv, CallIsOfToday, CallIsSound, SoundWith, IsFor, IsNew

LEMMA LeaseIs ==
  ASSUME CacheInv, NEW k \in Calls, call[k].pc # "idle"
  PROVE  /\ call[k] \in Leasing /\ call[k].slot \in Slots /\ call[k].scope \in Scopes
         /\ call[k].since \in Nat /\ call[k].todo \subseteq Scopes
         /\ call[k].old \in Scopes \cup {None} /\ call[k] # IdleCall
         /\ \A h \in Calls : h # k => call[h].slot # call[k].slot
         /\ CallIsOfToday(call[k])
         /\ interrupted = 0 =>
              /\ SoundWith(call[k], kv[call[k].slot], tracked[call[k].slot], files)
              /\ FilesAreSound
<1>1. call[k] \in Leasing /\ call[k] # IdleCall
  BY DEF CacheInv, CacheShape, IdleCall
<1>2. \A h \in Calls : h # k => call[h].slot # call[k].slot
  BY <1>1 DEF CacheInv, CacheShape
<1>. QED BY <1>1, <1>2 DEF CacheInv, CallIsSound, Leasing

LEMMA EmptyIs == Empty \in Content /\ \A x \in Scopes : [scope |-> x, epoch |-> epoch[Owner[x]]] = Fresh(x)
BY DEF Empty, Content, Fresh

LEMMA FreshIsFor ==
  ASSUME CacheInv, NEW x \in Scopes
  PROVE  Fresh(x) \in Content /\ IsFor(Fresh(x), x)
BY CacheAssumption DEF Fresh, Content, IsFor, CacheInv, CacheShape, CacheAssumption

LEMMA ColdEraseKeeps ==
  ASSUME CacheInv, NEW k \in Calls, ColdErase(k)
  PROVE  CacheInv'
<1> DEFINE o == call[k]
           sl == o.slot
<1>1. CacheShape /\ o.pc = "coldErase"
  BY DEF ColdErase, At, CacheInv
<1>2. /\ o \in Leasing /\ sl \in Slots /\ o.scope \in Scopes /\ o # IdleCall
      /\ o.old \in Scopes \cup {None} /\ o.todo \subseteq Scopes
      /\ \A h \in Calls : h # k => call[h].slot # sl
      /\ CallIsOfToday(o)
      /\ interrupted = 0 => SoundWith(o, kv[sl], tracked[sl], files) /\ FilesAreSound
  BY <1>1, LeaseIs
<1>3. /\ kv' \in {kv, [kv EXCEPT ![sl] = Empty]}
      /\ tracked' = [tracked EXCEPT ![sl] = o.scope]
      /\ call' = [call EXCEPT ![k] = [o EXCEPT !.pc = "calling", !.hit = "none", !.old = None]]
      /\ UNCHANGED <<files, fileRows, flagged, epoch, reset, stuck, interrupted>>
  BY DEF ColdErase, At, Goto, Leave, Lease, Release, Track, Erased, SaveTo, Computed, AfterAnswer
<1> DEFINE t == [o EXCEPT !.pc = "calling", !.hit = "none", !.old = None]
<1>4. /\ t \in Leasing /\ t.slot = sl /\ t.scope = o.scope /\ t # IdleCall /\ CallIsOfToday(t)
      /\ t.pc = "calling" /\ t.hit = "none"
  BY <1>1, <1>2, <1>3 DEF Leasing, CallIsOfToday, Pcs, IdleCall
<1>5. /\ kv' \in [Slots -> Content] /\ tracked' \in [Slots -> Scopes \cup {None}]
      /\ \A q \in Slots : q # sl => kv'[q] = kv[q] /\ tracked'[q] = tracked[q]
      /\ tracked'[sl] = o.scope
  BY <1>1, <1>2, <1>3, EmptyIs, FreshIsFor DEF CacheShape
<1>6. interrupted = 0 => SoundWith(t, kv'[sl], tracked'[sl], files')
  BY <1>1, <1>2, <1>3, <1>4, <1>5, FreshIsFor DEF SoundWith, Finishing, CacheShape, IsNew, IsFor, FilesAreSound
<1>7. call' = [call EXCEPT ![k] = t] /\ UNCHANGED <<files, fileRows, flagged, epoch, reset, stuck, interrupted>>
  BY <1>3
<1> HIDE DEF t
<1>8. Moves(k, t, sl)
  BY <1>1, <1>2, <1>4, <1>5, <1>6, <1>7 DEF Moves, CacheShape
<1>. QED BY <1>8, CallStepKeeps

LEMMA HitLiveKeeps ==
  ASSUME CacheInv, NEW k \in Calls, HitLive(k)
  PROVE  CacheInv'
<1> DEFINE o == call[k]
           sl == o.slot
<1>1. CacheShape /\ o.pc = "look"
  BY DEF HitLive, At, CacheInv
<1>2. /\ o \in Leasing /\ sl \in Slots /\ o.scope \in Scopes /\ o # IdleCall
      /\ o.old \in Scopes \cup {None} /\ o.todo \subseteq Scopes
      /\ \A h \in Calls : h # k => call[h].slot # sl
      /\ CallIsOfToday(o)
      /\ interrupted = 0 => SoundWith(o, kv[sl], tracked[sl], files) /\ FilesAreSound
  BY <1>1, LeaseIs
<1>3. /\ call' = [call EXCEPT ![k] = [o EXCEPT !.pc = "calling", !.hit = "l1", !.old = None]]
      /\ UNCHANGED <<kv, tracked, files, fileRows, flagged, epoch, reset, stuck, interrupted>>
  BY DEF HitLive, At, Goto, Leave, Lease, Release, Track, Erased, SaveTo, Computed, AfterAnswer
<1> DEFINE t == [o EXCEPT !.pc = "calling", !.hit = "l1", !.old = None]
<1>4. /\ t \in Leasing /\ t.slot = sl /\ t.scope = o.scope /\ t # IdleCall /\ CallIsOfToday(t)
      /\ t.pc = "calling" /\ t.hit = "l1"
  BY <1>1, <1>2, <1>3 DEF Leasing, CallIsOfToday, Pcs, IdleCall
<1>5. /\ kv' \in [Slots -> Content] /\ tracked' \in [Slots -> Scopes \cup {None}]
      /\ \A q \in Slots : q # sl => kv'[q] = kv[q] /\ tracked'[q] = tracked[q]
  BY <1>1, <1>2, <1>3, EmptyIs, FreshIsFor DEF CacheShape
<1>6. interrupted = 0 => SoundWith(t, kv'[sl], tracked'[sl], files')
  BY <1>1, <1>2, <1>3, <1>4, <1>5, FreshIsFor DEF SoundWith, Finishing, CacheShape, IsNew, IsFor, FilesAreSound
<1>7. call' = [call EXCEPT ![k] = t] /\ UNCHANGED <<files, fileRows, flagged, epoch, reset, stuck, interrupted>>
  BY <1>3
<1> HIDE DEF t
<1>8. Moves(k, t, sl)
  BY <1>1, <1>2, <1>4, <1>5, <1>6, <1>7 DEF Moves, CacheShape
<1>. QED BY <1>8, CallStepKeeps

LEMMA EvictSaveKeeps ==
  ASSUME CacheInv, NEW k \in Calls, EvictSave(k)
  PROVE  CacheInv'
<1> DEFINE o == call[k]
           sl == o.slot
<1>1. CacheShape /\ o.pc = "evictSave"
  BY DEF EvictSave, At, CacheInv
<1>2. /\ o \in Leasing /\ sl \in Slots /\ o.scope \in Scopes /\ o # IdleCall
      /\ o.old \in Scopes \cup {None} /\ o.todo \subseteq Scopes
      /\ \A h \in Calls : h # k => call[h].slot # sl
      /\ CallIsOfToday(o)
      /\ interrupted = 0 => SoundWith(o, kv[sl], tracked[sl], files) /\ FilesAreSound
  BY <1>1, LeaseIs
<1>3. \/ /\ files' = [files EXCEPT ![o.old] = kv[sl]]
         /\ call' = [call EXCEPT ![k] = [o EXCEPT !.pc = "evictRow"]]
         /\ UNCHANGED <<kv, tracked, fileRows, flagged, epoch, reset, stuck, interrupted>>
      \/ /\ call' = [call EXCEPT ![k] = [o EXCEPT !.pc = "evictErase"]]
         /\ UNCHANGED <<kv, tracked, files, fileRows, flagged, epoch, reset, stuck, interrupted>>
  BY <1>1 DEF EvictSave, At, Goto, Leave, Lease, Release, Track, Erased, SaveTo, Computed, AfterAnswer
<1>4. CASE /\ files' = [files EXCEPT ![o.old] = kv[sl]]
            /\ call' = [call EXCEPT ![k] = [o EXCEPT !.pc = "evictRow"]]
            /\ UNCHANGED <<kv, tracked, fileRows, flagged, epoch, reset, stuck, interrupted>>
  <2> DEFINE t == [o EXCEPT !.pc = "evictRow"]
  <2>1. /\ t \in Leasing /\ t.slot = sl /\ t.scope = o.scope /\ t # IdleCall /\ CallIsOfToday(t)
        /\ t.pc = "evictRow" /\ t.old = o.old /\ t.hit = o.hit
    BY <1>1, <1>2, <1>4 DEF Leasing, CallIsOfToday, Pcs, IdleCall
  <2>2. /\ kv' \in [Slots -> Content] /\ tracked' \in [Slots -> Scopes \cup {None}]
        /\ \A q \in Slots : q # sl => kv'[q] = kv[q] /\ tracked'[q] = tracked[q]
    BY <1>1, <1>2, <1>4, EmptyIs, FreshIsFor DEF CacheShape
  <2>3. files' \in [Scopes -> Content \cup {None}]
    BY <1>1, <1>2, <1>4 DEF CacheShape
  <2>4. interrupted = 0 => SoundWith(t, kv'[sl], tracked'[sl], files')
    BY <1>1, <1>2, <1>4, <2>1, <2>2, <2>3, FreshIsFor DEF SoundWith, Finishing, CacheShape, IsNew, IsFor, FilesAreSound
  <2>5. interrupted = 0 => \A x \in Scopes : files'[x] = files[x] \/ files'[x] = None \/ IsFor(files'[x], x)
    BY <1>1, <1>2, <1>4, <2>1, <2>2, <2>3, <2>4 DEF SoundWith, Finishing, CacheShape
  <2>6. call' = [call EXCEPT ![k] = t] /\ UNCHANGED <<fileRows, flagged, epoch, reset, stuck, interrupted>>
    BY <1>4
  <2> HIDE DEF t
  <2>7. Moves(k, t, sl)
    BY <1>1, <1>2, <2>1, <2>2, <2>3, <2>4, <2>5, <2>6 DEF Moves, CacheShape
  <2>. QED BY <2>7, CallStepKeeps
<1>5. CASE /\ call' = [call EXCEPT ![k] = [o EXCEPT !.pc = "evictErase"]]
            /\ UNCHANGED <<kv, tracked, files, fileRows, flagged, epoch, reset, stuck, interrupted>>
  <2> DEFINE t == [o EXCEPT !.pc = "evictErase"]
  <2>1. /\ t \in Leasing /\ t.slot = sl /\ t.scope = o.scope /\ t # IdleCall /\ CallIsOfToday(t)
        /\ t.pc = "evictErase" /\ t.old = o.old /\ t.hit = o.hit
    BY <1>1, <1>2, <1>5 DEF Leasing, CallIsOfToday, Pcs, IdleCall
  <2>2. /\ kv' \in [Slots -> Content] /\ tracked' \in [Slots -> Scopes \cup {None}]
        /\ \A q \in Slots : q # sl => kv'[q] = kv[q] /\ tracked'[q] = tracked[q]
    BY <1>1, <1>2, <1>5, EmptyIs, FreshIsFor DEF CacheShape
  <2>3. interrupted = 0 => SoundWith(t, kv'[sl], tracked'[sl], files')
    BY <1>1, <1>2, <1>5, <2>1, <2>2, FreshIsFor DEF SoundWith, Finishing, CacheShape, IsNew, IsFor, FilesAreSound
  <2>4. call' = [call EXCEPT ![k] = t] /\ UNCHANGED <<files, fileRows, flagged, epoch, reset, stuck, interrupted>>
    BY <1>5
  <2> HIDE DEF t
  <2>5. Moves(k, t, sl)
    BY <1>1, <1>2, <2>1, <2>2, <2>3, <2>4 DEF Moves, CacheShape
  <2>. QED BY <2>5, CallStepKeeps
<1>. QED BY <1>3, <1>4, <1>5

LEMMA EvictRowKeeps ==
  ASSUME CacheInv, NEW k \in Calls, EvictRow(k)
  PROVE  CacheInv'
<1> DEFINE o == call[k]
           sl == o.slot
<1>1. CacheShape /\ o.pc = "evictRow"
  BY DEF EvictRow, At, CacheInv
<1>2. /\ o \in Leasing /\ sl \in Slots /\ o.scope \in Scopes /\ o # IdleCall
      /\ o.old \in Scopes \cup {None} /\ o.todo \subseteq Scopes
      /\ \A h \in Calls : h # k => call[h].slot # sl
      /\ CallIsOfToday(o)
      /\ interrupted = 0 => SoundWith(o, kv[sl], tracked[sl], files) /\ FilesAreSound
  BY <1>1, LeaseIs
<1>3. /\ tracked' = [tracked EXCEPT ![sl] = o.old]
      /\ fileRows' = fileRows \cup {o.old}
      /\ call' = [call EXCEPT ![k] = [o EXCEPT !.pc = "evictErase"]]
      /\ UNCHANGED <<kv, files, flagged, epoch, reset, stuck, interrupted>>
  BY DEF EvictRow, At, Goto, Leave, Lease, Release, Track, Erased, SaveTo, Computed, AfterAnswer
<1> DEFINE t == [o EXCEPT !.pc = "evictErase"]
<1>4. /\ t \in Leasing /\ t.slot = sl /\ t.scope = o.scope /\ t # IdleCall /\ CallIsOfToday(t)
      /\ t.pc = "evictErase" /\ t.old = o.old /\ t.hit = o.hit
  BY <1>1, <1>2, <1>3 DEF Leasing, CallIsOfToday, Pcs, IdleCall
<1>5. /\ kv' \in [Slots -> Content] /\ tracked' \in [Slots -> Scopes \cup {None}]
      /\ \A q \in Slots : q # sl => kv'[q] = kv[q] /\ tracked'[q] = tracked[q]
  BY <1>1, <1>2, <1>3, EmptyIs, FreshIsFor DEF CacheShape
<1>6. interrupted = 0 => SoundWith(t, kv'[sl], tracked'[sl], files')
  BY <1>1, <1>2, <1>3, <1>4, <1>5, FreshIsFor DEF SoundWith, Finishing, CacheShape, IsNew, IsFor, FilesAreSound
<1>7. /\ fileRows' \subseteq Scopes
      /\ interrupted = 0 => \A x \in fileRows' : x \in fileRows \/ IsNew(files[x], x)
  BY <1>1, <1>2, <1>3, <1>4, <1>5, <1>6 DEF SoundWith, CacheShape, Leasing
<1>8. call' = [call EXCEPT ![k] = t] /\ UNCHANGED <<files, flagged, epoch, reset, stuck, interrupted>>
  BY <1>3
<1> HIDE DEF t
<1>9. Moves(k, t, sl)
  BY <1>1, <1>2, <1>4, <1>5, <1>6, <1>7, <1>8 DEF Moves, CacheShape
<1>. QED BY <1>9, CallStepKeeps

LEMMA EvictEraseKeeps ==
  ASSUME CacheInv, NEW k \in Calls, EvictErase(k)
  PROVE  CacheInv'
<1> DEFINE o == call[k]
           sl == o.slot
<1>1. CacheShape /\ o.pc = "evictErase"
  BY DEF EvictErase, At, CacheInv
<1>2. /\ o \in Leasing /\ sl \in Slots /\ o.scope \in Scopes /\ o # IdleCall
      /\ o.old \in Scopes \cup {None} /\ o.todo \subseteq Scopes
      /\ \A h \in Calls : h # k => call[h].slot # sl
      /\ CallIsOfToday(o)
      /\ interrupted = 0 => SoundWith(o, kv[sl], tracked[sl], files) /\ FilesAreSound
  BY <1>1, LeaseIs
<1>3. /\ kv' \in {kv, [kv EXCEPT ![sl] = Empty]}
      /\ call' = [call EXCEPT ![k] = [o EXCEPT !.pc = "lookUp", !.old = None, !.hit = "none"]]
      /\ UNCHANGED <<tracked, files, fileRows, flagged, epoch, reset, stuck, interrupted>>
  BY DEF EvictErase, At, Goto, Leave, Lease, Release, Track, Erased, SaveTo, Computed, AfterAnswer
<1> DEFINE t == [o EXCEPT !.pc = "lookUp", !.old = None, !.hit = "none"]
<1>4. /\ t \in Leasing /\ t.slot = sl /\ t.scope = o.scope /\ t # IdleCall /\ CallIsOfToday(t)
      /\ t.pc = "lookUp"
  BY <1>1, <1>2, <1>3 DEF Leasing, CallIsOfToday, Pcs, IdleCall
<1>5. /\ kv' \in [Slots -> Content] /\ tracked' \in [Slots -> Scopes \cup {None}]
      /\ \A q \in Slots : q # sl => kv'[q] = kv[q] /\ tracked'[q] = tracked[q]
  BY <1>1, <1>2, <1>3, EmptyIs, FreshIsFor DEF CacheShape
<1>6. interrupted = 0 => SoundWith(t, kv'[sl], tracked'[sl], files')
  BY <1>1, <1>2, <1>3, <1>4, <1>5, FreshIsFor DEF SoundWith, Finishing, CacheShape, IsNew, IsFor, FilesAreSound
<1>7. call' = [call EXCEPT ![k] = t] /\ UNCHANGED <<files, fileRows, flagged, epoch, reset, stuck, interrupted>>
  BY <1>3
<1> HIDE DEF t
<1>8. Moves(k, t, sl)
  BY <1>1, <1>2, <1>4, <1>5, <1>6, <1>7 DEF Moves, CacheShape
<1>. QED BY <1>8, CallStepKeeps

LEMMA LookUpKeeps ==
  ASSUME CacheInv, NEW k \in Calls, LookUp(k)
  PROVE  CacheInv'
<1> DEFINE o == call[k]
           sl == o.slot
<1>1. CacheShape /\ o.pc = "lookUp"
  BY DEF LookUp, At, CacheInv
<1>2. /\ o \in Leasing /\ sl \in Slots /\ o.scope \in Scopes /\ o # IdleCall
      /\ o.old \in Scopes \cup {None} /\ o.todo \subseteq Scopes
      /\ \A h \in Calls : h # k => call[h].slot # sl
      /\ CallIsOfToday(o)
      /\ interrupted = 0 => SoundWith(o, kv[sl], tracked[sl], files) /\ FilesAreSound
  BY <1>1, LeaseIs
<1>3. \/ /\ o.scope \in fileRows
         /\ call' = [call EXCEPT ![k] = [o EXCEPT !.pc = "restore"]]
         /\ UNCHANGED <<kv, tracked, files, fileRows, flagged, epoch, reset, stuck, interrupted>>
      \/ /\ tracked' = [tracked EXCEPT ![sl] = o.scope]
         /\ call' = [call EXCEPT ![k] = [o EXCEPT !.pc = "calling", !.hit = "none", !.old = None]]
         /\ UNCHANGED <<kv, files, fileRows, flagged, epoch, reset, stuck, interrupted>>
  BY <1>1 DEF LookUp, At, Goto, Leave, Lease, Release, Track, Erased, SaveTo, Computed, AfterAnswer
<1>4. CASE /\ o.scope \in fileRows
            /\ call' = [call EXCEPT ![k] = [o EXCEPT !.pc = "restore"]]
            /\ UNCHANGED <<kv, tracked, files, fileRows, flagged, epoch, reset, stuck, interrupted>>
  <2> DEFINE t == [o EXCEPT !.pc = "restore"]
  <2>1. /\ t \in Leasing /\ t.slot = sl /\ t.scope = o.scope /\ t # IdleCall /\ CallIsOfToday(t)
        /\ t.pc = "restore" /\ t.old = o.old /\ t.hit = o.hit
    BY <1>1, <1>2, <1>4 DEF Leasing, CallIsOfToday, Pcs, IdleCall
  <2>2. /\ kv' \in [Slots -> Content] /\ tracked' \in [Slots -> Scopes \cup {None}]
        /\ \A q \in Slots : q # sl => kv'[q] = kv[q] /\ tracked'[q] = tracked[q]
    BY <1>1, <1>2, <1>4, EmptyIs, FreshIsFor DEF CacheShape
  <2>3. interrupted = 0 => SoundWith(t, kv'[sl], tracked'[sl], files')
    BY <1>1, <1>2, <1>4, <2>1, <2>2, FreshIsFor DEF SoundWith, Finishing, CacheShape, IsNew, IsFor, FilesAreSound, CallIsOfToday, Doomed
  <2>4. call' = [call EXCEPT ![k] = t] /\ UNCHANGED <<files, fileRows, flagged, epoch, reset, stuck, interrupted>>
    BY <1>4
  <2> HIDE DEF t
  <2>5. Moves(k, t, sl)
    BY <1>1, <1>2, <2>1, <2>2, <2>3, <2>4 DEF Moves, CacheShape
  <2>. QED BY <2>5, CallStepKeeps
<1>5. CASE /\ tracked' = [tracked EXCEPT ![sl] = o.scope]
            /\ call' = [call EXCEPT ![k] = [o EXCEPT !.pc = "calling", !.hit = "none", !.old = None]]
            /\ UNCHANGED <<kv, files, fileRows, flagged, epoch, reset, stuck, interrupted>>
  <2> DEFINE t == [o EXCEPT !.pc = "calling", !.hit = "none", !.old = None]
  <2>1. /\ t \in Leasing /\ t.slot = sl /\ t.scope = o.scope /\ t # IdleCall /\ CallIsOfToday(t)
        /\ t.pc = "calling" /\ t.hit = "none"
    BY <1>1, <1>2, <1>5 DEF Leasing, CallIsOfToday, Pcs, IdleCall
  <2>2. /\ kv' \in [Slots -> Content] /\ tracked' \in [Slots -> Scopes \cup {None}]
        /\ \A q \in Slots : q # sl => kv'[q] = kv[q] /\ tracked'[q] = tracked[q]
        /\ tracked'[sl] = o.scope
    BY <1>1, <1>2, <1>5, EmptyIs, FreshIsFor DEF CacheShape
  <2>3. interrupted = 0 => SoundWith(t, kv'[sl], tracked'[sl], files')
    BY <1>1, <1>2, <1>5, <2>1, <2>2, FreshIsFor DEF SoundWith, Finishing, CacheShape, IsNew, IsFor, FilesAreSound
  <2>4. call' = [call EXCEPT ![k] = t] /\ UNCHANGED <<files, fileRows, flagged, epoch, reset, stuck, interrupted>>
    BY <1>5
  <2> HIDE DEF t
  <2>5. Moves(k, t, sl)
    BY <1>1, <1>2, <2>1, <2>2, <2>3, <2>4 DEF Moves, CacheShape
  <2>. QED BY <2>5, CallStepKeeps
<1>. QED BY <1>3, <1>4, <1>5

LEMMA RestoreFileKeeps ==
  ASSUME CacheInv, NEW k \in Calls, RestoreFile(k)
  PROVE  CacheInv'
<1> DEFINE o == call[k]
           sl == o.slot
<1>1. CacheShape /\ o.pc = "restore"
  BY DEF RestoreFile, At, CacheInv
<1>2. /\ o \in Leasing /\ sl \in Slots /\ o.scope \in Scopes /\ o # IdleCall
      /\ o.old \in Scopes \cup {None} /\ o.todo \subseteq Scopes
      /\ \A h \in Calls : h # k => call[h].slot # sl
      /\ CallIsOfToday(o)
      /\ interrupted = 0 => SoundWith(o, kv[sl], tracked[sl], files) /\ FilesAreSound
  BY <1>1, LeaseIs
<1>3. \/ /\ files[o.scope] # None
         /\ kv' = [kv EXCEPT ![sl] = files[o.scope]]
         /\ tracked' = [tracked EXCEPT ![sl] = o.scope]
         /\ call' = [call EXCEPT ![k] = [o EXCEPT !.pc = "calling", !.hit = "l2", !.old = None]]
         /\ UNCHANGED <<files, fileRows, flagged, epoch, reset, stuck, interrupted>>
      \/ /\ tracked' = [tracked EXCEPT ![sl] = o.scope]
         /\ call' = [call EXCEPT ![k] = [o EXCEPT !.pc = "calling", !.hit = "none", !.old = None]]
         /\ UNCHANGED <<kv, files, fileRows, flagged, epoch, reset, stuck, interrupted>>
  BY <1>1 DEF RestoreFile, At, Goto, Leave, Lease, Release, Track, Erased, SaveTo, Computed, AfterAnswer
<1>4. CASE /\ files[o.scope] # None
            /\ kv' = [kv EXCEPT ![sl] = files[o.scope]]
            /\ tracked' = [tracked EXCEPT ![sl] = o.scope]
            /\ call' = [call EXCEPT ![k] = [o EXCEPT !.pc = "calling", !.hit = "l2", !.old = None]]
            /\ UNCHANGED <<files, fileRows, flagged, epoch, reset, stuck, interrupted>>
  <2> DEFINE t == [o EXCEPT !.pc = "calling", !.hit = "l2", !.old = None]
  <2>1. /\ t \in Leasing /\ t.slot = sl /\ t.scope = o.scope /\ t # IdleCall /\ CallIsOfToday(t)
        /\ t.pc = "calling" /\ t.hit = "l2"
    BY <1>1, <1>2, <1>4 DEF Leasing, CallIsOfToday, Pcs, IdleCall
  <2>2. /\ kv' \in [Slots -> Content] /\ tracked' \in [Slots -> Scopes \cup {None}]
        /\ \A q \in Slots : q # sl => kv'[q] = kv[q] /\ tracked'[q] = tracked[q]
        /\ tracked'[sl] = o.scope
        /\ kv'[sl] = files[o.scope]
    BY <1>1, <1>2, <1>4, EmptyIs, FreshIsFor DEF CacheShape
  <2>3. interrupted = 0 => SoundWith(t, kv'[sl], tracked'[sl], files')
    BY <1>1, <1>2, <1>4, <2>1, <2>2, FreshIsFor DEF SoundWith, Finishing, CacheShape, IsNew, IsFor, FilesAreSound
  <2>4. call' = [call EXCEPT ![k] = t] /\ UNCHANGED <<files, fileRows, flagged, epoch, reset, stuck, interrupted>>
    BY <1>4
  <2> HIDE DEF t
  <2>5. Moves(k, t, sl)
    BY <1>1, <1>2, <2>1, <2>2, <2>3, <2>4 DEF Moves, CacheShape
  <2>. QED BY <2>5, CallStepKeeps
<1>5. CASE /\ tracked' = [tracked EXCEPT ![sl] = o.scope]
            /\ call' = [call EXCEPT ![k] = [o EXCEPT !.pc = "calling", !.hit = "none", !.old = None]]
            /\ UNCHANGED <<kv, files, fileRows, flagged, epoch, reset, stuck, interrupted>>
  <2> DEFINE t == [o EXCEPT !.pc = "calling", !.hit = "none", !.old = None]
  <2>1. /\ t \in Leasing /\ t.slot = sl /\ t.scope = o.scope /\ t # IdleCall /\ CallIsOfToday(t)
        /\ t.pc = "calling" /\ t.hit = "none"
    BY <1>1, <1>2, <1>5 DEF Leasing, CallIsOfToday, Pcs, IdleCall
  <2>2. /\ kv' \in [Slots -> Content] /\ tracked' \in [Slots -> Scopes \cup {None}]
        /\ \A q \in Slots : q # sl => kv'[q] = kv[q] /\ tracked'[q] = tracked[q]
        /\ tracked'[sl] = o.scope
    BY <1>1, <1>2, <1>5, EmptyIs, FreshIsFor DEF CacheShape
  <2>3. interrupted = 0 => SoundWith(t, kv'[sl], tracked'[sl], files')
    BY <1>1, <1>2, <1>5, <2>1, <2>2, FreshIsFor DEF SoundWith, Finishing, CacheShape, IsNew, IsFor, FilesAreSound
  <2>4. call' = [call EXCEPT ![k] = t] /\ UNCHANGED <<files, fileRows, flagged, epoch, reset, stuck, interrupted>>
    BY <1>5
  <2> HIDE DEF t
  <2>5. Moves(k, t, sl)
    BY <1>1, <1>2, <2>1, <2>2, <2>3, <2>4 DEF Moves, CacheShape
  <2>. QED BY <2>5, CallStepKeeps
<1>. QED BY <1>3, <1>4, <1>5

LEMMA AnswerKeeps ==
  ASSUME CacheInv, NEW k \in Calls, Answer(k)
  PROVE  CacheInv'
<1> DEFINE o == call[k]
           sl == o.slot
<1>1. CacheShape /\ o.pc = "calling"
  BY DEF Answer, At, CacheInv
<1>2. /\ o \in Leasing /\ sl \in Slots /\ o.scope \in Scopes /\ o # IdleCall
      /\ o.old \in Scopes \cup {None} /\ o.todo \subseteq Scopes
      /\ \A h \in Calls : h # k => call[h].slot # sl
      /\ CallIsOfToday(o)
      /\ interrupted = 0 => SoundWith(o, kv[sl], tracked[sl], files) /\ FilesAreSound
  BY <1>1, LeaseIs
<1>3. \/ /\ kv' = [kv EXCEPT ![sl] = Fresh(o.scope)]
         /\ call' = [call EXCEPT ![k] = [o EXCEPT !.pc = "mismatch", !.old = None, !.hit = "none"]]
         /\ UNCHANGED <<tracked, files, fileRows, flagged, epoch, reset, stuck, interrupted>>
      \/ /\ kv' = [kv EXCEPT ![sl] = Fresh(o.scope)]
         /\ call' = [call EXCEPT ![k] = [o EXCEPT !.pc = "save", !.old = None, !.hit = "none"]]
         /\ UNCHANGED <<tracked, files, fileRows, flagged, epoch, reset, stuck, interrupted>>
      \/ /\ kv' = [kv EXCEPT ![sl] = Fresh(o.scope)]
         /\ call' = [call EXCEPT ![k] = IdleCall]
         /\ UNCHANGED <<tracked, files, fileRows, flagged, epoch, reset, stuck, interrupted>>
  BY <1>1 DEF Answer, At, Goto, Leave, Lease, Release, Track, Erased, SaveTo, Computed, AfterAnswer
<1>4. CASE /\ kv' = [kv EXCEPT ![sl] = Fresh(o.scope)]
            /\ call' = [call EXCEPT ![k] = [o EXCEPT !.pc = "mismatch", !.old = None, !.hit = "none"]]
            /\ UNCHANGED <<tracked, files, fileRows, flagged, epoch, reset, stuck, interrupted>>
  <2> DEFINE t == [o EXCEPT !.pc = "mismatch", !.old = None, !.hit = "none"]
  <2>1. /\ t \in Leasing /\ t.slot = sl /\ t.scope = o.scope /\ t # IdleCall /\ CallIsOfToday(t)
        /\ t.pc = "mismatch"
    BY <1>1, <1>2, <1>4 DEF Leasing, CallIsOfToday, Pcs, IdleCall
  <2>2. /\ kv' \in [Slots -> Content] /\ tracked' \in [Slots -> Scopes \cup {None}]
        /\ \A q \in Slots : q # sl => kv'[q] = kv[q] /\ tracked'[q] = tracked[q]
        /\ kv'[sl] = Fresh(o.scope)
    BY <1>1, <1>2, <1>4, EmptyIs, FreshIsFor DEF CacheShape
  <2>3. interrupted = 0 => SoundWith(t, kv'[sl], tracked'[sl], files')
    BY <1>1, <1>2, <1>4, <2>1, <2>2, FreshIsFor DEF SoundWith, Finishing, CacheShape, IsNew, IsFor, FilesAreSound
  <2>4. call' = [call EXCEPT ![k] = t] /\ UNCHANGED <<files, fileRows, flagged, epoch, reset, stuck, interrupted>>
    BY <1>4
  <2> HIDE DEF t
  <2>5. Moves(k, t, sl)
    BY <1>1, <1>2, <2>1, <2>2, <2>3, <2>4 DEF Moves, CacheShape
  <2>. QED BY <2>5, CallStepKeeps
<1>5. CASE /\ kv' = [kv EXCEPT ![sl] = Fresh(o.scope)]
            /\ call' = [call EXCEPT ![k] = [o EXCEPT !.pc = "save", !.old = None, !.hit = "none"]]
            /\ UNCHANGED <<tracked, files, fileRows, flagged, epoch, reset, stuck, interrupted>>
  <2> DEFINE t == [o EXCEPT !.pc = "save", !.old = None, !.hit = "none"]
  <2>1. /\ t \in Leasing /\ t.slot = sl /\ t.scope = o.scope /\ t # IdleCall /\ CallIsOfToday(t)
        /\ t.pc = "save"
    BY <1>1, <1>2, <1>5 DEF Leasing, CallIsOfToday, Pcs, IdleCall
  <2>2. /\ kv' \in [Slots -> Content] /\ tracked' \in [Slots -> Scopes \cup {None}]
        /\ \A q \in Slots : q # sl => kv'[q] = kv[q] /\ tracked'[q] = tracked[q]
        /\ kv'[sl] = Fresh(o.scope)
    BY <1>1, <1>2, <1>5, EmptyIs, FreshIsFor DEF CacheShape
  <2>3. interrupted = 0 => SoundWith(t, kv'[sl], tracked'[sl], files')
    BY <1>1, <1>2, <1>5, <2>1, <2>2, FreshIsFor DEF SoundWith, Finishing, CacheShape, IsNew, IsFor, FilesAreSound
  <2>4. call' = [call EXCEPT ![k] = t] /\ UNCHANGED <<files, fileRows, flagged, epoch, reset, stuck, interrupted>>
    BY <1>5
  <2> HIDE DEF t
  <2>5. Moves(k, t, sl)
    BY <1>1, <1>2, <2>1, <2>2, <2>3, <2>4 DEF Moves, CacheShape
  <2>. QED BY <2>5, CallStepKeeps
<1>6. CASE /\ kv' = [kv EXCEPT ![sl] = Fresh(o.scope)]
            /\ call' = [call EXCEPT ![k] = IdleCall]
            /\ UNCHANGED <<tracked, files, fileRows, flagged, epoch, reset, stuck, interrupted>>
  <2>1. /\ kv' \in [Slots -> Content] /\ tracked' \in [Slots -> Scopes \cup {None}]
        /\ \A q \in Slots : q # sl => kv'[q] = kv[q] /\ tracked'[q] = tracked[q]
        /\ kv'[sl] = Fresh(o.scope)
    BY <1>1, <1>2, <1>6, EmptyIs, FreshIsFor DEF CacheShape
  <2>2. interrupted = 0 => tracked'[sl] = None \/ IsFor(kv'[sl], tracked'[sl])
    BY <1>1, <1>2, <1>6, <2>1, FreshIsFor DEF SoundWith, Finishing, CacheShape
  <2>3. call' = [call EXCEPT ![k] = IdleCall] /\ UNCHANGED <<files, fileRows, flagged, epoch, reset, stuck, interrupted>>
    BY <1>6
  <2>4. Moves(k, IdleCall, sl)
    BY <1>1, <1>2, <2>1, <2>2, <2>3 DEF Moves, CacheShape
  <2>. QED BY <2>4, CallStepKeeps
<1>. QED BY <1>3, <1>4, <1>5, <1>6

LEMMA CallFailsKeeps ==
  ASSUME CacheInv, NEW k \in Calls, CallFails(k)
  PROVE  CacheInv'
<1> DEFINE o == call[k]
           sl == o.slot
<1>1. CacheShape /\ o.pc = "calling"
  BY DEF CallFails, At, CacheInv
<1>2. /\ o \in Leasing /\ sl \in Slots /\ o.scope \in Scopes /\ o # IdleCall
      /\ o.old \in Scopes \cup {None} /\ o.todo \subseteq Scopes
      /\ \A h \in Calls : h # k => call[h].slot # sl
      /\ CallIsOfToday(o)
      /\ interrupted = 0 => SoundWith(o, kv[sl], tracked[sl], files) /\ FilesAreSound
  BY <1>1, LeaseIs
<1>3. /\ kv' \in {kv, [kv EXCEPT ![sl] = Fresh(o.scope)]}
      /\ tracked' = [tracked EXCEPT ![sl] = None]
      /\ call' = [call EXCEPT ![k] = IdleCall]
      /\ UNCHANGED <<files, fileRows, flagged, epoch, reset, stuck, interrupted>>
  BY DEF CallFails, At, Goto, Leave, Lease, Release, Track, Erased, SaveTo, Computed, AfterAnswer
<1>4. /\ kv' \in [Slots -> Content] /\ tracked' \in [Slots -> Scopes \cup {None}]
      /\ \A q \in Slots : q # sl => kv'[q] = kv[q] /\ tracked'[q] = tracked[q]
      /\ tracked'[sl] = None
  BY <1>1, <1>2, <1>3, EmptyIs, FreshIsFor DEF CacheShape
<1>5. interrupted = 0 => tracked'[sl] = None \/ IsFor(kv'[sl], tracked'[sl])
  BY <1>1, <1>2, <1>3, <1>4, FreshIsFor DEF SoundWith, Finishing, CacheShape
<1>6. call' = [call EXCEPT ![k] = IdleCall] /\ UNCHANGED <<files, fileRows, flagged, epoch, reset, stuck, interrupted>>
  BY <1>3
<1>7. Moves(k, IdleCall, sl)
  BY <1>1, <1>2, <1>4, <1>5, <1>6 DEF Moves, CacheShape
<1>. QED BY <1>7, CallStepKeeps

LEMMA MismatchKeeps ==
  ASSUME CacheInv, NEW k \in Calls, Mismatch(k)
  PROVE  CacheInv'
<1> DEFINE o == call[k]
           sl == o.slot
<1>1. CacheShape /\ o.pc = "mismatch"
  BY DEF Mismatch, At, CacheInv
<1>2. /\ o \in Leasing /\ sl \in Slots /\ o.scope \in Scopes /\ o # IdleCall
      /\ o.old \in Scopes \cup {None} /\ o.todo \subseteq Scopes
      /\ \A h \in Calls : h # k => call[h].slot # sl
      /\ CallIsOfToday(o)
      /\ interrupted = 0 => SoundWith(o, kv[sl], tracked[sl], files) /\ FilesAreSound
  BY <1>1, LeaseIs
<1>3. /\ kv' \in {kv, [kv EXCEPT ![sl] = Empty]}
      /\ tracked' = [tracked EXCEPT ![sl] = o.scope]
      /\ call' = [call EXCEPT ![k] = [o EXCEPT !.pc = "retrying"]]
      /\ UNCHANGED <<files, fileRows, flagged, epoch, reset, stuck, interrupted>>
  BY DEF Mismatch, At, Goto, Leave, Lease, Release, Track, Erased, SaveTo, Computed, AfterAnswer
<1> DEFINE t == [o EXCEPT !.pc = "retrying"]
<1>4. /\ t \in Leasing /\ t.slot = sl /\ t.scope = o.scope /\ t # IdleCall /\ CallIsOfToday(t)
      /\ t.pc = "retrying" /\ t.old = o.old /\ t.hit = o.hit
  BY <1>1, <1>2, <1>3 DEF Leasing, CallIsOfToday, Pcs, IdleCall
<1>5. /\ kv' \in [Slots -> Content] /\ tracked' \in [Slots -> Scopes \cup {None}]
      /\ \A q \in Slots : q # sl => kv'[q] = kv[q] /\ tracked'[q] = tracked[q]
      /\ tracked'[sl] = o.scope
  BY <1>1, <1>2, <1>3, EmptyIs, FreshIsFor DEF CacheShape
<1>6. interrupted = 0 => SoundWith(t, kv'[sl], tracked'[sl], files')
  BY <1>1, <1>2, <1>3, <1>4, <1>5, FreshIsFor DEF SoundWith, Finishing, CacheShape, IsNew, IsFor, FilesAreSound
<1>7. call' = [call EXCEPT ![k] = t] /\ UNCHANGED <<files, fileRows, flagged, epoch, reset, stuck, interrupted>>
  BY <1>3
<1> HIDE DEF t
<1>8. Moves(k, t, sl)
  BY <1>1, <1>2, <1>4, <1>5, <1>6, <1>7 DEF Moves, CacheShape
<1>. QED BY <1>8, CallStepKeeps

LEMMA RetryAnswerKeeps ==
  ASSUME CacheInv, NEW k \in Calls, RetryAnswer(k)
  PROVE  CacheInv'
<1> DEFINE o == call[k]
           sl == o.slot
<1>1. CacheShape /\ o.pc = "retrying"
  BY DEF RetryAnswer, At, CacheInv
<1>2. /\ o \in Leasing /\ sl \in Slots /\ o.scope \in Scopes /\ o # IdleCall
      /\ o.old \in Scopes \cup {None} /\ o.todo \subseteq Scopes
      /\ \A h \in Calls : h # k => call[h].slot # sl
      /\ CallIsOfToday(o)
      /\ interrupted = 0 => SoundWith(o, kv[sl], tracked[sl], files) /\ FilesAreSound
  BY <1>1, LeaseIs
<1>3. \/ /\ kv' = [kv EXCEPT ![sl] = Fresh(o.scope)]
         /\ call' = [call EXCEPT ![k] = [o EXCEPT !.pc = "save"]]
         /\ UNCHANGED <<tracked, files, fileRows, flagged, epoch, reset, stuck, interrupted>>
      \/ /\ kv' = [kv EXCEPT ![sl] = Fresh(o.scope)]
         /\ call' = [call EXCEPT ![k] = IdleCall]
         /\ UNCHANGED <<tracked, files, fileRows, flagged, epoch, reset, stuck, interrupted>>
  BY <1>1 DEF RetryAnswer, At, Goto, Leave, Lease, Release, Track, Erased, SaveTo, Computed, AfterAnswer
<1>4. CASE /\ kv' = [kv EXCEPT ![sl] = Fresh(o.scope)]
            /\ call' = [call EXCEPT ![k] = [o EXCEPT !.pc = "save"]]
            /\ UNCHANGED <<tracked, files, fileRows, flagged, epoch, reset, stuck, interrupted>>
  <2> DEFINE t == [o EXCEPT !.pc = "save"]
  <2>1. /\ t \in Leasing /\ t.slot = sl /\ t.scope = o.scope /\ t # IdleCall /\ CallIsOfToday(t)
        /\ t.pc = "save" /\ t.old = o.old /\ t.hit = o.hit
    BY <1>1, <1>2, <1>4 DEF Leasing, CallIsOfToday, Pcs, IdleCall
  <2>2. /\ kv' \in [Slots -> Content] /\ tracked' \in [Slots -> Scopes \cup {None}]
        /\ \A q \in Slots : q # sl => kv'[q] = kv[q] /\ tracked'[q] = tracked[q]
        /\ kv'[sl] = Fresh(o.scope)
    BY <1>1, <1>2, <1>4, EmptyIs, FreshIsFor DEF CacheShape
  <2>3. interrupted = 0 => SoundWith(t, kv'[sl], tracked'[sl], files')
    BY <1>1, <1>2, <1>4, <2>1, <2>2, FreshIsFor DEF SoundWith, Finishing, CacheShape, IsNew, IsFor, FilesAreSound
  <2>4. call' = [call EXCEPT ![k] = t] /\ UNCHANGED <<files, fileRows, flagged, epoch, reset, stuck, interrupted>>
    BY <1>4
  <2> HIDE DEF t
  <2>5. Moves(k, t, sl)
    BY <1>1, <1>2, <2>1, <2>2, <2>3, <2>4 DEF Moves, CacheShape
  <2>. QED BY <2>5, CallStepKeeps
<1>5. CASE /\ kv' = [kv EXCEPT ![sl] = Fresh(o.scope)]
            /\ call' = [call EXCEPT ![k] = IdleCall]
            /\ UNCHANGED <<tracked, files, fileRows, flagged, epoch, reset, stuck, interrupted>>
  <2>1. /\ kv' \in [Slots -> Content] /\ tracked' \in [Slots -> Scopes \cup {None}]
        /\ \A q \in Slots : q # sl => kv'[q] = kv[q] /\ tracked'[q] = tracked[q]
        /\ kv'[sl] = Fresh(o.scope)
    BY <1>1, <1>2, <1>5, EmptyIs, FreshIsFor DEF CacheShape
  <2>2. interrupted = 0 => tracked'[sl] = None \/ IsFor(kv'[sl], tracked'[sl])
    BY <1>1, <1>2, <1>5, <2>1, FreshIsFor DEF SoundWith, Finishing, CacheShape
  <2>3. call' = [call EXCEPT ![k] = IdleCall] /\ UNCHANGED <<files, fileRows, flagged, epoch, reset, stuck, interrupted>>
    BY <1>5
  <2>4. Moves(k, IdleCall, sl)
    BY <1>1, <1>2, <2>1, <2>2, <2>3 DEF Moves, CacheShape
  <2>. QED BY <2>4, CallStepKeeps
<1>. QED BY <1>3, <1>4, <1>5

LEMMA RetryFailsKeeps ==
  ASSUME CacheInv, NEW k \in Calls, RetryFails(k)
  PROVE  CacheInv'
<1> DEFINE o == call[k]
           sl == o.slot
<1>1. CacheShape /\ o.pc = "retrying"
  BY DEF RetryFails, At, CacheInv
<1>2. /\ o \in Leasing /\ sl \in Slots /\ o.scope \in Scopes /\ o # IdleCall
      /\ o.old \in Scopes \cup {None} /\ o.todo \subseteq Scopes
      /\ \A h \in Calls : h # k => call[h].slot # sl
      /\ CallIsOfToday(o)
      /\ interrupted = 0 => SoundWith(o, kv[sl], tracked[sl], files) /\ FilesAreSound
  BY <1>1, LeaseIs
<1>3. /\ kv' \in {kv, [kv EXCEPT ![sl] = Fresh(o.scope)]}
      /\ interrupted' = interrupted + 1
      /\ call' = [call EXCEPT ![k] = IdleCall]
      /\ UNCHANGED <<tracked, files, fileRows, flagged, epoch, reset, stuck>>
  BY DEF RetryFails, At, Goto, Leave, Lease, Release, Track, Erased, SaveTo, Computed, AfterAnswer
<1>4. /\ kv' \in [Slots -> Content] /\ tracked' \in [Slots -> Scopes \cup {None}]
      /\ \A q \in Slots : q # sl => kv'[q] = kv[q] /\ tracked'[q] = tracked[q]
  BY <1>1, <1>2, <1>3, EmptyIs, FreshIsFor DEF CacheShape
<1>5. interrupted' \in Nat /\ interrupted' # 0
  BY <1>1, <1>3 DEF CacheShape
<1>6. call' = [call EXCEPT ![k] = IdleCall] /\ UNCHANGED <<files, fileRows, flagged, epoch, reset, stuck>>
  BY <1>3
<1>7. Moves(k, IdleCall, sl)
  BY <1>1, <1>2, <1>4, <1>5, <1>6 DEF Moves, CacheShape
<1>. QED BY <1>7, CallStepKeeps

LEMMA CutCallKeeps ==
  ASSUME CacheInv, NEW k \in Calls, CutCall(k)
  PROVE  CacheInv'
<1> DEFINE o == call[k]
           sl == o.slot
<1>1. CacheShape /\ o.pc # "idle"
  BY DEF CutCall, At, CacheInv
<1>2. /\ o \in Leasing /\ sl \in Slots /\ o.scope \in Scopes /\ o # IdleCall
      /\ o.old \in Scopes \cup {None} /\ o.todo \subseteq Scopes
      /\ \A h \in Calls : h # k => call[h].slot # sl
      /\ CallIsOfToday(o)
      /\ interrupted = 0 => SoundWith(o, kv[sl], tracked[sl], files) /\ FilesAreSound
  BY <1>1, LeaseIs
<1>3. /\ kv' \in {kv, [kv EXCEPT ![sl] = Fresh(o.scope)]}
      /\ interrupted' = interrupted + 1
      /\ call' = [call EXCEPT ![k] = IdleCall]
      /\ UNCHANGED <<tracked, files, fileRows, flagged, epoch, reset, stuck>>
  BY DEF CutCall, At, Goto, Leave, Lease, Release, Track, Erased, SaveTo, Computed, AfterAnswer
<1>4. /\ kv' \in [Slots -> Content] /\ tracked' \in [Slots -> Scopes \cup {None}]
      /\ \A q \in Slots : q # sl => kv'[q] = kv[q] /\ tracked'[q] = tracked[q]
  BY <1>1, <1>2, <1>3, EmptyIs, FreshIsFor DEF CacheShape
<1>5. interrupted' \in Nat /\ interrupted' # 0
  BY <1>1, <1>3 DEF CacheShape
<1>6. call' = [call EXCEPT ![k] = IdleCall] /\ UNCHANGED <<files, fileRows, flagged, epoch, reset, stuck>>
  BY <1>3
<1>7. Moves(k, IdleCall, sl)
  BY <1>1, <1>2, <1>4, <1>5, <1>6 DEF Moves, CacheShape
<1>. QED BY <1>7, CallStepKeeps

LEMMA SaveKeeps ==
  ASSUME CacheInv, NEW k \in Calls, Save(k)
  PROVE  CacheInv'
<1> DEFINE o == call[k]
           sl == o.slot
<1>1. CacheShape /\ o.pc = "save"
  BY DEF Save, At, CacheInv
<1>2. /\ o \in Leasing /\ sl \in Slots /\ o.scope \in Scopes /\ o # IdleCall
      /\ o.old \in Scopes \cup {None} /\ o.todo \subseteq Scopes
      /\ \A h \in Calls : h # k => call[h].slot # sl
      /\ CallIsOfToday(o)
      /\ interrupted = 0 => SoundWith(o, kv[sl], tracked[sl], files) /\ FilesAreSound
  BY <1>1, LeaseIs
<1>3. \/ /\ files' = [files EXCEPT ![o.scope] = kv[sl]]
         /\ call' = [call EXCEPT ![k] = [o EXCEPT !.pc = "saveRow"]]
         /\ UNCHANGED <<kv, tracked, fileRows, flagged, epoch, reset, stuck, interrupted>>
      \/ /\ call' = [call EXCEPT ![k] = [o EXCEPT !.pc = "pruneList"]]
         /\ UNCHANGED <<kv, tracked, files, fileRows, flagged, epoch, reset, stuck, interrupted>>
  BY <1>1 DEF Save, At, Goto, Leave, Lease, Release, Track, Erased, SaveTo, Computed, AfterAnswer
<1>4. CASE /\ files' = [files EXCEPT ![o.scope] = kv[sl]]
            /\ call' = [call EXCEPT ![k] = [o EXCEPT !.pc = "saveRow"]]
            /\ UNCHANGED <<kv, tracked, fileRows, flagged, epoch, reset, stuck, interrupted>>
  <2> DEFINE t == [o EXCEPT !.pc = "saveRow"]
  <2>1. /\ t \in Leasing /\ t.slot = sl /\ t.scope = o.scope /\ t # IdleCall /\ CallIsOfToday(t)
        /\ t.pc = "saveRow" /\ t.old = o.old /\ t.hit = o.hit
    BY <1>1, <1>2, <1>4 DEF Leasing, CallIsOfToday, Pcs, IdleCall
  <2>2. /\ kv' \in [Slots -> Content] /\ tracked' \in [Slots -> Scopes \cup {None}]
        /\ \A q \in Slots : q # sl => kv'[q] = kv[q] /\ tracked'[q] = tracked[q]
    BY <1>1, <1>2, <1>4, EmptyIs, FreshIsFor DEF CacheShape
  <2>3. files' \in [Scopes -> Content \cup {None}]
    BY <1>1, <1>2, <1>4 DEF CacheShape
  <2>4. interrupted = 0 => SoundWith(t, kv'[sl], tracked'[sl], files')
    BY <1>1, <1>2, <1>4, <2>1, <2>2, <2>3, FreshIsFor DEF SoundWith, Finishing, CacheShape, IsNew, IsFor, FilesAreSound
  <2>5. interrupted = 0 => \A x \in Scopes : files'[x] = files[x] \/ files'[x] = None \/ IsFor(files'[x], x)
    BY <1>1, <1>2, <1>4, <2>1, <2>2, <2>3, <2>4 DEF SoundWith, Finishing, CacheShape
  <2>6. call' = [call EXCEPT ![k] = t] /\ UNCHANGED <<fileRows, flagged, epoch, reset, stuck, interrupted>>
    BY <1>4
  <2> HIDE DEF t
  <2>7. Moves(k, t, sl)
    BY <1>1, <1>2, <2>1, <2>2, <2>3, <2>4, <2>5, <2>6 DEF Moves, CacheShape
  <2>. QED BY <2>7, CallStepKeeps
<1>5. CASE /\ call' = [call EXCEPT ![k] = [o EXCEPT !.pc = "pruneList"]]
            /\ UNCHANGED <<kv, tracked, files, fileRows, flagged, epoch, reset, stuck, interrupted>>
  <2> DEFINE t == [o EXCEPT !.pc = "pruneList"]
  <2>1. /\ t \in Leasing /\ t.slot = sl /\ t.scope = o.scope /\ t # IdleCall /\ CallIsOfToday(t)
        /\ t.pc = "pruneList" /\ t.old = o.old /\ t.hit = o.hit
    BY <1>1, <1>2, <1>5 DEF Leasing, CallIsOfToday, Pcs, IdleCall
  <2>2. /\ kv' \in [Slots -> Content] /\ tracked' \in [Slots -> Scopes \cup {None}]
        /\ \A q \in Slots : q # sl => kv'[q] = kv[q] /\ tracked'[q] = tracked[q]
    BY <1>1, <1>2, <1>5, EmptyIs, FreshIsFor DEF CacheShape
  <2>3. interrupted = 0 => SoundWith(t, kv'[sl], tracked'[sl], files')
    BY <1>1, <1>2, <1>5, <2>1, <2>2, FreshIsFor DEF SoundWith, Finishing, CacheShape, IsNew, IsFor, FilesAreSound
  <2>4. call' = [call EXCEPT ![k] = t] /\ UNCHANGED <<files, fileRows, flagged, epoch, reset, stuck, interrupted>>
    BY <1>5
  <2> HIDE DEF t
  <2>5. Moves(k, t, sl)
    BY <1>1, <1>2, <2>1, <2>2, <2>3, <2>4 DEF Moves, CacheShape
  <2>. QED BY <2>5, CallStepKeeps
<1>. QED BY <1>3, <1>4, <1>5

LEMMA SaveRowKeeps ==
  ASSUME CacheInv, NEW k \in Calls, SaveRow(k)
  PROVE  CacheInv'
<1> DEFINE o == call[k]
           sl == o.slot
<1>1. CacheShape /\ o.pc = "saveRow"
  BY DEF SaveRow, At, CacheInv
<1>2. /\ o \in Leasing /\ sl \in Slots /\ o.scope \in Scopes /\ o # IdleCall
      /\ o.old \in Scopes \cup {None} /\ o.todo \subseteq Scopes
      /\ \A h \in Calls : h # k => call[h].slot # sl
      /\ CallIsOfToday(o)
      /\ interrupted = 0 => SoundWith(o, kv[sl], tracked[sl], files) /\ FilesAreSound
  BY <1>1, LeaseIs
<1>3. /\ tracked' = [tracked EXCEPT ![sl] = o.scope]
      /\ fileRows' = fileRows \cup {o.scope}
      /\ call' = [call EXCEPT ![k] = [o EXCEPT !.pc = "pruneList"]]
      /\ UNCHANGED <<kv, files, flagged, epoch, reset, stuck, interrupted>>
  BY DEF SaveRow, At, Goto, Leave, Lease, Release, Track, Erased, SaveTo, Computed, AfterAnswer
<1> DEFINE t == [o EXCEPT !.pc = "pruneList"]
<1>4. /\ t \in Leasing /\ t.slot = sl /\ t.scope = o.scope /\ t # IdleCall /\ CallIsOfToday(t)
      /\ t.pc = "pruneList" /\ t.old = o.old /\ t.hit = o.hit
  BY <1>1, <1>2, <1>3 DEF Leasing, CallIsOfToday, Pcs, IdleCall
<1>5. /\ kv' \in [Slots -> Content] /\ tracked' \in [Slots -> Scopes \cup {None}]
      /\ \A q \in Slots : q # sl => kv'[q] = kv[q] /\ tracked'[q] = tracked[q]
      /\ tracked'[sl] = o.scope
  BY <1>1, <1>2, <1>3, EmptyIs, FreshIsFor DEF CacheShape
<1>6. interrupted = 0 => SoundWith(t, kv'[sl], tracked'[sl], files')
  BY <1>1, <1>2, <1>3, <1>4, <1>5, FreshIsFor DEF SoundWith, Finishing, CacheShape, IsNew, IsFor, FilesAreSound
<1>7. /\ fileRows' \subseteq Scopes
      /\ interrupted = 0 => \A x \in fileRows' : x \in fileRows \/ IsNew(files[x], x)
  BY <1>1, <1>2, <1>3, <1>4, <1>5, <1>6 DEF SoundWith, CacheShape, Leasing
<1>8. call' = [call EXCEPT ![k] = t] /\ UNCHANGED <<files, flagged, epoch, reset, stuck, interrupted>>
  BY <1>3
<1> HIDE DEF t
<1>9. Moves(k, t, sl)
  BY <1>1, <1>2, <1>4, <1>5, <1>6, <1>7, <1>8 DEF Moves, CacheShape
<1>. QED BY <1>9, CallStepKeeps

LEMMA PruneRowKeeps ==
  ASSUME CacheInv, NEW k \in Calls, PruneRow(k)
  PROVE  CacheInv'
<1> DEFINE o == call[k]
           sl == o.slot
<1>1. CacheShape /\ o.pc = "pruneRow"
  BY DEF PruneRow, At, CacheInv
<1>2. /\ o \in Leasing /\ sl \in Slots /\ o.scope \in Scopes /\ o # IdleCall
      /\ o.old \in Scopes \cup {None} /\ o.todo \subseteq Scopes
      /\ \A h \in Calls : h # k => call[h].slot # sl
      /\ CallIsOfToday(o)
      /\ interrupted = 0 => SoundWith(o, kv[sl], tracked[sl], files) /\ FilesAreSound
  BY <1>1, LeaseIs
<1>3. /\ fileRows' = fileRows \ {o.old}
      /\ call' = [call EXCEPT ![k] = [o EXCEPT !.pc = "prune", !.old = None, !.hit = "none"]]
      /\ UNCHANGED <<kv, tracked, files, flagged, epoch, reset, stuck, interrupted>>
  BY DEF PruneRow, At, Goto, Leave, Lease, Release, Track, Erased, SaveTo, Computed, AfterAnswer
<1> DEFINE t == [o EXCEPT !.pc = "prune", !.old = None, !.hit = "none"]
<1>4. /\ t \in Leasing /\ t.slot = sl /\ t.scope = o.scope /\ t # IdleCall /\ CallIsOfToday(t)
      /\ t.pc = "prune"
  BY <1>1, <1>2, <1>3 DEF Leasing, CallIsOfToday, Pcs, IdleCall
<1>5. /\ kv' \in [Slots -> Content] /\ tracked' \in [Slots -> Scopes \cup {None}]
      /\ \A q \in Slots : q # sl => kv'[q] = kv[q] /\ tracked'[q] = tracked[q]
  BY <1>1, <1>2, <1>3, EmptyIs, FreshIsFor DEF CacheShape
<1>6. interrupted = 0 => SoundWith(t, kv'[sl], tracked'[sl], files')
  BY <1>1, <1>2, <1>3, <1>4, <1>5, FreshIsFor DEF SoundWith, Finishing, CacheShape, IsNew, IsFor, FilesAreSound
<1>7. /\ fileRows' \subseteq Scopes
      /\ interrupted = 0 => \A x \in fileRows' : x \in fileRows \/ IsNew(files[x], x)
  BY <1>1, <1>2, <1>3, <1>4, <1>5, <1>6 DEF SoundWith, CacheShape, Leasing
<1>8. call' = [call EXCEPT ![k] = t] /\ UNCHANGED <<files, flagged, epoch, reset, stuck, interrupted>>
  BY <1>3
<1> HIDE DEF t
<1>9. Moves(k, t, sl)
  BY <1>1, <1>2, <1>4, <1>5, <1>6, <1>7, <1>8 DEF Moves, CacheShape
<1>. QED BY <1>9, CallStepKeeps

LEMMA PruneListKeeps ==
  ASSUME CacheInv, NEW k \in Calls, PruneList(k)
  PROVE  CacheInv'
<1> DEFINE o == call[k]
           sl == o.slot
<1>1. CacheShape /\ o.pc = "pruneList"
  BY DEF PruneList, At, CacheInv
<1>2. /\ o \in Leasing /\ sl \in Slots /\ o.scope \in Scopes /\ o # IdleCall
      /\ o.old \in Scopes \cup {None} /\ o.todo \subseteq Scopes
      /\ \A h \in Calls : h # k => call[h].slot # sl
      /\ CallIsOfToday(o)
      /\ interrupted = 0 => SoundWith(o, kv[sl], tracked[sl], files) /\ FilesAreSound
  BY <1>1, LeaseIs
<1>3. UNCHANGED <<kv, tracked, files, fileRows, flagged, epoch, reset, stuck, interrupted>>
  BY DEF PruneList
<1>4. CASE call' = [call EXCEPT ![k] = IdleCall] /\ UNCHANGED <<kv, tracked, files, fileRows, flagged, epoch, reset, stuck, interrupted>>
  <2>1. /\ kv' \in [Slots -> Content] /\ tracked' \in [Slots -> Scopes \cup {None}]
        /\ \A q \in Slots : q # sl => kv'[q] = kv[q] /\ tracked'[q] = tracked[q]
    BY <1>1, <1>2, <1>4, EmptyIs, FreshIsFor DEF CacheShape
  <2>2. interrupted = 0 => tracked'[sl] = None \/ IsFor(kv'[sl], tracked'[sl])
    BY <1>1, <1>2, <1>4, <2>1, FreshIsFor DEF SoundWith, Finishing, CacheShape
  <2>3. call' = [call EXCEPT ![k] = IdleCall] /\ UNCHANGED <<files, fileRows, flagged, epoch, reset, stuck, interrupted>>
    BY <1>4
  <2>4. Moves(k, IdleCall, sl)
    BY <1>1, <1>2, <2>1, <2>2, <2>3 DEF Moves, CacheShape
  <2>. QED BY <2>4, CallStepKeeps
<1>5. CASE \E due \in SUBSET (fileRows \ Active) :
             call' = [call EXCEPT ![k].pc = "prune", ![k].todo = due]
  <2>0. PICK due \in SUBSET (fileRows \ Active) :
           call' = [call EXCEPT ![k] = [o EXCEPT !.pc = "prune", !.todo = due]] /\ UNCHANGED <<kv, tracked, files, fileRows, flagged, epoch, reset, stuck, interrupted>>
    BY <1>3, <1>5
  <2>9. due \in SUBSET Scopes
    BY <1>1 DEF CacheShape
  <2> DEFINE t == [o EXCEPT !.pc = "prune", !.todo = due]
  <2>1. /\ t \in Leasing /\ t.slot = sl /\ t.scope = o.scope /\ t # IdleCall /\ CallIsOfToday(t)
        /\ t.pc = "prune"
    BY <1>1, <1>2, <2>0, <2>9 DEF Leasing, CallIsOfToday, Pcs, IdleCall
  <2>2. /\ kv' \in [Slots -> Content] /\ tracked' \in [Slots -> Scopes \cup {None}]
        /\ \A q \in Slots : q # sl => kv'[q] = kv[q] /\ tracked'[q] = tracked[q]
    BY <1>1, <1>2, <2>0, EmptyIs, FreshIsFor DEF CacheShape
  <2>3. interrupted = 0 => SoundWith(t, kv'[sl], tracked'[sl], files')
    BY <1>1, <1>2, <2>0, <2>1, <2>2, FreshIsFor DEF SoundWith, Finishing, CacheShape, IsNew, IsFor, FilesAreSound
  <2>4. call' = [call EXCEPT ![k] = t] /\ UNCHANGED <<files, fileRows, flagged, epoch, reset, stuck, interrupted>>
    BY <2>0
  <2> HIDE DEF t
  <2>5. Moves(k, t, sl)
    BY <1>1, <1>2, <2>1, <2>2, <2>3, <2>4 DEF Moves, CacheShape
  <2>. QED BY <2>5, CallStepKeeps
<1>. QED BY <1>3, <1>4, <1>5 DEF PruneList, Release

LEMMA PruneOneKeeps ==
  ASSUME CacheInv, NEW k \in Calls, PruneOne(k)
  PROVE  CacheInv'
<1> DEFINE o == call[k]
           sl == o.slot
<1>1. CacheShape /\ o.pc = "prune"
  BY DEF PruneOne, At, CacheInv
<1>2. /\ o \in Leasing /\ sl \in Slots /\ o.scope \in Scopes /\ o # IdleCall
      /\ o.old \in Scopes \cup {None} /\ o.todo \subseteq Scopes
      /\ \A h \in Calls : h # k => call[h].slot # sl
      /\ CallIsOfToday(o)
      /\ interrupted = 0 => SoundWith(o, kv[sl], tracked[sl], files) /\ FilesAreSound
  BY <1>1, LeaseIs
<1>4. CASE call' = [call EXCEPT ![k] = IdleCall] /\ UNCHANGED <<kv, tracked, files, fileRows, flagged, epoch, reset, stuck, interrupted>>
  <2>1. /\ kv' \in [Slots -> Content] /\ tracked' \in [Slots -> Scopes \cup {None}]
        /\ \A q \in Slots : q # sl => kv'[q] = kv[q] /\ tracked'[q] = tracked[q]
    BY <1>1, <1>2, <1>4, EmptyIs, FreshIsFor DEF CacheShape
  <2>2. interrupted = 0 => tracked'[sl] = None \/ IsFor(kv'[sl], tracked'[sl])
    BY <1>1, <1>2, <1>4, <2>1, FreshIsFor DEF SoundWith, Finishing, CacheShape
  <2>3. call' = [call EXCEPT ![k] = IdleCall] /\ UNCHANGED <<files, fileRows, flagged, epoch, reset, stuck, interrupted>>
    BY <1>4
  <2>4. Moves(k, IdleCall, sl)
    BY <1>1, <1>2, <2>1, <2>2, <2>3 DEF Moves, CacheShape
  <2>. QED BY <2>4, CallStepKeeps
<1>5. ASSUME NEW gone \in o.todo, files' = [files EXCEPT ![gone] = None],
             call' = [call EXCEPT ![k] = [o EXCEPT !.pc = "pruneRow", !.todo = @ \ {gone}, !.old = gone]],
             UNCHANGED <<kv, tracked, fileRows, flagged, epoch, reset, stuck, interrupted>>
      PROVE  CacheInv'
  <2>9. gone \in Scopes
    BY <1>2
  <2> DEFINE t == [o EXCEPT !.pc = "pruneRow", !.todo = @ \ {gone}, !.old = gone]
  <2>1. /\ t \in Leasing /\ t.slot = sl /\ t.scope = o.scope /\ t # IdleCall /\ CallIsOfToday(t)
        /\ t.pc = "pruneRow"
    BY <1>1, <1>2, <1>5, <2>9 DEF Leasing, CallIsOfToday, Pcs, IdleCall
  <2>2. /\ kv' \in [Slots -> Content] /\ tracked' \in [Slots -> Scopes \cup {None}]
        /\ \A q \in Slots : q # sl => kv'[q] = kv[q] /\ tracked'[q] = tracked[q]
    BY <1>1, <1>2, <1>5, EmptyIs, FreshIsFor DEF CacheShape
  <2>3. files' \in [Scopes -> Content \cup {None}]
    BY <1>1, <1>2, <1>5 DEF CacheShape
  <2>4. interrupted = 0 => SoundWith(t, kv'[sl], tracked'[sl], files')
    BY <1>1, <1>2, <1>5, <2>1, <2>2, <2>3, FreshIsFor DEF SoundWith, Finishing, CacheShape, IsNew, IsFor, FilesAreSound
  <2>5. interrupted = 0 => \A x \in Scopes : files'[x] = files[x] \/ files'[x] = None \/ IsFor(files'[x], x)
    BY <1>1, <1>2, <1>5, <2>1, <2>2, <2>3, <2>4 DEF SoundWith, Finishing, CacheShape
  <2>6. call' = [call EXCEPT ![k] = t] /\ UNCHANGED <<fileRows, flagged, epoch, reset, stuck, interrupted>>
    BY <1>5
  <2> HIDE DEF t
  <2>7. Moves(k, t, sl)
    BY <1>1, <1>2, <2>1, <2>2, <2>3, <2>4, <2>5, <2>6 DEF Moves, CacheShape
  <2>. QED BY <2>7, CallStepKeeps
<1>6. ASSUME NEW gone \in o.todo,
             call' = [call EXCEPT ![k] = [o EXCEPT !.todo = @ \ {gone}]],
             UNCHANGED <<kv, tracked, files, fileRows, flagged, epoch, reset, stuck, interrupted>>
      PROVE  CacheInv'
  <2> DEFINE t == [o EXCEPT !.todo = @ \ {gone}]
  <2>1. /\ t \in Leasing /\ t.slot = sl /\ t.scope = o.scope /\ t # IdleCall /\ CallIsOfToday(t)
        /\ t.pc = "prune"
    BY <1>1, <1>2, <1>6 DEF Leasing, CallIsOfToday, Pcs, IdleCall
  <2>2. /\ kv' \in [Slots -> Content] /\ tracked' \in [Slots -> Scopes \cup {None}]
        /\ \A q \in Slots : q # sl => kv'[q] = kv[q] /\ tracked'[q] = tracked[q]
    BY <1>1, <1>2, <1>6, EmptyIs, FreshIsFor DEF CacheShape
  <2>3. interrupted = 0 => SoundWith(t, kv'[sl], tracked'[sl], files')
    BY <1>1, <1>2, <1>6, <2>1, <2>2, FreshIsFor DEF SoundWith, Finishing, CacheShape, IsNew, IsFor, FilesAreSound
  <2>4. call' = [call EXCEPT ![k] = t] /\ UNCHANGED <<files, fileRows, flagged, epoch, reset, stuck, interrupted>>
    BY <1>6
  <2> HIDE DEF t
  <2>5. Moves(k, t, sl)
    BY <1>1, <1>2, <2>1, <2>2, <2>3, <2>4 DEF Moves, CacheShape
  <2>. QED BY <2>5, CallStepKeeps
<1>. QED BY <1>4, <1>5, <1>6 DEF PruneOne, Release

LEMMA PrepareKeeps ==
  ASSUME CacheInv, ~ResetWhileBusy, NEW k \in Calls, NEW sl \in Slots, NEW x \in Scopes, Prepare(k, sl, x)
  PROVE  CacheInv'
<1> DEFINE cold == Owner[x] \in flagged
           old == IF cold THEN None ELSE tracked[sl]
           p == CASE cold -> "coldErase"
                  [] old = x -> "look"
                  [] old \notin {None, x} -> "evictSave"
                  [] OTHER -> "lookUp"
           t == [IdleCall EXCEPT !.pc = p, !.slot = sl, !.scope = x, !.old = old,
                                 !.since = epoch[Owner[x]]]
<1>1. /\ CacheShape /\ call[k].pc = "idle" /\ reset.user # Owner[x]
      /\ \A d \in Calls : call[d].slot # sl
      /\ flagged' = flagged \ {Owner[x]}
      /\ tracked' = [tracked EXCEPT ![sl] = old]
      /\ call' = [call EXCEPT ![k] = t]
      /\ UNCHANGED <<kv, files, fileRows, epoch, reset, stuck, interrupted>>
  BY DEF Prepare, At, CacheInv
<1>2. call[k] = IdleCall
  BY <1>1 DEF CacheShape, Leasing
<1>3. old \in Scopes \cup {None} /\ Owner[x] \in Users /\ epoch[Owner[x]] \in Nat
  BY <1>1, CacheAssumption DEF CacheShape, CacheAssumption
<1>4. /\ p \in {"coldErase", "look", "evictSave", "lookUp"}
      /\ p = "look" => old = x
      /\ p = "evictSave" => old \in Scopes
  BY <1>3
<1> HIDE DEF p
<1>5. /\ t \in Leasing /\ t # IdleCall /\ t.slot = sl /\ CallIsOfToday(t)
      /\ t.pc = p /\ t.old = old /\ t.scope = x
  <2> DEFINE i == IdleCall
             e == epoch[Owner[x]]
  <2>1. /\ i \in [pc : Pcs, slot : Slots \cup {None}, scope : Scopes \cup {None},
                  old : Scopes \cup {None}, hit : {"none", "l1", "l2"}, since : Nat,
                  todo : SUBSET Scopes]
        /\ i.pc = "idle"
    BY DEF IdleCall, Pcs
  <2>2. t = [i EXCEPT !.pc = p, !.slot = sl, !.scope = x, !.old = old, !.since = e]
    OBVIOUS
  <2>3. e \in Nat /\ p \in Pcs \ {"idle"}
    BY <1>3, <1>4 DEF Pcs
  <2> HIDE DEF t, i, old, e
  <2>4. /\ t \in [pc : Pcs \ {"idle"}, slot : Slots, scope : Scopes, old : Scopes \cup {None},
                  hit : {"none", "l1", "l2"}, since : Nat, todo : SUBSET Scopes]
        /\ t.slot = sl /\ t.pc = p /\ t.old = old /\ t.scope = x /\ t.since = e
    BY <1>3, <2>1, <2>2, <2>3
  <2>5. t \in Leasing
    BY <1>4, <2>4 DEF Leasing
  <2>. QED BY <1>1, <2>1, <2>3, <2>4, <2>5 DEF i, e, CallIsOfToday
<1>6. /\ tracked' \in [Slots -> Scopes \cup {None}] /\ tracked'[sl] = old
      /\ \A q \in Slots : q # sl => kv'[q] = kv[q] /\ tracked'[q] = tracked[q]
  BY <1>1, <1>3 DEF CacheShape
<1>7. interrupted = 0 /\ old # None => IsFor(kv[sl], old)
  BY <1>1 DEF CacheInv, FilesAreSound
<1>8. call' = [call EXCEPT ![k] = t] /\ flagged' \subseteq Users
  BY <1>1 DEF CacheShape
<1> HIDE DEF t, old
<1>9. None \notin Scopes
  BY CacheAssumption DEF CacheAssumption
<1>10. interrupted = 0 => SoundWith(t, kv[sl], tracked'[sl], files)
  BY <1>4, <1>5, <1>6, <1>7, <1>9 DEF SoundWith, Finishing
<1>11. Moves(k, t, sl)
  BY <1>1, <1>2, <1>5, <1>6, <1>8, <1>10 DEF Moves, CacheShape
<1>. QED BY <1>11, CallStepKeeps

LEMMA BeginResetKeeps ==
  ASSUME CacheInv, ~ResetWhileBusy, NEW u \in Resetters, BeginReset(u)
  PROVE  CacheInv'
<1> DEFINE crossed == {call[k].old : k \in {d \in Calls :
                         call[d].pc \in {"evictSave", "evictRow"} /\ Owner[call[d].old] = u}}
<1>1. /\ CacheShape /\ reset = NoReset /\ ~Busy(u)
      /\ epoch' = [epoch EXCEPT ![u] = @ + 1]
      /\ flagged' = flagged \cup {u}
      /\ tracked' = [s \in Slots |-> IF tracked[s] \in Scopes /\ Owner[tracked[s]] = u
                                     THEN None ELSE tracked[s]]
      /\ reset' = [NoReset EXCEPT !.user = u, !.pc = "list"]
      /\ stuck' = stuck \cup crossed
      /\ UNCHANGED <<kv, files, fileRows, call, interrupted>>
  BY DEF BeginReset, CacheInv
<1>2. u \in Users /\ None \notin Users \cup Scopes
  BY CacheAssumption DEF CacheAssumption
<1>3. \A x \in Scopes : Owner[x] \in Users
  BY CacheAssumption DEF CacheAssumption
<1>4. crossed \subseteq Scopes
  BY <1>1 DEF CacheShape, Leasing, IdleCall
<1>5. \A k \in Calls : call[k].pc \in {"evictSave", "evictRow"} /\ Owner[call[k].old] = u =>
        call[k].old \in stuck'
  BY <1>1
<1>6. stuck \subseteq stuck' /\ stuck' \subseteq Scopes
  BY <1>1, <1>4 DEF CacheShape
<1> HIDE DEF crossed
<1>7. /\ epoch' \in [Users -> Nat] /\ \A q \in Users : q # u => epoch'[q] = epoch[q]
  BY <1>1, <1>2 DEF CacheShape
<1>8. /\ tracked' \in [Slots -> Scopes \cup {None}]
      /\ \A s \in Slots : tracked'[s] = None \/ (tracked'[s] = tracked[s] /\ Owner[tracked[s]] # u)
  BY <1>1 DEF CacheShape
<1>9. /\ reset'.user = u /\ reset'.pc = "list" /\ reset'.todo = {}
      /\ reset' \in [user : Users \cup {None}, pc : {"idle", "list", "unlink", "row"},
                     todo : SUBSET Scopes, at : Scopes \cup {None}]
  BY <1>1, <1>2 DEF NoReset
<1>10. CacheShape'
  BY <1>1, <1>2, <1>6, <1>7, <1>8, <1>9 DEF CacheShape
<1>11. ASSUME NEW k \in Calls, call[k] # IdleCall
       PROVE  /\ CallIsOfToday(call[k]) /\ Owner[call[k].scope] # u
              /\ call[k].scope \in Scopes /\ call[k] \in Leasing /\ call[k].slot \in Slots
  <2>1. CallIsOfToday(call[k]) /\ call[k] \in Leasing
    BY <1>1, <1>11 DEF CacheInv, CacheShape
  <2>2. call[k].pc # "idle"
    BY <2>1 DEF Leasing
  <2>. QED BY <1>1, <2>1, <2>2 DEF Busy, Leasing
<1>12. \A k \in Calls : call'[k] # IdleCall => CallIsOfToday(call[k])'
  BY <1>1, <1>3, <1>7, <1>9, <1>11 DEF CallIsOfToday
<1>13. \A v : \A x \in Scopes : Owner[x] # u =>
         /\ IsFor(v, x) => v.scope = x /\ (x \in stuck' \/ v.epoch = epoch'[Owner[x]])
         /\ IsNew(v, x) => x \in stuck' \/ v = None \/ v.epoch = epoch'[Owner[x]]
  BY <1>3, <1>6, <1>7 DEF IsFor, IsNew
<1>14. ASSUME interrupted' = 0
       PROVE  /\ \A k \in Calls : call'[k] # IdleCall => CallIsSound(call[k])'
              /\ FilesAreSound'
  <2>1. /\ \A k \in Calls : call[k] # IdleCall => CallIsSound(call[k])
        /\ FilesAreSound
    BY <1>1, <1>14 DEF CacheInv
  <2>2. ASSUME NEW k \in Calls, call'[k] # IdleCall
        PROVE  CallIsSound(call[k])'
    <3> DEFINE o == call[k]
               v == kv[o.slot]
               w == tracked[o.slot]
    <3>1. /\ o \in Leasing /\ Owner[o.scope] # u /\ o.scope \in Scopes /\ o.slot \in Slots
          /\ o.pc \in {"evictSave", "evictRow"} => o.old \in Scopes
          /\ SoundWith(o, v, w, files)
      BY <1>1, <1>11, <2>1, <2>2 DEF CallIsSound, Leasing
    <3>2. tracked'[o.slot] \in {w, None}
      BY <1>8, <3>1
    <3>3. o.pc \in {"evictSave", "evictRow"} => o.old \in stuck' \/ Owner[o.old] # u
      BY <1>5
    <3> DEFINE IsForNow(y, x) == y.scope = x /\ (x \in stuck' \/ y.epoch = epoch'[Owner[x]])
               NewNow(y, x) == x \in stuck' \/ y = None \/ y.epoch = epoch'[Owner[x]]
    <3>4. \A y : \A x \in Scopes : Owner[x] # u => (IsFor(y, x) => IsForNow(y, x)) /\ (IsNew(y, x) => NewNow(y, x))
      BY <1>13
    <3>5. \A y : \A x \in stuck' : (IsFor(y, x) => IsForNow(y, x)) /\ NewNow(y, x)
      BY DEF IsFor
    <3> HIDE DEF IsForNow, NewNow
    <3>6. /\ o.pc \in {"evictSave", "evictRow"} => IsForNow(v, o.old)
          /\ o.pc \in Finishing \cup {"look", "mismatch"} => IsForNow(v, o.scope)
          /\ o.pc = "calling" /\ o.hit # "none" => IsForNow(v, o.scope)
          /\ o.pc \in Finishing \cup {"look", "calling", "mismatch", "retrying"} => w \in {o.scope, None}
          /\ o.pc = "restore" => NewNow(files[o.scope], o.scope)
          /\ o.pc = "evictRow" => NewNow(files[o.old], o.old)
          /\ o.pc = "saveRow" => NewNow(files[o.scope], o.scope)
      <4> HIDE DEF o, v, w
      <4>. QED BY <3>1, <3>3, <3>4, <3>5 DEF SoundWith
    <3>. QED BY <1>1, <3>2, <3>6 DEF CallIsSound, SoundWith, IsFor, IsNew, IsForNow, NewNow
  <2>3. ASSUME NEW s \in Slots, tracked'[s] # None, \A k \in Calls : call[k].slot # s
        PROVE  kv[s].scope = tracked'[s] /\ (tracked'[s] \in stuck' \/ kv[s].epoch = epoch'[Owner[tracked'[s]]])
    <3>1. tracked'[s] = tracked[s] /\ Owner[tracked[s]] # u /\ tracked[s] \in Scopes
      BY <1>8, <2>3
    <3>2. IsFor(kv[s], tracked[s])
      BY <2>1, <2>3, <3>1 DEF FilesAreSound
    <3>. QED BY <1>13, <3>1, <3>2
  <2>4. \A x \in Scopes : files[x] # None => files[x].scope = x
    BY <2>1 DEF FilesAreSound
  <2>5. ASSUME NEW x \in fileRows
        PROVE  (x \in stuck' \/ files[x] = None \/ files[x].epoch = epoch'[Owner[x]]) \/ reset'.user = Owner[x]
    <3>1. x \in Scopes /\ IsNew(files[x], x)
      BY <1>1, <1>2, <1>3, <2>1 DEF CacheShape, FilesAreSound, Doomed, NoReset
    <3>. QED BY <1>9, <1>13, <3>1
  <2>. QED BY <1>1, <1>9, <2>2, <2>3, <2>4, <2>5 DEF FilesAreSound, IsFor, IsNew, Doomed
<1>. QED BY <1>10, <1>12, <1>14 DEF CacheInv

\* A step of the reset deletes files or gives one up.
ResetMoves ==
  /\ UNCHANGED <<kv, tracked, epoch, call, interrupted, flagged>>
  /\ stuck \subseteq stuck' /\ stuck' \subseteq Scopes
  /\ fileRows' \subseteq fileRows /\ files' \in [Scopes -> Content \cup {None}]
  /\ \A x \in Scopes : files'[x] \in {files[x], None}
  /\ reset'.user \in {reset.user, None}
  /\ reset' \in [user : Users \cup {None}, pc : {"idle", "list", "unlink", "row"},
                 todo : SUBSET Scopes, at : Scopes \cup {None}]
  /\ \A x \in fileRows' : Doomed(x) =>
       x \in stuck' \/ files'[x] = None \/ (reset'.user = Owner[x] /\ x \in reset'.todo)

LEMMA ResetStepKeeps ==
  CacheInv /\ ResetMoves => CacheInv'
<1> SUFFICES ASSUME CacheInv, ResetMoves PROVE CacheInv'
  OBVIOUS
<1>1. CacheShape'
  BY DEF CacheInv, CacheShape, ResetMoves
<1>2. \A x \in Scopes : Owner[x] \in Users /\ Owner[x] # None
  BY CacheAssumption DEF CacheAssumption
<1>3. \A k \in Calls : call[k] # IdleCall => /\ call[k].scope \in Scopes /\ CallIsOfToday(call[k])
                                             /\ call[k].pc = "evictRow" => call[k].old \in Scopes
  BY DEF CacheInv, CacheShape, Leasing
<1>4. \A k \in Calls : call'[k] # IdleCall => CallIsOfToday(call[k])'
  BY <1>2, <1>3 DEF CallIsOfToday, ResetMoves
<1>5. ASSUME interrupted' = 0
      PROVE  /\ \A k \in Calls : call'[k] # IdleCall => CallIsSound(call[k])'
             /\ FilesAreSound'
  <2>1. /\ \A k \in Calls : call[k] # IdleCall => CallIsSound(call[k])
        /\ FilesAreSound
    BY <1>5 DEF CacheInv, ResetMoves
  <2>2. \A k \in Calls : call'[k] # IdleCall => CallIsSound(call[k])'
    BY <1>3, <2>1 DEF CallIsSound, SoundWith, IsFor, IsNew, ResetMoves
  <2>3. FilesAreSound'
    BY <2>1 DEF FilesAreSound, IsFor, IsNew, Doomed, ResetMoves, CacheInv, CacheShape
  <2>. QED BY <2>2, <2>3
<1>. QED BY <1>1, <1>4, <1>5 DEF CacheInv

LEMMA ResetKeeps ==
  ASSUME CacheInv, ResetStep
  PROVE  CacheInv'
<1>1. CASE ResetList
  BY <1>1, ResetStepKeeps DEF ResetList, ResetMoves, Doomed, CacheInv, CacheShape
<1>2. CASE ResetUnlink
  <2>1. /\ reset.pc = "unlink" /\ CacheShape
        /\ UNCHANGED <<kv, tracked, fileRows, flagged, epoch, call, interrupted>>
    BY <1>2 DEF ResetUnlink, CacheInv
  <2>2. CASE reset.todo = {} /\ reset' = NoReset /\ UNCHANGED <<files, stuck>>
    <3>1. ResetMoves
      BY <2>1, <2>2 DEF ResetMoves, Doomed, CacheShape, NoReset
    <3>. QED BY <3>1, ResetStepKeeps
  <2>3. ASSUME NEW x \in reset.todo, files' = [files EXCEPT ![x] = None], UNCHANGED stuck,
               reset' = [reset EXCEPT !.pc = "row", !.todo = @ \ {x}, !.at = x]
        PROVE  CacheInv'
    <3>1. x \in Scopes /\ reset.todo \in SUBSET Scopes
      BY <2>1 DEF CacheShape
    <3>2. /\ files' \in [Scopes -> Content \cup {None}] /\ files'[x] = None
          /\ \A y \in Scopes : files'[y] \in {files[y], None}
      BY <2>1, <2>3, <3>1 DEF CacheShape
    <3>3. /\ reset'.user = reset.user /\ reset'.todo = reset.todo \ {x}
          /\ reset' \in [user : Users \cup {None}, pc : {"idle", "list", "unlink", "row"},
                         todo : SUBSET Scopes, at : Scopes \cup {None}]
      BY <2>1, <2>3, <3>1 DEF CacheShape
    <3>4. ResetMoves
      BY <2>1, <2>3, <3>2, <3>3 DEF ResetMoves, Doomed, CacheShape
    <3>. QED BY <3>4, ResetStepKeeps
  <2>4. ASSUME NEW x \in reset.todo, UNCHANGED files, stuck' = stuck \cup {x},
               reset' = [reset EXCEPT !.todo = @ \ {x}]
        PROVE  CacheInv'
    <3>1. x \in Scopes /\ reset.todo \in SUBSET Scopes
      BY <2>1 DEF CacheShape
    <3>3. /\ reset'.user = reset.user /\ reset'.todo = reset.todo \ {x}
          /\ reset' \in [user : Users \cup {None}, pc : {"idle", "list", "unlink", "row"},
                         todo : SUBSET Scopes, at : Scopes \cup {None}]
      BY <2>1, <2>4, <3>1 DEF CacheShape
    <3>4. ResetMoves
      BY <2>1, <2>4, <3>1, <3>3 DEF ResetMoves, Doomed, CacheShape
    <3>. QED BY <3>4, ResetStepKeeps
  <2>. QED BY <1>2, <2>2, <2>3, <2>4 DEF ResetUnlink
<1>3. CASE ResetRow
  BY <1>3, ResetStepKeeps DEF ResetRow, ResetMoves, Doomed, CacheInv, CacheShape
<1>. QED BY <1>1, <1>2, <1>3 DEF ResetStep

\* With the resets of a user between his calls.
LEMMA CacheInvStep ==
  ~ResetWhileBusy /\ CacheInv /\ [CacheNext]_cacheVars => CacheInv'
<1> SUFFICES ASSUME ~ResetWhileBusy, CacheInv, [CacheNext]_cacheVars
             PROVE  CacheInv'
  OBVIOUS
<1>1. CASE \E k \in Calls : \E s \in Slots, x \in Scopes : Prepare(k, s, x)
  BY <1>1, PrepareKeeps
<1>2. CASE \E k \in Calls : CallStep(k)
  BY <1>2, ColdEraseKeeps, HitLiveKeeps, EvictSaveKeeps, EvictRowKeeps, EvictEraseKeeps, LookUpKeeps,
     RestoreFileKeeps, AnswerKeeps, CallFailsKeeps, MismatchKeeps, RetryAnswerKeeps, SaveKeeps,
     SaveRowKeeps, PruneListKeeps, PruneOneKeeps, PruneRowKeeps DEF CallStep
<1>3. CASE \E k \in Calls : RetryFails(k) \/ CutCall(k)
  BY <1>3, RetryFailsKeeps, CutCallKeeps
<1>4. CASE \E u \in Resetters : BeginReset(u)
  BY <1>4, BeginResetKeeps
<1>5. CASE ResetStep
  BY <1>5, ResetKeeps
<1>6. CASE UNCHANGED cacheVars
  BY <1>6 DEF cacheVars, CacheInv, CacheShape, CallIsOfToday, CallIsSound, SoundWith, FilesAreSound,
              IsFor, IsNew, Doomed
<1>. QED BY <1>1, <1>2, <1>3, <1>4, <1>5, <1>6 DEF CacheNext

LEMMA CacheInvSound == CacheInv => FilesHoldTheirScope /\ NothingOldReturns
<1> SUFFICES ASSUME CacheInv PROVE FilesHoldTheirScope /\ NothingOldReturns
  OBVIOUS
<1>1. FilesHoldTheirScope
  BY DEF CacheInv, FilesAreSound, FilesHoldTheirScope
<1>2. ASSUME interrupted = 0, NEW k \in Calls, call[k].pc = "calling", call[k].hit # "none"
      PROVE  \/ kv[call[k].slot] = [scope |-> call[k].scope, epoch |-> call[k].since]
             \/ call[k].scope \in stuck
  <2>1. /\ call[k].slot \in Slots /\ IsFor(kv[call[k].slot], call[k].scope)
        /\ call[k].since = epoch[Owner[call[k].scope]]
    BY <1>2, LeaseIs DEF SoundWith, CallIsOfToday
  <2>2. kv[call[k].slot] \in Content
    BY <2>1 DEF CacheInv, CacheShape
  <2>. QED BY <2>1, <2>2 DEF IsFor, Content
<1>. QED BY <1>1, <1>2 DEF NothingOldReturns, At

\* Only prune and the reset delete files, and prune looks first.
LEMMA PruneLooks ==
  CacheInv /\ [CacheNext]_cacheVars => PruneSparesActive
<1> SUFFICES ASSUME CacheInv, [CacheNext]_cacheVars, NEW x \in Scopes, files[x] # None,
                    files'[x] = None, UNCHANGED reset
             PROVE  x \notin Active
  BY DEF PruneSparesActive
<1>1. files' # files
  OBVIOUS
<1>2. \A k \in Calls : ~EvictSave(k) /\ ~Save(k)
  <2> SUFFICES ASSUME NEW k \in Calls, EvictSave(k) \/ Save(k) PROVE FALSE
    OBVIOUS
  <2>1. call[k].pc # "idle" /\ CacheShape
    BY DEF EvictSave, Save, At, CacheInv
  <2>2. kv[call[k].slot] \in Content /\ None \notin Content
    BY <2>1, LeaseIs, CacheAssumption DEF CacheShape, CacheAssumption
  <2>. QED BY <1>1, <2>1, <2>2 DEF EvictSave, Save, SaveTo, CacheShape
<1>3. ~ResetUnlink
  BY <1>1 DEF ResetUnlink, CacheInv, CacheShape
<1>4. \A k \in Calls : PruneOne(k) => x \notin Active
  BY <1>1 DEF PruneOne, Release, CacheInv, CacheShape
<1>5. CASE \E k \in Calls : \E s \in Slots, y \in Scopes : Prepare(k, s, y)
  BY <1>1, <1>5 DEF Prepare
<1>6. CASE \E k \in Calls : CallStep(k)
  <2>1. PICK k \in Calls : CallStep(k)
    BY <1>6
  <2>2. ~(ColdErase(k) \/ HitLive(k) \/ EvictRow(k) \/ EvictErase(k) \/ LookUp(k) \/ RestoreFile(k)
          \/ Answer(k) \/ CallFails(k) \/ Mismatch(k) \/ RetryAnswer(k) \/ SaveRow(k)
          \/ PruneList(k) \/ PruneRow(k))
    BY <1>1 DEF ColdErase, HitLive, EvictRow, EvictErase, LookUp, RestoreFile, Answer, CallFails,
                Mismatch, RetryAnswer, SaveRow, PruneList, PruneRow
  <2>. QED BY <1>2, <1>4, <2>1, <2>2 DEF CallStep
<1>7. CASE \E k \in Calls : RetryFails(k) \/ CutCall(k)
  BY <1>1, <1>7 DEF RetryFails, CutCall
<1>8. CASE \E u \in Resetters : BeginReset(u)
  BY <1>1, <1>8 DEF BeginReset
<1>9. CASE ResetStep
  BY <1>1, <1>3, <1>9 DEF ResetStep, ResetList, ResetRow
<1>10. CASE UNCHANGED cacheVars
  BY <1>1, <1>10 DEF cacheVars
<1>. QED BY <1>5, <1>6, <1>7, <1>8, <1>9, <1>10 DEF CacheNext

\* The state keeps its shape under resets that run across calls as well.
LEMMA LeaseShape ==
  ASSUME CacheShape, NEW k \in Calls, call[k].pc # "idle"
  PROVE  /\ call[k] \in Leasing /\ call[k].slot \in Slots /\ call[k].scope \in Scopes
         /\ call[k].todo \subseteq Scopes /\ call[k].old \in Scopes \cup {None}
         /\ call[k].pc \in {"evictSave", "evictRow"} => call[k].old \in Scopes
         /\ \A h \in Calls : h # k => call[h].slot # call[k].slot
<1>1. call[k] \in Leasing /\ call[k] # IdleCall
  BY DEF CacheShape, IdleCall
<1>2. \A h \in Calls : h # k => call[h].slot # call[k].slot
  BY <1>1 DEF CacheShape
<1>. QED BY <1>1, <1>2 DEF Leasing

\* The ways a call goes on within its lease.
LEMMA LeaseGoesOn ==
  ASSUME NEW o \in Leasing
  PROVE  /\ \A p \in Pcs \ {"idle"} : (p \in {"evictSave", "evictRow"} => o.old \in Scopes) =>
              LET t == [o EXCEPT !.pc = p] IN t \in Leasing /\ t.slot = o.slot
         /\ \A p \in Pcs \ {"idle", "evictSave", "evictRow"}, h \in {"none", "l1", "l2"} :
              LET t == [o EXCEPT !.pc = p, !.old = None, !.hit = h] IN t \in Leasing /\ t.slot = o.slot
         /\ \A p \in Pcs \ {"idle", "evictSave", "evictRow"}, d \in SUBSET Scopes :
              LET t == [o EXCEPT !.pc = p, !.todo = d] IN t \in Leasing /\ t.slot = o.slot
         /\ \A d \in SUBSET Scopes :
              LET t == [o EXCEPT !.todo = d] IN t \in Leasing /\ t.slot = o.slot
         /\ \A p \in Pcs \ {"idle"}, d \in SUBSET Scopes, x \in Scopes :
              LET t == [o EXCEPT !.pc = p, !.todo = d, !.old = x] IN t \in Leasing /\ t.slot = o.slot
BY DEF Leasing

LEMMA ShapeOfCall ==
  ASSUME CacheShape, NEW k \in Calls, CallStep(k) \/ RetryFails(k) \/ CutCall(k)
  PROVE  CacheShape'
<1> DEFINE o == call[k]
           sl == o.slot
           Cell == Content
           Told == Scopes \cup {None}
<1>1. o.pc # "idle"
  BY DEF CallStep, RetryFails, CutCall, At, ColdErase, HitLive, EvictSave, EvictRow, EvictErase, LookUp,
         RestoreFile, Answer, CallFails, Mismatch, RetryAnswer, Save, SaveRow, PruneList, PruneOne, PruneRow
<1>2. /\ o \in Leasing /\ sl \in Slots /\ o.scope \in Scopes /\ o.todo \subseteq Scopes /\ o.old \in Told
      /\ o.pc \in {"evictSave", "evictRow"} => o.old \in Scopes
      /\ \A h \in Calls : h # k => call[h].slot # sl
  BY <1>1, LeaseShape
<1>3. /\ kv \in [Slots -> Cell] /\ tracked \in [Slots -> Told] /\ files \in [Scopes -> Cell \cup {None}]
      /\ fileRows \subseteq Scopes /\ flagged \subseteq Users /\ interrupted \in Nat
  BY DEF CacheShape
<1>4. Empty \in Cell /\ Fresh(o.scope) \in Cell
  BY <1>2, CacheAssumption DEF Empty, Fresh, Content, CacheShape, CacheAssumption
<1>5. /\ \A v \in Cell : [kv EXCEPT ![sl] = v] \in [Slots -> Cell]
      /\ \A w \in Told : [tracked EXCEPT ![sl] = w] \in [Slots -> Told]
      /\ \A x \in Scopes, v \in Cell \cup {None} : [files EXCEPT ![x] = v] \in [Scopes -> Cell \cup {None}]
  BY <1>3
<1>6. ASSUME NEW t, call' = [call EXCEPT ![k] = t], t = IdleCall \/ (t \in Leasing /\ t.slot = sl),
             UNCHANGED <<epoch, reset, stuck, flagged>>, interrupted' \in Nat, fileRows' \subseteq Scopes,
             kv' \in [Slots -> Cell], tracked' \in [Slots -> Told], files' \in [Scopes -> Cell \cup {None}]
      PROVE  CacheShape'
  <2>1. Stirs(k, t, sl)
    BY <1>2, <1>3, <1>6 DEF Stirs
  <2>. QED BY <2>1, ShapeKept
<1>7. ASSUME NEW p \in Pcs \ {"idle", "evictSave", "evictRow"}
      PROVE  /\ [o EXCEPT !.pc = p] \in Leasing /\ [o EXCEPT !.pc = p].slot = sl
             /\ \A h \in {"none", "l1", "l2"} : LET t == [o EXCEPT !.pc = p, !.old = None, !.hit = h]
                                                IN t \in Leasing /\ t.slot = sl
             /\ \A d \in SUBSET Scopes : LET t == [o EXCEPT !.pc = p, !.todo = d] IN t \in Leasing /\ t.slot = sl
  BY <1>2, LeaseGoesOn
<1>q. \A p \in Pcs \ {"idle"}, d \in SUBSET Scopes, x \in Scopes :
        LET t == [o EXCEPT !.pc = p, !.todo = d, !.old = x] IN t \in Leasing /\ t.slot = sl
  BY <1>2, LeaseGoesOn
<1>t. \A d \in SUBSET Scopes : LET t == [o EXCEPT !.todo = d] IN t \in Leasing /\ t.slot = sl
  BY <1>2, LeaseGoesOn
<1>8. kv[sl] \in Cell /\ (files[o.scope] # None => files[o.scope] \in Cell)
  BY <1>2, <1>3
<1> HIDE DEF o, sl, Cell, Told
<1>9. /\ {"coldErase", "look", "evictErase", "lookUp", "restore", "calling", "mismatch", "retrying", "save",
          "saveRow", "pruneList", "prune", "pruneRow"} \subseteq Pcs \ {"idle", "evictSave", "evictRow"}
      /\ None \in Told /\ o.scope \in Told
  BY <1>2 DEF Pcs, Told
<1>10. CASE ColdErase(k)
  <2>1. /\ kv' \in {kv, [kv EXCEPT ![sl] = Empty]} /\ tracked' = [tracked EXCEPT ![sl] = o.scope]
        /\ call' = [call EXCEPT ![k] = [o EXCEPT !.pc = "calling", !.old = None, !.hit = "none"]]
        /\ UNCHANGED <<files, fileRows, flagged, epoch, reset, stuck, interrupted>>
    BY <1>10 DEF ColdErase, Erased, Track, Lease, o, sl
  <2>. QED BY <1>3, <1>4, <1>5, <1>6, <1>7, <1>9, <2>1
<1>11. CASE HitLive(k)
  <2>1. /\ call' = [call EXCEPT ![k] = [o EXCEPT !.pc = "calling", !.old = None, !.hit = "l1"]]
        /\ UNCHANGED <<kv, tracked, files, fileRows, flagged, epoch, reset, stuck, interrupted>>
    BY <1>11 DEF HitLive, Lease, o
  <2>. QED BY <1>3, <1>6, <1>7, <1>9, <2>1
<1>12. CASE EvictSave(k)
  <2>1. /\ UNCHANGED <<kv, tracked, fileRows, flagged, epoch, reset, stuck, interrupted>>
        /\ \/ files' = [files EXCEPT ![o.old] = kv[sl]] /\ call' = [call EXCEPT ![k] = [o EXCEPT !.pc = "evictRow"]]
           \/ UNCHANGED files /\ call' = [call EXCEPT ![k] = [o EXCEPT !.pc = "evictErase"]]
    BY <1>12 DEF EvictSave, SaveTo, Goto, o, sl
  <2>2. o.old \in Scopes
    BY <1>2, <1>12 DEF EvictSave, At, o
  <2>3. [o EXCEPT !.pc = "evictRow"] \in Leasing /\ [o EXCEPT !.pc = "evictRow"].slot = sl
    BY <1>2, <2>2 DEF Leasing, Pcs, sl
  <2>4. [files EXCEPT ![o.old] = kv[sl]] \in [Scopes -> Cell \cup {None}]
    BY <1>5, <1>8, <2>2
  <2>. QED BY <1>3, <1>6, <1>7, <1>9, <2>1, <2>3, <2>4
<1>13. CASE EvictRow(k)
  <2>1. /\ fileRows' = fileRows \cup {o.old} /\ tracked' = [tracked EXCEPT ![sl] = o.old]
        /\ call' = [call EXCEPT ![k] = [o EXCEPT !.pc = "evictErase"]]
        /\ UNCHANGED <<kv, files, flagged, epoch, reset, stuck, interrupted>>
    BY <1>13 DEF EvictRow, Track, Goto, o, sl
  <2>2. o.old \in Scopes
    BY <1>2, <1>13 DEF EvictRow, At, o
  <2>3. fileRows' \subseteq Scopes
    BY <1>3, <2>1, <2>2
  <2>. QED BY <1>2, <1>3, <1>5, <1>6, <1>7, <1>9, <2>1, <2>3
<1>14. CASE EvictErase(k)
  <2>1. /\ kv' \in {kv, [kv EXCEPT ![sl] = Empty]}
        /\ call' = [call EXCEPT ![k] = [o EXCEPT !.pc = "lookUp", !.old = None, !.hit = "none"]]
        /\ UNCHANGED <<tracked, files, fileRows, flagged, epoch, reset, stuck, interrupted>>
    BY <1>14 DEF EvictErase, Erased, Leave, o, sl
  <2>. QED BY <1>3, <1>4, <1>5, <1>6, <1>7, <1>9, <2>1
<1>15. CASE LookUp(k)
  <2>1. /\ UNCHANGED <<kv, files, fileRows, flagged, epoch, reset, stuck, interrupted>>
        /\ \/ call' = [call EXCEPT ![k] = [o EXCEPT !.pc = "restore"]] /\ UNCHANGED tracked
           \/ /\ call' = [call EXCEPT ![k] = [o EXCEPT !.pc = "calling", !.old = None, !.hit = "none"]]
              /\ tracked' = [tracked EXCEPT ![sl] = o.scope]
    BY <1>15 DEF LookUp, Goto, Lease, Track, o, sl
  <2>2. \E t \in {[o EXCEPT !.pc = "restore"], [o EXCEPT !.pc = "calling", !.old = None, !.hit = "none"]} :
          call' = [call EXCEPT ![k] = t]
    BY <2>1
  <2>3. tracked' \in [Slots -> Told]
    BY <1>3, <1>5, <1>9, <2>1
  <2>4. LET t == [o EXCEPT !.pc = "restore"] IN t \in Leasing /\ t.slot = sl
    BY <1>7, <1>9
  <2>5. LET t == [o EXCEPT !.pc = "calling", !.old = None, !.hit = "none"] IN t \in Leasing /\ t.slot = sl
    BY <1>7, <1>9
  <2>. QED BY <1>3, <1>6, <2>1, <2>2, <2>3, <2>4, <2>5
<1>16. CASE RestoreFile(k)
  <2>1. /\ tracked' = [tracked EXCEPT ![sl] = o.scope]
        /\ UNCHANGED <<files, fileRows, flagged, epoch, reset, stuck, interrupted>>
        /\ \/ /\ files[o.scope] # None /\ kv' = [kv EXCEPT ![sl] = files[o.scope]]
              /\ call' = [call EXCEPT ![k] = [o EXCEPT !.pc = "calling", !.old = None, !.hit = "l2"]]
           \/ /\ UNCHANGED kv
              /\ call' = [call EXCEPT ![k] = [o EXCEPT !.pc = "calling", !.old = None, !.hit = "none"]]
    BY <1>16 DEF RestoreFile, Lease, Track, o, sl
  <2>2. \E h \in {"none", "l2"} : call' = [call EXCEPT ![k] = [o EXCEPT !.pc = "calling", !.old = None, !.hit = h]]
    BY <2>1
  <2>3. tracked' \in [Slots -> Told] /\ kv' \in [Slots -> Cell]
    BY <1>3, <1>5, <1>8, <1>9, <2>1
  <2>4. \A h \in {"none", "l2"} :
          LET t == [o EXCEPT !.pc = "calling", !.old = None, !.hit = h] IN t \in Leasing /\ t.slot = sl
    BY <1>7, <1>9
  <2>. QED BY <1>3, <1>6, <2>1, <2>2, <2>3, <2>4
<1>17. CASE Answer(k)
  <2>1. /\ kv' = [kv EXCEPT ![sl] = Fresh(o.scope)]
        /\ UNCHANGED <<tracked, files, fileRows, flagged, epoch, reset, stuck, interrupted>>
        /\ \E t \in {IdleCall, [o EXCEPT !.pc = "mismatch", !.old = None, !.hit = "none"],
                     [o EXCEPT !.pc = "save", !.old = None, !.hit = "none"]} : call' = [call EXCEPT ![k] = t]
    BY <1>17 DEF Answer, Computed, AfterAnswer, Leave, Release, o, sl
  <2>. QED BY <1>3, <1>4, <1>5, <1>6, <1>7, <1>9, <2>1
<1>18. CASE CallFails(k)
  <2>1. /\ kv' \in {kv, [kv EXCEPT ![sl] = Fresh(o.scope)]} /\ tracked' = [tracked EXCEPT ![sl] = None]
        /\ call' = [call EXCEPT ![k] = IdleCall]
        /\ UNCHANGED <<files, fileRows, flagged, epoch, reset, stuck, interrupted>>
    BY <1>18 DEF CallFails, Computed, Track, Release, o, sl
  <2>. QED BY <1>3, <1>4, <1>5, <1>6, <1>9, <2>1
<1>19. CASE Mismatch(k)
  <2>1. /\ kv' \in {kv, [kv EXCEPT ![sl] = Empty]} /\ tracked' = [tracked EXCEPT ![sl] = o.scope]
        /\ call' = [call EXCEPT ![k] = [o EXCEPT !.pc = "retrying"]]
        /\ UNCHANGED <<files, fileRows, flagged, epoch, reset, stuck, interrupted>>
    BY <1>19 DEF Mismatch, Erased, Track, Goto, o, sl
  <2>. QED BY <1>3, <1>4, <1>5, <1>6, <1>7, <1>9, <2>1
<1>20. CASE RetryAnswer(k)
  <2>1. /\ kv' = [kv EXCEPT ![sl] = Fresh(o.scope)]
        /\ UNCHANGED <<tracked, files, fileRows, flagged, epoch, reset, stuck, interrupted>>
        /\ \E t \in {IdleCall, [o EXCEPT !.pc = "save"]} : call' = [call EXCEPT ![k] = t]
    BY <1>20 DEF RetryAnswer, Computed, Goto, Release, o, sl
  <2>. QED BY <1>3, <1>4, <1>5, <1>6, <1>7, <1>9, <2>1
<1>21. CASE RetryFails(k) \/ CutCall(k)
  <2>1. /\ kv' \in {kv, [kv EXCEPT ![sl] = Fresh(o.scope)]} /\ call' = [call EXCEPT ![k] = IdleCall]
        /\ interrupted' = interrupted + 1
        /\ UNCHANGED <<tracked, files, fileRows, flagged, epoch, reset, stuck>>
    BY <1>21 DEF RetryFails, CutCall, Computed, Release, o, sl
  <2>2. interrupted' \in Nat /\ kv' \in [Slots -> Cell]
    BY <1>3, <1>4, <1>5, <2>1
  <2>. QED BY <1>3, <1>6, <2>1, <2>2
<1>22. CASE Save(k)
  <2>1. /\ UNCHANGED <<kv, tracked, fileRows, flagged, epoch, reset, stuck, interrupted>>
        /\ \/ files' = [files EXCEPT ![o.scope] = kv[sl]] /\ call' = [call EXCEPT ![k] = [o EXCEPT !.pc = "saveRow"]]
           \/ UNCHANGED files /\ call' = [call EXCEPT ![k] = [o EXCEPT !.pc = "pruneList"]]
    BY <1>22 DEF Save, SaveTo, Goto, o, sl
  <2>2. [files EXCEPT ![o.scope] = kv[sl]] \in [Scopes -> Cell \cup {None}]
    BY <1>2, <1>5, <1>8
  <2>. QED BY <1>3, <1>6, <1>7, <1>9, <2>1, <2>2
<1>23. CASE SaveRow(k)
  <2>1. /\ fileRows' = fileRows \cup {o.scope} /\ tracked' = [tracked EXCEPT ![sl] = o.scope]
        /\ call' = [call EXCEPT ![k] = [o EXCEPT !.pc = "pruneList"]]
        /\ UNCHANGED <<kv, files, flagged, epoch, reset, stuck, interrupted>>
    BY <1>23 DEF SaveRow, Track, Goto, o, sl
  <2>2. fileRows' \subseteq Scopes
    BY <1>2, <1>3, <2>1
  <2>. QED BY <1>3, <1>5, <1>6, <1>7, <1>9, <2>1, <2>2
<1>24. CASE PruneList(k)
  <2>1. /\ UNCHANGED <<kv, tracked, files, fileRows, flagged, epoch, reset, stuck, interrupted>>
        /\ \/ call' = [call EXCEPT ![k] = IdleCall]
           \/ \E due \in SUBSET (fileRows \ Active) : call' = [call EXCEPT ![k] = [o EXCEPT !.pc = "prune", !.todo = due]]
    BY <1>24 DEF PruneList, Release, o
  <2>2. ASSUME NEW due \in SUBSET (fileRows \ Active),
               call' = [call EXCEPT ![k] = [o EXCEPT !.pc = "prune", !.todo = due]]
        PROVE  CacheShape'
    <3>1. due \in SUBSET Scopes
      BY <1>3
    <3>2. LET t == [o EXCEPT !.pc = "prune", !.todo = due] IN t \in Leasing /\ t.slot = sl
      BY <1>7, <1>9, <3>1
    <3>. QED BY <1>3, <1>6, <2>1, <2>2, <3>2
  <2>. QED BY <1>3, <1>6, <2>1, <2>2
<1>25. CASE PruneOne(k)
  <2>1. UNCHANGED <<kv, tracked, fileRows, flagged, epoch, reset, stuck, interrupted>>
    BY <1>25 DEF PruneOne
  <2>2. \/ call' = [call EXCEPT ![k] = IdleCall] /\ UNCHANGED files
        \/ \E x \in o.todo :
             \/ /\ files' = [files EXCEPT ![x] = None]
                /\ call' = [call EXCEPT ![k] = [o EXCEPT !.pc = "pruneRow", !.todo = o.todo \ {x}, !.old = x]]
             \/ call' = [call EXCEPT ![k] = [o EXCEPT !.todo = o.todo \ {x}]] /\ UNCHANGED files
    BY <1>25 DEF PruneOne, Release, o
  <2>3. ASSUME NEW x \in o.todo, files' = [files EXCEPT ![x] = None],
               call' = [call EXCEPT ![k] = [o EXCEPT !.pc = "pruneRow", !.todo = o.todo \ {x}, !.old = x]]
        PROVE  CacheShape'
    <3>1. x \in Scopes /\ o.todo \ {x} \in SUBSET Scopes /\ files' \in [Scopes -> Cell \cup {None}]
      BY <1>2, <1>5, <2>3
    <3>2. LET t == [o EXCEPT !.pc = "pruneRow", !.todo = o.todo \ {x}, !.old = x] IN t \in Leasing /\ t.slot = sl
      BY <1>q, <1>9, <3>1
    <3>. QED BY <1>3, <1>6, <2>1, <2>3, <3>1, <3>2
  <2>4. ASSUME NEW x \in o.todo, call' = [call EXCEPT ![k] = [o EXCEPT !.todo = o.todo \ {x}]], UNCHANGED files
        PROVE  CacheShape'
    <3>1. o.todo \ {x} \in SUBSET Scopes
      BY <1>2
    <3>2. LET t == [o EXCEPT !.todo = o.todo \ {x}] IN t \in Leasing /\ t.slot = sl
      BY <1>t, <3>1
    <3>. QED BY <1>3, <1>6, <2>1, <2>4, <3>2
  <2>. QED BY <1>3, <1>6, <2>1, <2>2, <2>3, <2>4
<1>26. CASE PruneRow(k)
  <2>1. /\ fileRows' = fileRows \ {o.old}
        /\ call' = [call EXCEPT ![k] = [o EXCEPT !.pc = "prune", !.old = None, !.hit = "none"]]
        /\ UNCHANGED <<kv, tracked, files, flagged, epoch, reset, stuck, interrupted>>
    BY <1>26 DEF PruneRow, Leave, o
  <2>2. fileRows' \subseteq Scopes
    BY <1>3, <2>1
  <2>. QED BY <1>3, <1>6, <1>7, <1>9, <2>1, <2>2
<1>. QED BY <1>10, <1>11, <1>12, <1>13, <1>14, <1>15, <1>16, <1>17, <1>18, <1>19, <1>20, <1>21, <1>22,
            <1>23, <1>24, <1>25, <1>26 DEF CallStep

LEMMA ShapeOfPrepare ==
  ASSUME CacheShape, NEW k \in Calls, NEW sl \in Slots, NEW x \in Scopes, Prepare(k, sl, x)
  PROVE  CacheShape'
<1> DEFINE cold == Owner[x] \in flagged
           old == IF cold THEN None ELSE tracked[sl]
           p == CASE cold -> "coldErase"
                  [] old = x -> "look"
                  [] old \notin {None, x} -> "evictSave"
                  [] OTHER -> "lookUp"
           t == [IdleCall EXCEPT !.pc = p, !.slot = sl, !.scope = x, !.old = old,
                                 !.since = epoch[Owner[x]]]
<1>1. /\ \A d \in Calls : call[d].slot # sl
      /\ flagged' = flagged \ {Owner[x]}
      /\ tracked' = [tracked EXCEPT ![sl] = old]
      /\ call' = [call EXCEPT ![k] = t]
      /\ UNCHANGED <<kv, files, fileRows, epoch, reset, stuck, interrupted>>
  BY DEF Prepare
<1>2. old \in Scopes \cup {None} /\ epoch[Owner[x]] \in Nat
  BY CacheAssumption DEF CacheShape, CacheAssumption
<1>3. /\ p \in Pcs \ {"idle"} /\ (p \in {"evictSave", "evictRow"} => old \in Scopes)
  BY <1>2 DEF Pcs
<1> HIDE DEF p, old, cold
<1>4. \A i \in [pc : Pcs, slot : Slots \cup {None}, scope : Scopes \cup {None}, old : Scopes \cup {None},
                hit : {"none", "l1", "l2"}, since : Nat, todo : SUBSET Scopes], e \in Nat :
        LET v == [i EXCEPT !.pc = p, !.slot = sl, !.scope = x, !.old = old, !.since = e]
        IN v \in Leasing /\ v.slot = sl
  BY <1>2, <1>3 DEF Leasing
<1>5. t \in Leasing /\ t.slot = sl
  <2>1. IdleCall \in [pc : Pcs, slot : Slots \cup {None}, scope : Scopes \cup {None},
                      old : Scopes \cup {None}, hit : {"none", "l1", "l2"}, since : Nat, todo : SUBSET Scopes]
    BY DEF IdleCall, Pcs
  <2>. QED BY <1>2, <1>4, <2>1
<1> HIDE DEF t
<1>6. Stirs(k, t, sl)
  BY <1>1, <1>2, <1>5 DEF Stirs, CacheShape
<1>. QED BY <1>6, ShapeKept

LEMMA ShapeOfReset ==
  ASSUME CacheShape, ResetStep \/ \E u \in Resetters : BeginReset(u)
  PROVE  CacheShape'
<1>1. ASSUME NEW u \in Resetters, BeginReset(u) PROVE CacheShape'
  <2> DEFINE crossed == {call[k].old : k \in {d \in Calls :
                           call[d].pc \in {"evictSave", "evictRow"} /\ Owner[call[d].old] = u}}
  <2>1. /\ epoch' = [epoch EXCEPT ![u] = @ + 1] /\ flagged' = flagged \cup {u}
        /\ tracked' = [s \in Slots |-> IF tracked[s] \in Scopes /\ Owner[tracked[s]] = u
                                       THEN None ELSE tracked[s]]
        /\ reset' = [NoReset EXCEPT !.user = u, !.pc = "list"] /\ stuck' = stuck \cup crossed
        /\ UNCHANGED <<kv, files, fileRows, call, interrupted>>
    BY <1>1 DEF BeginReset
  <2>2. u \in Users
    BY CacheAssumption DEF CacheAssumption
  <2>3. crossed \subseteq Scopes
    BY DEF CacheShape, Leasing, IdleCall
  <2> HIDE DEF crossed
  <2>4. /\ epoch' \in [Users -> Nat] /\ stuck' \subseteq Scopes /\ flagged' \subseteq Users
        /\ tracked' \in [Slots -> Scopes \cup {None}]
    BY <2>1, <2>2, <2>3 DEF CacheShape
  <2>5. reset' \in [user : Users \cup {None}, pc : {"idle", "list", "unlink", "row"},
                    todo : SUBSET Scopes, at : Scopes \cup {None}]
    BY <2>1, <2>2 DEF NoReset
  <2>. QED BY <2>1, <2>4, <2>5 DEF CacheShape
<1> DEFINE ResetIs(r) == r \in [user : Users \cup {None}, pc : {"idle", "list", "unlink", "row"},
                                todo : SUBSET Scopes, at : Scopes \cup {None}]
<1>2. /\ ResetIs(reset) /\ fileRows \subseteq Scopes /\ stuck \subseteq Scopes
      /\ files \in [Scopes -> Content \cup {None}]
  BY DEF CacheShape
<1>3. ASSUME UNCHANGED <<kv, tracked, flagged, epoch, call, interrupted>>, ResetIs(reset'),
             fileRows' \subseteq Scopes, stuck' \subseteq Scopes, files' \in [Scopes -> Content \cup {None}]
      PROVE  CacheShape'
  BY <1>3 DEF CacheShape
<1>4. CASE ResetList
  <2>1. /\ reset' = [reset EXCEPT !.pc = "unlink", !.todo = {x \in fileRows : Owner[x] = reset.user}]
        /\ UNCHANGED <<kv, tracked, files, fileRows, flagged, epoch, call, stuck, interrupted>>
    BY <1>4 DEF ResetList
  <2>2. {x \in fileRows : Owner[x] = reset.user} \in SUBSET Scopes
    BY <1>2
  <2>3. ResetIs(reset')
    BY <1>2, <2>1, <2>2
  <2> HIDE DEF ResetIs
  <2>. QED BY <1>2, <1>3, <2>1, <2>3
<1>5. CASE ResetUnlink
  <2>1. UNCHANGED <<kv, tracked, fileRows, flagged, epoch, call, interrupted>>
    BY <1>5 DEF ResetUnlink
  <2>2. CASE reset' = NoReset /\ UNCHANGED <<files, stuck>>
    <3>1. ResetIs(reset')
      BY <2>2 DEF NoReset
    <3> HIDE DEF ResetIs
    <3>. QED BY <1>2, <1>3, <2>1, <2>2, <3>1
  <2>3. ASSUME NEW x \in reset.todo,
               \/ /\ files' = [files EXCEPT ![x] = None] /\ UNCHANGED stuck
                  /\ reset' = [reset EXCEPT !.pc = "row", !.todo = reset.todo \ {x}, !.at = x]
               \/ /\ reset' = [reset EXCEPT !.todo = reset.todo \ {x}]
                  /\ stuck' = stuck \cup {x} /\ UNCHANGED files
        PROVE  CacheShape'
    <3>1. x \in Scopes /\ reset.todo \ {x} \in SUBSET Scopes
      BY <1>2
    <3>2. ResetIs(reset')
      BY <1>2, <2>3, <3>1
    <3>3. stuck' \subseteq Scopes /\ files' \in [Scopes -> Content \cup {None}]
      BY <1>2, <2>3, <3>1
    <3> HIDE DEF ResetIs
    <3>. QED BY <1>2, <1>3, <2>1, <3>2, <3>3
  <2>. QED BY <1>5, <2>2, <2>3 DEF ResetUnlink
<1>6. CASE ResetRow
  <2>1. /\ fileRows' \subseteq fileRows /\ reset' = [reset EXCEPT !.pc = "unlink", !.at = None]
        /\ UNCHANGED <<kv, tracked, files, flagged, epoch, call, stuck, interrupted>>
    BY <1>6 DEF ResetRow
  <2>2. ResetIs(reset')
    BY <1>2, <2>1
  <2> HIDE DEF ResetIs
  <2>. QED BY <1>2, <1>3, <2>1, <2>2
<1>. QED BY <1>1, <1>4, <1>5, <1>6 DEF ResetStep

LEMMA CacheShapeInit == CacheInit => CacheShape
BY CacheInvInit DEF CacheInv

LEMMA CacheShapeStep == CacheShape /\ [CacheNext]_cacheVars => CacheShape'
<1> SUFFICES ASSUME CacheShape, [CacheNext]_cacheVars PROVE CacheShape'
  OBVIOUS
<1>1. CASE UNCHANGED cacheVars
  BY <1>1 DEF cacheVars, CacheShape
<1>. QED BY <1>1, ShapeOfCall, ShapeOfPrepare, ShapeOfReset DEF CacheNext

LEMMA CacheIsTyped == CacheShape => CacheTypeOK
<1> SUFFICES ASSUME CacheShape PROVE CacheTypeOK
  OBVIOUS
<1>1. \A k \in Calls : call[k] \in [pc : Pcs, slot : Slots \cup {None},
                           scope : Scopes \cup {None}, old : Scopes \cup {None},
                           hit : {"none", "l1", "l2"}, since : Nat,
                           todo : SUBSET Scopes]
  <2>1. IdleCall \in [pc : Pcs, slot : Slots \cup {None}, scope : Scopes \cup {None},
                      old : Scopes \cup {None}, hit : {"none", "l1", "l2"}, since : Nat, todo : SUBSET Scopes]
    BY DEF IdleCall, Pcs
  <2>2. \A t \in Leasing : t \in [pc : Pcs, slot : Slots \cup {None}, scope : Scopes \cup {None},
                      old : Scopes \cup {None}, hit : {"none", "l1", "l2"}, since : Nat, todo : SUBSET Scopes]
    BY DEF Leasing
  <2>. QED BY <2>1, <2>2 DEF CacheShape
<1>. QED BY <1>1 DEF CacheShape, CacheTypeOK

-----------------------------------------------------------------------------
(* The routes to the models *)

\* A provider built from the rules and the profiles, with inference settings for
\* its own model only, unless the caller's were put on top.
Provided ==
  {p \in [conn : {rule.conn : rule \in Range(Rules)},
          model : {rule.model : rule \in Range(Rules)},
          name : {rule.sampling : rule \in Range(Rules)} \cup DOMAIN Profiles,
          sampling : [profile : DOMAIN Profiles \cup {None}, inference : BOOLEAN, derived : BOOLEAN]] :
     p.sampling.derived \/ Meant(p)}

\* The provider is one of the process-wide routes'.
OfBase(i) == \E j \in DOMAIN routes : routes[j].id = i

\* Every route leads to a provider that was built, and the default to one of a route.
RoutesInv ==
  /\ next \in 1..Len(Rules) + 2 /\ default \in Nat
  /\ built \in Seq(Provided) /\ routes \in Seq(RouteType)
  /\ \A j \in DOMAIN routes : routes[j].id \in DOMAIN built
  /\ default # 0 => OfBase(default)
  /\ Started => routes # <<>> /\ default # 0

\* A provider is a route's or belongs to one run, and with the queue it is closed
\* only if the run it belongs to is over.
OwnersInv ==
  /\ override \in [Runs -> {None} \cup Seq(RouteType)]
  /\ owned \in [Runs -> SUBSET Nat]
  /\ headless \subseteq Runs /\ closed \cup adrift \subseteq DOMAIN built
  /\ \A r \in Runs : ~Started => override[r] = None /\ owned[r] = {}
  /\ \A r \in Runs : owned[r] \subseteq DOMAIN built
  /\ \A r \in Runs : \A i \in owned[r] : ~OfBase(i) /\ \A q \in Runs \ {r} : i \notin owned[q]
  /\ Queued => \A i \in closed : \E r \in Runs : override[r] = None /\ i \in owned[r]
  /\ \A i \in DOMAIN built : OfBase(i) \/ \E r \in Runs : i \in owned[r]
  /\ \A r \in Runs : override[r] = None => owned[r] \subseteq closed \cup adrift
  /\ \A r \in Runs : override[r] # None =>
       \A k \in DOMAIN override[r] : override[r][k].id \in owned[r] \/ OfBase(override[r][k].id)

RoutingInv == RoutesInv /\ OwnersInv

LEMMA RoutingInvInit == RoutingInit => RoutingInv
BY RoutingAssumption DEF RoutingInit, RoutingInv, RoutesInv, OwnersInv, Started, OfBase

\* A route chosen from routes that all lead into a set, with a default in it, leads
\* into it.
LEMMA RouteLeads ==
  ASSUME NEW S, NEW rs \in Seq(RouteType), NEW field, NEW value, NEW other \in S,
         \A k \in DOMAIN rs : rs[k].id \in S
  PROVE  Route(rs, field, value, other) \in S
<1> DEFINE hits == {i \in DOMAIN rs : rs[i][field] = value}
           first == CHOOSE i \in hits : \A j \in hits : i <= j
<1>1. Route(rs, field, value, other) = IF hits = {} THEN other ELSE rs[first].id
  BY DEF Route
<1>2. CASE hits # {}
  <2>1. hits \in SUBSET Nat
    OBVIOUS
  <2> HIDE DEF hits
  <2>2. \E i \in hits : \A j \in hits : i <= j
    BY <1>2, <2>1, LeastExists
  <2>3. first \in hits
    BY <2>2
  <2>. QED BY <1>1, <1>2, <2>3 DEF hits
<1>. QED BY <1>1, <1>2

LEMMA RoutingInvSound == RoutingInv /\ Queued => ClientsAreOwned
<1> SUFFICES ASSUME RoutingInv, Queued PROVE ClientsAreOwned
  OBVIOUS
<1>1. ASSUME NEW i, OfBase(i) PROVE i \notin closed
  BY <1>1 DEF RoutingInv, OwnersInv
<1>2. ASSUME NEW r \in Runs, override[r] # None, NEW i \in owned[r] PROVE i \notin closed
  BY <1>2 DEF RoutingInv, OwnersInv
<1>3. \A j \in DOMAIN routes : routes[j].id \notin closed
  BY <1>1 DEF OfBase
<1>4. ASSUME NEW r \in Runs, override[r] # None
      PROVE  /\ \A k \in DOMAIN override[r] : override[r][k].id \notin closed
             /\ DefaultOf(r) \notin closed
  <2>1. \A k \in DOMAIN override[r] : override[r][k].id \notin closed
    BY <1>1, <1>2, <1>4 DEF RoutingInv, OwnersInv
  <2>2. default \notin closed
    <3>1. Started
      BY <1>4 DEF RoutingInv, OwnersInv
    <3>. QED BY <1>1, <3>1 DEF RoutingInv, RoutesInv
  <2>3. DefaultOf(r) \notin closed
    <3> DEFINE rs == override[r]
               S == {default} \cup {rs[k].id : k \in DOMAIN rs}
    <3>1. rs \in Seq(RouteType)
      BY <1>4 DEF RoutingInv, OwnersInv
    <3>2. default \in S /\ \A k \in DOMAIN rs : rs[k].id \in S
      OBVIOUS
    <3>3. \A i \in S : i \notin closed
      BY <2>1, <2>2
    <3> HIDE DEF S, rs
    <3>4. Route(rs, "task", "default", default) \in S
      BY <3>1, <3>2, RouteLeads
    <3>. QED BY <3>3, <3>4 DEF rs, DefaultOf
  <2>. QED BY <2>1, <2>2, <2>3
<1>5. RoutesAreOpen
  BY <1>3, <1>4 DEF RoutesAreOpen
<1>6. NoClientLeaks
  BY DEF NoClientLeaks, RoutingInv, OwnersInv, OfBase
<1>7. NoForeignInference
  <2>1. \A i \in DOMAIN built : built[i] \in Provided
    BY DEF RoutingInv, RoutesInv
  <2>. QED BY <2>1 DEF NoForeignInference, Provided
<1>. QED BY <1>5, <1>6, <1>7 DEF ClientsAreOwned

\* A sampling as the rules and the overrides build it for a model.
Samplings(model) ==
  {q \in [profile : DOMAIN Profiles \cup {None}, inference : BOOLEAN, derived : BOOLEAN] :
     q.derived \/ (q.inference => Profiles[q.profile] \in {None, model})}

LEMMA SamplingIsSound ==
  ASSUME NEW model, NEW name
  PROVE  Sampling(name, model) \in Samplings(model) /\ Derived(name) \in Samplings(model)
<1> DEFINE T == [profile : DOMAIN Profiles \cup {None}, inference : BOOLEAN, derived : BOOLEAN]
<1>1. Sampling(name, model) \in T
  BY DEF Sampling
<1>2. Sampling(name, model).inference => Profiles[Sampling(name, model).profile] \in {None, model}
  BY DEF Sampling
<1>3. Derived(name) \in T
  BY DEF Derived
<1>4. Derived(name).derived
  BY DEF Derived
<1> HIDE DEF T
<1>5. \A q \in T : q.derived \/ (q.inference => Profiles[q.profile] \in {None, model})
                     => q \in Samplings(model)
  BY DEF T, Samplings
<1>. QED BY <1>1, <1>2, <1>3, <1>4, <1>5

LEMMA ProviderIsSound ==
  ASSUME NEW conn \in {rule.conn : rule \in Range(Rules)},
         NEW model \in {rule.model : rule \in Range(Rules)},
         NEW name \in {rule.sampling : rule \in Range(Rules)} \cup DOMAIN Profiles,
         NEW sampling \in Samplings(model)
  PROVE  Provider(conn, model, name, sampling) \in Provided
BY DEF Provider, Provided, Samplings, Meant

LEMMA RuleAdded ==
  ASSUME RoutingInv, AddRule PROVE RoutingInv'
<1>1. RoutesInv /\ OwnersInv
  BY DEF RoutingInv
<1> DEFINE rule == Rules[next]
           p == Provider(rule.conn, rule.model, rule.sampling, Sampling(rule.sampling, rule.model))
           known == Cached(p)
           id == IF known = {} THEN Len(built) + 1 ELSE CHOOSE i \in known : TRUE
           route == [task |-> rule.task, sub |-> rule.sub, id |-> id]
<1>2. /\ next \in 1..Len(Rules) /\ next' = next + 1
      /\ UNCHANGED <<override, owned, headless, closed, adrift>>
      /\ \/ UNCHANGED <<built, routes, default>>
         \/ /\ built' = IF known = {} THEN Append(built, p) ELSE built
            /\ routes' = Append(routes, route)
            /\ default' \in {id, default}
  <2>1. next \in 1..Len(Rules)
    BY <1>1, RoutingAssumption DEF AddRule, RoutesInv
  <2>2. \/ UNCHANGED <<built, routes, default>>
        \/ /\ built' = IF known = {} THEN Append(built, p) ELSE built
           /\ routes' = Append(routes, route)
           /\ default' \in {id, default}
    BY Zenon DEF AddRule
  <2>. QED BY <2>1, <2>2 DEF AddRule
<1>3. Len(Rules) \in Nat /\ rule \in Range(Rules)
  BY <1>2, RoutingAssumption DEF Range
<1>4. ~ Started /\ ~ Started' /\ next' \in 1..Len(Rules) + 2
  BY <1>2, <1>3 DEF Started
<1>5. /\ built \in Seq(Provided) /\ routes \in Seq(RouteType) /\ default \in Nat
      /\ \A j \in DOMAIN routes : routes[j].id \in DOMAIN built
      /\ default # 0 => OfBase(default)
  BY <1>1 DEF RoutesInv
<1>6. CASE UNCHANGED <<built, routes, default>>
  <2>1. RoutesInv'
    BY <1>4, <1>5, <1>6 DEF RoutesInv, OfBase
  <2>2. OwnersInv'
    BY <1>1, <1>2, <1>4, <1>6 DEF OwnersInv, OfBase
  <2>. QED BY <2>1, <2>2 DEF RoutingInv
<1>7. CASE /\ built' = IF known = {} THEN Append(built, p) ELSE built
           /\ routes' = Append(routes, route)
           /\ default' \in {id, default}
  <2>1. p \in Provided
    <3> HIDE DEF rule
    <3>. QED BY <1>3, ProviderIsSound, SamplingIsSound
  <2>2. known # {} => id \in DOMAIN built
    BY DEF Cached
  <2>3. built' \in Seq(Provided) /\ id \in DOMAIN built'
        /\ DOMAIN built' \subseteq DOMAIN built \cup {id} /\ DOMAIN built \subseteq DOMAIN built'
    <3> HIDE DEF p, known
    <3>1. CASE known = {}
      <4>1. built' = Append(built, p) /\ id = Len(built) + 1
        BY <1>7, <3>1
      <4>. QED BY <1>5, <2>1, <4>1
    <3>2. CASE known # {}
      <4>1. built' = built /\ id \in DOMAIN built
        BY <1>7, <2>2, <3>2
      <4>. QED BY <1>5, <4>1
    <3>. QED BY <3>1, <3>2
  <2>4. id \in Nat /\ id # 0
    <3>1. DOMAIN built' = 1..Len(built')
      BY <2>3
    <3>2. Len(built') \in Nat
      BY <2>3
    <3> HIDE DEF id
    <3>. QED BY <2>3, <3>1, <3>2
  <2> HIDE DEF id, p, known
  <2>5. route \in RouteType /\ route.id = id
    <3> HIDE DEF rule
    <3>. QED BY <1>3, <2>4 DEF RouteType
  <2> HIDE DEF route
  <2>6. /\ routes' \in Seq(RouteType) /\ Len(routes') = Len(routes) + 1
        /\ \A j \in DOMAIN routes : j \in DOMAIN routes' /\ routes'[j] = routes[j]
        /\ Len(routes) + 1 \in DOMAIN routes' /\ routes'[Len(routes) + 1].id = id
        /\ \A j \in DOMAIN routes' : j \in DOMAIN routes \/ j = Len(routes) + 1
    BY <1>5, <1>7, <2>5
  <2>7. \A i : OfBase(i)' <=> OfBase(i) \/ i = id
    BY <2>6 DEF OfBase
  <2>8. \A j \in DOMAIN routes' : routes'[j].id \in DOMAIN built'
    BY <1>5, <2>3, <2>6
  <2>9. default' \in Nat /\ (default' # 0 => OfBase(default)')
    <3>1. default' = id \/ default' = default
      BY <1>7
    <3>2. (\E j \in DOMAIN routes : routes[j].id = default) \/ default = 0
      BY <1>5 DEF OfBase
    <3>3. default' # 0 => \E j \in DOMAIN routes' : routes'[j].id = default'
      BY <2>6, <3>1, <3>2
    <3>. QED BY <1>5, <2>4, <3>1, <3>3 DEF OfBase
  <2>10. RoutesInv'
    BY <1>4, <2>3, <2>6, <2>8, <2>9 DEF RoutesInv
  <2>11. /\ \A r \in Runs : override[r] = None /\ owned[r] = {}
         /\ override' = override /\ owned' = owned /\ closed' = closed
         /\ headless' = headless /\ adrift' = adrift
    BY <1>1, <1>2, <1>4 DEF OwnersInv
  <2>12. /\ Queued => closed = {}
         /\ headless \subseteq Runs /\ closed \cup adrift \subseteq DOMAIN built'
    BY <1>1, <2>3, <2>11 DEF OwnersInv
  <2>13. \A i \in DOMAIN built' : OfBase(i)'
    BY <1>1, <2>3, <2>7, <2>11 DEF OwnersInv
  <2>14. OwnersInv'
    BY <1>1, <2>11, <2>12, <2>13 DEF OwnersInv
  <2>. QED BY <2>10, <2>14 DEF RoutingInv
<1>. QED BY <1>2, <1>6, <1>7

LEMMA RouterStarts ==
  ASSUME RoutingInv, RouterReady PROVE RoutingInv'
<1>1. RoutesInv /\ OwnersInv
  BY DEF RoutingInv
<1>2. /\ next = Len(Rules) + 1 /\ next' = next + 1 /\ routes # <<>>
      /\ default' = IF default = 0 THEN routes[1].id ELSE default
      /\ UNCHANGED <<built, routes, override, owned, headless, closed, adrift>>
  BY DEF RouterReady
<1>3. Len(Rules) \in Nat
  BY RoutingAssumption
<1>4. ~ Started /\ next' \in 1..Len(Rules) + 2
  BY <1>2, <1>3 DEF Started
<1>5. /\ built \in Seq(Provided) /\ routes \in Seq(RouteType) /\ default \in Nat
      /\ \A j \in DOMAIN routes : routes[j].id \in DOMAIN built
      /\ default # 0 => OfBase(default)
  BY <1>1 DEF RoutesInv
<1>6. 1 \in DOMAIN routes
  BY <1>2, <1>5
<1>7. default' \in Nat /\ default' # 0 /\ \E j \in DOMAIN routes : routes[j].id = default'
  <2>1. CASE default = 0
    <3>1. default' = routes[1].id /\ routes[1].id \in DOMAIN built
      BY <1>2, <1>5, <1>6, <2>1
    <3>. QED BY <1>5, <1>6, <3>1
  <2>2. CASE default # 0
    BY <1>2, <1>5, <2>2 DEF OfBase
  <2>. QED BY <2>1, <2>2
<1>8. RoutesInv'
  BY <1>2, <1>4, <1>5, <1>7 DEF RoutesInv, OfBase
<1>9. OwnersInv'
  BY <1>1, <1>2, <1>4 DEF OwnersInv, OfBase
<1>. QED BY <1>8, <1>9 DEF RoutingInv

\* The end of a run: what it owned is closed or adrift.
LEMMA RunEnds ==
  ASSUME RoutingInv, NEW r \in Runs, override[r] # None,
         closed \subseteq closed', adrift \subseteq adrift', owned[r] \subseteq closed' \cup adrift',
         closed' \cup adrift' \subseteq DOMAIN built, Queued => closed' \subseteq closed \cup owned[r],
         override' = [override EXCEPT ![r] = None], headless' = headless \ {r},
         UNCHANGED <<next, built, routes, default, owned>>
  PROVE  RoutingInv'
<1>1. RoutesInv /\ OwnersInv
  BY DEF RoutingInv
<1>2. RoutesInv'
  BY <1>1 DEF RoutesInv, Started, OfBase
<1>3. /\ override' \in [Runs -> {None} \cup Seq(RouteType)] /\ override'[r] = None
      /\ \A q \in Runs : q # r => override'[q] = override[q]
  BY <1>1 DEF OwnersInv
<1>4. \A i : OfBase(i)' <=> OfBase(i)
  BY DEF OfBase
<1>5. Started' <=> Started
  BY DEF Started
<1>6. Queued => \A i \in closed' : \E q \in Runs : override'[q] = None /\ i \in owned[q]
  BY <1>1, <1>3 DEF OwnersInv
<1>7. \A q \in Runs : override'[q] = None => owned[q] \subseteq closed' \cup adrift'
  BY <1>1, <1>3 DEF OwnersInv
<1>8. \A q \in Runs : override'[q] # None =>
        \A k \in DOMAIN override'[q] :
          override'[q][k].id \in owned[q] \/ OfBase(override'[q][k].id)
  BY <1>1, <1>3 DEF OwnersInv
<1>9. OwnersInv'
  <2>1. \A q \in Runs : ~Started => override'[q] = None /\ owned[q] = {}
    BY <1>1, <1>3 DEF OwnersInv
  <2>2. /\ \A i \in DOMAIN built : OfBase(i) \/ \E q \in Runs : i \in owned[q]
        /\ \A q \in Runs : \A i \in owned[q] : ~OfBase(i) /\ \A v \in Runs \ {q} : i \notin owned[v]
        /\ owned \in [Runs -> SUBSET Nat] /\ \A q \in Runs : owned[q] \subseteq DOMAIN built
        /\ headless' \subseteq Runs
    BY <1>1 DEF OwnersInv
  <2>. QED BY <1>3, <1>5, <1>6, <1>7, <1>8, <2>1, <2>2 DEF OwnersInv, OfBase
<1>. QED BY <1>2, <1>9 DEF RoutingInv

LEMMA RunCloses ==
  ASSUME RoutingInv, NEW r \in Runs, CloseOverride(r) PROVE RoutingInv'
<1>1. RoutesInv /\ OwnersInv
  BY DEF RoutingInv
<1>2. override[r] # None /\ Started /\ owned[r] \subseteq DOMAIN built
      /\ closed \cup adrift \subseteq DOMAIN built
  BY <1>1 DEF CloseOverride, OwnersInv
<1>3. Route(override[r], "task", "headless", DefaultOf(r)) \in DOMAIN built
  <2> DEFINE S == DOMAIN built
             rs == override[r]
  <2>1. rs \in Seq(RouteType) /\ \A k \in DOMAIN rs : rs[k].id \in S
    BY <1>1, <1>2 DEF OwnersInv, RoutesInv, OfBase
  <2>2. default \in S
    BY <1>1, <1>2 DEF RoutesInv, OfBase
  <2> HIDE DEF S, rs
  <2>3. Route(rs, "task", "default", default) \in S
    BY <2>1, <2>2, RouteLeads
  <2> DEFINE other == Route(rs, "task", "default", default)
  <2> HIDE DEF other
  <2>4. Route(rs, "task", "headless", other) \in S
    BY <2>1, <2>3, RouteLeads DEF other
  <2>. QED BY <2>4 DEF S, rs, other, DefaultOf
<1>4. /\ ClosedBy(r) \subseteq DOMAIN built /\ (Queued => ClosedBy(r) \subseteq owned[r])
      /\ r \notin headless => ClosedBy(r) = owned[r]
  BY <1>2, <1>3 DEF ClosedBy
<1>5. /\ closed' = closed \cup ClosedBy(r)
      /\ adrift' = IF r \in headless THEN adrift \cup owned[r] ELSE adrift
      /\ override' = [override EXCEPT ![r] = None] /\ headless' = headless \ {r}
      /\ UNCHANGED <<next, built, routes, default, owned>>
  BY DEF CloseOverride
<1>6. /\ closed \subseteq closed' /\ adrift \subseteq adrift' /\ owned[r] \subseteq closed' \cup adrift'
      /\ closed' \cup adrift' \subseteq DOMAIN built /\ (Queued => closed' \subseteq closed \cup owned[r])
  BY <1>2, <1>4, <1>5
<1>. QED BY <1>2, <1>5, <1>6, RunEnds

LEMMA PrologueEnds ==
  ASSUME RoutingInv, NEW r \in Runs, PrologueFails(r) PROVE RoutingInv'
<1>1. owned[r] \subseteq DOMAIN built /\ closed \cup adrift \subseteq DOMAIN built
  BY DEF RoutingInv, OwnersInv
<1>2. /\ override[r] # None /\ closed' = closed /\ adrift' = adrift \cup owned[r]
      /\ override' = [override EXCEPT ![r] = None] /\ headless' = headless \ {r}
      /\ UNCHANGED <<next, built, routes, default, owned>>
  BY DEF PrologueFails
<1>. QED BY <1>1, <1>2, RunEnds

LEMMA RunStarts ==
  ASSUME RoutingInv, NEW r \in Runs, NEW quiet \in BOOLEAN, Plain(r, quiet) PROVE RoutingInv'
<1>1. RoutesInv /\ OwnersInv
  BY DEF RoutingInv
<1>2. /\ Started /\ override[r] = None /\ owned[r] = {} /\ headless' \subseteq headless \cup {r}
      /\ override' = [override EXCEPT ![r] = routes]
      /\ UNCHANGED <<next, built, routes, default, owned, closed, adrift>>
  BY DEF Plain, Starts
<1>3. routes \in Seq(RouteType) /\ routes # None
  BY <1>1, RoutingAssumption DEF RoutesInv
<1>4. /\ override' \in [Runs -> {None} \cup Seq(RouteType)] /\ override'[r] = routes
      /\ \A q \in Runs : q # r => override'[q] = override[q]
  BY <1>1, <1>2, <1>3 DEF OwnersInv
<1>5. RoutesInv'
  BY <1>1, <1>2 DEF RoutesInv, Started, OfBase
<1>6. OwnersInv'
  <2>1. Queued => \A i \in closed : \E q \in Runs : override'[q] = None /\ i \in owned[q]
    BY <1>1, <1>2, <1>4 DEF OwnersInv
  <2>2. \A q \in Runs : override'[q] = None => owned[q] \subseteq closed \cup adrift
    BY <1>1, <1>3, <1>4 DEF OwnersInv
  <2>3. \A q \in Runs : override'[q] # None =>
          \A k \in DOMAIN override'[q] :
            override'[q][k].id \in owned[q] \/ OfBase(override'[q][k].id)
    BY <1>1, <1>4 DEF OwnersInv, OfBase
  <2>4. /\ \A i \in DOMAIN built : OfBase(i) \/ \E q \in Runs : i \in owned[q]
        /\ \A q \in Runs : \A i \in owned[q] : ~OfBase(i) /\ \A v \in Runs \ {q} : i \notin owned[v]
        /\ owned \in [Runs -> SUBSET Nat] /\ \A q \in Runs : owned[q] \subseteq DOMAIN built
        /\ headless' \subseteq Runs /\ closed \cup adrift \subseteq DOMAIN built
    BY <1>1, <1>2 DEF OwnersInv
  <2>5. Started'
    BY <1>2 DEF Started
  <2>. QED BY <1>2, <1>4, <2>1, <2>2, <2>3, <2>4, <2>5 DEF OwnersInv, OfBase
<1>. QED BY <1>5, <1>6 DEF RoutingInv

LEMMA RunOverrides ==
  ASSUME RoutingInv, NEW r \in Runs, NEW quiet \in BOOLEAN,
         NEW name \in DOMAIN Profiles \cup {None},
         NEW model \in {None} \cup {Rules[i].model : i \in DOMAIN Rules},
         NEW adhoc \in BOOLEAN, NEW all \in BOOLEAN, NEW lost \in SUBSET Conns,
         Override(r, quiet, name, model, adhoc, all, lost)
  PROVE  RoutingInv'
<1> DEFINE fresh(i) == Selected(routes[i], all) /\ built[routes[i].id].conn \notin lost
           before(i) == Cardinality({j \in 1..(i - 1) : fresh(j)})
           N == Len(routes)
           B == Len(built)
           lists == [i \in DOMAIN routes |-> IF fresh(i) THEN <<Rebuilt(routes[i], name, model, adhoc)>> ELSE <<>>]
           news == FlattenSeq(lists)
           rs == [i \in DOMAIN routes |-> IF fresh(i) THEN [routes[i] EXCEPT !.id = B + before(i) + 1]
                                          ELSE routes[i]]
           own == (B + 1)..(B + Len(news))
<1>1. RoutesInv /\ OwnersInv
  BY DEF RoutingInv
<1>2. /\ built \in Seq(Provided) /\ routes \in Seq(RouteType)
      /\ \A j \in DOMAIN routes : routes[j].id \in DOMAIN built
  BY <1>1 DEF RoutesInv
<1>3. /\ Started /\ override[r] = None /\ owned[r] = {}
      /\ built' = built \o news /\ override' = [override EXCEPT ![r] = rs]
      /\ owned' = [owned EXCEPT ![r] = own]
      /\ headless' \subseteq headless \cup {r}
      /\ UNCHANGED <<next, routes, default, closed, adrift>>
  BY Zenon DEF Override, OverrideOf, Starts
<1>4. N \in Nat \ {0} /\ DOMAIN routes = 1..N /\ B \in Nat /\ DOMAIN built = 1..B
  <2>1. routes # <<>>
    BY <1>1, <1>3 DEF RoutesInv
  <2>. QED BY <1>2, <2>1, EmptySeq
<1>5. ASSUME NEW j \in DOMAIN routes PROVE Rebuilt(routes[j], name, model, adhoc) \in Provided
  <2> DEFINE old == built[routes[j].id]
  <2>1. old \in Provided
    BY <1>2
  <2>2. /\ old.conn \in {rule.conn : rule \in Range(Rules)}
        /\ old.model \in {rule.model : rule \in Range(Rules)}
        /\ old.name \in {rule.sampling : rule \in Range(Rules)} \cup DOMAIN Profiles
    <3> HIDE DEF old
    <3>. QED BY <2>1 DEF Provided
  <2>3. model # None => model \in {rule.model : rule \in Range(Rules)}
    BY DEF Range
  <2> DEFINE m == IF model = None THEN old.model ELSE model
             n == IF name = None THEN old.name ELSE name
             q == IF name = None /\ adhoc THEN Derived(old.name) ELSE Sampling(name, m)
  <2>4. Rebuilt(routes[j], name, model, adhoc) = Provider(old.conn, m, n, q)
    BY Zenon DEF Rebuilt
  <2>5. q \in Samplings(m)
    <3> HIDE DEF m, old
    <3>. QED BY SamplingIsSound
  <2> HIDE DEF old
  <2>6. /\ m \in {rule.model : rule \in Range(Rules)}
        /\ n \in {rule.sampling : rule \in Range(Rules)} \cup DOMAIN Profiles
    BY <2>2, <2>3
  <2> HIDE DEF m, n, q
  <2>. QED BY <2>2, <2>4, <2>5, <2>6, ProviderIsSound
<1> HIDE DEF fresh
<1>6. /\ lists \in Seq(Seq(Provided)) /\ Len(lists) = N /\ lists # <<>>
      /\ \A i \in 1..N : Len(lists[i]) = IF fresh(i) THEN 1 ELSE 0
  <2>1. \A i \in 1..N : lists[i] = IF fresh(i) THEN <<Rebuilt(routes[i], name, model, adhoc)>> ELSE <<>>
    BY <1>4
  <2>2. \A i \in 1..N : lists[i] \in Seq(Provided)
    BY <1>4, <1>5, <2>1
  <2>3. lists \in [1..N -> Seq(Provided)]
    BY <1>4, <2>2
  <2>4. \A i \in 1..N : Len(lists[i]) = IF fresh(i) THEN 1 ELSE 0
    BY <2>1
  <2> HIDE DEF lists
  <2>5. lists \in Seq(Seq(Provided)) /\ Len(lists) = N
    BY <1>4, <2>3
  <2>. QED BY <1>4, <2>4, <2>5, EmptySeq
<1> HIDE DEF lists
<1>7. news \in Seq(Provided) /\ Len(news) = Cardinality({i \in 1..N : fresh(i)})
  <2>1. {i \in 1..Len(lists) : Len(lists[i]) = 1} = {i \in 1..N : fresh(i)}
    <3>1. \A i \in 1..N : Len(lists[i]) = 1 <=> fresh(i)
      <4> TAKE i \in 1..N
      <4>1. Len(lists[i]) = IF fresh(i) THEN 1 ELSE 0
        BY <1>6
      <4>2. CASE fresh(i)
        BY <4>1, <4>2
      <4>3. CASE ~ fresh(i)
        <5>1. Len(lists[i]) = 0
          BY <4>1, <4>3
        <5>. QED BY <4>3, <5>1
      <4>. QED BY <4>2, <4>3
    <3>2. Len(lists) = N
      BY <1>6
    <3> HIDE DEF N
    <3>. QED BY <3>1, <3>2, Zenon
  <2>2. /\ FlattenSeq(lists) \in Seq(Provided)
        /\ Len(FlattenSeq(lists)) = Cardinality({i \in 1..Len(lists) : Len(lists[i]) = 1})
    BY <1>6, FlattenCounts
  <2>. QED BY <2>1, <2>2
<1> HIDE DEF news
<1>8. ASSUME NEW i \in 1..N, fresh(i)
      PROVE  before(i) \in Nat /\ before(i) < Len(news)
  <2> DEFINE F == {j \in 1..N : fresh(j)}
             G == {j \in 1..(i - 1) : fresh(j)}
  <2>1. IsFiniteSet(F)
    <3>1. IsFiniteSet(1..N)
      BY <1>4, FS_Interval
    <3>2. F \in SUBSET (1..N)
      OBVIOUS
    <3> HIDE DEF F
    <3>. QED BY <3>1, <3>2, FS_Subset
  <2>2. G \in SUBSET F /\ i \in F /\ i \notin G
    BY <1>4, <1>8
  <2> HIDE DEF F, G
  <2>3. IsFiniteSet(G) /\ Cardinality(G) <= Cardinality(F) /\ Cardinality(G) # Cardinality(F)
    BY <2>1, <2>2, FS_Subset
  <2>4. Cardinality(G) \in Nat /\ Cardinality(F) \in Nat
    BY <2>1, <2>3, FS_CardinalityType
  <2>. QED BY <1>7, <2>3, <2>4 DEF F, G
<1>9. ASSUME NEW i \in 1..N
      PROVE  rs[i] \in RouteType /\ (rs[i].id \in own \/ OfBase(rs[i].id))
  <2>1. routes[i] \in RouteType /\ i \in DOMAIN routes
    BY <1>2, <1>4
  <2>2. rs[i] = IF fresh(i) THEN [routes[i] EXCEPT !.id = B + before(i) + 1] ELSE routes[i]
    BY <2>1
  <2>3. CASE fresh(i)
    <3> DEFINE n == B + before(i) + 1
    <3>1. n \in Nat /\ n \in own
      <4>1. before(i) \in Nat /\ before(i) < Len(news)
        BY <1>8, <2>3, Zenon
      <4>2. Len(news) \in Nat
        BY <1>7
      <4> HIDE DEF before
      <4>. QED BY <1>4, <4>1, <4>2
    <3> HIDE DEF n
    <3>2. rs[i] = [routes[i] EXCEPT !.id = n]
      BY <2>2, <2>3 DEF n
    <3> HIDE DEF rs, own
    <3>3. rs[i] \in RouteType /\ rs[i].id = n
      BY <2>1, <3>1, <3>2 DEF RouteType
    <3>. QED BY <3>1, <3>3
  <2>4. CASE ~fresh(i)
    BY <2>1, <2>2, <2>4 DEF OfBase
  <2>. QED BY <2>3, <2>4
<1>10. rs \in Seq(RouteType) /\ DOMAIN rs = 1..N
  <2>1. DOMAIN rs = 1..N /\ rs \in [1..N -> RouteType]
    BY <1>4, <1>9
  <2> HIDE DEF rs
  <2>. QED BY <1>4, <2>1
<1>11. rs # None
  <2> HIDE DEF rs
  <2>. QED BY <1>10, RoutingAssumption
<1> HIDE DEF rs
<1>12. /\ built' \in Seq(Provided) /\ DOMAIN built' = DOMAIN built \cup own
       /\ own \cap DOMAIN built = {} /\ own \subseteq Nat
  <2>1. Len(news) \in Nat
    BY <1>7
  <2>2. built' \in Seq(Provided) /\ Len(built') = B + Len(news)
    BY <1>2, <1>3, <1>7, ConcatProperties
  <2>3. DOMAIN built' = 1..(B + Len(news))
    BY <2>2
  <2>. QED BY <1>4, <2>1, <2>2, <2>3
<1> HIDE DEF own, B, N
<1>13. /\ override' \in [Runs -> {None} \cup Seq(RouteType)] /\ override'[r] = rs
       /\ owned' \in [Runs -> SUBSET Nat] /\ owned'[r] = own
       /\ \A q \in Runs : q # r => override'[q] = override[q] /\ owned'[q] = owned[q]
  BY <1>1, <1>3, <1>10, <1>12 DEF OwnersInv
<1>14. /\ \A i : OfBase(i)' <=> OfBase(i)
       /\ \A i : OfBase(i) => i \in DOMAIN built
       /\ Started' <=> Started
  BY <1>2, <1>3 DEF OfBase, Started
<1>15. RoutesInv'
  BY <1>1, <1>3, <1>12, <1>14 DEF RoutesInv, OfBase
<1>16. OwnersInv'
  <2>1. \A q \in Runs : owned'[q] \subseteq DOMAIN built'
    BY <1>1, <1>12, <1>13 DEF OwnersInv
  <2>2. \A q \in Runs : \A i \in owned'[q] : ~OfBase(i) /\ \A v \in Runs \ {q} : i \notin owned'[v]
    <3> SUFFICES ASSUME NEW q \in Runs, NEW i \in owned'[q]
                 PROVE  ~OfBase(i) /\ \A v \in Runs \ {q} : i \notin owned'[v]
      OBVIOUS
    <3>1. CASE q = r
      BY <1>1, <1>12, <1>13, <1>14, <3>1 DEF OwnersInv
    <3>2. CASE q # r
      <4>1. i \in owned[q] /\ i \in DOMAIN built
        BY <1>1, <1>13, <3>2 DEF OwnersInv
      <4>2. \A v \in Runs \ {q} : i \notin owned'[v]
        BY <1>1, <1>12, <1>13, <4>1 DEF OwnersInv
      <4>. QED BY <1>1, <4>1, <4>2 DEF OwnersInv
    <3>. QED BY <3>1, <3>2
  <2>3. Queued => \A i \in closed : \E q \in Runs : override'[q] = None /\ i \in owned'[q]
    <3> SUFFICES ASSUME Queued, NEW i \in closed
                 PROVE  \E q \in Runs : override'[q] = None /\ i \in owned'[q]
      OBVIOUS
    <3>1. PICK q \in Runs : override[q] = None /\ i \in owned[q]
      BY <1>1 DEF OwnersInv
    <3>2. q # r
      BY <1>3, <3>1
    <3>. QED BY <1>13, <3>1, <3>2
  <2>4. \A i \in DOMAIN built' : OfBase(i) \/ \E q \in Runs : i \in owned'[q]
    <3> SUFFICES ASSUME NEW i \in DOMAIN built', ~OfBase(i) PROVE \E q \in Runs : i \in owned'[q]
      OBVIOUS
    <3>1. CASE i \in own
      BY <1>13, <3>1
    <3>2. CASE i \in DOMAIN built
      <4>1. PICK q \in Runs : i \in owned[q]
        BY <1>1, <3>2 DEF OwnersInv
      <4>2. q # r
        BY <1>3, <4>1
      <4>. QED BY <1>13, <4>1, <4>2
    <3>. QED BY <1>12, <3>1, <3>2
  <2>5. \A q \in Runs : override'[q] = None => owned'[q] \subseteq closed \cup adrift
    BY <1>1, <1>11, <1>13 DEF OwnersInv
  <2>6. \A q \in Runs : override'[q] # None =>
          \A k \in DOMAIN override'[q] :
            override'[q][k].id \in owned'[q] \/ OfBase(override'[q][k].id)
    <3> SUFFICES ASSUME NEW q \in Runs, override'[q] # None, NEW k \in DOMAIN override'[q]
                 PROVE  override'[q][k].id \in owned'[q] \/ OfBase(override'[q][k].id)
      OBVIOUS
    <3>1. CASE q = r
      BY <1>9, <1>10, <1>13, <3>1
    <3>2. CASE q # r
      BY <1>1, <1>13, <3>2 DEF OwnersInv
    <3>. QED BY <3>1, <3>2
  <2>7. /\ Started' /\ closed' = closed /\ adrift' = adrift
        /\ headless' \subseteq Runs /\ closed \cup adrift \subseteq DOMAIN built'
    BY <1>1, <1>3, <1>12, <1>14 DEF OwnersInv
  <2>. QED BY <1>13, <1>14, <2>1, <2>2, <2>3, <2>4, <2>5, <2>6, <2>7 DEF OwnersInv
<1>. QED BY <1>15, <1>16 DEF RoutingInv

LEMMA RoutingInvStep ==
  ASSUME RoutingInv, [RoutingNext]_routingVars
  PROVE  RoutingInv'
<1>1. CASE UNCHANGED routingVars
  BY <1>1 DEF routingVars, RoutingInv, RoutesInv, OwnersInv, OfBase, Started
<1>. QED BY <1>1, RuleAdded, RouterStarts, RunStarts, RunOverrides, RunCloses, PrologueEnds DEF RoutingNext

LEMMA RoutingTyped == RoutingInv => RoutingTypeOK
<1> SUFFICES ASSUME RoutingInv PROVE RoutingTypeOK
  OBVIOUS
<1>1. built \in Seq(Provided) /\ default \in Nat
  BY DEF RoutingInv, RoutesInv
<1>2. default # 0 => default \in DOMAIN built
  BY DEF RoutingInv, RoutesInv, OfBase
<1>3. default \in 0..Len(built)
  BY <1>1, <1>2
<1>4. closed \cup adrift \subseteq DOMAIN built /\ headless \subseteq Runs
  BY DEF RoutingInv, OwnersInv
<1>. QED BY <1>3, <1>4 DEF RoutingInv, RoutesInv, OwnersInv, RoutingTypeOK

\* What a curator has left and whose the gate is.

-----------------------------------------------------------------------------
(* The assembly of a streamed answer *)

(* What is assembled is a function of the answer and of what is sent of it. *)

\* the pieces of a block of which n parts are sent: its start, pieces and signature
FullLength(block) == 1 + Len(block.pieces) + (IF block.kind = "thinking" THEN 1 ELSE 0)
PrefixOf(block, n) ==
  SubSeq(block.pieces, 1, IF n = 0 THEN 0
                          ELSE IF n - 1 > Len(block.pieces) THEN Len(block.pieces) ELSE n - 1)

SaidParts(kind, blocks, s) == [i \in DOMAIN blocks |-> OfKind(kind, blocks[i], PrefixOf(blocks[i], s[i]))]
SaidOf(kind) == FlattenSeq(SaidParts(kind, answer.blocks, sent))
Begun(kind) == {i \in DOMAIN answer.blocks : Block(i).kind = kind /\ sent[i] # 0}
CallSoFar(block, n) == [id |-> block.id, tool |-> block.tool, args |-> PrefixOf(block, n)]
SignedYet(block, n) == IF n = FullLength(block) THEN block.signed ELSE FALSE
ThoughtSoFar(block, n) == [pieces |-> PrefixOf(block, n), signed |-> SignedYet(block, n)]
CallsSoFar == [i \in Begun("call") |-> CallSoFar(Block(i), sent[i])]
ThoughtsSoFar == [i \in Begun("thinking") |-> ThoughtSoFar(Block(i), sent[i])]

AnswerHolds ==
  /\ answer \in Answers /\ dialect \in Dialects
  /\ sent \in [DOMAIN answer.blocks -> Nat]
  /\ \A i \in DOMAIN answer.blocks : sent[i] <= FullLength(answer.blocks[i])
BlocksInOrder ==
  phase = "stream" /\ dialect = "anthropic" =>
    \A j \in DOMAIN answer.blocks : sent[j] # 0 =>
      \A i \in 1..(j - 1) : sent[i] = FullLength(answer.blocks[i])
PartsHold ==
  phase = "stream" =>
    parts \in [text : {SaidOf("text")}, reasoning : {SaidOf("thinking")},
               opaque : {ThoughtsSoFar}, calls : {CallsSoFar}]

StreamInv == AnswerHolds /\ BlocksInOrder /\ PartsHold /\ StreamMatchesWhole

LEMMA AnswerType ==
  ASSUME NEW m \in Answers
  PROVE  /\ m.blocks \in Seq(Range(m.blocks))
         /\ DOMAIN m.blocks = 1..Len(m.blocks) /\ Len(m.blocks) \in Nat
         /\ \A i \in DOMAIN m.blocks : /\ m.blocks[i].kind \in {"text", "thinking", "call"}
                                       /\ m.blocks[i].pieces \in Seq(STRING)
                                       /\ Len(m.blocks[i].pieces) \in Nat
         /\ "openai" \in Dialects => \A i, j \in DOMAIN m.blocks :
              m.blocks[i].kind = m.blocks[j].kind /\ i # j => m.blocks[i].kind = "call"
<1>1. m.blocks \in Seq(Range(m.blocks))
  BY ModelStreamAssumption
<1>2. DOMAIN m.blocks = 1..Len(m.blocks) /\ Len(m.blocks) \in Nat
  BY <1>1, LenProperties
<1>3. \A i \in DOMAIN m.blocks : /\ m.blocks[i].kind \in {"text", "thinking", "call"}
                                 /\ m.blocks[i].pieces \in Seq(STRING)
  BY ModelStreamAssumption, Zenon
<1>4. \A i \in DOMAIN m.blocks : Len(m.blocks[i].pieces) \in Nat
  BY <1>3, LenProperties
<1>5. "openai" \in Dialects => \A i, j \in DOMAIN m.blocks :
        m.blocks[i].kind = m.blocks[j].kind /\ i # j => m.blocks[i].kind = "call"
  BY ModelStreamAssumption, Zenon
<1>. QED BY <1>1, <1>2, <1>3, <1>4, <1>5

\* The pieces sent are pieces of the block; before its start none, at its end all.
LEMMA PrefixType ==
  ASSUME NEW block, block.pieces \in Seq(STRING), NEW n \in Nat
  PROVE  /\ PrefixOf(block, n) \in Seq(STRING)
         /\ n \in {0, 1} => PrefixOf(block, n) = <<>>
         /\ n > Len(block.pieces) => PrefixOf(block, n) = block.pieces
<1> DEFINE p == block.pieces
           m == IF n = 0 THEN 0 ELSE IF n - 1 > Len(p) THEN Len(p) ELSE n - 1
<1>1. p \in Seq(STRING) /\ Len(p) \in Nat
  BY LenProperties
<1>2. m \in Int /\ m <= Len(p) /\ (n \in {0, 1} => m < 1) /\ (n > Len(p) => m = Len(p))
  BY <1>1
<1>3. PrefixOf(block, n) = SubSeq(p, 1, m)
  BY DEF PrefixOf
<1> HIDE DEF p, m
<1>4. \A i \in 1..m : p[i] \in STRING
  BY <1>1, <1>2, ElementOfSeq
<1>5. SubSeq(p, 1, m) \in Seq(STRING)
  BY <1>2, <1>4, SubSeqProperties
<1>6. m < 1 => SubSeq(p, 1, m) = <<>>
  BY <1>2, SubSeqEmpty
<1>7. SubSeq(p, 1, Len(p)) = p
  BY <1>1, SubSeqFull
<1>. QED BY <1>2, <1>3, <1>5, <1>6, <1>7 DEF p

\* k more pieces
LEMMA PrefixGrows ==
  ASSUME NEW block, block.pieces \in Seq(STRING), NEW n \in Nat, NEW k \in 1..2,
         n >= 1, n + k - 1 <= Len(block.pieces)
  PROVE  PrefixOf(block, n + k) = PrefixOf(block, n) \o SubSeq(block.pieces, n, n + k - 1)
<1> DEFINE p == block.pieces
           m == n - 1
           q == n + k - 1
<1>1. p \in Seq(STRING) /\ Len(p) \in Nat
  BY LenProperties
<1>2. /\ m \in Int /\ q \in Int /\ m + 1 = n /\ 1 <= m + 1 /\ m <= q /\ 1 \in Int
      /\ m \in (1 - 1)..q /\ 1 \in 1..(Len(p) + 1) /\ q \in 0..Len(p)
      /\ ~ (n = 0) /\ ~ (n - 1 > Len(p)) /\ ~ (n + k = 0) /\ ~ ((n + k) - 1 > Len(p))
      /\ (n + k) - 1 = q
  BY <1>1
<1>3. PrefixOf(block, n) = SubSeq(p, 1, m) /\ PrefixOf(block, n + k) = SubSeq(p, 1, q)
  BY <1>2 DEF PrefixOf
<1> HIDE DEF p, m, q
<1>4. SubSeq(p, 1, m) \o SubSeq(p, m + 1, q) = SubSeq(p, 1, q)
  BY <1>1, <1>2, ConcatAdjacentSubSeq
<1>. QED BY <1>2, <1>3, <1>4 DEF p, q

\* As long as the prefixes of the blocks are the same, so is what is joined of them.
LEMMA SaidSame ==
  ASSUME NEW kind, NEW m \in Answers, NEW s, NEW s9,
         \A i \in DOMAIN m.blocks : PrefixOf(m.blocks[i], s9[i]) = PrefixOf(m.blocks[i], s[i])
  PROVE  SaidParts(kind, m.blocks, s9) = SaidParts(kind, m.blocks, s)
BY DEF SaidParts

LEMMA SaidType ==
  ASSUME NEW kind, NEW m \in Answers, NEW s \in [DOMAIN m.blocks -> Nat]
  PROVE  /\ SaidParts(kind, m.blocks, s) \in Seq(Seq(STRING))
         /\ Len(SaidParts(kind, m.blocks, s)) = Len(m.blocks)
         /\ \A i \in DOMAIN m.blocks :
              SaidParts(kind, m.blocks, s)[i] = OfKind(kind, m.blocks[i], PrefixOf(m.blocks[i], s[i]))
<1> DEFINE n == Len(m.blocks)
           P(i) == OfKind(kind, m.blocks[i], PrefixOf(m.blocks[i], s[i]))
<1>1. n \in Nat /\ DOMAIN m.blocks = 1..n
  BY AnswerType
<1>2. \A i \in 1..n : P(i) \in Seq(STRING)
  <2>1. TAKE i \in 1..n
  <2>2. m.blocks[i].pieces \in Seq(STRING) /\ s[i] \in Nat
    BY <1>1, AnswerType
  <2>3. PrefixOf(m.blocks[i], s[i]) \in Seq(STRING)
    BY <2>2, PrefixType
  <2>. QED BY <2>3, EmptySeq DEF OfKind
<1>3. SaidParts(kind, m.blocks, s) = [i \in 1..n |-> P(i)]
  BY <1>1 DEF SaidParts
<1> HIDE DEF P, n
<1>4. /\ [i \in 1..n |-> P(i)] \in Seq(Seq(STRING)) /\ Len([i \in 1..n |-> P(i)]) = n
      /\ \A i \in 1..n : [j \in 1..n |-> P(j)][i] = P(i)
  <2>1. [i \in 1..n |-> P(i)] \in [1..n -> Seq(STRING)]
    BY <1>2
  <2>2. [i \in 1..n |-> P(i)] \in Seq(Seq(STRING))
    BY <1>1, <2>1, SeqDef
  <2>3. DOMAIN [i \in 1..n |-> P(i)] = 1..n
    OBVIOUS
  <2>4. Len([i \in 1..n |-> P(i)]) = n
    BY <1>1, <2>2, <2>3, LenProperties
  <2>. QED BY <2>2, <2>4
<1>. QED BY <1>1, <1>3, <1>4 DEF P, n

\* From s to s9, k pieces of block i are sent, and nothing else is; no later block of
\* the kind, if it is the block's kind, has been sent anything of.
SendsPieces(kind, blocks, s, s9, i, k) ==
  /\ s \in [DOMAIN blocks -> Nat] /\ s9 \in [DOMAIN blocks -> Nat]
  /\ i \in DOMAIN blocks /\ k \in 1..2
  /\ s[i] >= 1 /\ s[i] + k - 1 <= Len(blocks[i].pieces)
  /\ s9[i] = s[i] + k /\ \A j \in DOMAIN blocks : j # i => s9[j] = s[j]
  /\ \A j \in DOMAIN blocks : j > i /\ blocks[j].kind = kind /\ blocks[i].kind = kind => s[j] = 0

SaysMore(kind, blocks, s, s9, i, k) ==
  FlattenSeq(SaidParts(kind, blocks, s9)) =
    IF kind = blocks[i].kind
    THEN FlattenSeq(SaidParts(kind, blocks, s)) \o SubSeq(blocks[i].pieces, s[i], s[i] + k - 1)
    ELSE FlattenSeq(SaidParts(kind, blocks, s))

\* The pieces are appended to what the kind says.
LEMMA SaidGrows ==
  ASSUME NEW kind, NEW m \in Answers, NEW s, NEW s9, NEW i, NEW k,
         SendsPieces(kind, m.blocks, s, s9, i, k)
  PROVE  SaysMore(kind, m.blocks, s, s9, i, k)
<1>0. /\ s \in [DOMAIN m.blocks -> Nat] /\ s9 \in [DOMAIN m.blocks -> Nat]
      /\ i \in DOMAIN m.blocks /\ k \in 1..2
      /\ s[i] >= 1 /\ s[i] + k - 1 <= Len(m.blocks[i].pieces)
      /\ s9[i] = s[i] + k /\ \A j \in DOMAIN m.blocks : j # i => s9[j] = s[j]
      /\ \A j \in DOMAIN m.blocks :
           j > i /\ m.blocks[j].kind = kind /\ m.blocks[i].kind = kind => s[j] = 0
  BY DEF SendsPieces
<1> DEFINE blk == m.blocks
           old == SaidParts(kind, blk, s)
           new == SaidParts(kind, blk, s9)
           more == SubSeq(blk[i].pieces, s[i], s[i] + k - 1)
<1>1. /\ old \in Seq(Seq(STRING)) /\ new \in Seq(Seq(STRING))
      /\ Len(old) = Len(blk) /\ Len(new) = Len(blk) /\ DOMAIN blk = 1..Len(blk)
      /\ \A j \in DOMAIN blk : /\ old[j] = OfKind(kind, blk[j], PrefixOf(blk[j], s[j]))
                             /\ new[j] = OfKind(kind, blk[j], PrefixOf(blk[j], s9[j]))
  BY <1>0, SaidType, AnswerType
<1>2. blk[i].pieces \in Seq(STRING) /\ s[i] \in Nat /\ s[i] + k \in Nat
  BY <1>0, AnswerType
<1>3. \A j \in DOMAIN blk : j # i => new[j] = old[j]
  BY <1>0, <1>1
<1>4. PrefixOf(blk[i], s9[i]) = PrefixOf(blk[i], s[i]) \o more
  BY <1>0, <1>2, PrefixGrows
<1>5. more \in Seq(STRING)
  <2>1. \A j \in s[i]..(s[i] + k - 1) : blk[i].pieces[j] \in STRING
    BY <1>0, <1>2, ElementOfSeq
  <2>. QED BY <1>0, <1>2, <2>1, SubSeqProperties
<1>6. CASE kind # blk[i].kind
  <2>1. new[i] = old[i]
    BY <1>0, <1>1, <1>6 DEF OfKind
  <2>2. new = old
    <3>1. \A j \in 1..Len(blk) : new[j] = old[j]
      BY <1>1, <1>3, <2>1
    <3>. QED BY <1>1, <3>1, SeqEqual
  <2>. QED BY <1>6, <2>2 DEF SaysMore
<1>7. CASE kind = blk[i].kind
  <2>1. new[i] = old[i] \o more
    BY <1>0, <1>1, <1>4, <1>7 DEF OfKind
  <2>2. \A j \in DOMAIN blk : j > i => old[j] = <<>>
    <3>1. TAKE j \in DOMAIN blk
    <3>2. HAVE j > i
    <3>3. CASE blk[j].kind # kind
      BY <1>1, <3>3 DEF OfKind
    <3>4. CASE blk[j].kind = kind
      <4>1. s[j] = 0 /\ blk[j].pieces \in Seq(STRING)
        BY <1>0, <1>7, <3>2, <3>4, AnswerType
      <4>2. PrefixOf(blk[j], s[j]) = <<>>
        BY <4>1, PrefixType
      <4>. QED BY <1>1, <4>2 DEF OfKind
    <3>. QED BY <3>3, <3>4
  <2> HIDE DEF old, new, more, blk
  <2>3. Lengthens(new, old, i, more)
    <3>1. \A j \in 1..Len(old) : new[j] = IF j = i THEN old[j] \o more ELSE old[j]
      BY <1>1, <1>3, <2>1
    <3>2. \A j \in 1..Len(old) : j > i => old[j] = <<>>
      BY <1>1, <2>2
    <3>3. i \in 1..Len(old)
      BY <1>0, <1>1 DEF blk
    <3>. QED BY <1>1, <3>1, <3>2, <3>3 DEF Lengthens
  <2>4. FlattenSeq(new) = FlattenSeq(old) \o more
    BY <1>1, <1>5, <2>3, FlattenAppends
  <2>. QED BY <1>7, <2>4 DEF old, new, more, blk, SaysMore
<1>. QED BY <1>6, <1>7 DEF SaysMore

\* An answer that is all sent has said its pieces.
LEMMA SaidWhole ==
  ASSUME NEW kind, NEW m \in Answers, NEW s \in [DOMAIN m.blocks -> Nat],
         \A i \in DOMAIN m.blocks : s[i] = FullLength(m.blocks[i])
  PROVE  /\ FlattenSeq(SaidParts(kind, m.blocks, s)) = Pieces(m, kind)
         /\ \A i \in DOMAIN m.blocks : PrefixOf(m.blocks[i], s[i]) = m.blocks[i].pieces
<1>1. \A i \in DOMAIN m.blocks : PrefixOf(m.blocks[i], s[i]) = m.blocks[i].pieces
  <2>1. TAKE i \in DOMAIN m.blocks
  <2>2. m.blocks[i].pieces \in Seq(STRING) /\ Len(m.blocks[i].pieces) \in Nat /\ s[i] \in Nat
    BY AnswerType
  <2>3. s[i] > Len(m.blocks[i].pieces)
    <3> DEFINE l == Len(m.blocks[i].pieces)
               thinks == m.blocks[i].kind = "thinking"
    <3>1. s[i] = 1 + l + (IF thinks THEN 1 ELSE 0) /\ l \in Nat
      BY <2>2, Zenon DEF FullLength
    <3> HIDE DEF l, thinks
    <3>2. 1 + l + (IF thinks THEN 1 ELSE 0) > l
      BY <3>1
    <3>. QED BY <3>1, <3>2 DEF l
  <2>. QED BY <2>2, <2>3, PrefixType
<1>. QED BY <1>1 DEF SaidParts, Pieces

LEMMA FullLengthType ==
  ASSUME NEW m \in Answers, NEW i \in DOMAIN m.blocks
  PROVE  /\ FullLength(m.blocks[i]) \in Nat
         /\ FullLength(m.blocks[i]) =
              1 + Len(m.blocks[i].pieces) + (IF m.blocks[i].kind = "thinking" THEN 1 ELSE 0)
         /\ Len(m.blocks[i].pieces) \in Nat
<1> DEFINE l == Len(m.blocks[i].pieces)
           thinks == m.blocks[i].kind = "thinking"
<1>1. l \in Nat
  BY AnswerType
<1>2. FullLength(m.blocks[i]) = 1 + l + (IF thinks THEN 1 ELSE 0)
  BY DEF FullLength
<1> HIDE DEF l, thinks
<1>3. FullLength(m.blocks[i]) \in Nat
  BY <1>1, <1>2
<1>. QED BY <1>1, <1>2, <1>3 DEF l, thinks

\* Sending k more of block i keeps the order of the blocks.
LEMMA SendingKeepsOrder ==
  ASSUME AnswerHolds, BlocksInOrder, NEW i \in DOMAIN sent, MaySend(i),
         NEW k \in Nat, Sends(i, k), sent[i] + k <= Length(i), UNCHANGED <<answer, dialect>>
  PROVE  /\ AnswerHolds' /\ BlocksInOrder'
         /\ i \in DOMAIN answer.blocks /\ sent[i] < Length(i) /\ sent[i] \in Nat
         /\ sent'[i] = sent[i] + k /\ \A j \in DOMAIN answer.blocks : j # i => sent'[j] = sent[j]
         /\ Length(i) = FullLength(Block(i))
<1> DEFINE blk == answer.blocks
           full(j) == FullLength(blk[j])
<1>1. /\ answer \in Answers /\ sent \in [DOMAIN blk -> Nat] /\ DOMAIN blk = 1..Len(blk) /\ Len(blk) \in Nat
      /\ i \in DOMAIN blk /\ \A j \in DOMAIN blk : sent[j] <= full(j) /\ full(j) \in Nat
  BY AnswerType, FullLengthType DEF AnswerHolds
<1>2. \A j \in DOMAIN blk : Length(j) = full(j)
  BY DEF Length, FullLength, Block
<1>3. /\ sent' \in [DOMAIN blk -> Nat] /\ sent'[i] = sent[i] + k
      /\ \A j \in DOMAIN blk : j # i => sent'[j] = sent[j]
  BY <1>1 DEF Sends
<1>4. sent[i] < Length(i)
  BY DEF MaySend, Unsent
<1>5. AnswerHolds'
  <2>1. \A j \in DOMAIN blk : sent'[j] <= full(j)
    BY <1>1, <1>2, <1>3
  <2>. QED BY <1>1, <1>3, <2>1 DEF AnswerHolds
<1>6. BlocksInOrder'
  <2>1. SUFFICES ASSUME dialect = "anthropic", NEW j \in DOMAIN blk, sent'[j] # 0,
                        NEW h \in 1..(j - 1)
                 PROVE  sent'[h] = full(h)
    BY DEF BlocksInOrder
  <2>2. h \in DOMAIN blk /\ h \in 1..(j - 1) /\ j \in Int /\ h \in Int /\ h < j /\ h >= 1
    BY <1>1
  <2>3. CASE j = i
    <3>1. ~Unsent(h)
      BY <2>1, <2>2, <2>3 DEF MaySend
    <3>2. ~(sent[h] < Length(h))
      BY <1>1, <2>2, <3>1 DEF Unsent
    <3>3. sent[h] = full(h)
      BY <1>1, <1>2, <2>2, <3>2
    <3>. QED BY <1>3, <2>2, <2>3, <3>3
  <2>4. CASE j # i
    <3>1. sent[j] # 0
      BY <1>3, <2>1, <2>4
    <3>2. sent[h] = full(h)
      BY <2>1, <2>2, <3>1 DEF BlocksInOrder, MaySend
    <3>3. h # i
      BY <1>1, <1>2, <1>4, <3>2
    <3>. QED BY <1>3, <2>2, <3>2, <3>3
  <2>. QED BY <2>3, <2>4
<1>. QED BY <1>1, <1>2, <1>3, <1>4, <1>5, <1>6 DEF Block

\* what sending of block i changes of the calls and of the thinking
LEMMA MapsStep ==
  ASSUME AnswerHolds, NEW i \in DOMAIN answer.blocks, answer' = answer,
         AnswerHolds', sent'[i] # 0, \A j \in DOMAIN answer.blocks : j # i => sent'[j] = sent[j]
  PROVE  /\ CallsSoFar' = IF Block(i).kind = "call"
                          THEN WithBlock(CallsSoFar, i, CallSoFar(Block(i), sent'[i]))
                          ELSE CallsSoFar
         /\ ThoughtsSoFar' = IF Block(i).kind = "thinking"
                             THEN WithBlock(ThoughtsSoFar, i, ThoughtSoFar(Block(i), sent'[i]))
                             ELSE ThoughtsSoFar
<1>1. \A j \in DOMAIN answer.blocks : Block(j)' = Block(j)
  BY DEF Block
<1>2. ASSUME NEW kind
      PROVE  Begun(kind)' = IF Block(i).kind = kind THEN Begun(kind) \cup {i} ELSE Begun(kind)
  BY <1>1 DEF Begun
<1>3. DOMAIN CallsSoFar = Begun("call") /\ DOMAIN ThoughtsSoFar = Begun("thinking")
  BY DEF CallsSoFar, ThoughtsSoFar
<1>4. CallsSoFar' = IF Block(i).kind = "call"
                    THEN WithBlock(CallsSoFar, i, CallSoFar(Block(i), sent'[i]))
                    ELSE CallsSoFar
  <2>1. CallsSoFar' = [j \in Begun("call")' |-> CallSoFar(Block(j), sent'[j])]
    BY <1>1 DEF CallsSoFar, Begun
  <2>2. CASE Block(i).kind = "call"
    <3>1. Begun("call")' = Begun("call") \cup {i}
      BY <1>2, <2>2
    <3>2. \A j \in Begun("call") : j # i => CallSoFar(Block(j), sent'[j]) = CallsSoFar[j]
      BY DEF CallsSoFar, Begun
    <3>. QED BY <1>3, <2>1, <2>2, <3>1, <3>2 DEF WithBlock
  <2>3. CASE Block(i).kind # "call"
    <3>1. Begun("call")' = Begun("call")
      BY <1>2, <2>3
    <3>2. \A j \in Begun("call") : sent'[j] = sent[j]
      BY <2>3 DEF Begun
    <3>. QED BY <2>1, <2>3, <3>1, <3>2 DEF CallsSoFar
  <2>. QED BY <2>2, <2>3
<1>5. ThoughtsSoFar' = IF Block(i).kind = "thinking"
                       THEN WithBlock(ThoughtsSoFar, i, ThoughtSoFar(Block(i), sent'[i]))
                       ELSE ThoughtsSoFar
  <2>1. ThoughtsSoFar' = [j \in Begun("thinking")' |-> ThoughtSoFar(Block(j), sent'[j])]
    BY <1>1 DEF ThoughtsSoFar, Begun
  <2>2. CASE Block(i).kind = "thinking"
    <3>1. Begun("thinking")' = Begun("thinking") \cup {i}
      BY <1>2, <2>2
    <3>2. \A j \in Begun("thinking") : j # i => ThoughtSoFar(Block(j), sent'[j]) = ThoughtsSoFar[j]
      BY DEF ThoughtsSoFar, Begun
    <3>. QED BY <1>3, <2>1, <2>2, <3>1, <3>2 DEF WithBlock
  <2>3. CASE Block(i).kind # "thinking"
    <3>1. Begun("thinking")' = Begun("thinking")
      BY <1>2, <2>3
    <3>2. \A j \in Begun("thinking") : sent'[j] = sent[j]
      BY <2>3 DEF Begun
    <3>. QED BY <2>1, <2>3, <3>1, <3>2 DEF ThoughtsSoFar
  <2>. QED BY <2>2, <2>3
<1>. QED BY <1>4, <1>5

\* a value put where there is one already
LEMMA PutIsWith ==
  ASSUME NEW D, NEW f, DOMAIN f = D, f = [j \in D |-> f[j]], NEW i \in D, NEW v
  PROVE  [f EXCEPT ![i] = v] = WithBlock(f, i, v)
BY DEF WithBlock

LEMMA BlockStartKeeps ==
  ASSUME StreamInv, NEW i \in DOMAIN sent, BlockStart(i)
  PROVE  AnswerHolds' /\ BlocksInOrder' /\ PartsHold'
<1> DEFINE blk == Block(i)
<1>1. /\ MaySend(i) /\ Sends(i, 1) /\ sent[i] = 0 /\ phase = "stream"
      /\ UNCHANGED <<answer, dialect>>
  BY DEF BlockStart, MaySend
<1>2. i \in DOMAIN answer.blocks /\ answer \in Answers /\ DOMAIN sent = DOMAIN answer.blocks
  BY DEF StreamInv, AnswerHolds
<1>3. /\ FullLength(blk) = 1 + Len(blk.pieces) + (IF blk.kind = "thinking" THEN 1 ELSE 0)
      /\ Len(blk.pieces) \in Nat /\ Length(i) = FullLength(blk) /\ FullLength(blk) \in Nat
      /\ blk.pieces \in Seq(STRING) /\ blk.kind \in {"text", "thinking", "call"}
  <2>1. Length(i) = FullLength(blk)
    BY DEF Length, FullLength
  <2>2. blk = answer.blocks[i]
    BY DEF Block
  <2> HIDE DEF blk
  <2>3. blk.pieces \in Seq(STRING) /\ blk.kind \in {"text", "thinking", "call"}
    BY <1>2, <2>2, AnswerType
  <2>4. /\ FullLength(blk) = 1 + Len(blk.pieces) + (IF blk.kind = "thinking" THEN 1 ELSE 0)
        /\ Len(blk.pieces) \in Nat /\ FullLength(blk) \in Nat
    BY <1>2, <2>2, FullLengthType
  <2>. QED BY <2>1, <2>3, <2>4
<1>4. sent[i] + 1 <= Length(i) /\ (blk.kind = "thinking" => FullLength(blk) # 1)
  <2> DEFINE l == Len(blk.pieces)
             full == FullLength(blk)
             thinks == blk.kind = "thinking"
  <2>1. full = 1 + l + (IF thinks THEN 1 ELSE 0) /\ l \in Nat
    BY <1>3, Zenon
  <2> HIDE DEF l, full, thinks
  <2>2. 1 <= full /\ (thinks => full # 1)
    BY <2>1
  <2>3. sent[i] + 1 = 1 /\ Length(i) = full
    BY <1>1, <1>3 DEF full
  <2>. QED BY <2>2, <2>3 DEF full, thinks
<1>5. /\ AnswerHolds' /\ BlocksInOrder' /\ sent'[i] = 1
      /\ \A j \in DOMAIN answer.blocks : j # i => sent'[j] = sent[j]
  BY <1>1, <1>4, SendingKeepsOrder DEF StreamInv
<1>6. /\ PrefixOf(blk, 0) = <<>> /\ PrefixOf(blk, 1) = <<>>
  BY <1>3, PrefixType
<1>7. ASSUME NEW kind PROVE SaidOf(kind)' = SaidOf(kind)
  <2>1. \A j \in DOMAIN answer.blocks :
          PrefixOf(answer.blocks[j], sent'[j]) = PrefixOf(answer.blocks[j], sent[j])
    <3>1. TAKE j \in DOMAIN answer.blocks
    <3>2. CASE j = i
      BY <1>1, <1>5, <1>6, <3>2 DEF Block
    <3>3. CASE j # i
      BY <1>5, <3>3
    <3>. QED BY <3>2, <3>3
  <2>2. SaidParts(kind, answer.blocks, sent') = SaidParts(kind, answer.blocks, sent)
    BY <2>1, Zenon DEF SaidParts
  <2>. QED BY <1>1, <2>2 DEF SaidOf
<1>8. /\ CallsSoFar' = IF blk.kind = "call"
                       THEN WithBlock(CallsSoFar, i, CallSoFar(blk, 1)) ELSE CallsSoFar
      /\ ThoughtsSoFar' = IF blk.kind = "thinking"
                          THEN WithBlock(ThoughtsSoFar, i, ThoughtSoFar(blk, 1)) ELSE ThoughtsSoFar
  BY <1>1, <1>2, <1>5, MapsStep DEF StreamInv
<1>9. /\ CallSoFar(blk, 1) = [id |-> blk.id, tool |-> blk.tool, args |-> <<>>]
      /\ blk.kind = "thinking" => ThoughtSoFar(blk, 1) = [pieces |-> <<>>, signed |-> FALSE]
  BY <1>4, <1>6 DEF CallSoFar, ThoughtSoFar, SignedYet
<1>10. parts \in [text : {SaidOf("text")}, reasoning : {SaidOf("thinking")},
                  opaque : {ThoughtsSoFar}, calls : {CallsSoFar}]
  BY <1>1 DEF StreamInv, PartsHold
<1>11. /\ SaidOf("text")' = SaidOf("text") /\ SaidOf("thinking")' = SaidOf("thinking")
  BY <1>7
<1>12. PartsHold'
  <2>1. SUFFICES ASSUME phase' = "stream"
                 PROVE  parts' \in [text : {SaidOf("text")}, reasoning : {SaidOf("thinking")},
                                    opaque : {ThoughtsSoFar'}, calls : {CallsSoFar'}]
    BY <1>11 DEF PartsHold
  <2>2. CASE blk.kind = "call"
    <3>1. parts' = [parts EXCEPT !.calls = WithBlock(@, i, [id |-> blk.id, tool |-> blk.tool, args |-> <<>>])]
      BY <2>1, <2>2 DEF BlockStart
    <3>2. CallsSoFar' = WithBlock(CallsSoFar, i, [id |-> blk.id, tool |-> blk.tool, args |-> <<>>])
          /\ ThoughtsSoFar' = ThoughtsSoFar
      BY <1>8, <1>9, <2>2
    <3>. QED BY <1>10, <3>1, <3>2
  <2>3. CASE blk.kind = "thinking"
    <3>1. parts' = [parts EXCEPT !.opaque = WithBlock(@, i, [pieces |-> <<>>, signed |-> FALSE])]
      BY <2>3 DEF BlockStart
    <3>2. ThoughtsSoFar' = WithBlock(ThoughtsSoFar, i, [pieces |-> <<>>, signed |-> FALSE])
          /\ CallsSoFar' = CallsSoFar
      BY <1>8, <1>9, <2>3
    <3>. QED BY <1>10, <3>1, <3>2
  <2>4. CASE blk.kind = "text"
    <3>1. parts' = parts
      BY <2>4 DEF BlockStart
    <3>. QED BY <1>8, <1>10, <2>4, <3>1
  <2>. QED BY <1>3, <2>2, <2>3, <2>4
<1>. QED BY <1>5, <1>12

LEMMA BlockFacts ==
  ASSUME AnswerHolds, NEW i \in DOMAIN sent
  PROVE  /\ i \in DOMAIN answer.blocks /\ answer \in Answers /\ Block(i) = answer.blocks[i]
         /\ DOMAIN sent = DOMAIN answer.blocks /\ sent \in [DOMAIN answer.blocks -> Nat]
         /\ Block(i).pieces \in Seq(STRING) /\ Block(i).kind \in {"text", "thinking", "call"}
         /\ FullLength(Block(i)) = 1 + Len(Block(i).pieces) + (IF Block(i).kind = "thinking" THEN 1 ELSE 0)
         /\ Len(Block(i).pieces) \in Nat /\ FullLength(Block(i)) \in Nat
         /\ Length(i) = FullLength(Block(i)) /\ sent[i] \in Nat
<1> DEFINE blk == Block(i)
<1>1. i \in DOMAIN answer.blocks /\ answer \in Answers /\ DOMAIN sent = DOMAIN answer.blocks
      /\ sent[i] \in Nat
  BY DEF AnswerHolds
<1>2. Length(i) = FullLength(blk)
  BY DEF Length, FullLength
<1>3. blk = answer.blocks[i]
  BY DEF Block
<1>10. sent \in [DOMAIN answer.blocks -> Nat]
  BY DEF AnswerHolds
<1> HIDE DEF blk
<1>4. blk.pieces \in Seq(STRING) /\ blk.kind \in {"text", "thinking", "call"}
  BY <1>1, <1>3, AnswerType
<1>5. FullLength(blk) = 1 + Len(blk.pieces) + (IF blk.kind = "thinking" THEN 1 ELSE 0)
      /\ Len(blk.pieces) \in Nat /\ FullLength(blk) \in Nat
  BY <1>1, <1>3, FullLengthType
<1>. QED BY <1>1, <1>2, <1>3, <1>4, <1>5, <1>10 DEF blk

LEMMA DeltaKeeps ==
  ASSUME StreamInv, NEW i \in DOMAIN sent, NEW k \in 1..2, Delta(i, k)
  PROVE  AnswerHolds' /\ BlocksInOrder' /\ PartsHold'
<1> DEFINE blk == Block(i)
           n == sent[i]
           more == PieceOf(i, k)
<1>1. /\ MaySend(i) /\ Sends(i, k) /\ Fits(i, k) /\ phase = "stream" /\ k \in Nat
      /\ UNCHANGED <<answer, dialect>>
  BY DEF Delta, MaySend
<1>2. /\ i \in DOMAIN answer.blocks /\ answer \in Answers /\ DOMAIN sent = DOMAIN answer.blocks
      /\ sent \in [DOMAIN answer.blocks -> Nat]
      /\ blk.pieces \in Seq(STRING) /\ blk.kind \in {"text", "thinking", "call"}
      /\ FullLength(blk) = 1 + Len(blk.pieces) + (IF blk.kind = "thinking" THEN 1 ELSE 0)
      /\ Len(blk.pieces) \in Nat /\ FullLength(blk) \in Nat
      /\ Length(i) = FullLength(blk) /\ n \in Nat
  BY BlockFacts DEF StreamInv
<1>3. n >= 1 /\ n + k - 1 <= Len(blk.pieces) /\ more = SubSeq(blk.pieces, n, n + k - 1)
  BY <1>1 DEF Fits, PieceOf
<1>4. n + k <= FullLength(blk) /\ n # FullLength(blk) /\ n < FullLength(blk) /\ n + k # 0 /\ n # 0
      /\ (blk.kind = "thinking" => n + k # FullLength(blk))
  <2> DEFINE l == Len(blk.pieces)
             full == FullLength(blk)
             thinks == blk.kind = "thinking"
  <2>1. full = 1 + l + (IF thinks THEN 1 ELSE 0) /\ l \in Nat
    BY <1>2, Zenon
  <2>2. n >= 1 /\ n + k - 1 <= l /\ n \in Nat
    BY <1>2, <1>3
  <2> HIDE DEF l, full, thinks, n
  <2>3. n + k <= full /\ n # full /\ n < full /\ n + k # 0 /\ n # 0 /\ (thinks => n + k # full)
    BY <2>1, <2>2
  <2>. QED BY <2>3 DEF full, thinks
<1>5. /\ AnswerHolds' /\ BlocksInOrder' /\ sent'[i] = n + k
      /\ \A j \in DOMAIN answer.blocks : j # i => sent'[j] = sent[j]
  BY <1>1, <1>2, <1>4, SendingKeepsOrder DEF StreamInv
<1>6. ASSUME NEW kind \in {"text", "thinking"}
      PROVE  SaidOf(kind)' = IF kind = blk.kind THEN SaidOf(kind) \o more ELSE SaidOf(kind)
  <2>1. \A j \in DOMAIN answer.blocks :
          j > i /\ answer.blocks[j].kind = kind /\ answer.blocks[i].kind = kind => sent[j] = 0
    <3>1. SUFFICES ASSUME NEW j \in DOMAIN answer.blocks, j > i, sent[j] # 0,
                          answer.blocks[j].kind = kind, answer.blocks[i].kind = kind
                   PROVE  FALSE
      OBVIOUS
    <3>2. dialect \in Dialects /\ dialect \in {"openai", "anthropic"}
      BY ModelStreamAssumption DEF StreamInv, AnswerHolds
    <3>3. DOMAIN answer.blocks = 1..Len(answer.blocks) /\ Len(answer.blocks) \in Nat
      BY <1>2, AnswerType
    <3>4. CASE dialect = "openai"
      <4>1. answer.blocks[i].kind = "call"
        <5>1. i # j /\ "openai" \in Dialects
          BY <1>2, <3>1, <3>2, <3>3, <3>4
        <5>2. answer.blocks[i].kind = answer.blocks[j].kind
          BY <3>1
        <5>. QED BY <1>2, <3>1, <5>1, <5>2, AnswerType, Zenon
      <4>. QED BY <3>1, <4>1
    <3>5. CASE dialect = "anthropic"
      <4>1. i \in 1..(j - 1)
        BY <1>2, <3>1, <3>3
      <4>2. sent[i] = FullLength(answer.blocks[i])
        BY <1>1, <3>1, <3>5, <4>1 DEF StreamInv, BlocksInOrder
      <4>. QED BY <1>4, <4>2 DEF Block
    <3>. QED BY <3>2, <3>4, <3>5
  <2>2. sent' \in [DOMAIN answer.blocks -> Nat]
    BY <1>1, <1>5 DEF AnswerHolds
  <2>3. blk = answer.blocks[i]
    BY DEF Block
  <2> HIDE DEF blk, n
  <2>4. FlattenSeq(SaidParts(kind, answer.blocks, sent')) =
           IF kind = blk.kind
           THEN FlattenSeq(SaidParts(kind, answer.blocks, sent)) \o SubSeq(blk.pieces, n, n + k - 1)
           ELSE FlattenSeq(SaidParts(kind, answer.blocks, sent))
    <3>1. SendsPieces(kind, answer.blocks, sent, sent', i, k)
      <4>1. sent[i] >= 1 /\ sent[i] + k - 1 <= Len(answer.blocks[i].pieces)
        BY <1>3, <2>3 DEF n
      <4>2. sent'[i] = sent[i] + k /\ \A j \in DOMAIN answer.blocks : j # i => sent'[j] = sent[j]
        BY <1>5 DEF n
      <4>. QED BY <1>2, <2>1, <2>2, <4>1, <4>2, Zenon DEF SendsPieces
    <3>2. SaysMore(kind, answer.blocks, sent, sent', i, k)
      BY <1>2, <3>1, SaidGrows
    <3>. QED BY <2>3, <3>2, Zenon DEF n, SaysMore
  <2>. QED BY <1>1, <1>3, <2>4 DEF SaidOf
<1>7. /\ CallsSoFar' = IF blk.kind = "call"
                       THEN WithBlock(CallsSoFar, i, CallSoFar(blk, n + k)) ELSE CallsSoFar
      /\ ThoughtsSoFar' = IF blk.kind = "thinking"
                          THEN WithBlock(ThoughtsSoFar, i, ThoughtSoFar(blk, n + k)) ELSE ThoughtsSoFar
  BY <1>1, <1>2, <1>4, <1>5, MapsStep DEF StreamInv
<1>8. PrefixOf(blk, n + k) = PrefixOf(blk, n) \o more
  BY <1>2, <1>3, PrefixGrows
<1>10. parts \in [text : {SaidOf("text")}, reasoning : {SaidOf("thinking")},
                  opaque : {ThoughtsSoFar}, calls : {CallsSoFar}]
  BY <1>1 DEF StreamInv, PartsHold
<1>11. PartsHold'
  <2>1. SUFFICES ASSUME phase' = "stream"
                 PROVE  parts' \in [text : {SaidOf("text")'}, reasoning : {SaidOf("thinking")'},
                                    opaque : {ThoughtsSoFar'}, calls : {CallsSoFar'}]
    BY DEF PartsHold
  <2>0. ~TooLong(i, k)
    BY <2>1 DEF Delta
  <2>2. CASE blk.kind = "call"
    <3>1. parts' = [parts EXCEPT !.calls[i] = Added(i, k, @)]
      BY <2>0, <2>2 DEF Delta
    <3>2. i \in Begun("call") /\ DOMAIN CallsSoFar = Begun("call")
          /\ CallsSoFar[i] = CallSoFar(blk, n)
      BY <1>2, <1>4, <2>2 DEF Begun, CallsSoFar
    <3>3. Added(i, k, CallsSoFar[i]) = CallSoFar(blk, n + k)
      <4>1. CallsSoFar[i] = [id |-> blk.id, tool |-> blk.tool, args |-> PrefixOf(blk, n)]
        BY <3>2 DEF CallSoFar
      <4>2. Added(i, k, CallsSoFar[i]) = [CallsSoFar[i] EXCEPT !.args = CallsSoFar[i].args \o more]
        BY DEF Added
      <4> HIDE DEF blk, n, more
      <4>3. Added(i, k, CallsSoFar[i]) = [id |-> blk.id, tool |-> blk.tool, args |-> PrefixOf(blk, n) \o more]
        <5> DEFINE r == CallsSoFar[i]
        <5>1. r \in [id : {blk.id}, tool : {blk.tool}, args : {PrefixOf(blk, n)}]
          BY <4>1
        <5> HIDE DEF r
        <5> DEFINE r9 == [r EXCEPT !.args = r.args \o more]
        <5>2. r9 \in
                [id : {blk.id}, tool : {blk.tool}, args : {PrefixOf(blk, n) \o more}]
          BY <5>1
        <5> HIDE DEF r9
        <5>3. r9 =
                [id |-> blk.id, tool |-> blk.tool, args |-> PrefixOf(blk, n) \o more]
          BY <5>2
        <5>. QED BY <4>2, <5>3 DEF r, r9
      <4>. QED BY <1>8, <4>3 DEF CallSoFar
    <3>4. CallsSoFar = [j \in Begun("call") |-> CallsSoFar[j]]
      BY DEF CallsSoFar
    <3> HIDE DEF blk, n, more
    <3>5. [CallsSoFar EXCEPT ![i] = CallSoFar(blk, n + k)] = WithBlock(CallsSoFar, i, CallSoFar(blk, n + k))
      BY <3>2, <3>4, PutIsWith
    <3>6. parts.calls = CallsSoFar
      BY <1>10
    <3>7. parts' = [parts EXCEPT !.calls = CallsSoFar']
      BY <1>7, <2>2, <3>1, <3>3, <3>5, <3>6
    <3>8. /\ SaidOf("text")' = SaidOf("text") /\ SaidOf("thinking")' = SaidOf("thinking")
          /\ ThoughtsSoFar' = ThoughtsSoFar
      BY <1>6, <1>7, <2>2
    <3>. QED BY <1>10, <3>7, <3>8
  <2>3. CASE blk.kind = "text"
    <3>1. parts' = [parts EXCEPT !.text = @ \o more]
      BY <2>0, <2>3 DEF Delta
    <3>2. /\ SaidOf("text")' = SaidOf("text") \o more /\ SaidOf("thinking")' = SaidOf("thinking")
          /\ ThoughtsSoFar' = ThoughtsSoFar /\ CallsSoFar' = CallsSoFar
      BY <1>6, <1>7, <2>3
    <3> HIDE DEF blk, n, more
    <3>. QED BY <1>10, <3>1, <3>2
  <2>4. CASE blk.kind = "thinking"
    <3>1. parts' = [parts EXCEPT !.reasoning = @ \o more, !.opaque[i].pieces = @ \o more]
      BY <2>0, <2>4 DEF Delta
    <3>2. i \in Begun("thinking") /\ DOMAIN ThoughtsSoFar = Begun("thinking")
          /\ ThoughtsSoFar[i] = ThoughtSoFar(blk, n)
      BY <1>2, <1>4, <2>4 DEF Begun, ThoughtsSoFar
    <3>3. [ThoughtsSoFar[i] EXCEPT !.pieces = ThoughtsSoFar[i].pieces \o more] = ThoughtSoFar(blk, n + k)
      <4>1. ThoughtsSoFar[i] = [pieces |-> PrefixOf(blk, n), signed |-> FALSE]
        BY <1>4, <3>2 DEF ThoughtSoFar, SignedYet
      <4>2. ThoughtSoFar(blk, n + k) = [pieces |-> PrefixOf(blk, n) \o more, signed |-> FALSE]
        BY <1>4, <1>8, <2>4 DEF ThoughtSoFar, SignedYet
      <4> HIDE DEF blk, n, more
      <4> DEFINE r == ThoughtsSoFar[i]
      <4>3. r \in [pieces : {PrefixOf(blk, n)}, signed : {FALSE}]
        BY <4>1
      <4> HIDE DEF r
      <4> DEFINE r9 == [r EXCEPT !.pieces = r.pieces \o more]
      <4>4. r9 \in [pieces : {PrefixOf(blk, n) \o more}, signed : {FALSE}]
        BY <4>3
      <4> HIDE DEF r9
      <4>5. r9 = [pieces |-> PrefixOf(blk, n) \o more, signed |-> FALSE]
        BY <4>4
      <4>. QED BY <4>2, <4>5 DEF r, r9
    <3>4. ThoughtsSoFar = [j \in Begun("thinking") |-> ThoughtsSoFar[j]]
      BY DEF ThoughtsSoFar
    <3> HIDE DEF blk, n, more
    <3>5. [ThoughtsSoFar EXCEPT ![i] = ThoughtSoFar(blk, n + k)] =
            WithBlock(ThoughtsSoFar, i, ThoughtSoFar(blk, n + k))
      BY <3>2, <3>4, PutIsWith
    <3>6. parts.opaque = ThoughtsSoFar
      BY <1>10
    <3>7. parts' = [parts EXCEPT !.reasoning = @ \o more, !.opaque = ThoughtsSoFar']
      BY <1>7, <2>4, <3>1, <3>3, <3>5, <3>6
    <3>8. /\ SaidOf("text")' = SaidOf("text") /\ SaidOf("thinking")' = SaidOf("thinking") \o more
          /\ CallsSoFar' = CallsSoFar
      BY <1>6, <1>7, <2>4
    <3>. QED BY <1>10, <3>7, <3>8
  <2>. QED BY <1>2, <2>2, <2>3, <2>4
<1>. QED BY <1>5, <1>11

LEMMA SignatureKeeps ==
  ASSUME StreamInv, NEW i \in DOMAIN sent, Signature(i)
  PROVE  AnswerHolds' /\ BlocksInOrder' /\ PartsHold'
<1> DEFINE blk == Block(i)
           n == sent[i]
<1>1. /\ MaySend(i) /\ Sends(i, 1) /\ phase = "stream" /\ blk.kind = "thinking"
      /\ n = Length(i) - 1 /\ n >= 1
      /\ UNCHANGED <<answer, dialect, phase>>
      /\ parts' = [parts EXCEPT !.opaque[i].signed = blk.signed]
  BY DEF Signature, MaySend
<1>2. /\ i \in DOMAIN answer.blocks /\ answer \in Answers /\ DOMAIN sent = DOMAIN answer.blocks
      /\ blk = answer.blocks[i]
      /\ blk.pieces \in Seq(STRING)
      /\ FullLength(blk) = 1 + Len(blk.pieces) + (IF blk.kind = "thinking" THEN 1 ELSE 0)
      /\ Len(blk.pieces) \in Nat /\ FullLength(blk) \in Nat
      /\ Length(i) = FullLength(blk) /\ n \in Nat
  BY BlockFacts DEF StreamInv
<1>3. FullLength(blk) = Len(blk.pieces) + 2
  BY <1>1, <1>2
<1>4. /\ n + 1 = FullLength(blk) /\ n # FullLength(blk) /\ n # 0 /\ n + 1 # 0 /\ n + 1 <= Length(i)
      /\ n > Len(blk.pieces) /\ n + 1 > Len(blk.pieces) /\ n + 1 \in Nat
  <2> DEFINE l == Len(blk.pieces)
             full == FullLength(blk)
  <2>1. n = full - 1 /\ full = l + 2 /\ l \in Nat /\ n \in Nat /\ full \in Nat
    BY <1>1, <1>2, <1>3
  <2> HIDE DEF l, full, n
  <2>2. n + 1 = full /\ n # full /\ n # 0 /\ n + 1 # 0 /\ n + 1 <= full
        /\ n > l /\ n + 1 > l /\ n + 1 \in Nat
    BY <2>1
  <2>. QED BY <1>2, <2>2 DEF l, full
<1>5. /\ AnswerHolds' /\ BlocksInOrder' /\ sent'[i] = n + 1
      /\ \A j \in DOMAIN answer.blocks : j # i => sent'[j] = sent[j]
  BY <1>1, <1>4, SendingKeepsOrder DEF StreamInv
<1>6. PrefixOf(blk, n + 1) = blk.pieces /\ PrefixOf(blk, n) = blk.pieces
  BY <1>2, <1>4, PrefixType
<1>7. ASSUME NEW kind PROVE SaidOf(kind)' = SaidOf(kind)
  <2>1. \A j \in DOMAIN answer.blocks :
          PrefixOf(answer.blocks[j], sent'[j]) = PrefixOf(answer.blocks[j], sent[j])
    <3>1. TAKE j \in DOMAIN answer.blocks
    <3>2. CASE j = i
      BY <1>2, <1>5, <1>6, <3>2
    <3>3. CASE j # i
      BY <1>5, <3>3
    <3>. QED BY <3>2, <3>3
  <2>2. SaidParts(kind, answer.blocks, sent') = SaidParts(kind, answer.blocks, sent)
    BY <2>1, Zenon DEF SaidParts
  <2>. QED BY <1>1, <2>2 DEF SaidOf
<1>8. /\ CallsSoFar' = CallsSoFar
      /\ ThoughtsSoFar' = WithBlock(ThoughtsSoFar, i, ThoughtSoFar(blk, n + 1))
  BY <1>1, <1>2, <1>4, <1>5, MapsStep DEF StreamInv
<1>10. parts \in [text : {SaidOf("text")}, reasoning : {SaidOf("thinking")},
                  opaque : {ThoughtsSoFar}, calls : {CallsSoFar}]
  BY <1>1 DEF StreamInv, PartsHold
<1>11. PartsHold'
  <2>2. i \in Begun("thinking") /\ DOMAIN ThoughtsSoFar = Begun("thinking")
        /\ ThoughtsSoFar[i] = ThoughtSoFar(blk, n)
    BY <1>1, <1>2, <1>4 DEF Begun, ThoughtsSoFar
  <2>3. [ThoughtsSoFar[i] EXCEPT !.signed = blk.signed] = ThoughtSoFar(blk, n + 1)
    <3>1. ThoughtsSoFar[i] = [pieces |-> blk.pieces, signed |-> FALSE]
      BY <1>4, <1>6, <2>2 DEF ThoughtSoFar, SignedYet
    <3>2. ThoughtSoFar(blk, n + 1) = [pieces |-> blk.pieces, signed |-> blk.signed]
      BY <1>4, <1>6 DEF ThoughtSoFar, SignedYet
    <3> DEFINE r == ThoughtsSoFar[i]
               r9 == [r EXCEPT !.signed = blk.signed]
    <3>3. r \in [pieces : {blk.pieces}, signed : {FALSE}]
      BY <3>1
    <3> HIDE DEF r
    <3>4. r9 \in [pieces : {blk.pieces}, signed : {blk.signed}]
      BY <3>3
    <3> HIDE DEF r9
    <3>5. r9 = [pieces |-> blk.pieces, signed |-> blk.signed]
      BY <3>4
    <3>. QED BY <3>2, <3>5 DEF r, r9
  <2>4. ThoughtsSoFar = [j \in Begun("thinking") |-> ThoughtsSoFar[j]]
    BY DEF ThoughtsSoFar
  <2> HIDE DEF blk, n
  <2>5. [ThoughtsSoFar EXCEPT ![i] = ThoughtSoFar(blk, n + 1)] =
          WithBlock(ThoughtsSoFar, i, ThoughtSoFar(blk, n + 1))
    BY <2>2, <2>4, PutIsWith
  <2>6. parts.opaque = ThoughtsSoFar
    BY <1>10
  <2>7. parts' = [parts EXCEPT !.opaque = ThoughtsSoFar']
    BY <1>1, <1>8, <2>3, <2>5, <2>6
  <2>8. /\ SaidOf("text")' = SaidOf("text") /\ SaidOf("thinking")' = SaidOf("thinking")
    BY <1>7
  <2>9. parts' \in [text : {SaidOf("text")'}, reasoning : {SaidOf("thinking")'},
                    opaque : {ThoughtsSoFar'}, calls : {CallsSoFar'}]
    BY <1>8, <1>10, <2>7, <2>8
  <2>. QED BY <2>9 DEF PartsHold
<1>. QED BY <1>5, <1>11

LEMMA StreamInvInit ==
  ASSUME StreamInit
  PROVE  StreamInv
<1>1. answer \in Answers /\ dialect \in Dialects /\ phase = "stream" /\ parts = NothingYet
      /\ sent = [i \in DOMAIN answer.blocks |-> 0]
  BY DEF StreamInit
<1>2. AnswerHolds
  <2>1. \A i \in DOMAIN answer.blocks : 0 <= FullLength(answer.blocks[i])
    <3>1. \A i \in DOMAIN answer.blocks : FullLength(answer.blocks[i]) \in Nat
      BY <1>1, FullLengthType
    <3>. QED BY <3>1
  <2>. QED BY <1>1, <2>1 DEF AnswerHolds
<1>3. BlocksInOrder
  BY <1>1 DEF BlocksInOrder
<1>4. ASSUME NEW kind PROVE SaidOf(kind) = <<>>
  <2> DEFINE P == SaidParts(kind, answer.blocks, sent)
  <2>1. P \in Seq(Seq(STRING)) /\ Len(P) = Len(answer.blocks)
        /\ \A i \in DOMAIN answer.blocks :
             P[i] = OfKind(kind, answer.blocks[i], PrefixOf(answer.blocks[i], sent[i]))
    BY <1>1, <1>2, SaidType DEF AnswerHolds
  <2>2. DOMAIN answer.blocks = 1..Len(answer.blocks)
    BY <1>1, AnswerType
  <2>3. \A i \in DOMAIN answer.blocks : PrefixOf(answer.blocks[i], 0) = <<>>
    <3>1. \A i \in DOMAIN answer.blocks : answer.blocks[i].pieces \in Seq(STRING)
      BY <1>1, AnswerType
    <3>. QED BY <3>1, PrefixType
  <2>4. \A i \in DOMAIN answer.blocks : sent[i] = 0
    BY <1>1
  <2> HIDE DEF P
  <2>5. \A i \in 1..Len(P) : P[i] = <<>>
    BY <2>1, <2>2, <2>3, <2>4 DEF OfKind
  <2>6. FlattenSeq(P) = <<>>
    BY <2>1, <2>5, FlattenNone
  <2>. QED BY <2>6 DEF P, SaidOf
<1>5. PartsHold
  <2>1. \A kind : Begun(kind) = {}
    BY <1>1 DEF Begun
  <2>2. CallsSoFar = [i \in {} |-> <<>>] /\ ThoughtsSoFar = [i \in {} |-> <<>>]
    BY <2>1 DEF CallsSoFar, ThoughtsSoFar
  <2>3. SaidOf("text") = <<>> /\ SaidOf("thinking") = <<>>
    BY <1>4
  <2>. QED BY <1>1, <2>2, <2>3 DEF PartsHold, NothingYet
<1>. QED BY <1>1, <1>2, <1>3, <1>5 DEF StreamInv, StreamMatchesWhole

\* A call with arguments and an id stays as it is.
LEMMA CallStays ==
  ASSUME NEW h, NEW t, NEW old, old # <<>>, h # None,
         NEW c9, c9 \in [id : {h}, tool : {t}, args : {old}]
  PROVE  /\ [c9 EXCEPT !.args = IF @ = <<>> THEN <<"{", "}">> ELSE @] = c9
         /\ c9.id # None
<1>1. c9.args = old /\ c9.id = h
  OBVIOUS
<1> DEFINE r9 == [c9 EXCEPT !.args = IF c9.args = <<>> THEN <<"{", "}">> ELSE c9.args]
<1>2. r9 = [c9 EXCEPT !.args = old]
  BY <1>1
<1>3. r9 \in [id : {h}, tool : {t}, args : {old}]
  BY <1>2
<1>4. c9 = [id |-> h, tool |-> t, args |-> old]
  OBVIOUS
<1>5. r9 = c9
  <2> HIDE DEF r9
  <2>. QED BY <1>3, <1>4
<1>. QED BY <1>1, <1>5

\* the calls of an answer whose calls are plain
PlainCalls(m) == \A i \in DOMAIN m.blocks : PlainCall(m.blocks[i])
LEMMA CallsArePlain ==
  ASSUME NEW m \in Answers, PlainCalls(m)
  PROVE  /\ \A k \in DOMAIN CallsOf(m) :
              /\ CallsOf(m)[k].id # None
              /\ [CallsOf(m)[k] EXCEPT !.args = IF @ = <<>> THEN <<"{", "}">> ELSE @] = CallsOf(m)[k]
         /\ CallsOf(m) = [k \in DOMAIN CallsOf(m) |-> CallsOf(m)[k]]
<1> DEFINE B == {j \in DOMAIN m.blocks : m.blocks[j].kind = "call"}
           S == {CallOf(m.blocks[j]) : j \in B}
           n == Len(m.blocks)
           P(i) == OfKind("call", m.blocks[i], <<CallOf(m.blocks[i])>>)
<1>1. n \in Nat /\ DOMAIN m.blocks = 1..n
  BY AnswerType
<1>2. \A i \in 1..n : P(i) \in Seq(S)
  <2>1. TAKE i \in 1..n
  <2>2. CASE i \in B
    <3>1. CallOf(m.blocks[i]) \in S
      BY <2>2
    <3>2. P(i) = <<CallOf(m.blocks[i])>>
      BY <2>2 DEF OfKind
    <3> HIDE DEF S, P
    <3>. QED BY <3>1, <3>2
  <2>3. CASE i \notin B
    <3>1. P(i) = <<>>
      BY <1>1, <2>3 DEF OfKind
    <3>. QED BY <3>1, EmptySeq
  <2>. QED BY <2>2, <2>3
<1>3. CallsOf(m) = FlattenSeq([i \in 1..n |-> P(i)])
  BY <1>1 DEF CallsOf
<1>4. ASSUME NEW c9 \in S
      PROVE  /\ c9.id # None
             /\ [c9 EXCEPT !.args = IF @ = <<>> THEN <<"{", "}">> ELSE @] = c9
  <2>1. PICK j \in B : c9 = CallOf(m.blocks[j])
    BY <1>4
  <2>2. m.blocks[j].pieces # <<>> /\ m.blocks[j].id # None
    BY <2>1 DEF PlainCalls, PlainCall
  <2>3. c9 \in [id : {m.blocks[j].id}, tool : {m.blocks[j].tool}, args : {m.blocks[j].pieces}]
    BY <2>1 DEF CallOf
  <2> HIDE DEF S, B
  <2>. QED BY <2>2, <2>3, CallStays
<1> HIDE DEF P, n, S
<1>5. [i \in 1..n |-> P(i)] \in Seq(Seq(S))
  <2>1. [i \in 1..n |-> P(i)] \in [1..n -> Seq(S)]
    BY <1>2
  <2>. QED BY <1>1, <2>1, SeqDef
<1>6. CallsOf(m) \in Seq(S)
  BY <1>3, <1>5, FlattenType
<1> DEFINE C == CallsOf(m)
<1>7. \A k \in DOMAIN C : C[k] \in S
  <2> HIDE DEF C
  <2>1. C \in Seq(S)
    BY <1>6 DEF C
  <2>2. DOMAIN C = 1..Len(C)
    BY <2>1, LenProperties
  <2>. QED BY <2>1, <2>2, ElementOfSeq
<1>8. C = [k \in DOMAIN C |-> C[k]]
  <2> HIDE DEF C
  <2>1. C \in Seq(S)
    BY <1>6 DEF C
  <2>2. C \in [1..Len(C) -> S]
    BY <2>1, LenProperties
  <2>. QED BY <2>2
<1>. QED BY <1>4, <1>7, <1>8

\* What is in order of a map of the blocks of a kind
LEMMA InOrderWhole ==
  ASSUME AnswerHolds, \A i \in DOMAIN answer.blocks : sent[i] = FullLength(answer.blocks[i])
  PROVE  /\ InOrder(CallsSoFar) = CallsOf(answer)
         /\ InOrder(ThoughtsSoFar) = ThoughtsOf(answer)
         /\ SaidOf("text") = Pieces(answer, "text")
         /\ SaidOf("thinking") = Pieces(answer, "thinking")
<1>1. /\ answer \in Answers /\ sent \in [DOMAIN answer.blocks -> Nat]
      /\ DOMAIN sent = DOMAIN answer.blocks
  BY DEF AnswerHolds
<1>2. \A i \in DOMAIN answer.blocks :
        /\ PrefixOf(Block(i), sent[i]) = Block(i).pieces
        /\ sent[i] # 0
  <2>1. \A i \in DOMAIN answer.blocks : PrefixOf(answer.blocks[i], sent[i]) = answer.blocks[i].pieces
    BY <1>1, SaidWhole
  <2>2. ASSUME NEW i \in DOMAIN answer.blocks PROVE sent[i] # 0
    <3>1. sent[i] = Length(i) /\ i \in DOMAIN sent
      BY <1>1 DEF Length, FullLength, Block
    <3> DEFINE full == FullLength(Block(i))
               l == Len(Block(i).pieces)
               thinks == Block(i).kind = "thinking"
    <3>2. full = 1 + l + (IF thinks THEN 1 ELSE 0) /\ l \in Nat /\ sent[i] = full
      BY <3>1, BlockFacts
    <3> HIDE DEF full, l, thinks
    <3>. QED BY <3>2
  <2>. QED BY <2>1, <2>2 DEF Block
<1>3. \A kind : Begun(kind) = {i \in DOMAIN answer.blocks : Block(i).kind = kind}
  BY <1>2 DEF Begun
<1>4. ASSUME NEW i \in DOMAIN answer.blocks
      PROVE  (IF i \in DOMAIN CallsSoFar THEN <<CallsSoFar[i]>> ELSE <<>>)
               = OfKind("call", answer.blocks[i], <<CallOf(answer.blocks[i])>>)
  <2>1. DOMAIN CallsSoFar = Begun("call")
    BY DEF CallsSoFar
  <2>2. CASE Block(i).kind = "call"
    <3>1. CallsSoFar[i] = CallSoFar(Block(i), sent[i]) /\ i \in DOMAIN CallsSoFar
      BY <1>3, <2>1, <2>2 DEF CallsSoFar
    <3>2. CallSoFar(Block(i), sent[i]) = CallOf(Block(i))
      BY <1>2 DEF CallSoFar, CallOf
    <3>. QED BY <2>2, <3>1, <3>2 DEF OfKind, Block
  <2>3. CASE Block(i).kind # "call"
    BY <1>3, <2>1, <2>3 DEF OfKind, Block
  <2>. QED BY <2>2, <2>3
<1>5. ASSUME NEW i \in DOMAIN answer.blocks
      PROVE  (IF i \in DOMAIN ThoughtsSoFar THEN <<ThoughtsSoFar[i]>> ELSE <<>>)
               = OfKind("thinking", answer.blocks[i], <<Thought(answer.blocks[i])>>)
  <2>1. DOMAIN ThoughtsSoFar = Begun("thinking")
    BY DEF ThoughtsSoFar
  <2>2. CASE Block(i).kind = "thinking"
    <3>1. ThoughtsSoFar[i] = ThoughtSoFar(Block(i), sent[i]) /\ i \in DOMAIN ThoughtsSoFar
      BY <1>3, <2>1, <2>2 DEF ThoughtsSoFar
    <3>2. sent[i] = FullLength(Block(i))
      BY DEF Block
    <3>3. ThoughtSoFar(Block(i), sent[i]) = Thought(Block(i))
      BY <1>2, <3>2 DEF ThoughtSoFar, SignedYet, Thought
    <3>. QED BY <2>2, <3>1, <3>3 DEF OfKind, Block
  <2>3. CASE Block(i).kind # "thinking"
    BY <1>3, <2>1, <2>3 DEF OfKind, Block
  <2>. QED BY <2>2, <2>3
<1>6. SaidOf("text") = Pieces(answer, "text") /\ SaidOf("thinking") = Pieces(answer, "thinking")
  BY <1>1, SaidWhole DEF SaidOf
<1>7. InOrder(CallsSoFar) = CallsOf(answer)
  BY <1>1, <1>4, Zenon DEF InOrder, CallsOf
<1>8. InOrder(ThoughtsSoFar) = ThoughtsOf(answer)
  BY <1>1, <1>5, Zenon DEF InOrder, ThoughtsOf
<1>. QED BY <1>6, <1>7, <1>8

\* A stream that is over gives what the whole answer gives.
LEMMA StreamedIsWhole ==
  ASSUME StreamInv, phase = "stream", \A i \in DOMAIN sent : ~Unsent(i), PlainCalls(answer)
  PROVE  Streamed = Whole(answer)
<1>1. answer \in Answers /\ dialect \in {"openai", "anthropic"}
  BY ModelStreamAssumption DEF StreamInv, AnswerHolds
<1>2. \A i \in DOMAIN answer.blocks : sent[i] = FullLength(answer.blocks[i])
  <2>1. TAKE i \in DOMAIN answer.blocks
  <2>2. i \in DOMAIN sent /\ sent[i] <= FullLength(answer.blocks[i])
    BY DEF StreamInv, AnswerHolds
  <2>3. /\ sent[i] \in Nat /\ FullLength(Block(i)) \in Nat /\ Length(i) = FullLength(Block(i))
        /\ Block(i) = answer.blocks[i]
    BY <2>2, BlockFacts DEF StreamInv
  <2>4. ~(sent[i] < Length(i))
    BY <2>2 DEF Unsent
  <2>. QED BY <2>2, <2>3, <2>4
<1>3. /\ InOrder(CallsSoFar) = CallsOf(answer)
      /\ InOrder(ThoughtsSoFar) = ThoughtsOf(answer)
      /\ SaidOf("text") = Pieces(answer, "text")
      /\ SaidOf("thinking") = Pieces(answer, "thinking")
  BY <1>2, InOrderWhole DEF StreamInv
<1>4. /\ parts.text = SaidOf("text") /\ parts.reasoning = SaidOf("thinking")
      /\ parts.opaque = ThoughtsSoFar /\ parts.calls = CallsSoFar
  BY DEF StreamInv, PartsHold
<1> DEFINE calls == InOrder(parts.calls)
           object(c9) == [c9 EXCEPT !.args = IF @ = <<>> THEN <<"{", "}">> ELSE @]
           named(k) == IF dialect = "openai" /\ calls[k].id = None
                       THEN [object(calls[k]) EXCEPT !.id = <<"call", k>>] ELSE object(calls[k])
           done == [k \in DOMAIN calls |-> named(k)]
<1>5. calls = CallsOf(answer)
  BY <1>3, <1>4
<1>6. /\ \A k \in DOMAIN calls : calls[k].id # None /\ object(calls[k]) = calls[k]
      /\ calls = [k \in DOMAIN calls |-> calls[k]]
  <2> HIDE DEF calls
  <2>. QED BY <1>1, <1>5, CallsArePlain
<1>7. done = calls
  <2> HIDE DEF calls, object
  <2>1. \A k \in DOMAIN calls : named(k) = calls[k]
    BY <1>6
  <2>2. done = [k \in DOMAIN calls |-> calls[k]]
    BY <2>1
  <2>. QED BY <1>6, <2>2
<1>8. Streamed = IF dialect = "openai"
                 THEN OpenAIResponse(parts.text, parts.reasoning, done, answer.finish)
                 ELSE AnthropicResponse(parts.text, InOrder(parts.opaque), done)
  BY Zenon DEF Streamed
<1> HIDE DEF done
<1>9. CASE dialect = "openai"
  <2>1. Streamed = OpenAIResponse(Pieces(answer, "text"), Pieces(answer, "thinking"),
                                  CallsOf(answer), answer.finish)
    BY <1>3, <1>4, <1>5, <1>7, <1>8, <1>9
  <2>. QED BY <1>9, <2>1 DEF Whole, WholeOpenAI
<1>10. CASE dialect = "anthropic"
  <2>1. Streamed = AnthropicResponse(Pieces(answer, "text"), ThoughtsOf(answer), CallsOf(answer))
    BY <1>3, <1>4, <1>5, <1>7, <1>8, <1>10
  <2>2. \A k \in DOMAIN CallsOf(answer) : CallsOf(answer)[k].id # None
    BY <1>5, <1>6
  <2>3. WholeAnthropic(answer) =
          AnthropicResponse(Pieces(answer, "text"), ThoughtsOf(answer), CallsOf(answer))
    BY <2>2, Zenon DEF WholeAnthropic
  <2>. QED BY <1>10, <2>1, <2>3 DEF Whole
<1>. QED BY <1>1, <1>9, <1>10

LEMMA StreamInvStep ==
  ASSUME StreamInv, [StreamNext]_streamVars
  PROVE  StreamInv'
<1>1. CASE UNCHANGED streamVars
  <2>1. \A kind : SaidOf(kind)' = SaidOf(kind)
    BY <1>1 DEF streamVars, SaidOf
  <2>2. \A kind : Begun(kind)' = Begun(kind)
    BY <1>1 DEF streamVars, Begun, Block
  <2>3. CallsSoFar' = CallsSoFar /\ ThoughtsSoFar' = ThoughtsSoFar
    BY <1>1, <2>2 DEF streamVars, CallsSoFar, ThoughtsSoFar, Block
  <2>4. Whole(answer)' = Whole(answer)
    BY <1>1 DEF streamVars, Whole
  <2>5. AnswerHolds' /\ BlocksInOrder' /\ PartsHold' /\ StreamMatchesWhole'
    BY <1>1, <2>1, <2>3, <2>4 DEF streamVars, StreamInv, AnswerHolds, BlocksInOrder, PartsHold,
                                        StreamMatchesWhole
  <2>. QED BY <2>5 DEF StreamInv
<1>2. ASSUME NEW i \in DOMAIN sent, BlockStart(i) PROVE StreamInv'
  <2>1. phase' # "done"
    BY <1>2 DEF BlockStart, MaySend
  <2>. QED BY <1>2, <2>1, BlockStartKeeps DEF StreamInv, StreamMatchesWhole
<1>3. ASSUME NEW i \in DOMAIN sent, Signature(i) PROVE StreamInv'
  <2>1. phase' # "done"
    BY <1>3 DEF Signature, MaySend
  <2>. QED BY <1>3, <2>1, SignatureKeeps DEF StreamInv, StreamMatchesWhole
<1>4. ASSUME NEW i \in DOMAIN sent, NEW k \in 1..2, Delta(i, k) PROVE StreamInv'
  <2>1. phase' # "done"
    BY <1>4 DEF Delta, MaySend
  <2>. QED BY <1>4, <2>1, DeltaKeeps DEF StreamInv, StreamMatchesWhole
<1>5. CASE StreamEnds
  <2>1. /\ phase = "stream" /\ \A i \in DOMAIN sent : ~Unsent(i)
        /\ UNCHANGED <<dialect, answer, sent, parts>> /\ phase' \in {"done", "fallback"}
        /\ phase' = "done" => response' = Streamed
    BY <1>5 DEF StreamEnds
  <2>2. Whole(answer)' = Whole(answer) /\ PlainCalls(answer)' = PlainCalls(answer)
    BY <2>1 DEF Whole, PlainCalls
  <2>3. PlainCalls(answer) => Streamed = Whole(answer)
    BY <2>1, StreamedIsWhole
  <2>4. StreamMatchesWhole'
    BY <2>1, <2>2, <2>3 DEF StreamMatchesWhole, PlainCalls
  <2>5. AnswerHolds' /\ BlocksInOrder' /\ PartsHold'
    BY <2>1 DEF StreamInv, AnswerHolds, BlocksInOrder, PartsHold
  <2>. QED BY <2>4, <2>5 DEF StreamInv
<1>6. CASE StreamBreaks
  BY <1>6 DEF StreamBreaks, StreamInv, AnswerHolds, BlocksInOrder, PartsHold, StreamMatchesWhole
<1>7. CASE Fallback
  <2>1. PICK m \in Answers :
          /\ answer' = m /\ sent' = [i \in DOMAIN m.blocks |-> 0]
          /\ IF Whole(m).failed THEN phase' = "failed" /\ UNCHANGED response
             ELSE response' = Whole(m) /\ phase' = "done"
    BY <1>7 DEF Fallback
  <2>2. dialect' = dialect /\ phase' # "stream" /\ (phase' = "done" => response' = Whole(m))
    BY <1>7, <2>1 DEF Fallback
  <2>3. Whole(answer)' = Whole(m)
    BY <2>1, <2>2 DEF Whole
  <2>4. AnswerHolds'
    <3>1. \A i \in DOMAIN m.blocks : FullLength(m.blocks[i]) \in Nat
      BY FullLengthType
    <3>2. \A i \in DOMAIN m.blocks : 0 <= FullLength(m.blocks[i])
      BY <3>1
    <3>. QED BY <2>1, <2>2, <3>2 DEF StreamInv, AnswerHolds
  <2>. QED BY <2>2, <2>3, <2>4 DEF StreamInv, BlocksInOrder, PartsHold, StreamMatchesWhole
<1>8. CASE Stall
  <2>1. UNCHANGED <<dialect, answer, sent, parts, phase, response>>
    BY <1>8 DEF Stall
  <2>2. phase # "done"
    BY <1>8 DEF Stall
  <2>3. \A kind : SaidOf(kind)' = SaidOf(kind) /\ Begun(kind)' = Begun(kind)
    BY <2>1 DEF SaidOf, Begun, Block
  <2>4. CallsSoFar' = CallsSoFar /\ ThoughtsSoFar' = ThoughtsSoFar
    BY <2>1, <2>3 DEF CallsSoFar, ThoughtsSoFar, Block
  <2>. QED BY <2>1, <2>2, <2>3, <2>4 DEF StreamInv, AnswerHolds, BlocksInOrder, PartsHold, StreamMatchesWhole
<1>9. CASE CallTimesOut
  BY <1>9 DEF CallTimesOut, StreamInv, AnswerHolds, BlocksInOrder, PartsHold, StreamMatchesWhole
<1>. QED BY <1>1, <1>2, <1>3, <1>4, <1>5, <1>6, <1>7, <1>8, <1>9 DEF StreamNext

\* The response is there when the call is done, and only then.
Answered == (phase = "done") <=> ~response.failed
StreamRest ==
  /\ phase \in {"stream", "fallback", "done", "failed"}
  /\ stalls \in 0..MaxStalls
  /\ Answered

LEMMA StreamIsTyped ==
  ASSUME StreamInv, StreamRest
  PROVE  StreamTypeOK
<1>1. ASSUME NEW i \in DOMAIN sent PROVE sent[i] \in 0..Length(i)
  <2>1. sent[i] \in Nat /\ Length(i) \in Nat /\ Length(i) = FullLength(answer.blocks[i])
        /\ i \in DOMAIN answer.blocks
    BY BlockFacts DEF StreamInv
  <2>2. sent[i] <= Length(i)
    BY <2>1 DEF StreamInv, AnswerHolds
  <2>. QED BY <2>1, <2>2
<1>. QED BY <1>1 DEF StreamRest, Answered, StreamTypeOK

LEMMA StreamRestInit ==
  ASSUME StreamInit
  PROVE  StreamRest
<1>1. MaxStalls \in Nat
  BY ModelStreamAssumption
<1>2. response.failed
  BY DEF StreamInit, Failed
<1>. QED BY <1>1, <1>2 DEF StreamInit, StreamRest, Answered

LEMMA StreamRestStep ==
  ASSUME StreamRest, [StreamNext]_streamVars
  PROVE  StreamRest'
<1>0. MaxStalls \in Nat
  BY ModelStreamAssumption
<1>1. CASE UNCHANGED streamVars
  BY <1>1 DEF streamVars, StreamRest, Answered
<1>2. ASSUME NEW i \in DOMAIN sent, BlockStart(i) PROVE StreamRest'
  <2>1. phase = "stream" /\ phase' \in {"stream", "fallback"} /\ UNCHANGED <<response, stalls>>
    BY <1>2 DEF BlockStart, MaySend
  <2>. QED BY <2>1 DEF StreamRest, Answered
<1>3. ASSUME NEW i \in DOMAIN sent, Signature(i) PROVE StreamRest'
  BY <1>3 DEF Signature, StreamRest, Answered
<1>4. ASSUME NEW i \in DOMAIN sent, NEW k \in 1..2, Delta(i, k) PROVE StreamRest'
  <2>1. phase = "stream" /\ phase' \in {"stream", "fallback"} /\ UNCHANGED <<response, stalls>>
    BY <1>4 DEF Delta, MaySend
  <2>. QED BY <2>1 DEF StreamRest, Answered
<1>5. CASE StreamEnds
  <2>1. CASE Streamed.failed
    BY <1>5, <2>1 DEF StreamEnds, StreamRest, Answered
  <2>2. CASE ~Streamed.failed
    BY <1>5, <2>2 DEF StreamEnds, StreamRest, Answered
  <2>. QED BY <2>1, <2>2
<1>6. CASE StreamBreaks
  BY <1>6 DEF StreamBreaks, StreamRest, Answered
<1>7. CASE Fallback
  <2>1. PICK m \in Answers :
          IF Whole(m).failed THEN phase' = "failed" /\ UNCHANGED response
          ELSE response' = Whole(m) /\ phase' = "done"
    BY <1>7 DEF Fallback
  <2>2. phase = "fallback" /\ stalls' = stalls
    BY <1>7 DEF Fallback
  <2>3. CASE Whole(m).failed
    BY <2>1, <2>2, <2>3 DEF StreamRest, Answered
  <2>4. CASE ~Whole(m).failed
    BY <2>1, <2>2, <2>4 DEF StreamRest, Answered
  <2>. QED BY <2>3, <2>4
<1>8. CASE Stall
  <2>1. stalls' \in 0..MaxStalls
    BY <1>0, <1>8 DEF Stall, StreamRest
  <2>. QED BY <1>8, <2>1 DEF Stall, StreamRest, Answered
<1>9. CASE CallTimesOut
  BY <1>9 DEF CallTimesOut, StreamRest, Answered
<1>. QED BY <1>1, <1>2, <1>3, <1>4, <1>5, <1>6, <1>7, <1>8, <1>9 DEF StreamNext
=============================================================================

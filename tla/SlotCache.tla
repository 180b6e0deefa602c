----------------------------- MODULE SlotCache -----------------------------
(***************************************************************************)
(* The key-value cache of the LLM backend (llm/cache.py) and the bracket   *)
(* around an LLM call that uses it (_execute_with_queue in llm/router.py). *)
(* A slot of the backend holds the cache of one conversation; the manager  *)
(* tracks which one, saves it to a file when another takes the slot, and   *)
(* restores it when the conversation comes back.  /new resets a user.      *)
(*                                                                         *)
(* An action is the code between two awaits that leave the process: a      *)
(* request to the backend or a statement on the index.  _slot_lock guards  *)
(* sections without awaits, so it needs no state.  Slots are exclusive:    *)
(* that is the queue's promise (module LLMQueue).                          *)
(***************************************************************************)
EXTENDS Naturals, FiniteSetsExt, World

CONSTANTS Calls,          \* tasks that call the model
          Slots,          \* slots of the backend
          Scopes,         \* cache identities: user, agent, model, prompt
          Owner,          \* the user of a scope
          Resetters,      \* bound: the users who press /new
          MaxMishaps,     \* bound: resets, and calls cut off past the abort() of
                          \* their lease, in all
          ResetWhileBusy  \* /new is accepted while the user's call is running

\* What a slot or a file holds: the scope it was computed for and the user's
\* conversation (counted by resets) it belongs to.
Content == [scope : Scopes \cup {None}, epoch : Nat]

ASSUME CacheAssumption ==
    /\ Owner \in [Scopes -> Users]
    /\ None \notin Scopes \cup Slots \cup Users
    /\ None \notin Content
    /\ Resetters \subseteq Users
    /\ MaxMishaps \in Nat
    /\ ResetWhileBusy \in BOOLEAN

Empty == [scope |-> None, epoch |-> 0]

Pcs == {"idle", "coldErase", "look", "evictSave", "evictRow", "evictErase",
        "lookUp", "restore", "calling", "mismatch", "retrying", "save",
        "saveRow", "pruneList", "prune", "pruneRow"}

VARIABLES kv,       \* what each slot of the backend holds
          tracked,  \* _slot_scopes: what the manager believes it holds
          files,    \* cache files, one per scope
          fileRows, \* the index: scopes with an entry
          flagged,  \* _reset_users
          epoch,    \* resets so far, per user
          call,     \* the calls
          reset,    \* mark_user_reset under way
          stuck,    \* scopes whose file a reset could not delete, or just evicted
          interrupted \* calls that ended past the abort() of their lease

cacheVars == <<kv, tracked, files, fileRows, flagged, epoch, call, reset, stuck,
               interrupted>>

IdleCall == [pc |-> "idle", slot |-> None, scope |-> None, old |-> None,
             hit |-> "none", since |-> 0, todo |-> {}]
NoReset == [user |-> None, pc |-> "idle", todo |-> {}, at |-> None]

CacheInit ==
    /\ kv = [s \in Slots |-> Empty]
    /\ tracked = [s \in Slots |-> None]
    /\ files = [x \in Scopes |-> None]
    /\ fileRows = {}
    /\ flagged = {}
    /\ epoch = [u \in Users |-> 0]
    /\ call = [c \in Calls |-> IdleCall]
    /\ reset = NoReset
    /\ stuck = {}
    /\ interrupted = 0

----------------------------------------------------------------------------
Busy(u) == \E c \in Calls : call[c].pc # "idle" /\ Owner[call[c].scope] = u
Active == {tracked[s] : s \in Slots} \ {None}
MishapLeft == MapThenSumSet(LAMBDA u : epoch[u], Users) + interrupted < MaxMishaps
Fresh(x) == [scope |-> x, epoch |-> epoch[Owner[x]]]

At(c, pc) == call[c].pc = pc
Goto(c, pc) == call' = [call EXCEPT ![c].pc = pc]
Leave(c, pc) == call' = [call EXCEPT ![c].pc = pc, ![c].old = None, ![c].hit = "none"]
Lease(c, hit) ==
    call' = [call EXCEPT ![c].pc = "calling", ![c].hit = hit, ![c].old = None]
Release(c) == call' = [call EXCEPT ![c] = IdleCall]
Track(c, x) == tracked' = [tracked EXCEPT ![call[c].slot] = x]

\* acquire() has given the call a slot; prepare() up to its first await
Prepare(c, s, x) ==
    /\ At(c, "idle")
    /\ \A d \in Calls : call[d].slot # s
    /\ ResetWhileBusy \/ reset.user # Owner[x]
    /\ LET cold == Owner[x] \in flagged
           old == IF cold THEN None ELSE tracked[s]
           pc == CASE cold -> "coldErase"
                   [] old = x -> "look"
                   [] old \notin {None, x} -> "evictSave"
                   [] OTHER -> "lookUp"
       IN /\ flagged' = flagged \ {Owner[x]}
          /\ tracked' = [tracked EXCEPT ![s] = old]
          /\ call' = [call EXCEPT ![c] = [IdleCall EXCEPT
                         !.pc = pc, !.slot = s, !.scope = x, !.old = old,
                         !.since = epoch[Owner[x]]]]
    /\ UNCHANGED <<kv, files, fileRows, epoch, reset, stuck, interrupted>>

\* the erase request; its result is only logged
Erased(c) == kv' \in {kv, [kv EXCEPT ![call[c].slot] = Empty]}

ColdErase(c) ==
    /\ At(c, "coldErase")
    /\ Erased(c)
    /\ Track(c, call[c].scope)
    /\ Lease(c, "none")
    /\ UNCHANGED <<files, fileRows, flagged, epoch, reset, stuck, interrupted>>

\* the scope is live in the slot: its entry only tells what to expect
HitLive(c) ==
    /\ At(c, "look")
    /\ Lease(c, "l1")
    /\ UNCHANGED <<kv, tracked, files, fileRows, flagged, epoch, reset, stuck, interrupted>>

\* the backend writes what the slot holds into the file of the given scope
SaveTo(c, x) == files' = [files EXCEPT ![x] = kv[call[c].slot]]

EvictSave(c) ==
    /\ At(c, "evictSave")
    /\ \/ SaveTo(c, call[c].old) /\ Goto(c, "evictRow")
       \/ UNCHANGED files /\ Goto(c, "evictErase")
    /\ UNCHANGED <<kv, tracked, fileRows, flagged, epoch, reset, stuck, interrupted>>

EvictRow(c) ==
    /\ At(c, "evictRow")
    /\ fileRows' = fileRows \cup {call[c].old}
    /\ Track(c, call[c].old)
    /\ Goto(c, "evictErase")
    /\ UNCHANGED <<kv, files, flagged, epoch, reset, stuck, interrupted>>

EvictErase(c) ==
    /\ At(c, "evictErase")
    /\ Erased(c)
    /\ Leave(c, "lookUp")
    /\ UNCHANGED <<tracked, files, fileRows, flagged, epoch, reset, stuck, interrupted>>

LookUp(c) ==
    /\ At(c, "lookUp")
    /\ IF call[c].scope \in fileRows
       THEN Goto(c, "restore") /\ UNCHANGED tracked
       ELSE Lease(c, "none") /\ Track(c, call[c].scope)
    /\ UNCHANGED <<kv, files, fileRows, flagged, epoch, reset, stuck, interrupted>>

\* a file that is gone or a failing backend is a miss
RestoreFile(c) ==
    /\ At(c, "restore")
    /\ \/ /\ files[call[c].scope] # None
          /\ kv' = [kv EXCEPT ![call[c].slot] = files[call[c].scope]]
          /\ Lease(c, "l2")
       \/ UNCHANGED kv /\ Lease(c, "none")
    /\ Track(c, call[c].scope)
    /\ UNCHANGED <<files, fileRows, flagged, epoch, reset, stuck, interrupted>>

----------------------------------------------------------------------------
Computed(c) == kv' = [kv EXCEPT ![call[c].slot] = Fresh(call[c].scope)]

\* finalize(): a hit may be found useless; a file is written or not
AfterAnswer(c) ==
    \/ call[c].hit # "none" /\ Leave(c, "mismatch")
    \/ Leave(c, "save")
    \/ Release(c)

Answer(c) ==
    /\ At(c, "calling")
    /\ Computed(c)
    /\ AfterAnswer(c)
    /\ UNCHANGED <<tracked, files, fileRows, flagged, epoch, reset, stuck, interrupted>>

\* Mutant: the failed call is not aborted.
CallFailsUntold(c) ==
    /\ At(c, "calling")
    /\ kv' = kv \/ Computed(c)
    /\ Release(c)
    /\ UNCHANGED <<tracked, files, fileRows, flagged, epoch, reset, stuck, interrupted>>

\* an Exception, the time-out of the call included: abort(), then release
CallFails(c) ==
    /\ At(c, "calling")
    /\ kv' = kv \/ Computed(c)
    /\ Track(c, None)
    /\ Release(c)
    /\ UNCHANGED <<files, fileRows, flagged, epoch, reset, stuck, interrupted>>

\* mismatch: erase, forget, and start again without the cache
Mismatch(c) ==
    /\ At(c, "mismatch")
    /\ Erased(c)
    /\ Track(c, call[c].scope)
    /\ Goto(c, "retrying")
    /\ UNCHANGED <<files, fileRows, flagged, epoch, reset, stuck, interrupted>>

RetryAnswer(c) ==
    /\ At(c, "retrying")
    /\ Computed(c)
    /\ Goto(c, "save") \/ Release(c)
    /\ UNCHANGED <<tracked, files, fileRows, flagged, epoch, reset, stuck, interrupted>>

\* the second attempt has no abort() around it
RetryFails(c) ==
    /\ At(c, "retrying")
    /\ MishapLeft
    /\ interrupted' = interrupted + 1
    /\ kv' = kv \/ Computed(c)
    /\ Release(c)
    /\ UNCHANGED <<tracked, files, fileRows, flagged, epoch, reset, stuck>>

\* CancelledError is not an Exception: only the release runs
CutCall(c) ==
    /\ call[c].pc # "idle"
    /\ MishapLeft
    /\ interrupted' = interrupted + 1
    /\ kv' = kv \/ (call[c].pc \in {"calling", "retrying"} /\ Computed(c))
    /\ Release(c)
    /\ UNCHANGED <<tracked, files, fileRows, flagged, epoch, reset, stuck>>

Save(c) ==
    /\ At(c, "save")
    /\ \/ SaveTo(c, call[c].scope) /\ Goto(c, "saveRow")
       \/ UNCHANGED files /\ Goto(c, "pruneList")
    /\ UNCHANGED <<kv, tracked, fileRows, flagged, epoch, reset, stuck, interrupted>>

\* Mutant: the entry is keyed by the slot.
SaveRowOfSlot(c) ==
    /\ At(c, "saveRow")
    /\ fileRows' = fileRows \cup {call[c].slot}
    /\ Track(c, call[c].scope)
    /\ Goto(c, "pruneList")
    /\ UNCHANGED <<kv, files, flagged, epoch, reset, stuck, interrupted>>

SaveRow(c) ==
    /\ At(c, "saveRow")
    /\ fileRows' = fileRows \cup {call[c].scope}
    /\ Track(c, call[c].scope)
    /\ Goto(c, "pruneList")
    /\ UNCHANGED <<kv, files, flagged, epoch, reset, stuck, interrupted>>

----------------------------------------------------------------------------
\* prune_if_due: nothing due, or the entries that are too old or too many;
\* ages and sizes are a free choice
PruneList(c) ==
    /\ At(c, "pruneList")
    /\ \/ Release(c)
       \/ \E due \in SUBSET (fileRows \ Active) :
              call' = [call EXCEPT ![c].pc = "prune", ![c].todo = due]
    /\ UNCHANGED <<kv, tracked, files, fileRows, flagged, epoch, reset, stuck, interrupted>>

\* the check and the unlink are not separated by an await
PruneOne(c) ==
    /\ At(c, "prune")
    /\ IF call[c].todo = {}
       THEN Release(c) /\ UNCHANGED files
       ELSE \E x \in call[c].todo :
              \/ /\ x \notin Active
                 /\ files' = [files EXCEPT ![x] = None]
                 /\ call' = [call EXCEPT ![c].pc = "pruneRow", ![c].todo = @ \ {x},
                                         ![c].old = x]
              \/ /\ call' = [call EXCEPT ![c].todo = @ \ {x}]
                 /\ UNCHANGED files
    /\ UNCHANGED <<kv, tracked, fileRows, flagged, epoch, reset, stuck, interrupted>>

PruneRow(c) ==
    /\ At(c, "pruneRow")
    /\ fileRows' = fileRows \ {call[c].old}
    /\ Leave(c, "prune")
    /\ UNCHANGED <<kv, tracked, files, flagged, epoch, reset, stuck, interrupted>>

----------------------------------------------------------------------------
\* mark_user_reset: mark and forget at once, then delete entry by entry
BeginReset(u) ==
    /\ reset = NoReset /\ MishapLeft
    /\ ResetWhileBusy \/ ~Busy(u)
    /\ epoch' = [epoch EXCEPT ![u] = @ + 1]
    /\ flagged' = flagged \cup {u}
    /\ tracked' = [s \in Slots |-> IF tracked[s] \in Scopes /\ Owner[tracked[s]] = u
                                     THEN None ELSE tracked[s]]
    /\ reset' = [NoReset EXCEPT !.user = u, !.pc = "list"]
    /\ stuck' = stuck \cup {call[c].old : c \in {d \in Calls :
                    call[d].pc \in {"evictSave", "evictRow"} /\ Owner[call[d].old] = u}}
    /\ UNCHANGED <<kv, files, fileRows, call, interrupted>>

ResetList ==
    /\ reset.pc = "list"
    /\ reset' = [reset EXCEPT !.pc = "unlink",
                              !.todo = {x \in fileRows : Owner[x] = reset.user}]
    /\ UNCHANGED <<kv, tracked, files, fileRows, flagged, epoch, call, stuck, interrupted>>

ResetUnlink ==
    /\ reset.pc = "unlink"
    /\ IF reset.todo = {}
       THEN reset' = NoReset /\ UNCHANGED <<files, stuck>>
       ELSE \E x \in reset.todo :
              \/ /\ files' = [files EXCEPT ![x] = None]
                 /\ reset' = [reset EXCEPT !.pc = "row", !.todo = @ \ {x}, !.at = x]
                 /\ UNCHANGED stuck
              \/ /\ reset' = [reset EXCEPT !.todo = @ \ {x}]
                 /\ stuck' = stuck \cup {x}
                 /\ UNCHANGED files
    /\ UNCHANGED <<kv, tracked, fileRows, flagged, epoch, call, interrupted>>

\* the row of the file just deleted
ResetRow ==
    /\ reset.pc = "row"
    /\ fileRows' = fileRows \ {reset.at}
    /\ reset' = [reset EXCEPT !.pc = "unlink", !.at = None]
    /\ UNCHANGED <<kv, tracked, files, flagged, epoch, call, stuck, interrupted>>

----------------------------------------------------------------------------
CallStep(c) ==
    \/ ColdErase(c) \/ HitLive(c) \/ EvictSave(c) \/ EvictRow(c) \/ EvictErase(c)
    \/ LookUp(c) \/ RestoreFile(c) \/ Answer(c) \/ CallFails(c) \/ Mismatch(c)
    \/ RetryAnswer(c) \/ Save(c) \/ SaveRow(c)
    \/ PruneList(c) \/ PruneOne(c) \/ PruneRow(c)

ResetStep == ResetList \/ ResetUnlink \/ ResetRow

CacheNext ==
    \/ \E c \in Calls :
          \/ \E s \in Slots, x \in Scopes : Prepare(c, s, x)
          \/ CallStep(c)
          \/ RetryFails(c)
          \/ CutCall(c)
    \/ \E u \in Resetters : BeginReset(u)
    \/ ResetStep

----------------------------------------------------------------------------
(* Properties *)

CacheTypeOK ==
    /\ kv \in [Slots -> Content]
    /\ tracked \in [Slots -> Scopes \cup {None}]
    /\ files \in [Scopes -> Content \cup {None}]
    /\ fileRows \subseteq Scopes
    /\ flagged \subseteq Users
    /\ epoch \in [Users -> Nat]
    /\ call \in [Calls -> [pc : Pcs, slot : Slots \cup {None},
                           scope : Scopes \cup {None}, old : Scopes \cup {None},
                           hit : {"none", "l1", "l2"}, since : Nat,
                           todo : SUBSET Scopes]]
    /\ reset \in [user : Users \cup {None}, pc : {"idle", "list", "unlink", "row"},
                  todo : SUBSET Scopes, at : Scopes \cup {None}]
    /\ stuck \subseteq Scopes
    /\ interrupted \in Nat

\* A cache file holds the conversation it is named after: what is saved on
\* eviction is what the manager believes the slot to hold, after misses,
\* failed erasures, failed calls and mismatches (cache.py, abort: "Forget
\* optimistic slot scope tracking when the LLM call failed").  No abort() runs
\* when a call is cancelled or its second attempt fails.
FilesHoldTheirScope ==
    interrupted = 0 => \A x \in Scopes : files[x] # None => files[x].scope = x

\* prune never deletes the file of a scope some slot is tracked to hold,
\* whatever became active while it was deleting others (cache.py, S1-04).
PruneSparesActive ==
    \A x \in Scopes : files[x] # None /\ files'[x] = None /\ UNCHANGED reset => x \notin Active

\* A call begun after /new reuses nothing from before it, neither a live slot
\* nor a file, unless the file could not be deleted or another user's call was
\* just evicting the conversation (cache.py:563, 933).
NothingOldReturns ==
    interrupted = 0 => \A c \in Calls : At(c, "calling") /\ call[c].hit # "none" =>
        \/ kv[call[c].slot] \in {Empty, [scope |-> call[c].scope, epoch |-> call[c].since]}
        \/ call[c].scope \in stuck
============================================================================

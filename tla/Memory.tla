------------------------------- MODULE Memory -------------------------------
(***************************************************************************)
(* memory/sqlite.py: the long-term memory of a user, its full-text index   *)
(* and the recall; memory/worker.py: the curator that merges into it, in   *)
(* the server or from the command line.                                    *)
(* A store reads the entry before its first write, which opens the         *)
(* transaction: the read is a step of its own.  An error of the index is   *)
(* swallowed: the entry is committed and the process stops indexing, until *)
(* a process starts, compares the two counts and rebuilds.                 *)
(* Two calls of one answer run in parallel; the curator of the server      *)
(* takes the user's gate, the command's does not.                          *)
(***************************************************************************)
EXTENDS Naturals, FiniteSets, World

CONSTANTS Facts,        \* abstractions of the user's entries
          WordsOf,      \* words of each abstraction
          Cues,         \* words given as cues
          CueSets,      \* the lists of cues a call gives, as sets
          MaxCues,      \* _MAX_CUES: cues an entry keeps
          RecallLimit,  \* entries a recall returns (10 for the tool)
          ScanLimit,    \* _FALLBACK_RECALL_LIMIT: rows searched for an exact cue
          StoreCalls    \* memory_store calls of one answer of the model

ASSUME MemoryAssumption ==
    /\ DOMAIN WordsOf = Facts /\ IsFiniteSet(Facts)
    /\ IsFiniteSet(Cues) /\ CueSets \subseteq SUBSET Cues
    /\ \A cues \in SUBSET Cues : cues # None
    /\ MaxCues \in Nat /\ RecallLimit \in Nat \ {0} /\ ScanLimit \in Nat

Processes == {"server", "command"}
Curators == Processes                   \* one curator in each
Writers == Curators \cup StoreCalls
ProcessOf(w) == IF w = "command" THEN "command" ELSE "server"

VARIABLES row,       \* memory_entries: the cues of each fact, or None
          index,     \* memory_entries_fts: the cues of each indexed fact, or None
          indexing,  \* _fts_ok of each process
          healing,   \* a starting process between its two counts
          writing,   \* a store between its read and its write
          curator,   \* what a curator has left to merge, or None
          turn,      \* who holds the user's gate
          given,     \* history: the cues of the acknowledged stores
          held,      \* history: the cues an entry has had in the table
          raced,     \* history: facts written between another's read and write
          whole      \* history: the index was healed and nothing failed since

memoryVars == <<row, index, indexing, healing, writing, curator, turn, given, held, raced, whole>>

Stored == {f \in Facts : row[f] # None}
Indexed == {f \in Facts : index[f] # None}
Resting == [fact |-> None]
Healed == [count |-> None]

MemoryInit ==
    /\ row = [f \in Facts |-> None] /\ index = [f \in Facts |-> None]
    /\ indexing = [p \in Processes |-> TRUE]
    /\ healing = [p \in Processes |-> Healed]
    /\ writing = [w \in Writers |-> Resting]
    /\ curator = [p \in Curators |-> None]
    /\ turn = None
    /\ given = [f \in Facts |-> {}] /\ held = [f \in Facts |-> {}]
    /\ raced = {} /\ whole = TRUE

----------------------------------------------------------------------------
\* _sync_store_entry: the SELECT
ReadEntry(w, f, c) ==
    /\ writing[w] = Resting
    /\ writing' = [writing EXCEPT ![w] = [fact |-> f, cue |-> c, seen |-> row[f]]]

\* _fts_upsert, on the cues written: nothing once the index has failed here;
\* the DELETE or the INSERT may fail
Upsert(w, f, cues) ==
    \/ /\ indexing[ProcessOf(w)]
       /\ index' = [index EXCEPT ![f] = cues]
       /\ UNCHANGED <<indexing, whole>>
    \/ /\ \/ indexing[ProcessOf(w)] /\ index' \in {index, [index EXCEPT ![f] = None]}
          \/ ~indexing[ProcessOf(w)] /\ index' = index
       /\ indexing' = [indexing EXCEPT ![ProcessOf(w)] = FALSE]
       /\ whole' = FALSE

\* The first n of a list, for some order of it: all of it if it is no longer.
Capped(S, n) ==
    {t \in SUBSET S : Cardinality(t) = IF Cardinality(S) <= n THEN Cardinality(S) ELSE n}

\* The cues a store may leave: what it read and, after it, what it was given,
\* each list cut at the limit of an entry.
OldCues(seen) == IF seen = None THEN {} ELSE seen
UnionCues(seen, c) ==
    UNION {{OldCues(seen) \cup more :
              more \in Capped(t \ OldCues(seen), MaxCues - Cardinality(OldCues(seen)))} :
           t \in Capped(c, MaxCues)}

Conflicts(w) == {v \in Writers \ {w} : writing[v].fact = writing[w].fact}

\* the UPDATE or the INSERT, the index and the commit
WriteEntry(w) ==
    LET s == writing[w] IN
    /\ s # Resting
    /\ s.seen # None \/ row[s.fact] = None
    /\ \E left \in UnionCues(s.seen, s.cue) :
         /\ row' = [row EXCEPT ![s.fact] = left]
         /\ Upsert(w, s.fact, left)
         /\ held' = [held EXCEPT ![s.fact] = @ \cup left]
    /\ given' = [given EXCEPT ![s.fact] = @ \cup s.cue]
    /\ raced' = IF Conflicts(w) = {} THEN raced ELSE raced \cup {s.fact}
    /\ writing' = [writing EXCEPT ![w] = Resting]
    /\ healing' = [p \in Processes |->
                     IF healing[p] = Healed THEN Healed
                     ELSE [healing[p] EXCEPT !.quiet = FALSE]]
    /\ UNCHANGED <<curator, turn>>

\* StorageError: the entry was inserted meanwhile, or the database is locked
StoreFails(w) ==
    /\ writing[w] # Resting
    /\ writing' = [writing EXCEPT ![w] = Resting]
    /\ UNCHANGED <<row, index, indexing, healing, curator, turn, given, held, raced, whole>>

----------------------------------------------------------------------------
\* A request of the user; its calls of memory_store run side by side.
TakeTurn ==
    /\ turn = None /\ turn' = "request"
    /\ UNCHANGED <<row, index, indexing, healing, writing, curator, given, held, raced, whole>>

MemoryStore(w, f, c) ==
    /\ turn = "request"
    /\ ReadEntry(w, f, c)
    /\ UNCHANGED <<row, index, indexing, healing, curator, turn, given, held, raced, whole>>

GiveTurn ==
    /\ turn = "request" /\ \A w \in StoreCalls : writing[w] = Resting
    /\ turn' = None
    /\ UNCHANGED <<row, index, indexing, healing, writing, curator, given, held, raced, whole>>

\* _run_user: the gate in the server, none on the command line; the model's
\* entries.  A busy user, a time-out and a bad answer merge nothing.
Curate(p, facts) ==
    /\ curator[p] = None
    /\ p = "server" => turn = None
    /\ turn' = IF p = "server" THEN "curator" ELSE turn
    /\ curator' = [curator EXCEPT ![p] = facts]
    /\ UNCHANGED <<row, index, indexing, healing, writing, given, held, raced, whole>>

\* apply_worker_entries: one entry after the other
Merge(p, f, c) ==
    /\ curator[p] # None /\ f \in curator[p]
    /\ ReadEntry(p, f, c)
    /\ curator' = [curator EXCEPT ![p] = @ \ {f}]
    /\ UNCHANGED <<row, index, indexing, healing, turn, given, held, raced, whole>>

\* the end of the run, or stop() between two entries: a store in its thread
\* is waited for
Curated(p) ==
    /\ curator[p] # None /\ writing[p] = Resting
    /\ curator' = [curator EXCEPT ![p] = None]
    /\ turn' = IF p = "server" THEN None ELSE turn
    /\ UNCHANGED <<row, index, indexing, healing, writing, given, held, raced, whole>>

----------------------------------------------------------------------------
\* The process ends and starts again: _fts_heal_if_needed, the first count
Begin(p) ==
    /\ indexing' = [indexing EXCEPT ![p] = TRUE]
    /\ healing' = [healing EXCEPT ![p] = [count |-> Cardinality(Stored), quiet |-> TRUE]]
    /\ writing' = [w \in Writers |-> IF ProcessOf(w) = p THEN Resting ELSE writing[w]]
    /\ curator' = [curator EXCEPT ![p] = None]
    /\ turn' = IF p = "server" THEN None ELSE turn
    /\ UNCHANGED <<row, index, given, held, raced, whole>>

\* A bug: only an empty index is rebuilt.
NeedsHealEmpty(p) == healing[p].count # 0 /\ Indexed = {}
NeedsHeal(p) == healing[p].count # Cardinality(Indexed)

\* the second count and, when they differ, _fts_rebuild; an error midway
\* commits what was rebuilt so far
Heal(p) ==
    /\ healing[p] # Healed
    /\ healing' = [healing EXCEPT ![p] = Healed]
    /\ \/ /\ ~NeedsHeal(p)
          /\ whole' = (whole \/ healing[p].quiet)
          /\ UNCHANGED <<index, indexing>>
       \/ /\ NeedsHeal(p)
          /\ index' = row /\ whole' = TRUE
          /\ UNCHANGED indexing
       \/ /\ NeedsHeal(p)
          /\ \E part \in SUBSET Stored :
               index' = [f \in Facts |-> IF f \in part THEN row[f] ELSE None]
          /\ indexing' = [indexing EXCEPT ![p] = FALSE]
          /\ whole' = FALSE
    /\ UNCHANGED <<row, writing, curator, turn, given, held, raced>>

----------------------------------------------------------------------------
\* _sync_recall_fts: the indexed words; an exact cue is looked for in the first
\* rows of the table
FtsHits(word, scanned) ==
    {f \in Stored \cap Indexed : word \in WordsOf[f] \cup index[f]}
        \cup {f \in scanned : word \in row[f]}
LikeHits(word) == {f \in Stored : word \in WordsOf[f] \cup row[f]}

\* The answers a recall may give: of more hits than the limit, some (the scores
\* that order them are left out).
Hits(p, word, scanned) ==
    IF indexing[p] /\ FtsHits(word, scanned) # {} THEN FtsHits(word, scanned) ELSE LikeHits(word)
Recall(p, word) ==
    UNION {Capped(Hits(p, word, scanned), RecallLimit) : scanned \in Capped(Stored, ScanLimit)}

----------------------------------------------------------------------------
Free(p) == healing[p] = Healed

MemoryNext ==
    \/ TakeTurn \/ GiveTurn
    \/ \E w \in StoreCalls, f \in Facts, c \in CueSets :
         Free("server") /\ MemoryStore(w, f, c)
    \/ \E p \in Curators, facts \in (SUBSET Facts) \ {{}} : Free(p) /\ Curate(p, facts)
    \/ \E p \in Curators, f \in Facts, c \in CueSets : Merge(p, f, c)
    \/ \E p \in Curators : Curated(p)
    \/ \E w \in Writers : WriteEntry(w) \/ StoreFails(w)
    \/ \E p \in Processes : Begin(p) \/ Heal(p)

----------------------------------------------------------------------------
MaybeCues == {cues \in SUBSET Cues : Cardinality(cues) <= MaxCues} \cup {None}

\* Entries and index hold no more cues than fit, the flags and the stores are well formed.
MemoryTypeOK ==
    /\ row \in [Facts -> MaybeCues] /\ index \in [Facts -> MaybeCues]
    /\ indexing \in [Processes -> BOOLEAN] /\ whole \in BOOLEAN
    /\ \A p \in Processes : healing[p] = Healed \/ healing[p].quiet \in BOOLEAN
    /\ \A w \in Writers : writing[w] = Resting \/ writing[w].seen \in MaybeCues
    /\ curator \in [Curators -> (SUBSET Facts) \cup {None}]
    /\ turn \in {None, "request", "curator"}
    /\ given \in [Facts -> SUBSET Cues] /\ held \in [Facts -> SUBSET Cues] /\ raced \subseteq Facts

\* Once a process has started with no store beside it, and until the index
\* fails again, an answer of the recall misses an entry that has the word in its
\* abstraction only if it is full, and one that has it as a cue only then or when
\* there are more entries than are scanned (sqlite.py:466-529): the index may hold
\* old cues, as only the numbers of rows are compared.
RecallFinds ==
    whole => \A p \in Processes, f \in Stored : \A word \in WordsOf[f] \cup row[f] :
               \A hits \in Recall(p, word) :
                 \/ f \in hits \/ Cardinality(hits) = RecallLimit
                 \/ word \notin WordsOf[f] /\ Cardinality(Stored) > ScanLimit

\* A cue once in an entry stays, whoever writes the entry later and whatever
\* crashes, unless two stores of the entry overlapped; and a cue whose store was
\* acknowledged is missing only from an entry that is full (store_entry: "union
\* cues", sqlite.py:336; worker.py: merge only).
CuesAreKept ==
    \A f \in Facts \ raced :
        IF row[f] = None THEN given[f] \cup held[f] = {}
        ELSE /\ held[f] \subseteq row[f]
             /\ given[f] \subseteq row[f] \/ Cardinality(row[f]) = MaxCues

\* What a run stored is kept and found again, by whatever process it asks.
MemoryIsSound == RecallFinds /\ CuesAreKept
=============================================================================

----------------------------- MODULE HotReload -----------------------------
(***************************************************************************)
(* The watchers of skill, sub-agent and plugin directories.  What the      *)
(* bootstrap loaded is primed (plugins are not), then every scan compares  *)
(* the times of the files with those of its last look.  Documents are      *)
(* found in one step and loaded in a later one, plugins in one step; the   *)
(* poll loop and the reload button scan at the same time.                  *)
(***************************************************************************)
EXTENDS Naturals, FiniteSets, FiniteSetsExt, Functions, World

CONSTANTS Documents,      \* the skill and sub-agent files, numbered in the order they are found
          PluginDirs,     \* the plugin directories, likewise
          NameOf,         \* [files -> the id or name it declares]
          StemOf,         \* [Documents -> the name of the file]
          MaxEdits        \* bound: edits of the files

ASSUME HotReloadAssumption ==
    /\ Documents \cap PluginDirs = {} /\ IsFiniteSet(Documents \cup PluginDirs) /\ MaxEdits \in Nat \ {0}
    /\ Documents \cup PluginDirs \subseteq 1..Cardinality(Documents \cup PluginDirs)
    /\ DOMAIN NameOf = Documents \cup PluginDirs
    /\ None \notin [Documents \cup PluginDirs -> Nat] \cup [file : Documents \cup PluginDirs, at : Nat]
    \* no two plugin directories share a name: one that changes unregisters both
    /\ \A p \in PluginDirs, q \in Documents \cup PluginDirs : NameOf[p] = NameOf[q] => p = q

Sources == Documents \cup PluginDirs
Names == Range(NameOf)

VARIABLES disk,       \* time and validity of each file, time 0 when there is none
          entries,    \* the registry: name -> file and the time of what was loaded
          loadedAt,   \* _mtimes of the watcher, 0 for a file it has not
          knownFiles, \* _known_files, _known_dirs
          pluginName, \* _plugin_names: what a directory's plugin was registered as
          look,       \* what a scan under way has found
          lastLook,   \* what the scan applied last had found
          clock,      \* edits so far
          primedAt,   \* the time of the priming, 0 before
          misnamed    \* history: names a deleted file took from the registry
reloadVars == <<disk, entries, loadedAt, knownFiles, pluginName, look, lastLook, clock, primedAt, misnamed>>

Scans == {"poll", "button"}
Absent == [at |-> 0, valid |-> FALSE]
Present == {p \in Sources : disk[p].at > 0}
Times == [p \in Sources |-> disk[p].at]
Loaded(p) == [file |-> p, at |-> disk[p].at]

\* load_directory, in order: a later file of the same name replaces the earlier.
Winner(n, ps) == Max({p \in ps : NameOf[p] = n})
WithLoaded(reg, ps) ==
    [n \in Names |-> IF \E p \in ps : NameOf[p] = n THEN Loaded(Winner(n, ps)) ELSE reg[n]]
Readable(ps) == {p \in ps : disk[p].valid}

ReloadInit ==
    /\ disk \in [Sources -> {Absent, [at |-> 1, valid |-> TRUE]}]
    /\ entries = WithLoaded([n \in Names |-> None], Readable(Present))
    /\ loadedAt = [p \in Sources |-> 0] /\ knownFiles = {}
    /\ pluginName = [p \in PluginDirs |-> None]
    /\ look = [r \in Scans |-> None] /\ lastLook = None
    /\ clock = 1 /\ primedAt = 0 /\ misnamed = {}

----------------------------------------------------------------------------
WriteSource(p, valid) ==
    /\ clock < MaxEdits /\ clock' = clock + 1
    /\ disk' = [disk EXCEPT ![p] = [at |-> clock', valid |-> valid]]
    /\ UNCHANGED <<entries, loadedAt, knownFiles, pluginName, look, lastLook, primedAt, misnamed>>
DeleteSource(p) ==
    /\ p \in Present /\ clock < MaxEdits /\ clock' = clock + 1
    /\ disk' = [disk EXCEPT ![p] = Absent]
    /\ UNCHANGED <<entries, loadedAt, knownFiles, pluginName, look, lastLook, primedAt, misnamed>>

\* _prime: a skill file the registry holds an entry from; a sub-agent file
\* whose id the registry has.
Primed(byId) == {p \in Present \cap Documents :
    /\ entries[NameOf[p]] # None
    /\ IF byId THEN disk[p].valid ELSE entries[NameOf[p]].file = p}
Prime(byId) ==
    /\ primedAt = 0 /\ primedAt' = clock
    /\ loadedAt' = [p \in Sources |-> IF p \in Primed(byId) THEN disk[p].at ELSE loadedAt[p]]
    /\ knownFiles' = (knownFiles \ Documents) \cup (Present \cap Documents)
    /\ UNCHANGED <<disk, entries, pluginName, look, lastLook, clock, misnamed>>

\* _discover_files; the poll loop primes before its first scan.
Look(r) ==
    /\ look[r] = None /\ r = "poll" => primedAt > 0
    /\ look' = [look EXCEPT ![r] = Times]
    /\ UNCHANGED <<disk, entries, loadedAt, knownFiles, pluginName, lastLook, clock, primedAt, misnamed>>

\* _scan: the names of files that are gone go; new and changed files are
\* loaded as they are by now.  A document that cannot be read leaves its old
\* entry, a plugin is out of the registry before it is read.
Scan(r) ==
    LET seen == [p \in Sources |-> IF p \in PluginDirs THEN disk[p].at ELSE look[r][p]]
        found == {p \in Sources : seen[p] > 0}
        gone == knownFiles \ found
        changed == {p \in found : seen[p] > loadedAt[p]}
        unnamed == {StemOf[p] : p \in gone \cap Documents}
                   \cup ({pluginName[p] : p \in (gone \cup (changed \cap knownFiles)) \cap PluginDirs} \ {None})
        loaded == Readable(changed)
        kept == [n \in Names |-> IF n \in unnamed THEN None ELSE entries[n]]
    IN
    /\ look[r] # None
    /\ entries' = WithLoaded(kept, loaded)
    /\ misnamed' = misnamed \cup {StemOf[p] : p \in gone \cap Documents}
    /\ loadedAt' = [p \in Sources |-> IF p \in gone THEN 0 ELSE IF p \in changed THEN seen[p] ELSE loadedAt[p]]
    /\ pluginName' = [p \in PluginDirs |-> IF p \in loaded THEN NameOf[p]
                                           ELSE IF p \in gone \cup changed THEN None ELSE pluginName[p]]
    /\ knownFiles' = found
    /\ look' = [look EXCEPT ![r] = None] /\ lastLook' = seen
    /\ UNCHANGED <<disk, clock, primedAt>>

ReloadNext ==
    \/ \E p \in Sources, valid \in BOOLEAN : WriteSource(p, valid)
    \/ \E p \in Sources : DeleteSource(p)
    \/ \E byId \in BOOLEAN : Prime(byId)
    \/ \E r \in Scans : Look(r) \/ Scan(r)

----------------------------------------------------------------------------
\* The type of the state.
ReloadTypeOK ==
    /\ \A p \in Sources : disk[p].at \in 0..MaxEdits /\ loadedAt[p] \in 0..MaxEdits
    /\ \A n \in Names : entries[n] = None \/ (entries[n].file \in Sources /\ entries[n].at \in 1..MaxEdits)
    /\ knownFiles \subseteq Sources

\* Once a scan has applied what is on disk now, whatever overlapped it, every
\* name a readable file declares is registered from a file that declares it,
\* as it is now; except a name a deleted file bore, and a document edited
\* between the bootstrap and the priming.
Settled == primedAt > 0 /\ lastLook = Times /\ \A r \in Scans : look[r] = None
RegistryFollowsFiles ==
    Settled => \A p \in Readable(Present) :
        NameOf[p] \notin misnamed =>
            LET e == entries[NameOf[p]] IN
            /\ e # None /\ NameOf[e.file] = NameOf[p]
            /\ e.at = disk[e.file].at \/ ~disk[e.file].valid \/ disk[e.file].at <= primedAt
============================================================================

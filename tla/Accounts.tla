------------------------------ MODULE Accounts ------------------------------
(***************************************************************************)
(* users/manager.py: accounts, logins and web sessions, the merge of a     *)
(* duplicate account into the canonical one, the Telegram whitelist and    *)
(* its import from the files of older versions.                            *)
(* The administrator's command line is a process of its own beside the     *)
(* server.  In SQLite's default mode a method that reads before its first  *)
(* write is not one transaction: the reads are a step of their own.        *)
(* Passwords are numbered; a workspace item is where it lies.              *)
(***************************************************************************)
EXTENDS Naturals, FiniteSets, World

CONSTANTS Source,       \* the duplicate account
          Target,       \* the canonical account
          Tokens,       \* web sessions
          Items,        \* files at the top of a workspace
          NameOf,       \* their names
          HomeOf,       \* whose workspace they are in at first
          Chats,        \* chat sessions
          ChatOf,       \* whose they are at first
          Telegrams,    \* Telegram ids in the files of the older version
          Starters,     \* processes that start: the server and commands
          MaxPassword   \* bound: passwords set

ASSUME AccountsAssumption ==
    /\ Source # Target /\ IsFiniteSet(Items)
    /\ DOMAIN NameOf = Items
    /\ HomeOf \in [Items -> {Source, Target}]
    /\ \A i, j \in Items : HomeOf[i] = HomeOf[j] /\ NameOf[i] = NameOf[j] => i = j
    /\ ChatOf \in [Chats -> {Source, Target}]
    /\ MaxPassword \in Nat

Ids == {Source, Target}

VARIABLES acct,       \* login name, password and disabled flag of each account
          session,    \* account of each web session, or None
          signIn,     \* a login between the check and its session
          rotate,     \* set_web_password between its read and its write
          merge,      \* the merge: step and what it has read
          merged,     \* the merge has come to its end
          item,       \* where each item lies: account, name and suffix
          chat,       \* owner of each chat and whether it is open
          password,   \* the last password made
          whitelist,
          marker,     \* auth_json_import_v1
          starter,    \* step of each starting process
          removed     \* ids an administrator has removed

accountVars == <<acct, session, signIn, rotate, merge, merged, item, chat, password,
                 whitelist, marker, starter, removed>>
peopleVars == <<acct, session, signIn, rotate, merge, merged, item, chat, password>>
listVars == <<whitelist, marker, starter, removed>>

NoMerge == [pc |-> "idle", name |-> None, pw |-> None]
Nobody == [id |-> None]

\* The source has a web login; the target is a Telegram user without one.
AccountsInit ==
    /\ acct = [a \in Ids |-> IF a = Source
                 THEN [name |-> "web", pw |-> 1, disabled |-> FALSE]
                 ELSE [name |-> None, pw |-> None, disabled |-> FALSE]]
    /\ session = [t \in Tokens |-> None]
    /\ signIn = Nobody /\ rotate = Nobody
    /\ merge = NoMerge /\ merged = FALSE
    /\ item = [i \in Items |-> [at |-> HomeOf[i], name |-> NameOf[i], n |-> 0]]
    /\ chat = [c \in Chats |-> [of |-> ChatOf[c], open |-> FALSE]]
    /\ password = 1
    /\ whitelist = {} /\ marker = FALSE /\ removed = {}
    /\ starter = [s \in Starters |-> "off"]

----------------------------------------------------------------------------
\* authenticate_web_user, then create_web_session: two connections
SignIn(a) ==
    /\ signIn = Nobody
    /\ acct[a].name # None /\ acct[a].pw # None /\ ~acct[a].disabled
    /\ signIn' = [id |-> a]
    /\ UNCHANGED <<acct, session, rotate, merge, merged, item, chat, password, listVars>>

OpenSession(t) ==
    /\ signIn # Nobody
    /\ session[t] = None
    /\ session' = [session EXCEPT ![t] = signIn.id]
    /\ signIn' = Nobody
    /\ UNCHANGED <<acct, rotate, merge, merged, item, chat, password, listVars>>

\* logout, expiry, or a session whose account is disabled
CloseSession(t) ==
    /\ session[t] # None
    /\ session' = [session EXCEPT ![t] = None]
    /\ UNCHANGED <<acct, signIn, rotate, merge, merged, item, chat, password, listVars>>

Serves(t) == session[t] # None /\ ~acct[session[t]].disabled

\* set_web_password: the account is looked up, then the password of the name is
\* replaced and the sessions of the account looked up are deleted.
BeginRotate(a) ==
    /\ rotate = Nobody
    /\ acct[a].name # None
    /\ password < MaxPassword
    /\ rotate' = [id |-> a]
    /\ UNCHANGED <<acct, session, signIn, merge, merged, item, chat, password, listVars>>

Rotate ==
    /\ rotate # Nobody
    /\ password' = password + 1
    /\ acct' = [a \in Ids |-> IF acct[a].name # None THEN [acct[a] EXCEPT !.pw = password']
                              ELSE acct[a]]
    /\ session' = [t \in Tokens |-> IF session[t] = rotate.id THEN None ELSE session[t]]
    /\ rotate' = Nobody
    /\ UNCHANGED <<signIn, merge, merged, item, chat, listVars>>

\* link_web_login: a new name and password for the target, sessions stay
LinkLogin ==
    /\ acct[Target].name = None /\ acct[Source].name = None
    /\ password < MaxPassword
    /\ password' = password + 1
    /\ acct' = [acct EXCEPT ![Target].name = "web", ![Target].pw = password']
    /\ UNCHANGED <<session, signIn, rotate, merge, merged, item, chat, listVars>>

----------------------------------------------------------------------------
\* The user works: the chat that is open is closed or a closed one opened, one
\* at a time (chat_store.py).  Chats and files made while a merge is under way
\* are left out.
Work(c) ==
    /\ \E t \in Tokens : Serves(t) /\ session[t] = chat[c].of
    /\ chat' = [d \in Chats |-> IF chat[d].of = chat[c].of
                                THEN [chat[d] EXCEPT !.open = (d = c)] ELSE chat[d]]
    /\ UNCHANGED <<acct, session, signIn, rotate, merge, merged, item, password, listVars>>

MergeRead ==
    /\ merge.pc = "idle"
    /\ merge' = [pc |-> "write",
                 name |-> IF acct[Target].name # None THEN acct[Target].name ELSE acct[Source].name,
                 pw |-> IF acct[Target].pw # None THEN acct[Target].pw ELSE acct[Source].pw]
    /\ UNCHANGED <<acct, session, signIn, rotate, merged, item, chat, password, listVars>>

\* the credentials and the sessions move, as they were read
MergeWrite ==
    /\ merge.pc = "write"
    /\ session' = [t \in Tokens |-> IF session[t] = Source THEN Target ELSE session[t]]
    /\ acct' = [acct EXCEPT ![Source].name = None, ![Source].pw = None,
                            ![Target].name = merge.name, ![Target].pw = merge.pw]
    /\ merge' = [NoMerge EXCEPT !.pc = "items"]
    /\ UNCHANGED <<signIn, rotate, merged, item, chat, password, listVars>>

\* A name that is taken gets a suffix nobody has (_conflict_path).
Moved(i) ==
    LET taken(n) == \E j \in Items : item[j] = [at |-> Target, name |-> item[i].name, n |-> n]
    IN [at |-> Target, name |-> item[i].name,
        n |-> CHOOSE n \in 0..Cardinality(Items) : ~taken(n) /\ \A m \in 0..(n - 1) : taken(m)]

\* _merge_workspace, item by item
MergeItem ==
    /\ merge.pc = "items"
    /\ IF \E i \in Items : item[i].at = Source
       THEN /\ \E i \in Items : item[i].at = Source /\ item' = [item EXCEPT ![i] = Moved(i)]
            /\ UNCHANGED merge
       ELSE merge' = [merge EXCEPT !.pc = "memory"] /\ UNCHANGED item
    /\ UNCHANGED <<acct, session, signIn, rotate, merged, chat, password, listVars>>

\* The chats follow; the target's open one stays the open one.
ChatMoved(c, busy) ==
    IF chat[c].of # Source THEN chat[c]
    ELSE [of |-> Target, open |-> chat[c].open /\ ~busy]

\* _merge_memory: one transaction
MergeMemory ==
    /\ merge.pc = "memory"
    /\ LET busy == \E c \in Chats : chat[c] = [of |-> Target, open |-> TRUE]
       IN chat' = [c \in Chats |-> ChatMoved(c, busy)]
    /\ merge' = [merge EXCEPT !.pc = "disable"]
    /\ UNCHANGED <<acct, session, signIn, rotate, merged, item, password, listVars>>

MergeDisable ==
    /\ merge.pc = "disable"
    /\ acct' = [acct EXCEPT ![Source] = [name |-> None, pw |-> None, disabled |-> TRUE]]
    /\ merge' = NoMerge
    /\ merged' = TRUE
    /\ UNCHANGED <<session, signIn, rotate, item, chat, password, listVars>>

\* a failing move or statement, or the command is stopped; it can be repeated
MergeFails ==
    /\ merge.pc # "idle"
    /\ merge' = NoMerge
    /\ UNCHANGED <<acct, session, signIn, rotate, merged, item, chat, password, listVars>>

----------------------------------------------------------------------------
\* _migrate_legacy_auth_json of a process that starts: the marker is looked at
\* before the files are read and again in the transaction.
Start(s) ==
    /\ starter[s] = "off"
    /\ starter' = [starter EXCEPT ![s] = IF marker THEN "on" ELSE "read"]
    /\ UNCHANGED <<whitelist, marker, removed, peopleVars>>

Import(s) ==
    /\ starter[s] = "read"
    /\ whitelist' = IF marker THEN whitelist ELSE whitelist \cup Telegrams
    /\ marker' = TRUE
    /\ starter' = [starter EXCEPT ![s] = "on"]
    /\ UNCHANGED <<removed, peopleVars>>

AddToWhitelist(x) ==
    /\ \E s \in Starters : starter[s] = "on"
    /\ whitelist' = whitelist \cup {x}
    /\ removed' = removed \ {x}
    /\ UNCHANGED <<marker, starter, peopleVars>>

RemoveFromWhitelist(x) ==
    /\ \E s \in Starters : starter[s] = "on"
    /\ x \in whitelist
    /\ whitelist' = whitelist \ {x}
    /\ removed' = removed \cup {x}
    /\ UNCHANGED <<marker, starter, peopleVars>>

----------------------------------------------------------------------------
AccountsNext ==
    \/ \E a \in Ids : SignIn(a) \/ BeginRotate(a)
    \/ \E t \in Tokens : OpenSession(t) \/ CloseSession(t)
    \/ Rotate \/ LinkLogin
    \/ \E c \in Chats : Work(c)
    \/ MergeRead \/ MergeWrite \/ MergeItem \/ MergeMemory \/ MergeDisable \/ MergeFails
    \/ \E s \in Starters : Start(s) \/ Import(s)
    \/ \E x \in Telegrams : AddToWhitelist(x) \/ RemoveFromWhitelist(x)

----------------------------------------------------------------------------
(* Properties *)

AccountsTypeOK ==
    /\ acct \in [Ids -> [name : {"web", None}, pw : 1..MaxPassword \cup {None},
                         disabled : BOOLEAN]]
    /\ session \in [Tokens -> Ids \cup {None}]
    /\ item \in [Items -> [at : Ids, name : {NameOf[i] : i \in Items}, n : 0..Cardinality(Items)]]
    /\ chat \in [Chats -> [of : Ids, open : BOOLEAN]]
    /\ whitelist \subseteq Telegrams

\* No two items lie at one place, no account has two open chats, and a merge
\* that came to its end has left nothing with the source, however often it
\* failed and was repeated in between ("moved conservatively").
MergeKeepsAll ==
    /\ \A i, j \in Items : item[i] = item[j] => i = j
    /\ \A c, d \in Chats : chat[c].open /\ chat[d].open /\ chat[c].of = chat[d].of => c = d
    /\ merged => /\ \A i \in Items : item[i].at = Target
                 /\ \A c \in Chats : chat[c].of = Target

\* The import of the older version's files, by however many processes, brings
\* back nobody an administrator has removed ("Import the pre-Sprint-1 JSON
\* stores once").
ImportRevivesNobody == removed \cap whitelist = {}
=============================================================================

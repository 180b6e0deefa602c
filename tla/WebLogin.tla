------------------------------ MODULE WebLogin ------------------------------
(***************************************************************************)
(* Who gets in at the web channel: failed logins are counted for an        *)
(* address with a user name, and for the user name alone, each count locks *)
(* for a while; sockets and downloads need a token that works once.        *)
(* One unit of time is what the window of failures is measured in.         *)
(***************************************************************************)
EXTENDS Naturals, Sequences, FiniteSets, World

CONSTANTS Addresses,
          Logins,        \* user names
          Passes,        \* web-socket tickets and download grants
          KeyLimit, UserLimit, \* failures that lock an address, a user name
          Window, Lockout, PassTTL,
          MaxClock       \* bound

ASSUME WebLoginAssumption ==
    /\ {KeyLimit, UserLimit, Window, Lockout, PassTTL, MaxClock} \subseteq Nat \ {0}
    /\ Logins \cap (Addresses \X Logins) = {}

\* _login_attempts is keyed by both.
AttemptKeys == (Addresses \X Logins) \cup Logins

VARIABLES attempts, \* failures in the window and the end of the lockout
          wrong,    \* history: times of the failed checks since the last success
          pass,     \* owner and expiry of each token, None before it is made
          uses,     \* history: how often it was accepted
          now
loginVars == <<attempts, wrong, pass, uses, now>>

NoAttempts == [failures |-> <<>>, lockedUntil |-> 0]
LoginInit ==
    /\ attempts = [k \in AttemptKeys |-> NoAttempts] /\ wrong = [k \in AttemptKeys |-> <<>>]
    /\ pass = [p \in Passes |-> None] /\ uses = [p \in Passes |-> 0] /\ now = 1

----------------------------------------------------------------------------
\* Failures are appended in the order of time: those outside the window come first.
Outdated(t) == t + Window < now
Recent(k) ==
    LET f == attempts[k].failures
        old == CHOOSE n \in 0..Len(f) : \A i \in 1..Len(f) : i <= n <=> Outdated(f[i])
    IN SubSeq(f, old + 1, Len(f))
Limit(k) == IF k \in Logins THEN UserLimit ELSE KeyLimit
IsLocked(k) == attempts[k].lockedUntil > now

\* Both counts let the login through to the password.  The count of the
\* address is looked at again and may lock anew.
Relocked(k) == ~IsLocked(k) /\ Len(Recent(k)) >= Limit(k)
Refuse(a, u) ==
    LET k == <<a, u>> IN
    /\ ~IsLocked(u) /\ Relocked(k)
    /\ attempts' = [attempts EXCEPT ![k] = [failures |-> Recent(k), lockedUntil |-> now + Lockout]]
    /\ UNCHANGED <<wrong, pass, uses, now>>
MayTry(a, u) == ~IsLocked(u) /\ ~IsLocked(<<a, u>>) /\ ~Relocked(<<a, u>>)

\* _record_login_failure.
Failing(k) ==
    LET failures == Append(Recent(k), now) IN
    [failures |-> failures,
     lockedUntil |-> IF Len(failures) >= Limit(k) THEN now + Lockout ELSE attempts[k].lockedUntil]
FailLogin(a, u) ==
    /\ MayTry(a, u)
    /\ attempts' = [attempts EXCEPT ![<<a, u>>] = Failing(<<a, u>>), ![u] = Failing(u)]
    /\ wrong' = [wrong EXCEPT ![<<a, u>>] = Append(@, now), ![u] = Append(@, now)]
    /\ UNCHANGED <<pass, uses, now>>
\* _record_login_success forgets both counts.
Login(a, u) ==
    /\ MayTry(a, u)
    /\ attempts' = [attempts EXCEPT ![<<a, u>>] = NoAttempts, ![u] = NoAttempts]
    /\ wrong' = [wrong EXCEPT ![<<a, u>>] = <<>>, ![u] = <<>>]
    /\ UNCHANGED <<pass, uses, now>>

\* A bug: a lockout that still holds is forgotten with its failures.
StaleTooSoon(k) == Recent(k) = <<>>
Stale(k) == Recent(k) = <<>> /\ ~IsLocked(k)
LivePasses == [p \in Passes |-> IF pass[p] # None /\ pass[p].until <= now THEN None ELSE pass[p]]

\* _session_cleanup_loop.
CleanUpLogins ==
    /\ attempts' = [k \in AttemptKeys |-> IF Stale(k) THEN NoAttempts ELSE [attempts[k] EXCEPT !.failures = Recent(k)]]
    /\ pass' = LivePasses
    /\ UNCHANGED <<wrong, uses, now>>

\* A token is made once, its text is random; making one drops the expired.
MakePass(p, u) ==
    /\ pass[p] = None /\ uses[p] = 0
    /\ pass' = [LivePasses EXCEPT ![p] = [owner |-> u, until |-> now + PassTTL]]
    /\ UNCHANGED <<attempts, wrong, uses, now>>
\* _consume_ws_ticket: whoever shows a ticket, it is gone.
Valid(p, u) == pass[p] # None /\ pass[p].owner = u /\ pass[p].until > now
UseTicket(p, u) ==
    /\ pass[p] # None /\ pass' = [pass EXCEPT ![p] = None]
    /\ uses' = [uses EXCEPT ![p] = IF Valid(p, u) THEN @ + 1 ELSE @]
    /\ UNCHANGED <<attempts, wrong, now>>
\* A grant is kept from others; its file may be gone or have left the workspace.
OpenGrant(p, u) ==
    /\ pass[p] # None /\ Valid(p, u)
    /\ pass' = [LivePasses EXCEPT ![p] = None] /\ uses' = [uses EXCEPT ![p] = @ + 1]
    /\ UNCHANGED <<attempts, wrong, now>>
RefuseGrant(p, u) ==
    /\ pass[p] # None /\ pass' \in {LivePasses} \cup {[LivePasses EXCEPT ![q] = None] : q \in {q \in {p} : Valid(q, u)}}
    /\ UNCHANGED <<attempts, wrong, uses, now>>

PassTime == now < MaxClock /\ now' = now + 1 /\ UNCHANGED <<attempts, wrong, pass, uses>>

LoginNext ==
    \/ \E a \in Addresses, u \in Logins : FailLogin(a, u) \/ Login(a, u) \/ Refuse(a, u)
    \/ \E p \in Passes, u \in Users : MakePass(p, u) \/ UseTicket(p, u) \/ OpenGrant(p, u) \/ RefuseGrant(p, u)
    \/ CleanUpLogins \/ PassTime

----------------------------------------------------------------------------
\* The type of the state.
LoginTypeOK ==
    /\ \A k \in AttemptKeys : attempts[k].lockedUntil \in 0..(MaxClock + Lockout)
                              /\ \A i \in DOMAIN attempts[k].failures : attempts[k].failures[i] \in 1..MaxClock
    /\ \A p \in Passes : pass[p] = None \/ pass[p].owner \in Users
    /\ now \in 1..MaxClock

\* However addresses, successes and the clean-up mix, the failures that reach
\* a limit within the window are followed by the whole lockout before the
\* password is checked again.
LockoutsHold ==
    \A k \in AttemptKeys : \A i \in DOMAIN wrong[k] :
        LET n == Limit(k) IN
        /\ i + n \in DOMAIN wrong[k] /\ wrong[k][i + n - 1] <= wrong[k][i] + Window
        => wrong[k][i + n] >= wrong[k][i + n - 1] + Lockout
LoginIsSound == LockoutsHold /\ \A p \in Passes : uses[p] <= 1
============================================================================

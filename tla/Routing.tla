------------------------------ MODULE Routing ------------------------------
(***************************************************************************)
(* The routes of llm/router.py: how the rules of the configuration become  *)
(* provider instances, how a run gets a router of its own with another     *)
(* sampling profile (with_overrides), and who closes which instance.       *)
(* A provider is what it was built from; its number keeps instances apart. *)
(***************************************************************************)
EXTENDS Naturals, FiniteSets, SequencesExt, World

CONSTANTS Rules,       \* the sequence of routing rules of the configuration
          Conns,       \* connections that can be built, by name
          Profiles,    \* sampling profiles: name -> model it is written for
          Runs,        \* runs of the loop
          Queued       \* llm.queue.enabled: calls go through the queue

\* a route: what it serves and the number of its provider
RouteType == [task : {rule.task : rule \in Range(Rules)}, sub : {rule.sub : rule \in Range(Rules)}, id : Nat]

ASSUME RoutingAssumption ==
    /\ Rules \in Seq(Range(Rules))
    /\ \A i \in DOMAIN Rules : DOMAIN Rules[i] = {"task", "sub", "conn", "model", "sampling"}
    /\ None \notin DOMAIN Profiles \cup Seq(RouteType)
    /\ Queued \in BOOLEAN

VARIABLES next,     \* the next rule from_settings looks at
          built,    \* providers, in the order they were built
          routes,   \* the routes of the base router: rule and provider
          default,  \* its default provider
          override, \* per run under way: the routes of its router, or None
          owned,    \* per run: what a router of its own built
          headless, \* runs under way of the channel "system"
          closed,   \* providers whose client is closed
          adrift    \* history: what headless runs and failed prologues built

routingVars == <<next, built, routes, default, override, owned, headless, closed, adrift>>

RoutingInit ==
    /\ next = 1
    /\ built = <<>>
    /\ routes = <<>>
    /\ default = 0
    /\ override = [r \in Runs |-> None]
    /\ owned = [r \in Runs |-> {}]
    /\ headless = {} /\ closed = {} /\ adrift = {}

----------------------------------------------------------------------------
\* A profile that does not exist is ignored; one written for another model
\* loses its inference settings.
Sampling(name, model) ==
    IF name \notin DOMAIN Profiles THEN [profile |-> None, inference |-> FALSE, derived |-> FALSE]
    ELSE [profile |-> name, inference |-> Profiles[name] \in {None, model}, derived |-> FALSE]

\* Settings of the caller's go on top of the profile of the route: that one is
\* taken as it is written, whatever the model.
Derived(name) ==
    [profile |-> IF name \in DOMAIN Profiles THEN name ELSE None,
     inference |-> name \in DOMAIN Profiles, derived |-> TRUE]

Provider(conn, model, name, sampling) ==
    [conn |-> conn, model |-> model, name |-> name, sampling |-> sampling]

\* Rules with the same connection, model and profile share an instance.
Cached(p) == {i \in DOMAIN built : built[i] = p}

\* one turn of the loop of from_settings
AddRule ==
    /\ next <= Len(Rules)
    /\ LET rule == Rules[next]
           p == Provider(rule.conn, rule.model, rule.sampling, Sampling(rule.sampling, rule.model))
           known == Cached(p)
           id == IF known = {} THEN Len(built) + 1 ELSE CHOOSE i \in known : TRUE
           usable == rule.conn \in Conns /\ rule.model # None
       IN IF usable
          THEN /\ built' = IF known = {} THEN Append(built, p) ELSE built
               /\ routes' = Append(routes, [task |-> rule.task, sub |-> rule.sub, id |-> id])
               /\ default' = IF rule.task = "default" /\ default = 0 THEN id ELSE default
          ELSE UNCHANGED <<built, routes, default>>
    /\ next' = next + 1
    /\ UNCHANGED <<override, owned, headless, closed, adrift>>

\* no default rule: the first route serves; no route at all: the start fails
\* (it stays at this point)
RouterReady ==
    /\ next = Len(Rules) + 1
    /\ routes # <<>>
    /\ default' = IF default = 0 THEN routes[1].id ELSE default
    /\ next' = next + 1
    /\ UNCHANGED <<built, routes, override, owned, headless, closed, adrift>>

Started == next = Len(Rules) + 2

----------------------------------------------------------------------------
AgentTasks == {"default", "vision", "compress", "consolidate"}
Selected(route, all) ==
    IF all THEN route.task \in AgentTasks \/ route.sub # None ELSE route.task = "default"

\* with_overrides on one route: a profile of that name, else the caller's settings
\* (adhoc: thinking or inference are given) over the route's, else no profile at
\* all.  None is no name or one that does not exist; of the label of the new
\* provider only the profile's name is kept.
Rebuilt(route, name, model, adhoc) ==
    LET old == built[route.id]
        m == IF model = None THEN old.model ELSE model
    IN Provider(old.conn, m, IF name = None THEN old.name ELSE name,
                IF name = None /\ adhoc THEN Derived(old.name) ELSE Sampling(name, m))

\* The routes of an override router: a selected route gets a new instance, if its
\* connection still builds; numbers follow the old ones.
OverrideOf(name, model, adhoc, all, lost) ==
    LET fresh(i) == Selected(routes[i], all) /\ built[routes[i].id].conn \notin lost
        before(i) == Cardinality({j \in 1..(i - 1) : fresh(j)})
    IN [r |-> [i \in DOMAIN routes |->
                 IF fresh(i) THEN [routes[i] EXCEPT !.id = Len(built) + before(i) + 1]
                 ELSE routes[i]],
        new |-> FlattenSeq([i \in DOMAIN routes |->
                 IF fresh(i) THEN <<Rebuilt(routes[i], name, model, adhoc)>> ELSE <<>>])]

Starts(r, quiet) ==
    /\ Started
    /\ override[r] = None /\ owned[r] = {}
    /\ headless' = IF quiet THEN headless \cup {r} ELSE headless

\* A run without a depth mode: the router of the process.
Plain(r, quiet) ==
    /\ Starts(r, quiet)
    /\ override' = [override EXCEPT ![r] = routes]
    /\ UNCHANGED <<next, built, routes, default, owned, closed, adrift>>

\* A run with a depth mode (default route only) or an evaluation (all routes);
\* a connection may have been lost since the start.
Override(r, quiet, name, model, adhoc, all, lost) ==
    /\ Starts(r, quiet)
    /\ LET o == OverrideOf(name, model, adhoc, all, lost)
       IN /\ built' = built \o o.new
          /\ override' = [override EXCEPT ![r] = o.r]
          /\ owned' = [owned EXCEPT ![r] =
                         (Len(built) + 1)..(Len(built) + Len(o.new))]
    /\ UNCHANGED <<next, routes, default, closed, adrift>>

\* for_task and for_subagent: the first rule that matches, else the default
Route(rs, field, value, otherwise) ==
    LET hits == {i \in DOMAIN rs : rs[i][field] = value}
    IN IF hits = {} THEN otherwise
       ELSE rs[CHOOSE i \in hits : \A j \in hits : i <= j].id

DefaultOf(r) == Route(override[r], "task", "default", default)

\* A headless run replaces its router by the provider of one task (loop.py:1914);
\* the queue's wrapper of a provider has no aclose.
ClosedBy(r) ==
    IF r \notin headless THEN owned[r]
    ELSE IF Queued THEN {} ELSE {Route(override[r], "task", "headless", DefaultOf(r))}

\* the finally of run(): aclose of what is not the process-wide router itself
CloseOverride(r) ==
    /\ override[r] # None
    /\ closed' = closed \cup ClosedBy(r)
    /\ adrift' = IF r \in headless THEN adrift \cup owned[r] ELSE adrift
    /\ override' = [override EXCEPT ![r] = None]
    /\ headless' = headless \ {r}
    /\ UNCHANGED <<next, built, routes, default, owned>>

\* An error of the prologue after the override: run() has no router yet to close.
PrologueFails(r) ==
    /\ override[r] # None
    /\ adrift' = adrift \cup owned[r]
    /\ override' = [override EXCEPT ![r] = None]
    /\ headless' = headless \ {r}
    /\ UNCHANGED <<next, built, routes, default, owned, closed>>

RoutingNext ==
    \/ AddRule
    \/ RouterReady
    \/ \E r \in Runs, quiet \in BOOLEAN :
         \/ Plain(r, quiet)
         \/ \E name \in DOMAIN Profiles \cup {None},
               model \in {None} \cup {Rules[i].model : i \in DOMAIN Rules},
               adhoc, all \in BOOLEAN, lost \in SUBSET Conns :
              Override(r, quiet, name, model, adhoc, all, lost)
    \/ \E r \in Runs : CloseOverride(r) \/ PrologueFails(r)

----------------------------------------------------------------------------
(* Properties *)

RoutingTypeOK ==
    /\ next \in 1..(Len(Rules) + 2)
    /\ \A i \in DOMAIN routes : routes[i].id \in DOMAIN built
    /\ default \in 0..Len(built)
    /\ \A r \in Runs : owned[r] \subseteq DOMAIN built
    /\ closed \cup adrift \subseteq DOMAIN built /\ headless \subseteq Runs

\* The process-wide routes and the routes of a run under way never lead to a
\* closed client (router.py, S1-01: shared providers "stay owned by the parent").
\* Only with the queue: without it a headless run closes one of them (ClosedBy).
RoutesAreOpen ==
    /\ \A i \in DOMAIN routes : routes[i].id \notin closed
    /\ \A r \in Runs : override[r] # None =>
         /\ \A i \in DOMAIN override[r] : override[r][i].id \notin closed
         /\ DefaultOf(r) \notin closed

\* When no run is under way, every instance built for one is closed: no instance is
\* built without an owner and no owner forgets one, but for the two kinds of runs
\* adrift records.
NoClientLeaks ==
    (\A r \in Runs : override[r] = None) =>
        \A i \in DOMAIN built : i \in closed \cup adrift \/ \E j \in DOMAIN routes : routes[j].id = i

\* Inference settings written for one model reach no other, through rules or
\* overrides by name (_enforce_model_match).  An override with settings of its own
\* takes the profile's along unchecked (Derived).
Meant(p) == p.sampling.inference => Profiles[p.sampling.profile] \in {None, p.model}
NoForeignInference == \A i \in DOMAIN built : built[i].sampling.derived \/ Meant(built[i])

\* The three together: what the runs share stays open, what they do not is
\* closed after them, and a model gets only the settings meant for it.
ClientsAreOwned == RoutesAreOpen /\ NoClientLeaks /\ NoForeignInference
============================================================================
